------------------------------ MODULE TradeTx -------------------------------
(***************************************************************************)
(* One trade from click to outcome.  The web app builds against the RPC     *)
(* itself (web/lib/stellar/client.ts, txFlow.ts); the SDK prepares and      *)
(* submits through the gateway (sdk-ts/src/client.ts, api/src/routes/       *)
(* orders.ts and tx.ts, api/src/services/txSubmit.ts, packages/tx-builders).*)
(* Both simulate, declare what the contract may write, let the wallet sign, *)
(* send, poll, and rebuild once when the ledger moved in between.  The      *)
(* clients trade for the same account.                                      *)
(***************************************************************************)
EXTENDS Naturals, Sequences, FiniteSets

CONSTANTS Clients,           \* subset of {"web", "sdk"}
          BaseFee, FeePerKey, \* BASE_FEE, DEFAULT_FEE_PER_KEY
          MaxIntents, MaxTx, MaxIndex, MaxMoves

ASSUME TradeTxConstants ==
    /\ Clients \subseteq {"web", "sdk"}
    /\ {BaseFee, FeePerKey, MaxIntents, MaxTx, MaxIndex, MaxMoves} \subseteq Nat \ {0}

VARIABLES account,   \* sequence number of the account on the ledger
          index,     \* size of the index entries every open rewrites
          branch,    \* the branch a settlement takes now
          txs,       \* every transaction built
          cli,       \* the trade each client is working on
          told,      \* what the user was told of each intent
          moves

tradeVars == <<account, index, branch, txs, cli, told, moves>>

----------------------------------------------------------------------------
(***************************************************************************)
(* The requests, by what the builders tell the footprint guard: the kind of *)
(* settlement and whether the asset is known.                                *)
(***************************************************************************)
Request(op, asset) == [op |-> op, asset |-> asset]

OpenPosition == Request("open", TRUE)
ClosePosition == Request("close", TRUE)
ClosePositionPartial == Request("close", TRUE)
OpenPositionCross == Request("open", TRUE)
ClosePositionCross == Request("close", FALSE)
AddCollateral == Request("other", FALSE)
RemoveCollateral == Request("other", FALSE)
PlaceLimitOrder == Request("other", FALSE)
SetStopLoss == Request("other", FALSE)
SetTakeProfit == Request("other", FALSE)
CancelOrder == Request("other", FALSE)
DepositCrossMargin == Request("other", FALSE)
WithdrawCrossMargin == Request("other", FALSE)
PlaceStopLimitOrder == Request("other", FALSE)
PlaceTrailingStop == Request("other", FALSE)

WebRequests ==
    {OpenPosition, ClosePosition, ClosePositionPartial, OpenPositionCross, ClosePositionCross,
     AddCollateral, RemoveCollateral, PlaceLimitOrder, SetStopLoss, SetTakeProfit, CancelOrder,
     DepositCrossMargin, WithdrawCrossMargin, PlaceStopLimitOrder, PlaceTrailingStop}

\* dispatch of /v1/orders/prepare: a close does not name its asset
Dispatch == {OpenPositionCross, ClosePositionCross, PlaceLimitOrder}

RequestsOf(c) == IF c = "web" THEN WebRequests ELSE Dispatch

----------------------------------------------------------------------------
(***************************************************************************)
(* Building.                                                               *)
(***************************************************************************)
Buckets == {"buffer", "lp", "fees", "reserve"}
Debt == {"shortfall", "owed", "baddebt"}

\* What the contracts write, by the branch their settlement takes
Writes(op, b) ==
    IF op = "other" THEN {}
    ELSE CASE b = "calm"  -> {"lp", "fees"}
           [] b = "short" -> Buckets \cup (IF op = "close" THEN Debt ELSE {})
           [] b = "adl"   -> {"lp", "price"} \cup (IF op = "close" THEN {"adl"} ELSE {})
Branches == {"calm", "short", "adl"}

OpenKeys(r) == Buckets \cup (IF r.asset THEN {"price"} ELSE {})
CloseKeys(r) == Buckets \cup Debt \cup (IF r.asset THEN {"price", "adl"} ELSE {})
ConditionalWriteKeys(r) ==
    CASE r.op = "open" -> OpenKeys(r) [] r.op = "close" -> CloseKeys(r) [] OTHER -> {}

\* A resource fee that the simulation asks for: a part per key written
SimulatedFee(keys) == 4 + Cardinality(keys)

\* The inclusion part of a fee; the builder adds the resource fee to it again
InclusionPart(t) == t.fee - t.res

Priced(t, res) == [t EXCEPT !.res = res, !.fee = InclusionPart(t) + res]

\* The next sequence number of the account as it was read
Assemble(r, w, ix) ==
    [req |-> r, keys |-> w, size |-> ix, res |-> SimulatedFee(w), fee |-> BaseFee + SimulatedFee(w),
     seq |-> account + 1, intent |-> 0, place |-> "held", result |-> "none"]

PadFootprint(t, keys) ==
    LET added == keys \ t.keys
    IN  IF added = {} THEN t
        ELSE [Priced(t, t.res + Cardinality(added) * FeePerKey) EXCEPT !.keys = @ \cup added]

\* A quarter more, rounded up
Widened(n) == (5 * n + 3) \div 4
WithResourceHeadroom(t) == [Priced(t, Widened(t.res)) EXCEPT !.size = Widened(t.size)]

BuildTransaction(r) ==
    WithResourceHeadroom(PadFootprint(Assemble(r, Writes(r.op, branch), index), ConditionalWriteKeys(r)))

----------------------------------------------------------------------------
(***************************************************************************)
(* Failures.                                                               *)
(***************************************************************************)
NoFacts == [send |-> "none", code |-> "none", host |-> "none", contract |-> FALSE]

\* What the diagnostics of a transaction that landed and failed decode to
AppliedFacts(result) ==
    CASE result = "revert" -> [NoFacts EXCEPT !.contract = TRUE, !.code = "txFailed"]
      [] result = "trap"   -> [NoFacts EXCEPT !.host = "storage", !.code = "txFailed"]
      [] result = "budget" -> [NoFacts EXCEPT !.host = "budget", !.code = "txFailed"]

ClassifyTxFailure(f) ==
    IF f.contract THEN "none"
    ELSE IF f.send = "TRY_AGAIN_LATER" THEN "try_again_later"
    ELSE IF f.code = "txSorobanInvalid" \/ f.host \in {"storage", "budget"} THEN "stale_footprint"
    ELSE "none"

\* The SDK sees the gateway's answer: a rejection at the door is a 400 and is not classified
ClassifySubmitFailure(f) ==
    IF f.contract THEN "none"
    ELSE IF f.send = "TRY_AGAIN_LATER" THEN "try_again_later"
    ELSE IF f.send = "none" /\ f.host \in {"storage", "budget"} THEN "stale_footprint"
    ELSE "none"

Classify(c, f) == IF c = "web" THEN ClassifyTxFailure(f) ELSE ClassifySubmitFailure(f)

----------------------------------------------------------------------------
IdleClient == [pc |-> "idle", req |-> AddCollateral, intent |-> 0, attempt |-> 0, tx |-> 0]

TradeInit ==
    /\ account = 0 /\ index = 1 /\ branch = "calm" /\ moves = 0
    /\ txs = <<>> /\ told = <<>> /\ cli = [c \in Clients |-> IdleClient]

ledgerVars == <<account, index, branch, moves>>

Tell(c, outcome) ==
    /\ told' = [told EXCEPT ![cli[c].intent] = outcome]
    /\ cli' = [cli EXCEPT ![c] = IdleClient]

CanRetry(c, f) == Classify(c, f) # "none" /\ cli[c].attempt < 1

\* The catch of runTradeTx and of executeTrade: one rebuild, or the failure is shown
Fail(c, f) ==
    IF CanRetry(c, f)
    THEN cli' = [cli EXCEPT ![c].pc = "build", ![c].attempt = @ + 1] /\ UNCHANGED told
    ELSE Tell(c, "failed")

Click(c, r) ==
    /\ cli[c].pc = "idle" /\ Len(told) < MaxIntents
    /\ told' = Append(told, "none")
    /\ cli' = [cli EXCEPT ![c] = [IdleClient EXCEPT !.pc = "build", !.req = r, !.intent = Len(told) + 1]]
    /\ UNCHANGED <<ledgerVars, txs>>

Built(c) ==
    /\ cli[c].pc = "build" /\ Len(txs) < MaxTx
    /\ txs' = Append(txs, [BuildTransaction(cli[c].req) EXCEPT !.intent = cli[c].intent])
    /\ cli' = [cli EXCEPT ![c].pc = "sign", ![c].tx = Len(txs) + 1]
    /\ UNCHANGED <<ledgerVars, told>>

\* No price, no answer from the RPC, or a simulation the contract refuses: nothing was built
BuildFailed(c) == cli[c].pc = "build" /\ Tell(c, "failed") /\ UNCHANGED <<ledgerVars, txs>>

\* signWithWallet: a refusal, or a wallet that now holds another account, ends the trade
Sign(c) == cli[c].pc = "sign" /\ cli' = [cli EXCEPT ![c].pc = "send"] /\ UNCHANGED <<ledgerVars, txs, told>>
SignRefused(c) == cli[c].pc = "sign" /\ Tell(c, "failed") /\ UNCHANGED <<ledgerVars, txs>>

InPool == {i \in DOMAIN txs : txs[i].place = "pool"}
Acceptable(t) == t.seq = account + 1 /\ InPool = {}

\* sendTransaction accepts; its answer reaches the client or not
Send(c) ==
    LET i == cli[c].tx IN
    /\ cli[c].pc = "send" /\ Acceptable(txs[i]) /\ txs' = [txs EXCEPT ![i].place = "pool"]
    /\ \/ cli' = [cli EXCEPT ![c].pc = "poll"] /\ UNCHANGED told
       \/ Tell(c, "unknown")
    /\ UNCHANGED ledgerVars

\* TRY_AGAIN_LATER: a full queue, or the account already has a transaction in it
SendLater(c) ==
    /\ cli[c].pc = "send" /\ txs[cli[c].tx].seq = account + 1
    /\ Fail(c, [NoFacts EXCEPT !.send = "TRY_AGAIN_LATER"])
    /\ UNCHANGED <<ledgerVars, txs>>

\* ERROR: the sequence number is used, or the declared resources are refused
SendError(c) ==
    /\ cli[c].pc = "send"
    /\ \E code \in IF txs[cli[c].tx].seq # account + 1 THEN {"txBadSeq"} ELSE {"txSorobanInvalid"} :
         Fail(c, [NoFacts EXCEPT !.send = "ERROR", !.code = code])
    /\ UNCHANGED <<ledgerVars, txs>>

\* getTransaction
PollFinal(c) ==
    LET t == txs[cli[c].tx] IN
    /\ cli[c].pc = "poll" /\ t.place = "landed"
    /\ IF t.result = "ok" THEN Tell(c, "success") ELSE Fail(c, AppliedFacts(t.result))
    /\ UNCHANGED <<ledgerVars, txs>>

\* The polling window ends with NOT_FOUND
StillPendingRetries(c) == Fail(c, [NoFacts EXCEPT !.code = "txSorobanInvalid"])
StillPending(c) == Tell(c, "pending")

PollTimeout(c) ==
    /\ cli[c].pc = "poll" /\ txs[cli[c].tx].place # "landed" /\ StillPending(c)
    /\ UNCHANGED <<ledgerVars, txs>>

\* getTransaction throws, or the gateway answers 502 or is gone: the outcome is not known
PollError(c) == cli[c].pc = "poll" /\ Tell(c, "unknown") /\ UNCHANGED <<ledgerVars, txs>>

----------------------------------------------------------------------------
(***************************************************************************)
(* The network.                                                            *)
(***************************************************************************)
Grown(t) == IF t.req.op = "open" /\ index < MaxIndex THEN index + 1 ELSE index

Outcomes(t) ==
    IF ~ (Writes(t.req.op, branch) \subseteq t.keys) THEN {"trap"}
    ELSE IF t.req.op # "other" /\ index > t.size THEN {"budget"}
    ELSE {"ok", "revert"}

Apply(i) ==
    /\ txs[i].place = "pool"
    /\ \E result \in Outcomes(txs[i]) :
         /\ txs' = [txs EXCEPT ![i].place = "landed", ![i].result = result]
         /\ index' = IF result = "ok" THEN Grown(txs[i]) ELSE index
    /\ account' = account + 1 /\ UNCHANGED <<branch, moves, cli, told>>

\* The queue sheds it, or its 300 seconds pass
Drop(i) ==
    /\ txs[i].place = "pool" /\ txs' = [txs EXCEPT ![i].place = "dropped"]
    /\ UNCHANGED <<ledgerVars, cli, told>>

\* Other traders: the index grows, the branch of a settlement flips
Others ==
    /\ moves < MaxMoves /\ moves' = moves + 1 /\ branch' \in Branches
    /\ index' \in {index, MaxIndex}
    /\ UNCHANGED <<account, txs, cli, told>>

TradeNext ==
    \/ \E c \in Clients : \/ \E r \in RequestsOf(c) : Click(c, r)
                          \/ Built(c) \/ BuildFailed(c) \/ Sign(c) \/ SignRefused(c)
                          \/ Send(c) \/ SendLater(c) \/ SendError(c)
                          \/ PollFinal(c) \/ PollTimeout(c) \/ PollError(c)
    \/ \E i \in DOMAIN txs : Apply(i) \/ Drop(i)
    \/ Others

TradeSpec == TradeInit /\ [][TradeNext]_tradeVars

----------------------------------------------------------------------------
TradeTypeOK ==
    /\ account \in 0..Len(txs) /\ index \in 1..MaxIndex
    /\ \A c \in Clients : cli[c].attempt \in 0..1 /\ cli[c].intent \in 0..Len(told) /\ cli[c].tx \in 0..Len(txs)

TxOf(n) == {i \in DOMAIN txs : txs[i].intent = n}

\* A click never trades twice: whatever is rebuilt and sent again, one transaction of an intent
\* succeeds at most
OneTradePerIntent ==
    \A n \in DOMAIN told : Cardinality({i \in TxOf(n) : txs[i].result = "ok"}) <= 1

\* What the user reads is so: a trade shown as done is on the ledger, and one shown as failed
\* did not happen and cannot happen any more, because nothing of it is left in the queue
ToldTruthfully ==
    \A n \in DOMAIN told :
        /\ told[n] = "success" => \E i \in TxOf(n) : txs[i].result = "ok"
        /\ told[n] = "failed" => \A i \in TxOf(n) : txs[i].result # "ok" /\ txs[i].place # "pool"

\* A trade whose builder names its asset is never trapped for a key outside its footprint, whatever
\* branch flips between simulation and application
CoveredNeverTraps == \A i \in DOMAIN txs : txs[i].req.asset => txs[i].result # "trap"

\* However it was padded and widened, a transaction offers the base fee for inclusion and its
\* resource fee once
PaysInclusionOnce == \A i \in DOMAIN txs : txs[i].fee = BaseFee + txs[i].res

\* A click trades at most once, is reported as it ended, and pays and covers what it should (the write
\* paths of lib/stellar/market.ts and packages/sdk)
TradeHonest == TradeTypeOK /\ OneTradePerIntent /\ ToldTruthfully /\ CoveredNeverTraps /\ PaysInclusionOnce
=============================================================================
