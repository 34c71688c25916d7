------------------------------ MODULE KeeperTx ------------------------------
(***************************************************************************)
(* One contract write of the keeper (scripts/keeper/src/stellar.ts): the   *)
(* retry loop around build, simulate, send and confirm, the rotation of    *)
(* RPC endpoints, and the re-check that follows an indeterminate outcome.  *)
(* A TTL bump, which is sent without waiting, shares the account.          *)
(*                                                                         *)
(* The network is external: a sent transaction waits in the pool until it  *)
(* lands or expires, an account has at most one transaction in the pool,   *)
(* and a call that fails in transport may still have been received.        *)
(***************************************************************************)
EXTENDS Integers, Sequences, FiniteSets

CONSTANTS Endpoints,       \* number of RPC urls
          MaxRetries,      \* MAX_RETRIES
          SendAttempts,    \* sends per attempt on TRY_AGAIN_LATER
          PollAttempts,    \* CONFIRM_POLL_ATTEMPTS
          BaseFee, MaxFee, \* inclusion fee and its cap
          MaxTxFaults      \* bound on failed calls

ASSUME TxConstants == /\ {Endpoints, MaxRetries, SendAttempts, PollAttempts, BaseFee} \subseteq Nat \ {0}
                      /\ MaxFee \in Nat /\ MaxFee >= BaseFee /\ MaxTxFaults \in Nat

VARIABLES seqNo,      \* sequence number of the account on chain
          txs,        \* transactions of the account, each [seq, st, for, fee]
          goal,       \* the target on chain: due, grace (touched, not yet due again) or gone
          hits,       \* how often a write took effect on the target
          w,          \* the write in progress
          server,     \* serverIndex
          bumped,     \* TTL bumps reported as submitted, and those really in the pool
          txFaults

txVars == <<seqNo, txs, goal, hits, w, server, bumped, txFaults>>

Kinds == {"liquidate", "order", "plain"}
Rechecked(kind) == kind # "plain"     \* options.recheck is given
Escalates(kind) == kind = "liquidate"

Resting == [pc |-> "rest", kind |-> "plain", attempt |-> 1, sends |-> 0, polls |-> 0,
            tx |-> 0, seq |-> 0, doubt |-> FALSE, tried |-> 1, fee |-> BaseFee, res |-> "none"]

TxInit == /\ seqNo = 0 /\ txs = <<>> /\ goal = "due" /\ hits = 0
          /\ w = Resting /\ server = 0 /\ bumped = [said |-> 0, real |-> 0] /\ txFaults = 0

Pooled == {i \in DOMAIN txs : txs[i].st = "pool"}

(***************************************************************************)
(* The chain.                                                              *)
(***************************************************************************)
Land(i) ==
    /\ i \in Pooled /\ txs[i].seq = seqNo + 1
    /\ seqNo' = seqNo + 1
    /\ LET works == txs[i].for # "bump" /\ goal = "due"
       IN  /\ txs' = [txs EXCEPT ![i].st = IF txs[i].for = "bump" \/ works THEN "ok" ELSE "failed"]
           /\ hits' = IF works THEN hits + 1 ELSE hits
           /\ \/ goal' = IF works THEN "gone" ELSE goal
              \/ works /\ txs[i].for = "liquidate" /\ goal' = "grace"
    /\ UNCHANGED <<w, server, bumped, txFaults>>

Expire(i) ==
    /\ i \in Pooled
    /\ txs' = [txs EXCEPT ![i].st = "expired"]
    /\ UNCHANGED <<seqNo, goal, hits, w, server, bumped, txFaults>>

\* Another keeper or the trader gets there first; a grace period ends
OtherActs ==
    /\ \/ goal \in {"due", "grace"} /\ goal' = "gone"
       \/ goal = "grace" /\ goal' = "due"
    /\ txFaults < MaxTxFaults /\ txFaults' = txFaults + 1
    /\ UNCHANGED <<seqNo, txs, hits, w, server, bumped>>

----------------------------------------------------------------------------
(***************************************************************************)
(* The write.                                                              *)
(***************************************************************************)
StartWrite(kind) ==
    /\ w.pc = "rest"
    /\ w' = [Resting EXCEPT !.pc = "account", !.kind = kind]
    /\ UNCHANGED <<seqNo, txs, goal, hits, server, bumped, txFaults>>

Finish(res) == w' = [w EXCEPT !.pc = "rest", !.res = res]

\* The fee of an escalating write doubles with every attempt up to the cap
InclusionFee == IF ~Escalates(w.kind) THEN w.fee ELSE IF 2 * w.fee < MaxFee THEN 2 * w.fee ELSE MaxFee

\* The catch block of the retry loop for an error that is not indeterminate
NextAttempt ==
    IF w.attempt < MaxRetries
    THEN w' = [w EXCEPT !.pc = "account", !.attempt = @ + 1, !.sends = 0, !.polls = 0, !.tried = 1,
                        !.fee = InclusionFee]
    ELSE Finish("failed")

\* withRpc: a transient failure rotates to the next endpoint, each tried once per call
RpcFails ==
    /\ w.pc \in {"account", "sim", "send", "poll"} /\ txFaults < MaxTxFaults
    /\ txFaults' = txFaults + 1
    /\ \/ UNCHANGED txs
       \/ /\ w.pc = "send" /\ Pooled = {} /\ w.seq = seqNo + 1   \* received, the answer was lost
          /\ txs' = Append(txs, [seq |-> w.seq, st |-> "pool", for |-> w.kind, fee |-> w.fee])
    /\ IF Endpoints = 1 THEN server' = server /\ NextAttempt
       ELSE /\ server' = (server + 1) % Endpoints
            /\ IF w.tried < Endpoints THEN w' = [w EXCEPT !.tried = @ + 1] ELSE NextAttempt
    /\ UNCHANGED <<seqNo, goal, hits, bumped>>

GetAccount ==
    /\ w.pc = "account"
    /\ w' = [w EXCEPT !.pc = "sim", !.seq = seqNo + 1, !.tried = 1]
    /\ UNCHANGED <<seqNo, txs, goal, hits, server, bumped, txFaults>>

\* A contract error is a business rejection (#20, #61, #83 ...): returned, never retried
IsNonRetryable == goal # "due"

Simulate ==
    /\ w.pc = "sim"
    /\ IF IsNonRetryable THEN Finish("failed")
       ELSE w' = [w EXCEPT !.pc = "send", !.tried = 1]
    /\ UNCHANGED <<seqNo, txs, goal, hits, server, bumped, txFaults>>

\* TRY_AGAIN_LATER is answered a bounded number of times per attempt
SendsCounted == w.sends + 1

\* sendTransaction: PENDING, TRY_AGAIN_LATER (the account already has one in the pool), or
\* an error or a duplicate, which throws
Send ==
    /\ w.pc = "send"
    /\ LET mine == {i \in Pooled : txs[i].seq = w.seq /\ txs[i].for = w.kind /\ i > w.tx}
       IN  \/ /\ Pooled = {} /\ w.seq = seqNo + 1
              /\ txs' = Append(txs, [seq |-> w.seq, st |-> "pool", for |-> w.kind, fee |-> w.fee])
              /\ w' = [w EXCEPT !.pc = "poll", !.tx = Len(txs) + 1, !.tried = 1]
           \/ /\ Pooled # {} /\ mine = {} /\ w.seq = seqNo + 1
              /\ UNCHANGED txs
              /\ IF SendsCounted < SendAttempts
                 THEN w' = [w EXCEPT !.pc = "account", !.sends = SendsCounted, !.tried = 1]
                 ELSE NextAttempt
           \/ /\ w.seq # seqNo + 1 \/ mine # {}
              /\ UNCHANGED txs /\ NextAttempt
    /\ UNCHANGED <<seqNo, goal, hits, server, bumped, txFaults>>

Confirmed(st) == st = "ok"

\* getTransaction until the polling window closes
PollTransaction ==
    /\ w.pc = "poll"
    /\ LET st == txs[w.tx].st
       IN  \/ Confirmed(st) /\ Finish("success")
           \/ st = "failed" /\ ~Confirmed(st) /\ NextAttempt
           \/ /\ st \in {"pool", "expired"}
              /\ IF w.polls < PollAttempts THEN w' = [w EXCEPT !.polls = @ + 1, !.tried = 1]
                 ELSE w' = [w EXCEPT !.pc = "recheck", !.doubt = TRUE]
    /\ UNCHANGED <<seqNo, txs, goal, hits, server, bumped, txFaults>>

StillNeededAlways == TRUE

\* The re-check of a write that has one, as it reads the chain; an unreadable chain counts as no
StillNeeded == Rechecked(w.kind) /\ goal # "gone"

Recheck ==
    /\ w.pc = "recheck"
    /\ IF StillNeeded /\ w.attempt < MaxRetries THEN NextAttempt ELSE Finish("indeterminate")
    /\ UNCHANGED <<seqNo, txs, goal, hits, server, bumped, txFaults>>

RecheckFails ==
    /\ w.pc = "recheck" /\ txFaults < MaxTxFaults
    /\ txFaults' = txFaults + 1
    /\ Finish("indeterminate")
    /\ UNCHANGED <<seqNo, txs, goal, hits, server, bumped>>

\* bumpContractTtl: sent once and not confirmed; only an account with nothing in the pool is served
BumpIsPooled == Pooled = {}

\* maybeBumpTtls: anything but ERROR counts as submitted, TRY_AGAIN_LATER too
MaybeBumpTtls ==
    /\ w.pc = "rest" /\ w.res # "none" /\ bumped.said < 2
    /\ IF BumpIsPooled
       THEN /\ txs' = Append(txs, [seq |-> seqNo + 1, st |-> "pool", for |-> "bump", fee |-> BaseFee])
            /\ bumped' = [said |-> bumped.said + 1, real |-> bumped.real + 1]
       ELSE UNCHANGED txs /\ bumped' = [bumped EXCEPT !.said = @ + 1]
    /\ UNCHANGED <<seqNo, goal, hits, w, server, txFaults>>

WriteStep == RpcFails \/ GetAccount \/ Simulate \/ Send \/ PollTransaction \/ Recheck \/ RecheckFails
ChainMoves == OtherActs \/ \E i \in DOMAIN txs : Land(i) \/ Expire(i)

\* A write, TTL bumps, and at most one more write behind them
TxNext == \/ WriteStep \/ ChainMoves \/ MaybeBumpTtls
          \/ \E k \in Kinds : /\ w.res # "none" => bumped.said > 0 /\ Len(txs) < 2
                              /\ StartWrite(k)

TxFairness == WF_txVars(WriteStep)

----------------------------------------------------------------------------
TxTypeOK ==
    /\ seqNo \in Nat /\ hits \in Nat /\ server \in 0..(Endpoints - 1)
    /\ goal \in {"due", "grace", "gone"}
    /\ \A i \in DOMAIN txs : txs[i].st \in {"pool", "ok", "failed", "expired"} /\ txs[i].fee \in BaseFee..MaxFee
    /\ w.pc \in {"rest", "account", "sim", "send", "poll", "recheck"}
    /\ w.attempt \in 1..MaxRetries /\ w.sends \in 0..(SendAttempts - 1) /\ w.polls \in 0..PollAttempts
    /\ w.tried \in 1..Endpoints /\ w.fee \in BaseFee..MaxFee

\* A write reported as successful took effect on its target: its transaction landed and was
\* accepted (invokeContractWrite returns success only for a confirmed transaction)
SuccessIsReal == w.res = "success" => w.tx \in DOMAIN txs /\ txs[w.tx].st = "ok" /\ hits > 0

\* K-6: once a transaction of the write is in doubt, a second one is sent only for a target the
\* chain still shows, never for a call that has no re-check
NoBlindRebuild ==
    [][w.doubt /\ w.pc # "rest" /\ Len(txs') > Len(txs) => Rechecked(w.kind)]_txVars

\* A write tells its caller the truth and never acts twice on a guess (stellar.ts
\* invokeContractWrite: retries, endpoint rotation, fee bumps and polling together)
WritesHonest == [](TxTypeOK /\ SuccessIsReal) /\ NoBlindRebuild

\* Every write returns, whatever the endpoints do (bounded retries, sends and polls)
WriteReturns == (w.pc # "rest") ~> (w.pc = "rest")
=============================================================================
