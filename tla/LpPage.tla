------------------------------- MODULE LpPage -------------------------------
(***************************************************************************)
(* Providing liquidity from the browser: the protocol vault's page          *)
(* (web/app/vault/page.tsx over lib/stellar/vault.ts) and the dialog of a   *)
(* follower vault (DepositWithdrawModal.tsx over vaultFactory.ts).  A        *)
(* deposit or withdrawal is quoted by simulation, bounded below the quote,  *)
(* signed and submitted, while the price moves; a protocol withdrawal is    *)
(* two transactions.  Balances are read beside it, unguarded on the page,   *)
(* cancelled by the dialog when the wallet or the opening changes.          *)
(***************************************************************************)
EXTENDS Integers, FiniteSets

CONSTANTS LpScenes,          \* "pool", "follower"
          Wallets,
          Reads,             \* balance reads that may be in flight together
          Prices,            \* prices of a share
          DepositUsdc, WithdrawShares,
          SlippageBps, BpsUnit,
          MaxFills, MaxSwitches

ASSUME LpConstants ==
    /\ LpScenes \subseteq {"pool", "follower"} /\ Prices \subseteq Nat \ {0}
    /\ {DepositUsdc, WithdrawShares, BpsUnit, MaxFills} \subseteq Nat \ {0} /\ MaxSwitches \in Nat
    /\ SlippageBps \in 0..BpsUnit /\ "none" \notin Wallets

Ops == {"deposit", "withdraw"}
NotRead == -1                \* null: a read that failed or has not answered

VARIABLES lscene,
          price, shares, allowance,     \* ledger: price of a share; each wallet's shares and NOE allowance
          wallet,                       \* connected wallet or "none"
          open,                         \* the dialog is open; the page always is
          balance,                        \* the balance on display
          isLoading,
          read,                         \* reads in flight
          flow,                         \* the deposit and the withdrawal under way
          late,                         \* submitted, answer given up on, may still land
          fills,                        \* history: what landed
          crossed, switches             \* history: reads overlapped, the wallet changed under a dialog or an operation, shares moved unseen

lpVars == <<lscene, price, shares, allowance, wallet, open, balance, isLoading, read, flow, late, fills, crossed, switches>>

NoRead == [pc |-> "idle", of |-> "none", shares |-> NotRead]
NoFlow == [pc |-> "idle", of |-> "none", quote |-> NotRead]
Blank == [of |-> "none", shares |-> NotRead]

LpInit ==
    /\ lscene \in LpScenes
    /\ price \in Prices /\ shares = [w \in Wallets |-> WithdrawShares] /\ allowance = [w \in Wallets |-> 0]
    /\ wallet = "none" /\ open = (lscene = "pool") /\ balance = Blank /\ isLoading = (lscene = "pool")
    /\ \E r \in Reads : read = [x \in Reads |-> IF lscene = "pool" /\ x = r THEN [NoRead EXCEPT !.pc = "ask"] ELSE NoRead]
    /\ flow = [o \in Ops |-> NoFlow] /\ late = {}
    /\ fills = {} /\ crossed = FALSE /\ switches = 0

----------------------------------------------------------------------------
(***************************************************************************)
(* Reading balances.                                                       *)
(***************************************************************************)
InFlight == {r \in Reads : read[r].pc # "idle"}

WasBusy == (lscene = "follower" /\ balance # Blank) \/ \E o \in Ops : flow[o].pc # "idle"

\* fetchPoolData, and the effect of the dialog, which cancels the read before it
StartRead(w, kept) ==
    \E r \in {x \in Reads : read[x].pc = "idle"} :
        /\ read' = [x \in Reads |-> IF x = r THEN [NoRead EXCEPT !.pc = "ask", !.of = w]
                                    ELSE IF x \in kept THEN read[x] ELSE NoRead]
        /\ crossed' = (crossed \/ kept # {} \/ (w # wallet /\ WasBusy))

StillReading == IF lscene = "pool" THEN InFlight ELSE {}

\* The ledger is read, or the read fails; the page has no NOE without a wallet
GetUserVaultShares(w, ok) == IF ok THEN shares[w] ELSE NotRead
GetNoeBalance(w, ok) == IF w = "none" THEN 0 ELSE IF ok THEN shares[w] ELSE NotRead
AskLedger(r, ok) ==
    /\ read[r].pc = "ask"
    /\ read' = [read EXCEPT ![r].pc = "answer",
                            ![r].shares = IF lscene = "pool" THEN GetNoeBalance(read[r].of, ok) ELSE GetUserVaultShares(read[r].of, ok)]
    /\ UNCHANGED <<lscene, price, shares, allowance, wallet, open, balance, isLoading, flow, late, fills, crossed, switches>>

\* The page shows a failed read as unknown; the dialog keeps what it showed
Display(a) == IF lscene = "follower" /\ a.shares = NotRead THEN balance ELSE [of |-> a.of, shares |-> a.shares]

AnswerRead(r) ==
    /\ read[r].pc = "answer"
    /\ balance' = Display(read[r]) /\ isLoading' = FALSE /\ read' = [read EXCEPT ![r] = NoRead]
    /\ UNCHANGED <<lscene, price, shares, allowance, wallet, open, flow, late, fills, crossed, switches>>

----------------------------------------------------------------------------
(***************************************************************************)
(* The wallet and the dialog.                                              *)
(***************************************************************************)
\* Another wallet, or none: the page reads again, for a wallet behind its skeleton
Skeleton(w) == w # "none" \/ isLoading
SwitchWallet(w) ==
    /\ w # wallet /\ switches < MaxSwitches
    /\ wallet' = w /\ switches' = switches + 1
    /\ IF lscene = "pool"
       THEN StartRead(w, StillReading) /\ isLoading' = Skeleton(w) /\ balance' = balance
       ELSE /\ IF open /\ w # "none" THEN StartRead(w, {}) ELSE read' = [r \in Reads |-> NoRead] /\ crossed' = crossed
            /\ balance' = (IF w = "none" THEN Blank ELSE balance) /\ isLoading' = isLoading
    /\ UNCHANGED <<lscene, price, shares, allowance, open, flow, late, fills>>

OpenModal ==
    /\ lscene = "follower" /\ ~open /\ open' = TRUE
    /\ IF wallet = "none" THEN UNCHANGED <<read, crossed>> ELSE StartRead(wallet, {})
    /\ UNCHANGED <<lscene, price, shares, allowance, wallet, balance, isLoading, flow, late, fills, switches>>

\* Closing forgets the balances and cancels the reads
Closed == /\ open' = FALSE /\ balance' = Blank /\ read' = [r \in Reads |-> NoRead]

CloseModal ==
    /\ lscene = "follower" /\ open /\ Closed
    /\ UNCHANGED <<lscene, price, shares, allowance, wallet, isLoading, flow, late, fills, crossed, switches>>

----------------------------------------------------------------------------
(***************************************************************************)
(* Deposits and withdrawals.                                               *)
(***************************************************************************)
Quoted(o) == IF o = "deposit" THEN DepositUsdc \div price ELSE WithdrawShares * price

MinOut(quoted) == (quoted * (BpsUnit - SlippageBps)) \div BpsUnit

\* The buttons: a withdrawal is gated on the balance on display, on the page also when it is unknown
ExceedsBalance(o) ==
    /\ o = "withdraw"
    /\ IF lscene = "pool" THEN WithdrawShares > (IF balance.shares = NotRead THEN 0 ELSE balance.shares)
       ELSE balance.shares # NotRead /\ WithdrawShares > balance.shares

\* The page has a busy flag for each operation, the dialog one
InProgress(o) == flow[o].pc # "idle" \/ (lscene = "follower" /\ \E x \in Ops : flow[x].pc # "idle")

HandleClick(o) ==
    /\ wallet # "none" /\ open /\ ~isLoading /\ ~InProgress(o) /\ ~ExceedsBalance(o)
    /\ Cardinality(fills) + Cardinality(late) + Cardinality({x \in Ops : flow[x].pc # "idle"}) < MaxFills
    /\ flow' = [flow EXCEPT ![o] = [NoFlow EXCEPT !.of = wallet, !.pc = IF lscene = "pool" /\ o = "withdraw" THEN "approve" ELSE "quote"]]
    /\ UNCHANGED <<lscene, price, shares, allowance, wallet, open, balance, isLoading, read, late, fills, crossed, switches>>

\* The first signature: the vault may pull the NOE
ApproveNoeForWithdraw ==
    /\ flow["withdraw"].pc = "approve"
    /\ allowance' = [allowance EXCEPT ![flow["withdraw"].of] = WithdrawShares]
    /\ flow' = [flow EXCEPT !["withdraw"].pc = "quote"]
    /\ UNCHANGED <<lscene, price, shares, wallet, open, balance, isLoading, read, late, fills, crossed, switches>>

\* What the contracts ask of a withdrawal
Covered(o, w) == o = "deposit" \/ (shares[w] >= WithdrawShares /\ (lscene = "pool" => allowance[w] >= WithdrawShares))

\* simulateCallResult with no bound
Quote(o) ==
    /\ flow[o].pc = "quote" /\ Covered(o, flow[o].of)
    /\ flow' = [flow EXCEPT ![o].pc = "submit", ![o].quote = Quoted(o)]
    /\ UNCHANGED <<lscene, price, shares, allowance, wallet, open, balance, isLoading, read, late, fills, crossed, switches>>

\* The bound the signed call carries
Unbounded(quote) == 0
Bound(quote) == MinOut(quote)

Fills(o, w, quote) == Covered(o, w) /\ Quoted(o) >= Bound(quote)

Fill(o, w, quote) ==
    /\ shares' = [shares EXCEPT ![w] = IF o = "deposit" THEN @ + Quoted(o) ELSE @ - WithdrawShares]
    /\ allowance' = IF o = "withdraw" /\ lscene = "pool" THEN [allowance EXCEPT ![w] = @ - WithdrawShares] ELSE allowance
    /\ fills' = fills \cup {[n |-> Cardinality(fills), op |-> o, quoted |-> quote, got |-> Quoted(o)]}

\* The transaction lands
Land(o) ==
    /\ flow[o].pc = "submit" /\ Fills(o, flow[o].of, flow[o].quote) /\ Fill(o, flow[o].of, flow[o].quote)
    /\ flow' = [flow EXCEPT ![o].pc = "landed"]
    /\ UNCHANGED <<lscene, price, wallet, open, balance, isLoading, read, late, crossed, switches>>

\* The answer: the page reads again, the dialog closes
AfterSuccess(w) ==
    IF lscene = "follower" THEN Closed /\ crossed' = crossed
    ELSE /\ StartRead(w, StillReading) /\ UNCHANGED <<open, balance>>

Succeed(o) ==
    /\ flow[o].pc = "landed" /\ flow' = [flow EXCEPT ![o] = NoFlow]
    /\ AfterSuccess(flow[o].of)
    /\ UNCHANGED <<lscene, price, shares, allowance, wallet, isLoading, late, fills, switches>>

FlowFails(o) ==
    /\ flow[o].pc \in {"approve", "quote", "submit"}
    /\ flow' = [flow EXCEPT ![o] = NoFlow]
    /\ UNCHANGED <<lscene, price, shares, allowance, wallet, open, balance, isLoading, read, late, fills, crossed, switches>>

\* The polling ends before the transaction does, with the words of a failure
GivesUp(o) ==
    /\ flow[o].pc = "submit"
    /\ flow' = [flow EXCEPT ![o] = NoFlow]
    /\ late' = late \cup {[op |-> o, of |-> flow[o].of, quote |-> flow[o].quote]}
    /\ UNCHANGED <<lscene, price, shares, allowance, wallet, open, balance, isLoading, read, fills, crossed, switches>>

LateLand(t) ==
    /\ t \in late /\ late' = late \ {t} /\ crossed' = TRUE
    /\ IF Fills(t.op, t.of, t.quote) THEN Fill(t.op, t.of, t.quote) ELSE UNCHANGED <<shares, allowance, fills>>
    /\ UNCHANGED <<lscene, price, wallet, open, balance, isLoading, read, flow, switches>>

\* Other traders' settlements move the price
MovePrice(p) ==
    /\ p \in Prices \ {price} /\ (\E o \in Ops : flow[o].pc = "submit") /\ price' = p
    /\ UNCHANGED <<lscene, shares, allowance, wallet, open, balance, isLoading, read, flow, late, fills, crossed, switches>>

LpNext ==
    \/ \E r \in Reads : AnswerRead(r) \/ \E ok \in BOOLEAN : AskLedger(r, ok)
    \/ \E w \in Wallets \cup {"none"} : SwitchWallet(w)
    \/ OpenModal \/ CloseModal \/ ApproveNoeForWithdraw
    \/ \E o \in Ops : HandleClick(o) \/ Quote(o) \/ Land(o) \/ Succeed(o) \/ FlowFails(o) \/ GivesUp(o)
    \/ \E t \in late : LateLand(t)
    \/ \E p \in Prices : MovePrice(p)

LpSpec == LpInit /\ [][LpNext]_lpVars

----------------------------------------------------------------------------
\* No wallet's shares or allowance go below nothing; the dialog has one read in flight and one operation
LpTypeOK ==
    /\ \A w \in Wallets : shares[w] >= 0 /\ allowance[w] \in 0..WithdrawShares
    /\ lscene = "follower" => Cardinality(InFlight) <= 1 /\ Cardinality({o \in Ops : flow[o].pc # "idle"}) <= 1

\* Whatever the price does between the quote and the ledger, also long after the page gave up, a fill
\* pays at least the quote less the tolerance
FillWithinTolerance == \A f \in fills : f.got >= MinOut(f.quoted)

\* Once nothing is under way the balance on display is that of the connected wallet as the ledger has it,
\* unless it is unknown, reads overlapped, the wallet changed under the dialog
\* or an operation, or a transaction landed unseen
SettledShown ==
    (~crossed /\ InFlight = {} /\ wallet # "none" /\ (\A o \in Ops : flow[o].pc = "idle") /\ balance.shares # NotRead)
        => balance = [of |-> wallet, shares |-> shares[wallet]]

\* A deposit or a withdrawal fills within the tolerance and is shown when it has settled (the LP page
\* and DepositWithdrawModal.tsx)
LpHonest == LpTypeOK /\ FillWithinTolerance /\ SettledShown
=============================================================================
