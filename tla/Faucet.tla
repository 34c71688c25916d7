------------------------------- MODULE Faucet -------------------------------
(***************************************************************************)
(* The testnet faucet.  Claims (web/app/api/faucet/claim/route.ts): each    *)
(* request checks the trustline and the day's payments at Horizon, then     *)
(* pays from the issuer's account, whose sequence number all requests       *)
(* share.  Onboarding (web/lib/hooks/useFaucet.ts): the account and the     *)
(* trustline of the wallet as the page shows them while Horizon lags.       *)
(***************************************************************************)
EXTENDS Naturals, Sequences, FiniteSets

CONSTANTS FaucetScenes,        \* "claims", "onboarding"
          Claims,              \* requests that may overlap
          ClaimAmounts, DailyLimit,
          MaxPayments, MaxDays

ASSUME FaucetConstants ==
    /\ FaucetScenes \subseteq {"claims", "onboarding"}
    /\ ClaimAmounts \subseteq 1..DailyLimit /\ {DailyLimit, MaxPayments, MaxDays} \subseteq Nat \ {0}

VARIABLES fscene,
          payments, visible,   \* payments of the issuer, in order; how many of them Horizon lists
          issuer,              \* sequence number of the issuer's account
          today,
          claim,               \* requests in progress
          raced,               \* history: a check did not see every payment made or under way
          onLedger, line,       \* the wallet's account and trustline on the ledger
          lineSeen,            \* Horizon lists the trustline
          accountExists,       \* answer of the account query, or "none"
          faucetData,          \* hasTrustline of the last answer, or "none"
          accountStatus, trustlineStatus, trustlineLocked,
          action,              \* mutation in progress: "none", "fund", "trust"
          added                \* history: the page was told that the trustline was added

claimVars == <<payments, visible, issuer, today, claim, raced>>
boardingVars == <<onLedger, line, lineSeen, accountExists, faucetData, accountStatus, trustlineStatus, trustlineLocked, action, added>>
faucetVars == <<fscene, claimVars, boardingVars>>

NoClaim == [pc |-> "idle", amount |-> 0, seq |-> 0, attempt |-> 0]

FaucetInit ==
    /\ fscene \in FaucetScenes
    /\ payments = <<>> /\ visible = 0 /\ issuer = 0 /\ today = 1 /\ claim = [c \in Claims |-> NoClaim] /\ raced = FALSE
    /\ onLedger = FALSE /\ line = FALSE /\ lineSeen = FALSE
    /\ accountExists = "none" /\ faucetData = "none"
    /\ accountStatus = "checking" /\ trustlineStatus = "checking" /\ trustlineLocked = FALSE /\ action = "none" /\ added = FALSE

----------------------------------------------------------------------------
(***************************************************************************)
(* Claims.                                                                 *)
(***************************************************************************)
\* The day's payments among the first n, counted coin by coin
Coins(n, day) == {t \in (1..n) \X (1..DailyLimit) : payments[t[1]].day = day /\ t[2] <= payments[t[1]].amount}
Paid(n, day) == Cardinality(Coins(n, day))

\* Claims of today among what Horizon lists; a read that fails lists nothing
GetTodaysClaims(n) == Paid(n, today)
GetRemainingAllowance(n) == IF GetTodaysClaims(n) >= DailyLimit THEN 0 ELSE DailyLimit - GetTodaysClaims(n)

ClaimUnderway == {c \in Claims : claim[c].pc # "idle"}
Answered(c) == claim' = [claim EXCEPT ![c] = NoClaim]

\* POST: a valid amount; the trustline is there
ClaimUsdc(c, a) ==
    /\ fscene = "claims" /\ claim[c].pc = "idle" /\ Len(payments) + Cardinality(ClaimUnderway) < MaxPayments
    /\ claim' = [claim EXCEPT ![c] = [NoClaim EXCEPT !.pc = "check", !.amount = a]]
    /\ UNCHANGED <<payments, visible, issuer, today, raced>>

\* The day's limit, from the payments Horizon lists
CheckLimit(c, listed) ==
    /\ claim[c].pc = "check" /\ listed \in {0, visible}
    /\ raced' = (raced \/ listed # Len(payments) \/ \E d \in ClaimUnderway \ {c} : claim[d].pc # "check")
    /\ IF claim[c].amount > GetRemainingAllowance(listed) THEN Answered(c) ELSE claim' = [claim EXCEPT ![c].pc = "load"]
    /\ UNCHANGED <<payments, visible, issuer, today>>

LoadIssuer(c) ==
    /\ claim[c].pc = "load" /\ claim' = [claim EXCEPT ![c].pc = "submit", ![c].seq = issuer + 1]
    /\ UNCHANGED <<payments, visible, issuer, today, raced>>

Pay(c) ==
    /\ payments' = Append(payments, [amount |-> claim[c].amount, day |-> today, by |-> c])
    /\ issuer' = issuer + 1

\* The transaction carries the next sequence number: it is applied; the answer may be lost
SubmitPayment(c) ==
    /\ claim[c].pc = "submit" /\ claim[c].seq = issuer + 1 /\ Pay(c) /\ Answered(c)
    /\ UNCHANGED <<visible, today, raced>>

\* tx_bad_seq: another request was faster; one fresh sequence number
MayRetry(c) == claim[c].attempt = 0

BadSequence(c) ==
    /\ claim[c].pc = "submit" /\ claim[c].seq # issuer + 1
    /\ IF MayRetry(c) THEN claim' = [claim EXCEPT ![c].pc = "load", ![c].attempt = @ + 1] ELSE Answered(c)
    /\ UNCHANGED <<payments, visible, issuer, today, raced>>

\* Any other failure ends the request
ClaimFails(c) ==
    /\ claim[c].pc \in {"load", "submit"} /\ Answered(c)
    /\ UNCHANGED <<payments, visible, issuer, today, raced>>

\* Horizon ingests the next payment
Ingest == visible < Len(payments) /\ visible' = visible + 1 /\ UNCHANGED <<payments, issuer, today, claim, raced>>

\* Midnight UTC; requests of a few seconds do not span it
Midnight ==
    /\ fscene = "claims" /\ today < MaxDays /\ ClaimUnderway = {} /\ today' = today + 1
    /\ UNCHANGED <<payments, visible, issuer, claim, raced>>

----------------------------------------------------------------------------
(***************************************************************************)
(* Onboarding.                                                             *)
(***************************************************************************)
\* The effect on the trustline status, run when the status of the account or the history changes
StillLocked(data) == trustlineLocked /\ data # "yes"

TrustlineEffect(acct, data) ==
    /\ trustlineLocked' = StillLocked(data)
    /\ trustlineStatus' =
         IF StillLocked(data) THEN trustlineStatus
         ELSE IF trustlineLocked /\ data = "yes" THEN "active"
         ELSE IF acct # "active" \/ data = "none" THEN "checking"
         ELSE CASE data = "yes" -> "active" [] data = "no" -> "not_found" [] data = "err" -> "error"

\* The account query: 404 is an answer, any other failure is not
CheckAccount(answer) ==
    /\ fscene = "onboarding" /\ answer \in {IF onLedger THEN "yes" ELSE "no", "err"}
    /\ accountExists = "none" \/ (answer # "err" /\ accountExists # answer)
    /\ accountExists' = answer
    /\ accountStatus' = CASE answer = "yes" -> "active" [] answer = "no" -> "not_found" [] answer = "err" -> "error"
    /\ TrustlineEffect(accountStatus', faucetData)
    /\ UNCHANGED <<onLedger, line, lineSeen, faucetData, action, added>>

\* The history: polled, and asked again after an action; hasTrustline is false when Horizon fails the route,
\* and the last answer stays when the route itself fails
HasTrustline(read) == read /\ lineSeen
HistoryAnswers == {IF HasTrustline(read) THEN "yes" ELSE "no" : read \in BOOLEAN} \cup {"err"}
RefetchHistory(data) ==
    /\ fscene = "onboarding" /\ data \in HistoryAnswers /\ data # faucetData
    /\ data = "err" => faucetData = "none"
    /\ faucetData' = data /\ TrustlineEffect(accountStatus, data)
    /\ UNCHANGED <<onLedger, line, lineSeen, accountExists, accountStatus, action, added>>

FundAccount ==
    /\ fscene = "onboarding" /\ accountStatus \in {"not_found", "error"} /\ action = "none"
    /\ action' = "fund" /\ accountStatus' = "funding" /\ TrustlineEffect("funding", faucetData)
    /\ UNCHANGED <<onLedger, line, lineSeen, accountExists, faucetData, added>>

\* Friendbot funds the account, or says that it is funded already
Funded(ok) ==
    /\ action = "fund" /\ action' = "none"
    /\ \E to \in IF ok THEN {TRUE} ELSE {onLedger, TRUE} : onLedger' = to
    /\ accountStatus' = IF ok THEN "active" ELSE "error"
    /\ TrustlineEffect(accountStatus', faucetData)
    /\ UNCHANGED <<line, lineSeen, accountExists, faucetData, added>>

AddTrustline ==
    /\ fscene = "onboarding" /\ accountStatus = "active" /\ trustlineStatus \in {"not_found", "error"} /\ action = "none"
    /\ action' = "trust" /\ trustlineLocked' = TRUE /\ trustlineStatus' = "adding"
    /\ UNCHANGED <<onLedger, line, lineSeen, accountExists, faucetData, accountStatus, added>>

\* The lock stays until the history confirms the trustline; a failure releases it
SubmitTrustline == onLedger /\ line' = TRUE
TrustlineAdded ==
    /\ action = "trust" /\ SubmitTrustline /\ action' = "none" /\ trustlineStatus' = "active" /\ added' = TRUE
    /\ UNCHANGED <<onLedger, lineSeen, accountExists, faucetData, accountStatus, trustlineLocked>>
TrustlineFails ==
    /\ action = "trust" /\ action' = "none" /\ trustlineLocked' = FALSE /\ trustlineStatus' = "error"
    /\ UNCHANGED <<onLedger, line, lineSeen, accountExists, faucetData, accountStatus, added>>

IngestLine == line /\ ~lineSeen /\ lineSeen' = TRUE /\ UNCHANGED <<onLedger, line, accountExists, faucetData, accountStatus, trustlineStatus, trustlineLocked, action, added>>

FaucetNext ==
    /\ fscene' = fscene
    /\ \/ /\ \/ \E c \in Claims : \/ \E a \in ClaimAmounts : ClaimUsdc(c, a)
                                   \/ \E n \in {0, visible} : CheckLimit(c, n)
                                   \/ LoadIssuer(c) \/ SubmitPayment(c) \/ BadSequence(c) \/ ClaimFails(c)
             \/ Ingest \/ Midnight
          /\ UNCHANGED boardingVars
       \/ /\ \/ \E a \in {"yes", "no", "err"} : CheckAccount(a)
             \/ \E d \in {"yes", "no", "err"} : RefetchHistory(d)
             \/ FundAccount \/ \E ok \in BOOLEAN : Funded(ok)
             \/ AddTrustline \/ TrustlineAdded \/ TrustlineFails \/ IngestLine
          /\ UNCHANGED claimVars

FaucetSpec == FaucetInit /\ [][FaucetNext]_faucetVars

----------------------------------------------------------------------------
FaucetTypeOK ==
    /\ visible \in 0..Len(payments) /\ issuer = Len(payments)
    /\ \A c \in Claims : claim[c].attempt \in 0..1
    /\ action \in {"none", "fund", "trust"} /\ today \in 1..MaxDays

\* Requests of one account stay within the day's limit as long as each check sees the payments of the
\* ones before it: the retry of a collided sequence number pays nothing twice
WithinLimitUnlessRaced == ~raced => \A d \in 1..MaxDays : Paid(Len(payments), d) <= DailyLimit

\* The trustline the page was told of is not asked for again while Horizon lags behind: until the
\* history confirms it, no answer, funding or account check turns it into a missing one
NotAskedAgain == added /\ faucetData # "yes" => trustlineStatus # "not_found" \/ lineSeen

\* The faucet pays no account twice and asks for no trustline twice (useFaucet.ts and its claim route)
FaucetSafe == FaucetTypeOK /\ WithinLimitUnlessRaced /\ NotAskedAgain
=============================================================================
