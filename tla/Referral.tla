------------------------------ MODULE Referral ------------------------------
(***************************************************************************)
(* The referral registry (contracts/referral), the market's hook into it    *)
(* on every fee-bearing open (apply_referral and the pot of finalize_open), *)
(* and the indexer's projection of its events (indexer handlers/referral),  *)
(* from which api/src/services/referral.ts answers.  Before the funded      *)
(* implementation is deployed, claim() zeroes the balance without paying.   *)
(***************************************************************************)
EXTENDS Naturals, Sequences, FiniteSets, SequencesExt, FiniteSetsExt

CONSTANTS Users, Codes,
          Fees,                                 \* gross trading fees
          RefBps,                               \* BASIS_POINTS
          DiscountBps, ShareBps, ProtocolBps,   \* referee's discount, referrer's share, protocol's cut
          MaxEvents, MaxAdminCalls

ASSUME ReferralConstants ==
    /\ IsFiniteSet(Users) /\ "nobody" \notin Users /\ "none" \notin Codes
    /\ RefBps \in Nat \ {0} /\ {DiscountBps, ShareBps, ProtocolBps} \subseteq 0..RefBps
    /\ Fees \subseteq Nat \ {0} /\ {MaxEvents, MaxAdminCalls} \subseteq Nat

VARIABLES version,        \* "v0" until the funded implementation is deployed
          codeOwner,      \* Code(c): its referrer, or NoUser
          info,           \* Info(u): ReferralInfo, meaningful for owners of a code
          referrerOf,     \* RefereeOf(u), or NoUser
          revokedRefs, refPaused,
          potFunds,          \* USDC of the registry
          claimedBy,      \* history: USDC paid to each referrer
          short,          \* history: payouts accrued beyond the pots transferred
          trail,          \* events of the ledger
          projected,        \* how many of them the indexer went through
          referrers,      \* referrers rows
          bindings,       \* referral_bindings rows: referee -> referrer, or NoUser
          deadLetters,    \* events whose handler failed for good: archived, not projected
          adminCalls

registryVars == <<version, codeOwner, info, referrerOf, revokedRefs, refPaused, potFunds, claimedBy, short, trail, adminCalls>>
projectionVars == <<projected, referrers, bindings, deadLetters>>
referralVars == <<registryVars, projectionVars>>

NoUser == "nobody"
NoInfo == [count |-> 0, volume |-> 0, earned |-> 0, claimable |-> 0]
NoReferralRow == [code |-> "none", count |-> 0, volume |-> 0, earned |-> 0, claimable |-> 0]

ReferralInit ==
    /\ version = "v0" /\ codeOwner = [c \in Codes |-> NoUser] /\ info = [u \in Users |-> NoInfo]
    /\ referrerOf = [u \in Users |-> NoUser] /\ revokedRefs = {} /\ refPaused = FALSE /\ potFunds = 0
    /\ claimedBy = [u \in Users |-> 0] /\ short = 0 /\ trail = <<>> /\ adminCalls = 0
    /\ projected = 0 /\ referrers = [u \in Users |-> NoReferralRow] /\ bindings = [u \in Users |-> NoUser] /\ deadLetters = 0

----------------------------------------------------------------------------
(***************************************************************************)
(* The registry.  A refused call changes nothing: its guard is a conjunct.  *)
(***************************************************************************)
HasCode(u) == \E c \in Codes : codeOwner[c] = u
Record(e) == Len(trail) < MaxEvents /\ trail' = Append(trail, e)

\* Refused below the volume floor too: the caller has traded enough
CreateCode(u, c) ==
    /\ ~refPaused /\ codeOwner[c] = NoUser /\ ~HasCode(u)
    /\ codeOwner' = [codeOwner EXCEPT ![c] = u] /\ info' = [info EXCEPT ![u] = NoInfo]
    /\ Record([topic |-> "code_created", who |-> u, code |-> c])
    /\ UNCHANGED <<version, referrerOf, revokedRefs, refPaused, potFunds, claimedBy, short, adminCalls>>

SetReferrer(u, c) ==
    LET r == codeOwner[c] IN
    /\ ~refPaused /\ referrerOf[u] = NoUser /\ r \notin {NoUser, u} /\ r \notin revokedRefs
    /\ referrerOf' = [referrerOf EXCEPT ![u] = r] /\ info' = [info EXCEPT ![r].count = @ + 1]
    /\ Record([topic |-> "referrer_set", who |-> u, referrer |-> r])
    /\ UNCHANGED <<version, codeOwner, revokedRefs, refPaused, potFunds, claimedBy, short, adminCalls>>

Share(fee, bps) == (fee * bps) \div RefBps
Accrues(u) == ~refPaused /\ referrerOf[u] # NoUser /\ referrerOf[u] \notin revokedRefs

\* finalize_open carves the pot from the protocol's cut of the discounted fee, or has no treasury
Pot(fee, treasury) ==
    IF treasury THEN Min({Share(fee, ShareBps), Share(fee - Share(fee, DiscountBps), ProtocolBps)}) ELSE 0

\* An open by u that pays a fee: record_trade, then the pot
RecordTrade(u, fee, volume, treasury) ==
    LET r == referrerOf[u]
        payout == Share(fee, ShareBps)
    IN
    /\ Accrues(u)
    /\ info' = [info EXCEPT ![r].volume = @ + volume, ![r].earned = @ + payout, ![r].claimable = @ + payout]
    /\ potFunds' = potFunds + Pot(fee, treasury) /\ short' = short + payout - Pot(fee, treasury)
    /\ Record([topic |-> "trade_recorded", who |-> u, referrer |-> r, fee |-> fee, payout |-> payout, volume |-> volume])
    /\ UNCHANGED <<version, codeOwner, referrerOf, revokedRefs, refPaused, claimedBy, adminCalls>>

SettledClaim(u) == [info EXCEPT ![u].claimable = 0]
KeptClaim(u) == info
Paying(u) == SettledClaim(u)

\* v1: paid from the registry's own USDC, or refused and kept; not gated by the pause
Claim(u) ==
    /\ version = "v1" /\ HasCode(u) /\ info[u].claimable > 0 /\ potFunds >= info[u].claimable
    /\ potFunds' = potFunds - info[u].claimable /\ claimedBy' = [claimedBy EXCEPT ![u] = @ + info[u].claimable]
    /\ info' = Paying(u)
    /\ Record([topic |-> "claimed", who |-> u])
    /\ UNCHANGED <<version, codeOwner, referrerOf, revokedRefs, refPaused, short, adminCalls>>

\* v0: zeroed, nothing paid
ClaimV0(u) ==
    /\ version = "v0" /\ HasCode(u) /\ info[u].claimable > 0
    /\ info' = SettledClaim(u) /\ Record([topic |-> "claimed", who |-> u])
    /\ UNCHANGED <<version, codeOwner, referrerOf, revokedRefs, refPaused, potFunds, claimedBy, short, adminCalls>>

Administer == adminCalls < MaxAdminCalls /\ adminCalls' = adminCalls + 1

RevokeCode(c) ==
    /\ Administer /\ codeOwner[c] # NoUser
    /\ \E on \in BOOLEAN : revokedRefs' = IF on THEN revokedRefs \cup {codeOwner[c]} ELSE revokedRefs \ {codeOwner[c]}
    /\ UNCHANGED <<version, codeOwner, info, referrerOf, refPaused, potFunds, claimedBy, short, trail>>
Unbind(u) ==
    /\ Administer /\ referrerOf' = [referrerOf EXCEPT ![u] = NoUser]
    /\ UNCHANGED <<version, codeOwner, info, revokedRefs, refPaused, potFunds, claimedBy, short, trail>>
SetRegistryPaused(p) ==
    /\ Administer /\ refPaused' = p
    /\ UNCHANGED <<version, codeOwner, info, referrerOf, revokedRefs, potFunds, claimedBy, short, trail>>
Upgrade ==
    /\ version = "v0" /\ version' = "v1"
    /\ UNCHANGED <<codeOwner, info, referrerOf, revokedRefs, refPaused, potFunds, claimedBy, short, trail, adminCalls>>

----------------------------------------------------------------------------
(***************************************************************************)
(* The projection: one transaction per event, in order.                    *)
(***************************************************************************)
ApplyCodeCreated(e) ==
    /\ referrers' = [referrers EXCEPT ![e.who].code = e.code] /\ UNCHANGED bindings

\* The first binding of a referee stays
ApplyReferrerSet(e) ==
    IF bindings[e.who] # NoUser THEN UNCHANGED <<referrers, bindings>>
    ELSE /\ bindings' = [bindings EXCEPT ![e.who] = e.referrer]
         /\ referrers' = [referrers EXCEPT ![e.referrer].count = @ + 1]

ApplyTradeRecorded(e) ==
    /\ referrers' = [referrers EXCEPT ![e.referrer].volume = @ + e.fee, ![e.referrer].earned = @ + e.payout, ![e.referrer].claimable = @ + e.payout]
    /\ UNCHANGED bindings

ApplyClaimed(e) == referrers' = [referrers EXCEPT ![e.who].claimable = 0] /\ UNCHANGED bindings

IndexEvent ==
    LET e == trail[projected + 1] IN
    /\ projected < Len(trail) /\ projected' = projected + 1
    /\ \/ e.topic = "code_created" /\ ApplyCodeCreated(e)
       \/ e.topic = "referrer_set" /\ ApplyReferrerSet(e)
       \/ e.topic = "trade_recorded" /\ ApplyTradeRecorded(e)
       \/ e.topic = "claimed" /\ ApplyClaimed(e)
    /\ UNCHANGED <<registryVars, deadLetters>>

\* The handler keeps failing: the event is archived and passed over
DeadLetter ==
    /\ projected < Len(trail) /\ deadLetters = 0 /\ projected' = projected + 1 /\ deadLetters' = 1
    /\ UNCHANGED <<registryVars, referrers, bindings>>

RegistryStep ==
    \/ \E u \in Users, fee \in Fees, treasury \in BOOLEAN : RecordTrade(u, fee, 2 * fee, treasury)
    \/ \E u \in Users, c \in Codes : SetReferrer(u, c)
    \/ \E u \in Users, c \in Codes : CreateCode(u, c)
    \/ \E u \in Users : Claim(u)
    \/ \E c \in Codes : RevokeCode(c)
    \/ \E u \in Users : Unbind(u)
    \/ \E p \in BOOLEAN \ {refPaused} : SetRegistryPaused(p)
    \/ Upgrade

----------------------------------------------------------------------------
\* The balances, a unit a pair
Balances == [u \in Users |-> info[u].claimable]
UnitsOf(f) == UNION {{u} \X (1..f[u]) : u \in DOMAIN f}
Claimable == Cardinality(UnitsOf(Balances))

\* An earned balance is never burned: what a referrer earned is claimable or was paid, through pauses,
\* revocations, the upgrade of the registry and claims made from pages opened before it
EarnedNeverBurned == \A u \in Users : info[u].earned = info[u].claimable + claimedBy[u]

\* The registry owes at most what it holds and what the markets' caps kept back: a claim takes no more
\* of another referrer's pot than that
BooksBalance == Claimable = potFunds + short

\* Once the indexer has been through the ledger, the money it shows is the registry's
MoneyProjected ==
    projected = Len(trail) /\ deadLetters = 0 =>
        \A u \in Users : /\ referrers[u].claimable = info[u].claimable /\ referrers[u].earned = info[u].earned
                         /\ HasCode(u) <=> referrers[u].code # "none"
=============================================================================
