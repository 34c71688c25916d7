---------------------------- MODULE ReferralPage ----------------------------
(***************************************************************************)
(* One browser of the referral pages (web/components/referral,              *)
(* web/lib/referralCode.ts, web/lib/stellar/referral.ts) over the registry  *)
(* and its projection.  The invite banner and the redemption box share the  *)
(* stored code; the register form, the share card and the claim button      *)
(* follow the row the gateway answers, bridged by an optimistic row while   *)
(* the indexer lags.  Every call to the chain may land and its answer be    *)
(* lost.                                                                    *)
(***************************************************************************)
EXTENDS Referral

CONSTANTS RefScenes,        \* which of "invite", "create", "claims" are explored
          MaxClicks

NoCode == "none"

VARIABLES refScene,
          refAccount,          \* the connected wallet, or NoUser
          signedIn,         \* a session key is held: the dashboard is mounted instead of the sign-in page
          stored, parked,   \* localStorage: the pending code, its PARKED flag
          captured,         \* history: the code of the last ?ref= link followed
          boundHere,        \* history: a bind of this browser succeeded since
          banner,           \* the code of the invite banner
          timers,           \* the banner's: "park" after a dismissal, "clear" after a bind
          typed,            \* the redemption box
          calls,            \* calls to the registry: [kind, who, code, step]
          self, bound,      \* the rows last answered: referrer row, referee's code
          optSelf, optBound,\* optimistic copies of the same
          reads,            \* reads under way: [who, answer]
          confirmed,        \* history: the wallet that was told its code is registered, while it stays connected
          memo, enabled,    \* referralClaimsEnabled's memo, the claim card's state
          clicks

inviteVars == <<stored, parked, captured, boundHere, banner, timers, typed>>
rowVars == <<self, bound, optSelf, optBound, reads, confirmed>>
sessionVars == <<refScene, refAccount, signedIn>>
gateVars == <<memo, enabled>>
refPageVars == <<sessionVars, inviteVars, rowVars, gateVars, calls, clicks>>
referralPageVars == <<referralVars, refPageVars>>

NoSelf == [who |-> NoUser, code |-> NoCode, claimable |-> 0]
NotYet == [state |-> "asked", self |-> NoSelf, bound |-> NoCode]
NotFound == [state |-> "none", self |-> NoSelf, bound |-> NoCode]
Failed == [state |-> "error", self |-> NoSelf, bound |-> NoCode]

ReferralPageInit ==
    /\ ReferralInit /\ refScene \in RefScenes
    /\ refAccount = NoUser /\ signedIn = FALSE /\ stored = NoCode /\ parked = FALSE /\ captured = NoCode
    /\ boundHere = FALSE /\ banner = NoCode /\ timers = {} /\ typed = NoCode /\ calls = {}
    /\ self = NoSelf /\ bound = NoCode /\ optSelf = NoSelf /\ optBound = NoCode /\ reads = {}
    /\ confirmed = NoUser /\ memo = "none" /\ enabled = FALSE /\ clicks = 0

RefClick == clicks < MaxClicks /\ clicks' = clicks + 1

----------------------------------------------------------------------------
(***************************************************************************)
(* The gateway: what the projection answers.  /info knows only addresses    *)
(* with a code; /me answers both rows.                                      *)
(***************************************************************************)
GetReferrerByAddress(u) ==
    IF referrers[u].code = "none" THEN NoSelf
    ELSE [who |-> u, code |-> referrers[u].code, claimable |-> referrers[u].claimable]

GetBindingForReferee(u) ==
    IF bindings[u] = NoUser THEN NoCode ELSE referrers[bindings[u]].code

Found(u) == [state |-> "found", self |-> GetReferrerByAddress(u), bound |-> GetBindingForReferee(u)]
GetInfo(u) == IF GetReferrerByAddress(u) = NoSelf THEN NotFound ELSE Found(u)
GetMe(u) == Found(u)
RefAnswer(u) == IF signedIn THEN GetMe(u) ELSE GetInfo(u)

----------------------------------------------------------------------------
(***************************************************************************)
(* The rows of the page.                                                   *)
(***************************************************************************)
NewRead(u) == IF u = NoUser THEN {} ELSE {[who |-> u, answer |-> NotYet]}
Loading == reads # {}

\* The callbacks of a card that is gone do nothing; the banner is mounted on every page
OfBanner(k) == k.kind = "banner"

\* A wallet switch drops the optimistic rows and cancels the read of the previous wallet; disconnecting
\* also ends the session, and with it the dashboard
SwitchAccount(u) ==
    /\ RefClick /\ u # refAccount /\ (signedIn => u = NoUser) /\ refAccount' = u /\ signedIn' = FALSE
    /\ calls' = IF signedIn THEN {k \in calls : OfBanner(k)} ELSE calls
    /\ optSelf' = NoSelf /\ optBound' = NoCode /\ confirmed' = NoUser /\ reads' = NewRead(u)
    /\ self' = (IF u = NoUser THEN NoSelf ELSE self) /\ bound' = (IF u = NoUser THEN NoCode ELSE bound)
    /\ UNCHANGED <<referralVars, refScene, inviteVars, gateVars>>

\* The dashboard mounts in place of the page, or back: fresh state on either side
SignInOut ==
    /\ RefClick /\ refAccount # NoUser /\ signedIn' = ~signedIn
    /\ self' = NoSelf /\ bound' = NoCode /\ optSelf' = NoSelf /\ optBound' = NoCode /\ confirmed' = NoUser
    /\ reads' = NewRead(refAccount) /\ calls' = {k \in calls : OfBanner(k)} /\ enabled' = FALSE
    /\ UNCHANGED <<referralVars, refScene, refAccount, inviteVars, memo>>

\* The 30 s timer of onCreated and onBound, and onClaimed
Refresh ==
    /\ RefClick /\ refAccount # NoUser /\ ~Loading /\ reads' = NewRead(refAccount)
    /\ UNCHANGED <<referralVars, sessionVars, inviteVars, gateVars, calls, self, bound, optSelf, optBound, confirmed>>

Serve(r) ==
    /\ r.answer = NotYet
    /\ \E a \in {RefAnswer(r.who), Failed} : reads' = (reads \ {r}) \cup {[r EXCEPT !.answer = a]}
    /\ UNCHANGED <<referralVars, sessionVars, inviteVars, gateVars, calls, clicks, self, bound, optSelf, optBound, confirmed>>

\* A failed read keeps the rows of the page; the dashboard drops them and shows the error instead
Arrive(r) ==
    /\ r.answer # NotYet /\ reads' = reads \ {r}
    /\ IF r.answer = Failed /\ ~signedIn THEN UNCHANGED <<self, bound>>
       ELSE self' = r.answer.self /\ bound' = r.answer.bound
    /\ UNCHANGED <<referralVars, sessionVars, inviteVars, gateVars, calls, clicks, optSelf, optBound, confirmed>>

Shown(row, optimistic, nothing) == IF row # nothing THEN row ELSE optimistic
ShownSelf == Shown(self, optSelf, NoSelf)
ShownBinding == Shown(bound, optBound, NoCode)
RegisterOffered == refAccount # NoUser /\ ~Loading /\ ShownSelf = NoSelf
RedeemOffered == refAccount # NoUser /\ ~Loading /\ ShownBinding = NoCode

----------------------------------------------------------------------------
(***************************************************************************)
(* The invite: captured from a link, offered by the banner, redeemable in   *)
(* the box.                                                                 *)
(***************************************************************************)
CaptureReferralFromLocation(c) ==
    IF c = NoCode THEN UNCHANGED <<stored, parked, captured, boundHere>>
    ELSE stored' = c /\ parked' = FALSE /\ captured' = c /\ boundHere' = FALSE

ClearPendingReferral == stored' = NoCode /\ parked' = FALSE
ParkPendingReferral == parked' = TRUE /\ UNCHANGED stored

\* The page is loaded: through a link with ?ref=c, or without one; what it was doing is gone
RefLoad(c) ==
    /\ RefClick /\ CaptureReferralFromLocation(c)
    /\ banner' = (IF parked' THEN NoCode ELSE stored') /\ typed' = stored'
    /\ timers' = {} /\ calls' = {} /\ memo' = "none" /\ enabled' = FALSE
    /\ self' = NoSelf /\ bound' = NoCode /\ optSelf' = NoSelf /\ optBound' = NoCode /\ confirmed' = NoUser
    /\ reads' = NewRead(refAccount)
    /\ UNCHANGED <<referralVars, sessionVars>>

RefDismiss ==
    /\ RefClick /\ banner # NoCode /\ timers' = timers \cup {"park"}
    /\ UNCHANGED <<referralVars, sessionVars, rowVars, gateVars, stored, parked, captured, boundHere, banner, typed, calls>>

Fire(t) ==
    /\ t \in timers /\ timers' = timers \ {t} /\ banner' = NoCode
    /\ IF t = "park" THEN ParkPendingReferral ELSE ClearPendingReferral
    /\ UNCHANGED <<referralVars, sessionVars, rowVars, gateVars, captured, boundHere, typed, calls, clicks>>

TypeCode(c) ==
    /\ RefClick /\ RedeemOffered /\ typed' = c
    /\ UNCHANGED <<referralVars, sessionVars, rowVars, gateVars, stored, parked, captured, boundHere, banner, timers, calls>>

----------------------------------------------------------------------------
(***************************************************************************)
(* Calls: "look" (register only), "sent", then "landed" or refused, then    *)
(* the callbacks of the render that made the call.                          *)
(***************************************************************************)
Idle(kind) == ~\E k \in calls : k.kind = kind
RefAsk(kind, c, step) ==
    /\ RefClick /\ refAccount # NoUser /\ Idle(kind)
    /\ calls' = calls \cup {[kind |-> kind, who |-> refAccount, code |-> c, step |-> step]}
    /\ UNCHANGED <<referralVars, sessionVars, inviteVars, rowVars, gateVars>>

BannerBind == banner # NoCode /\ RefAsk("banner", banner, "sent")
BoxSubmit == RedeemOffered /\ typed # NoCode /\ RefAsk("box", typed, "sent")
RegisterSubmit(c) == RegisterOffered /\ RefAsk("create", c, "look")
ClaimsOpen == enabled
ClaimClick == ShownSelf # NoSelf /\ ClaimsOpen /\ ShownSelf.claimable > 0 /\ RefAsk("claim", NoCode, "sent")

Move(k, step) == calls' = (calls \ {k}) \cup {[k EXCEPT !.step = step]}

\* taken, free or unknown: only taken stops the registration
LookupCode(k) ==
    /\ k.kind = "create" /\ k.step = "look"
    /\ \/ Move(k, "sent")
       \/ codeOwner[k.code] # NoUser /\ calls' = calls \ {k}
    /\ UNCHANGED <<referralVars, sessionVars, inviteVars, rowVars, gateVars, clicks>>

OnChain(k) ==
    CASE k.kind \in {"banner", "box"} -> SetReferrer(k.who, k.code)
      [] k.kind = "create" -> CreateCode(k.who, k.code)
      [] OTHER -> Claim(k.who) \/ ClaimV0(k.who)

RefLand(k) ==
    /\ k.step = "sent" /\ OnChain(k) /\ Move(k, "landed")
    /\ UNCHANGED <<projectionVars, sessionVars, inviteVars, rowVars, gateVars, clicks>>

\* Refused, expired, or landed with the answer lost: an error toast either way
RefFail(k) ==
    /\ k.step \in {"sent", "landed"} /\ calls' = calls \ {k}
    /\ UNCHANGED <<referralVars, sessionVars, inviteVars, rowVars, gateVars, clicks>>

MakeOptimisticReferrerRow(k) == [who |-> k.who, code |-> k.code, claimable |-> 0]
OnCreated(k) == MakeOptimisticReferrerRow(k)

\* The answer: each call has its own callbacks
RefDone(k) ==
    /\ k.step = "landed" /\ calls' = calls \ {k}
    /\ \/ /\ k.kind = "banner" /\ timers' = timers \cup {"clear"} /\ boundHere' = TRUE
          /\ UNCHANGED <<stored, parked, captured, banner, typed, rowVars>>
       \/ /\ k.kind = "box" /\ ClearPendingReferral /\ typed' = NoCode /\ optBound' = k.code /\ boundHere' = TRUE
          /\ UNCHANGED <<captured, banner, timers, self, bound, optSelf, reads, confirmed>>
       \/ /\ k.kind = "create" /\ optSelf' = OnCreated(k)
          /\ confirmed' = IF k.who = refAccount THEN refAccount ELSE confirmed
          /\ UNCHANGED <<inviteVars, self, bound, optBound, reads>>
       \/ /\ k.kind = "claim" /\ reads' = NewRead(refAccount)
          /\ UNCHANGED <<inviteVars, self, bound, optSelf, optBound, confirmed>>
    /\ UNCHANGED <<referralVars, sessionVars, gateVars, clicks>>

----------------------------------------------------------------------------
(***************************************************************************)
(* The claim gate: the version probe is memoised while it says v1.          *)
(***************************************************************************)
ReferralClaimsEnabled ==
    /\ ShownSelf # NoSelf /\ memo = "none" /\ memo' = "asking" /\ UNCHANGED enabled
    /\ UNCHANGED <<referralVars, sessionVars, inviteVars, rowVars, calls, clicks>>

RefProbeAnswers ==
    /\ memo = "asking"
    /\ \E readable \in BOOLEAN :
           LET yes == readable /\ version = "v1" IN
           memo' = (IF yes THEN "yes" ELSE "none") /\ enabled' = (enabled \/ yes)
    /\ UNCHANGED <<referralVars, sessionVars, inviteVars, rowVars, calls, clicks>>

----------------------------------------------------------------------------
PageStep ==
    \/ \E u \in Users \cup {NoUser} : SwitchAccount(u)
    \/ SignInOut \/ Refresh
    \/ \E r \in reads : Serve(r) \/ Arrive(r)
    \/ \E k \in calls : LookupCode(k) \/ RefLand(k) \/ RefFail(k) \/ RefDone(k)

InviteStep == refScene = "invite" /\
    (\/ \E c \in Codes \cup {NoCode} : RefLoad(c)
     \/ RefDismiss \/ BannerBind \/ BoxSubmit
     \/ \E t \in timers : Fire(t)
     \/ \E c \in Codes : TypeCode(c)
     \/ \E u \in Users, c \in Codes : (SetReferrer(u, c) \/ CreateCode(u, c)) /\ UNCHANGED <<projectionVars, refPageVars>>)

CreateStep == refScene = "create" /\
    (\/ \E c \in Codes : RegisterSubmit(c)
     \/ \E u \in Users, c \in Codes : CreateCode(u, c) /\ UNCHANGED <<projectionVars, refPageVars>>)

ClaimsStep == refScene = "claims" /\
    (ClaimClick \/ ReferralClaimsEnabled \/ RefProbeAnswers \/ (RegistryStep /\ UNCHANGED <<projectionVars, refPageVars>>))

ReferralPageNext ==
    PageStep \/ InviteStep \/ CreateStep \/ ClaimsStep \/ ((IndexEvent \/ DeadLetter) /\ UNCHANGED refPageVars)

ReferralPageSpec == ReferralPageInit /\ [][ReferralPageNext]_referralPageVars

----------------------------------------------------------------------------
RowType == [who : Users \cup {NoUser}, code : Codes \cup {NoCode}, claimable : Nat]
CallType == [kind : {"banner", "box", "create", "claim"}, who : Users, code : Codes \cup {NoCode}, step : {"look", "sent", "landed"}]

\* The shape of the page's state; at most one read is under way, and a dashboard has a wallet
ReferralTypeOK ==
    /\ {stored, captured, banner, typed, bound, optBound} \subseteq Codes \cup {NoCode}
    /\ {self, optSelf} \subseteq RowType /\ calls \subseteq CallType /\ timers \subseteq {"park", "clear"}
    /\ Cardinality(reads) <= 1 /\ \A r \in reads : r.who = refAccount
    /\ (signedIn => refAccount # NoUser) /\ memo \in {"none", "asking", "yes"}

\* "Only a successful bind clears it for good": until a bind of this browser succeeds, the code of the link
\* last followed stays stored, through dismissals, failed binds, reloads and timers that fire late
InviteKept == captured # NoCode /\ ~boundHere => stored = captured

\* A wallet told that its code is registered is not offered the form again while it stays connected, however
\* far behind the indexer is
RegisteredStays == confirmed # NoUser /\ confirmed = refAccount => ShownSelf # NoSelf

\* The registry's money is booked, projected and claimed to the unit, and the page loses neither an invite
\* nor a registration (contracts/referral, the indexer's handler, the referral page)
ReferralSound == ReferralTypeOK /\ EarnedNeverBurned /\ BooksBalance /\ MoneyProjected /\ InviteKept /\ RegisteredStays
=============================================================================
