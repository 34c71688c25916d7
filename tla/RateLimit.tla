----------------------------- MODULE RateLimit ------------------------------
(***************************************************************************)
(* The hooks every request to the gateway passes before its handler:       *)
(* geo-restriction (plugins/geoBlock.ts), key lookup (plugins/auth.ts) and *)
(* the fixed-window limiter (plugins/rateLimit.ts, services/rateLimit.ts), *)
(* whose counters live in the database and are swept by a timer.           *)
(***************************************************************************)
EXTENDS Naturals, FiniteSets, FiniteSetsExt

CONSTANTS Owners, KeysEach,       \* wallets with keys; key numbers of each
          Ips,
          Limit, PublicLimit,     \* RATE_LIMIT_TIERS standard and public, per window
          JoinLimit,              \* WAITLIST_JOIN_PER_MINUTE
          Slots,                  \* requests in flight
          MaxWindow, MaxRequests

ASSUME RateConstants ==
    /\ {Limit, PublicLimit, JoinLimit, KeysEach, MaxWindow, MaxRequests} \subseteq Nat \ {0}
    /\ \A i \in Ips : <<"join", i>> \notin Owners \cup Ips       \* buckets are told apart by their prefix

VARIABLES window,       \* the minute the clock is in
          rows,         \* rate_limit_buckets: (bucket, window) -> count, absent rows are not in the domain
          revoked,      \* keys whose row is revoked
          slot,         \* requests between two awaits
          served, joined,   \* requests let through to the handler, of each bucket, in this window
          arrived

rateVars == <<window, rows, revoked, slot, served, joined, arrived>>

Keys == Owners \X (1..KeysEach)
NoKey == <<"none", 0>>
Routes == {"read", "trade", "join"}
Free == [pc |-> "free", ip |-> CHOOSE i \in Ips : TRUE, key |-> NoKey, route |-> "read", user |-> NoKey, stamp |-> 0]

\* Buckets: one per wallet whatever key it used, one per address, one for joins of an address
Bucket(r) == IF r.user # NoKey THEN r.user[1] ELSE r.ip
JoinBucket(r) == <<"join", r.ip>>

RateInit ==
    /\ window = 1 /\ rows = <<>> /\ revoked = {} /\ slot = [s \in Slots |-> Free] /\ arrived = 0
    /\ served = [o \in Owners |-> 0] /\ joined = [i \in Ips |-> 0]

\* geoBlock: trading from a restricted place is refused before anything is counted
IsBlocked(route, restricted) == restricted /\ route = "trade"

Arrive(s, i, k, route, restricted) ==
    /\ slot[s].pc = "free" /\ arrived < MaxRequests /\ arrived' = arrived + 1
    /\ slot' = IF IsBlocked(route, restricted) THEN slot
               ELSE [slot EXCEPT ![s] = [Free EXCEPT !.pc = "lookup", !.ip = i, !.key = k, !.route = route]]
    /\ UNCHANGED <<window, rows, revoked, served, joined>>

\* resolveRequestUser; a bad key leaves the request on the public tier
ResolveRequestUser(s) ==
    /\ slot[s].pc = "lookup"
    /\ slot' = [slot EXCEPT ![s].user = IF slot[s].key \in Keys \ revoked THEN slot[s].key ELSE NoKey,
                            ![s].stamp = window, ![s].pc = "count"]
    /\ UNCHANGED <<window, rows, revoked, served, joined, arrived>>

Upserted(b, w) == IF <<b, w>> \in DOMAIN rows THEN rows[<<b, w>>] + 1 ELSE 1
WithRow(b, w) == [p \in DOMAIN rows \cup {<<b, w>>} |-> IF p = <<b, w>> THEN Upserted(b, w) ELSE rows[p]]

\* requireAuth refuses a trade without a user
Reaches(r) == r.user # NoKey \/ r.route # "trade"

Pass(s) ==
    LET r == slot[s] IN
    /\ slot' = [slot EXCEPT ![s] = Free]
    /\ served' = IF r.user # NoKey /\ r.stamp = window THEN [served EXCEPT ![r.user[1]] = @ + 1] ELSE served
    /\ UNCHANGED joined

Refuse(s) == slot' = [slot EXCEPT ![s] = Free] /\ UNCHANGED <<served, joined>>

\* checkAndConsume on the bucket of the tier: one upsert that returns the new count
CheckAndConsume(s) ==
    LET r == slot[s]
        cap == IF r.user # NoKey THEN Limit ELSE PublicLimit
    IN
    /\ r.pc = "count" /\ rows' = WithRow(Bucket(r), r.stamp)
    /\ IF Upserted(Bucket(r), r.stamp) > cap THEN Refuse(s)
       ELSE IF r.route = "join" /\ r.user = NoKey
            THEN slot' = [slot EXCEPT ![s].pc = "join"] /\ UNCHANGED <<served, joined>>
       ELSE IF Reaches(r) THEN Pass(s) ELSE Refuse(s)
    /\ UNCHANGED <<window, revoked, arrived>>

\* The second, tighter budget of an anonymous waitlist join; the window is read again
ConsumeJoin(s) ==
    LET r == slot[s] IN
    /\ r.pc = "join" /\ rows' = WithRow(JoinBucket(r), window)
    /\ IF Upserted(JoinBucket(r), window) > JoinLimit THEN Refuse(s)
       ELSE /\ slot' = [slot EXCEPT ![s] = Free] /\ joined' = [joined EXCEPT ![r.ip] = @ + 1] /\ UNCHANGED served
    /\ UNCHANGED <<window, revoked, arrived>>

\* sweepExpired
Expired(w) == w < window
SweepExpired ==
    /\ rows' = [p \in {q \in DOMAIN rows : ~Expired(q[2])} |-> rows[p]] /\ rows' # rows
    /\ UNCHANGED <<window, revoked, slot, served, joined, arrived>>

NextWindow ==
    /\ window < MaxWindow /\ window' = window + 1
    /\ served' = [o \in Owners |-> 0] /\ joined' = [i \in Ips |-> 0]
    /\ UNCHANGED <<rows, revoked, slot, arrived>>

RevokeAny(k) ==
    /\ k \notin revoked /\ revoked' = revoked \cup {k}
    /\ UNCHANGED <<window, rows, slot, served, joined, arrived>>

RateNext ==
    \/ \E s \in Slots : \/ \E i \in Ips, k \in Keys \cup {NoKey}, route \in Routes, restricted \in BOOLEAN :
                              Arrive(s, i, k, route, restricted)
                        \/ ResolveRequestUser(s) \/ CheckAndConsume(s) \/ ConsumeJoin(s)
    \/ SweepExpired \/ NextWindow
    \/ \E k \in Keys : RevokeAny(k)

RateSpec == RateInit /\ [][RateNext]_rateVars

----------------------------------------------------------------------------
RateTypeOK ==
    /\ window \in 1..MaxWindow /\ revoked \subseteq Keys
    /\ \A p \in DOMAIN rows : p[2] \in 1..window /\ rows[p] \in 1..arrived

\* A wallet is let through at most its limit per window, however many keys it spreads its requests
\* over, and whatever the sweeping timer deletes meanwhile.  A request stamped in an earlier window
\* and counted late is charged to that window.
QuotaPerOwner == \A o \in Owners : served[o] <= Limit

\* Without a key, an address joins the waitlist at most JoinLimit times per window
JoinBudget == \A i \in Ips : joined[i] <= JoinLimit

\* The quotas hold for overlapping requests, revoked keys and swept windows (services/rateLimit.ts)
RateSafe == RateTypeOK /\ QuotaPerOwner /\ JoinBudget
=============================================================================
