------------------------------ MODULE Capacity ------------------------------
(***************************************************************************)
(* Pool capacity: the arithmetic of packages/shared/src/capacity.ts, what    *)
(* the vault decides for an open of a given size, gate by gate, and the      *)
(* largest size it accepts; and how that headroom reaches a trader           *)
(* (api/src/services/capacity.ts, the order panel): the gateway reads the    *)
(* vault's and the market's state in several calls, keeps a snapshot for a   *)
(* short time and the last good one for a grace period, and the panel        *)
(* refuses a market order above it.  Meanwhile positions open and close, AUM *)
(* moves and the admin sets caps.                                            *)
(***************************************************************************)
EXTENDS Integers

CONSTANT BpsOne               \* basis points in one (10_000)

ASSUME BpsOneAssumption == BpsOne \in Nat \ {0}

Sides == {"long", "short"}

\* maxPositionSize is 0 when it is unknown or unset
CapacityInputs ==
    [aum : Nat, reservedPayout : Nat, usdcBalance : Nat, shortfallReserve : Nat, longOi : Nat, shortOi : Nat,
     reserveCapBps : Nat, assetCapBps : Nat, capAbs : Nat, skewCapBps : Nat, maxPositionSize : Nat]

Abs(x) == IF x < 0 THEN -x ELSE x
Floor0(x) == IF x < 0 THEN 0 ELSE x

ReserveCapOf(i) == (i.aum * i.reserveCapBps) \div BpsOne
SideCapOf(i) ==
    LET leg == (i.aum * i.assetCapBps) \div BpsOne
    IN  IF i.capAbs > 0 /\ i.capAbs < leg THEN i.capAbs ELSE leg
SkewCapOf(i) == (i.aum * i.skewCapBps) \div BpsOne

Net(i) == i.longOi - i.shortOi
SideOi(i, side) == IF side = "long" THEN i.longOi ELSE i.shortOi
NetAfter(i, side, size) == IF side = "long" THEN Net(i) + size ELSE Net(i) - size

\* The four gates, in the order the vault runs them
PassesAggregate(i, size) == i.reservedPayout + size <= ReserveCapOf(i)
PassesSide(i, side, size) == SideOi(i, side) + size <= SideCapOf(i)
PassesSkew(i, side, size) ==
    Abs(NetAfter(i, side, size)) <= SkewCapOf(i) \/ Abs(NetAfter(i, side, size)) <= Abs(Net(i))
PassesLiquidity(i, size) == i.reservedPayout + size <= i.usdcBalance - i.shortfallReserve

VaultAccepts(i, side, size) ==
    size > 0 /\ PassesAggregate(i, size) /\ PassesSide(i, side, size) /\ PassesSkew(i, side, size) /\ PassesLiquidity(i, size)

\* The gate that refuses
Reason(i, side, size) ==
    CASE ~PassesAggregate(i, size) -> "aggregate"
      [] PassesAggregate(i, size) /\ ~PassesSide(i, side, size) -> "side"
      [] PassesAggregate(i, size) /\ PassesSide(i, side, size) /\ ~PassesSkew(i, side, size) -> "skew"
      [] OTHER -> "liquidity"

\* The largest size the skew gate accepts: an open against the net position may flip it to the same extent
SkewRoomToCap(net, skewCap, side) ==
    IF net = 0 \/ (side = "long") = (net > 0) THEN skewCap - Abs(net) ELSE Abs(net) + skewCap
SkewRoom(net, skewCap, side) ==
    IF net = 0 \/ (side = "long") = (net > 0) THEN skewCap - Abs(net)
    ELSE Abs(net) + (IF Abs(net) > skewCap THEN Abs(net) ELSE skewCap)

AggregateRoom(i) == ReserveCapOf(i) - i.reservedPayout
SideRoom(i, side) == SideCapOf(i) - SideOi(i, side)
LiquidityRoom(i) == i.usdcBalance - i.shortfallReserve - i.reservedPayout

Lesser(a, b) == IF b < a THEN b ELSE a

\* The least room of the gates, and of the largest position when that is known
GateRoom(i, side) ==
    Lesser(Lesser(Lesser(AggregateRoom(i), SideRoom(i, side)), SkewRoom(Net(i), SkewCapOf(i), side)), LiquidityRoom(i))
SideHeadroom(i, side) ==
    Floor0(IF i.maxPositionSize > 0 THEN Lesser(GateRoom(i, side), i.maxPositionSize) ELSE GateRoom(i, side))

\* The first gate, in the vault's order, that has the least room
Binding(i, side) ==
    LET room == GateRoom(i, side)
    IN  IF i.maxPositionSize > 0 /\ i.maxPositionSize < room THEN "maxPosition"
        ELSE IF AggregateRoom(i) = room THEN "aggregate"
        ELSE IF SideRoom(i, side) = room THEN "side"
        ELSE IF SkewRoom(Net(i), SkewCapOf(i), side) = room THEN "skew"
        ELSE "liquidity"

----------------------------------------------------------------------------
(***************************************************************************)
(* The ledger, the gateway and the panel.                                    *)
(***************************************************************************)
CONSTANTS HotTtl, ParamsTtl, StaleGrace, LoadTimeout, PanelTtl,
          StartPool, StartCaps, CapSets, \* the pool and the caps at the start; the caps the admin may set
          CapacitySizes,               \* sizes of trades and of moves of AUM
          MaxTime, MaxChanges

PoolFields == {"aum", "reservedPayout", "usdcBalance", "shortfallReserve", "exposure"}

\* The inputs of computeHeadroom from a pool and the caps
Inputs(p, c) ==
    [aum |-> p.aum, reservedPayout |-> p.reservedPayout, usdcBalance |-> p.usdcBalance, shortfallReserve |-> p.shortfallReserve,
     longOi |-> p.exposure.long, shortOi |-> p.exposure.short,
     reserveCapBps |-> c.reserveCapBps, assetCapBps |-> c.assetCapBps, capAbs |-> c.capAbs, skewCapBps |-> c.skewCapBps,
     maxPositionSize |-> c.maxPositionSize]

Pools == [aum : Nat, reservedPayout : Nat, usdcBalance : Nat, shortfallReserve : Nat, exposure : [long : Nat, short : Nat]]
CapValues == [reserveCapBps : Nat, assetCapBps : Nat, capAbs : Nat, skewCapBps : Nat, maxPositionSize : Nat]

ASSUME CapacityConstants ==
    /\ {HotTtl, ParamsTtl, StaleGrace, LoadTimeout, PanelTtl, MaxTime, MaxChanges} \subseteq Nat
    /\ CapacitySizes \subseteq Nat \ {0} /\ StartPool \in Pools /\ CapSets \cup {StartCaps} \subseteq CapValues

VARIABLES pool, caps,                  \* ledger: the vault's and the market's state; the admin's parameters
          changes, capChanges,         \* how often each changed
          time,
          last, params,                \* the snapshot and the parameters the service keeps: sets of at most one
          load,                        \* the load in flight
          askedAt,                     \* when the panel asked, or NotAsking
          stats                        \* what the panel holds: a set of at most one

capacityVars == <<pool, caps, changes, capChanges, time, last, params, load, askedAt, stats>>

NotAsking == -1
NoLoad == [pc |-> "idle", at |-> 0, pools |-> {}, since |-> 0]

CapacityInit ==
    /\ pool = StartPool /\ caps = StartCaps /\ changes = 0 /\ capChanges = 0 /\ time = 0
    /\ last = {} /\ params = {} /\ load = NoLoad /\ askedAt = NotAsking /\ stats = {}

----------------------------------------------------------------------------
(***************************************************************************)
(* The ledger.  A change during a load may be seen by some of its calls.    *)
(***************************************************************************)
Becomes(p) ==
    /\ changes < MaxChanges /\ changes' = changes + 1 /\ pool' = p
    /\ load' = IF load.pc = "reads" THEN [load EXCEPT !.pools = @ \cup {p}] ELSE load
    /\ UNCHANGED <<caps, capChanges, time, last, params, askedAt, stats>>

WithTrade(side, size) == [pool EXCEPT !.reservedPayout = @ + size, !.exposure[side] = @ + size]

Open(side, size) == VaultAccepts(Inputs(pool, caps), side, size) /\ Becomes(WithTrade(side, size))
CloseTrade(side, size) ==
    /\ pool.exposure[side] >= size /\ pool.reservedPayout >= size
    /\ Becomes([pool EXCEPT !.reservedPayout = @ - size, !.exposure[side] = @ - size])
AumFalls(d) == pool.aum >= d /\ Becomes([pool EXCEPT !.aum = @ - d])
AumRises(d) == Becomes([pool EXCEPT !.aum = @ + d])

SetCaps(c) ==
    /\ c \in CapSets \ {caps} /\ capChanges < MaxChanges /\ caps' = c /\ capChanges' = capChanges + 1
    /\ UNCHANGED <<pool, changes, time, last, params, load, askedAt, stats>>

----------------------------------------------------------------------------
(***************************************************************************)
(* The service.                                                            *)
(***************************************************************************)
Young(v, ttl, t) == v # {} /\ \A x \in v : t - x.at < ttl

\* A request: the snapshot when it is fresh, else a load, one at a time, shared by all who ask
Snapshot ==
    /\ askedAt = NotAsking
    /\ IF Young(last, HotTtl, time)
       THEN /\ stats' = {[value |-> x, got |-> time, stale |-> FALSE] : x \in last} /\ UNCHANGED <<askedAt, load>>
       ELSE /\ askedAt' = time /\ stats' = stats
            /\ load' = IF load.pc = "idle" THEN [NoLoad EXCEPT !.pc = "params", !.at = time] ELSE load
    /\ UNCHANGED <<pool, caps, changes, capChanges, time, last, params>>

\* Somebody else's request
OthersAsk ==
    /\ ~Young(last, HotTtl, time) /\ load.pc = "idle" /\ load' = [NoLoad EXCEPT !.pc = "params", !.at = time]
    /\ UNCHANGED <<pool, caps, changes, capChanges, time, last, params, askedAt, stats>>

StartReads == load' = [load EXCEPT !.pc = "reads", !.pools = {pool}, !.since = changes]

\* Parameters are kept for minutes; when their reload fails the old ones are used
LoadParams(ok) ==
    /\ load.pc = "params"
    /\ IF Young(params, ParamsTtl, load.at) THEN ok /\ params' = params ELSE
       IF ok THEN params' = {[caps |-> caps, at |-> load.at, since |-> capChanges]} ELSE params # {} /\ params' = params
    /\ StartReads
    /\ UNCHANGED <<pool, caps, changes, capChanges, time, last, askedAt, stats>>

\* What the waiting panel is told: fresh, or the last good one, flagged, within the grace period, or nothing
InGrace(v, t) == IF Young(v, HotTtl + StaleGrace, t) THEN v ELSE {}

Tell(fresh) ==
    /\ askedAt' = NotAsking
    /\ stats' = IF askedAt = NotAsking THEN stats
                ELSE IF fresh # {} THEN {[value |-> x, got |-> time, stale |-> FALSE] : x \in fresh}
                ELSE {[value |-> x, got |-> time, stale |-> TRUE] : x \in InGrace(last, askedAt)}

\* The calls answer; each saw the ledger at some moment of the load
Refresh ==
    /\ load.pc = "reads"
    /\ \E seen \in [PoolFields -> load.pools] : \E c \in params :
         last' = {[inputs |-> Inputs([f \in PoolFields |-> seen[f][f]], c.caps), at |-> time, since |-> load.since, capsSince |-> c.since]}
    /\ Tell(last') /\ load' = NoLoad
    /\ UNCHANGED <<pool, caps, changes, capChanges, time, params>>

\* A call fails or the timeout passes
RefreshFails ==
    /\ load.pc = "reads" \/ (load.pc = "params" /\ params = {})
    /\ Tell({}) /\ load' = NoLoad
    /\ UNCHANGED <<pool, caps, changes, capChanges, time, last, params>>

\* The panel's request itself fails: no stats
RequestFails ==
    /\ askedAt # NotAsking /\ askedAt' = NotAsking /\ stats' = {}
    /\ UNCHANGED <<pool, caps, changes, capChanges, time, last, params, load>>

Tick ==
    /\ time < MaxTime /\ (load.pc # "idle" => time - load.at < LoadTimeout) /\ time' = time + 1
    /\ UNCHANGED <<pool, caps, changes, capChanges, last, params, load, askedAt, stats>>

----------------------------------------------------------------------------
(***************************************************************************)
(* The panel.                                                              *)
(***************************************************************************)
\* The stats it trusts: less than a minute old
Known == {s \in stats : time - s.got < PanelTtl}

HeadroomOf(s, side) == SideHeadroom(s.value.inputs, side)

CapacityBlocks(side, size) == \E s \in Known : size > HeadroomOf(s, side)

CapacityNext ==
    \/ \E side \in Sides, n \in CapacitySizes : Open(side, n) \/ CloseTrade(side, n)
    \/ \E n \in CapacitySizes : AumFalls(n) \/ AumRises(n)
    \/ \E c \in CapSets : SetCaps(c)
    \/ Snapshot \/ OthersAsk \/ \E ok \in BOOLEAN : LoadParams(ok)
    \/ Refresh \/ RefreshFails \/ RequestFails \/ Tick

CapacitySpec == CapacityInit /\ [][CapacityNext]_capacityVars

----------------------------------------------------------------------------
Sizes == 1..(pool.aum + 1)

\* One load at a time, a request waits only for a load, and the snapshot carries real inputs
CapacityTypeOK ==
    /\ askedAt # NotAsking => askedAt <= time
    /\ load.pc \in {"idle", "params", "reads"} /\ (load.pc = "reads" => params # {})
    /\ \A x \in last : x.inputs \in CapacityInputs /\ x.at <= time

\* The headroom is the vault's decision: an open is accepted exactly when it is not larger,
\* whatever caps were set after the positions were opened
HeadroomExact ==
    LET i == [Inputs(pool, caps) EXCEPT !.maxPositionSize = 0]
    IN  \A side \in Sides, n \in Sizes : VaultAccepts(i, side, n) <=> n <= SideHeadroom(i, side)

\* While neither the ledger nor the caps changed since the calls began, the panel refuses an order only if
\* the vault would, or the market's largest position
BlockedRightly ==
    \A s \in Known : s.value.since = changes /\ s.value.capsSince = capChanges =>
        \A side \in Sides, n \in Sizes :
            CapacityBlocks(side, n) => ~VaultAccepts(Inputs(pool, caps), side, n) \/ (caps.maxPositionSize > 0 /\ n > caps.maxPositionSize)

\* The panel never acts on a snapshot older than its own minute after the service's: an unflagged one was
\* fresh when served, a flagged one within the grace period when it was asked for
AgeBound == \A s \in Known :
    /\ ~s.stale => s.got - s.value.at < HotTtl \/ s.got = s.value.at
    /\ time - s.value.at < HotTtl + StaleGrace + LoadTimeout + PanelTtl

\* One unit more than the headroom is refused by the gate computeHeadroom names, or by one the vault runs
\* before it
GateOrder == [aggregate |-> 1, side |-> 2, skew |-> 3, liquidity |-> 4]
BindingRefuses ==
    LET i == [Inputs(pool, caps) EXCEPT !.maxPositionSize = 0]
    IN  \A side \in Sides : LET n == SideHeadroom(i, side) + 1
                           IN  /\ ~VaultAccepts(i, side, n)
                               /\ GateOrder[Reason(i, side, n)] <= GateOrder[Binding(i, side)]

\* The panel's advice is the vault's, as old as it says (services/capacity.ts, OrderPanel.tsx)
CapacityHonest == CapacityTypeOK /\ BlockedRightly /\ AgeBound /\ BindingRefuses
=============================================================================
