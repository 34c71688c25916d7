---------------------------- MODULE KeeperProofs ----------------------------
(***************************************************************************)
(* Proofs about the keeper's parts for every set of targets, every number  *)
(* of endpoints, retries and confirming reads, and every bound on faults.  *)
(***************************************************************************)
EXTENDS KeeperTx, Discovery, Keeper, Publisher, Duties, FiniteSetTheorems, TLAPS

-----------------------------------------------------------------------------
(* The scan: a strike is never counted without a read that saw it.          *)

CycleFields == {"pc", "todo", "orders", "full", "pushed", "cur", "trig", "closes", "snap"}

\* What a phase works on: isolated positions, then cross accounts
CycleOK ==
    /\ DOMAIN k = CycleFields
    /\ k.closes \in 0..MaxClosesPerCycle
    /\ k.snap \subseteq Targets /\ k.orders \subseteq Orders
    /\ k.pc \in {"liq", "fire"} => k.todo \subseteq Iso
    /\ k.pc \in {"cross", "crossfire"} => k.todo \subseteq Cross
    /\ k.pc \in {"adlwalk"} => k.todo \subseteq Targets

\* Strikes stay behind the reads of an isolated position, and what is fired at has all of them
StrikesEarned ==
    /\ strikes \in [Targets -> 0..(ConfirmReads - 1)]
    /\ reads \in [Targets -> 0..ConfirmReads]
    /\ \A t \in Iso : strikes[t] <= reads[t]
    /\ k.pc = "fire" => \A t \in k.cur : t \in Iso /\ (reads[t] >= ConfirmReads \/ LocallyBankrupt)
    /\ k.pc = "crossfire" => k.cur \subseteq Cross
    /\ k.pc = "execute" => k.cur \subseteq Orders

ScanInv == KeeperTypeOK /\ CycleOK /\ StrikesEarned

TwoReads == fired' # fired /\ fired'.for \in Iso => fired'.reads >= ConfirmReads \/ fired'.bankrupt

LEMMA ScanInitial == KeeperInit => ScanInv
<1> SUFFICES ASSUME NEW there \in Worlds, StartWith(there) PROVE ScanInv
  BY DEF KeeperInit
<1> USE ScanConstants DEF StartWith, Targets
<1>1. KeeperTypeOK
  BY DEF KeeperTypeOK, Idling
<1>2. CycleOK
  BY DEF CycleOK, CycleFields, Idling
<1>3. StrikesEarned
  BY DEF StrikesEarned, Idling
<1> QED
  BY <1>1, <1>2, <1>3 DEF ScanInv

\* Steps that leave the strikes, the reads, the price pushed last and the cycle alone
LEMMA MarketMovesScan ==
  ASSUME ScanInv, MarketMoves \/ Resolve \/ UNCHANGED keeperVars
  PROVE  ScanInv' /\ TwoReads
<1>1. UNCHANGED <<local, strikes, k, sweep, reads, fired>>
  BY DEF MarketMoves, MarketMove, OtherKeeperPushes, PoolDrains, PriceAges, FundingAccrues, Shortfall,
         GraceEnds, Resolve, keeperVars, memory, ghosts
<1>2. mark' \in Levels
  BY DEF MarketMoves, MarketMove, OtherKeeperPushes, PoolDrains, PriceAges, FundingAccrues, Shortfall,
         GraceEnds, Resolve, keeperVars, ScanInv, KeeperTypeOK
<1>3. pos' \in [Targets -> {"open", "grace", "gone"}]
  BY DEF MarketMoves, MarketMove, OtherKeeperPushes, PoolDrains, PriceAges, FundingAccrues, Shortfall,
         GraceEnds, Resolve, keeperVars, ScanInv, KeeperTypeOK
<1>4. ord' \in [Orders -> {"pending", "executed", "reconciled"}]
  BY DEF MarketMoves, MarketMove, OtherKeeperPushes, PoolDrains, PriceAges, FundingAccrues, Shortfall,
         GraceEnds, Resolve, keeperVars, ScanInv, KeeperTypeOK
<1>5. KeeperTypeOK'
  BY <1>1, <1>2, <1>3, <1>4 DEF ScanInv, KeeperTypeOK
<1>6. CycleOK' /\ StrikesEarned'
  BY <1>1 DEF ScanInv, CycleOK, StrikesEarned, LocallyBankrupt
<1> QED
  BY <1>1, <1>5, <1>6 DEF ScanInv, TwoReads

\* A cycle starts, and its snapshot forgets the targets that are gone
LEMMA CycleStarts ==
  ASSUME ScanInv, RunKeeperCycle \/ BuildSnapshot
  PROVE  ScanInv' /\ TwoReads
<1> USE ScanConstants DEF ScanInv
<1>1. CASE RunKeeperCycle
  <2>1. /\ local' \in Levels /\ k'.pc = "snap" /\ k'.closes = 0 /\ k'.snap = {} /\ k'.orders = {}
        /\ DOMAIN k' = CycleFields
    BY <1>1 DEF RunKeeperCycle, KeeperTypeOK, Idling, CycleFields
  <2>2. UNCHANGED <<mark, pos, ord, strikes, sweep, reads, fired>>
    BY <1>1 DEF RunKeeperCycle, marketState, ghosts
  <2>3. KeeperTypeOK'
    BY <2>1, <2>2 DEF KeeperTypeOK
  <2>4. CycleOK' /\ StrikesEarned'
    BY <2>1, <2>2 DEF CycleOK, StrikesEarned
  <2> QED
    BY <2>2, <2>3, <2>4 DEF TwoReads
<1>2. CASE BuildSnapshot
  <2>1. UNCHANGED <<mark, pos, ord, local, fired>>
    BY <1>2 DEF BuildSnapshot, marketState
  <2>2. /\ DOMAIN k' = CycleFields /\ k'.closes \in 0..MaxClosesPerCycle /\ k'.snap \subseteq Targets
        /\ k'.orders \subseteq Orders
        /\ (k'.pc = "liq" /\ k'.todo \subseteq Iso) \/ k'.pc = "sleep"
    <3>1. OpenTargets \subseteq Targets
      BY DEF OpenTargets
    <3>2. \/ k' = Idling
          \/ \E got \in SUBSET Targets, orders \in SUBSET Orders, full \in BOOLEAN :
               k' = [k EXCEPT !.pc = "liq", !.snap = got, !.todo = got \intersect Iso, !.full = full,
                              !.orders = orders]
      <4>1. \A skipped : OpenTargets \ {skipped} \in SUBSET Targets
        BY <3>1
      <4>2. {o \in Orders : ord[o] = "pending"} \in SUBSET Orders /\ (sweep = 0) \in BOOLEAN
        OBVIOUS
      <4> DEFINE scan(got, full) == [k EXCEPT !.pc = "liq", !.snap = got, !.todo = got \intersect Iso,
                                               !.full = full, !.orders = {o \in Orders : ord[o] = "pending"}]
      <4>3. k' = Idling \/ k' = scan(OpenTargets, sweep = 0) \/ \E x : k' = scan(OpenTargets \ {x}, FALSE)
        BY <1>2 DEF BuildSnapshot
      <4>4. CASE k' = scan(OpenTargets, sweep = 0)
        BY <3>1, <4>2, <4>4
      <4>5. ASSUME NEW x, k' = scan(OpenTargets \ {x}, FALSE)
            PROVE  \E got \in SUBSET Targets, orders \in SUBSET Orders, full \in BOOLEAN :
                     k' = [k EXCEPT !.pc = "liq", !.snap = got, !.todo = got \intersect Iso, !.full = full,
                                    !.orders = orders]
        BY <4>1, <4>2, <4>5
      <4> QED
        BY <4>3, <4>4, <4>5
    <3>3. CASE k' = Idling
      BY <3>3 DEF Idling, CycleFields
    <3>4. ASSUME NEW got \in SUBSET Targets, NEW orders \in SUBSET Orders, NEW full \in BOOLEAN,
                 k' = [k EXCEPT !.pc = "liq", !.snap = got, !.todo = got \intersect Iso, !.full = full,
                                !.orders = orders]
          PROVE  /\ DOMAIN k' = CycleFields /\ k'.closes \in 0..MaxClosesPerCycle /\ k'.snap \subseteq Targets
                 /\ k'.orders \subseteq Orders
                 /\ k'.pc = "liq" /\ k'.todo \subseteq Iso
      BY <3>4 DEF CycleOK, CycleFields
    <3> QED
      BY <3>2, <3>3, <3>4
  <2>3. sweep' \in 0..SweepEvery
    <3>1. sweep \in 0..SweepEvery
      BY DEF KeeperTypeOK
    <3>2. \/ sweep' = sweep
          \/ sweep' = IF sweep = 0 THEN SweepEvery - 1 ELSE sweep - 1
          \/ sweep' = IF sweep = 0 THEN 0 ELSE sweep - 1
      BY <1>2 DEF BuildSnapshot
    <3> QED
      BY <3>1, <3>2
  <2>4. \/ UNCHANGED <<strikes, reads>>
        \/ \E got : /\ strikes' = [t \in Targets |-> IF t \in got THEN strikes[t] ELSE 0]
                    /\ reads' = [t \in Targets |-> IF t \in got THEN reads[t] ELSE 0]
    BY <1>2 DEF BuildSnapshot
  <2>5. StrikesEarned'
    BY <2>2, <2>4 DEF StrikesEarned, Targets
  <2>6. KeeperTypeOK'
    BY <2>1, <2>2, <2>3, <2>5 DEF KeeperTypeOK, StrikesEarned
  <2>7. CycleOK'
    BY <2>2 DEF CycleOK
  <2> QED
    BY <2>1, <2>5, <2>6, <2>7 DEF TwoReads
<1> QED
  BY <1>1, <1>2

\* One target is read: the counter follows the reads, and fires on the last of them
LEMMA TargetRead ==
  ASSUME ScanInv, CheckLiquidation \/ CheckCrossLiquidation
  PROVE  ScanInv' /\ TwoReads
<1> USE ScanConstants DEF ScanInv
<1>1. UNCHANGED <<mark, pos, ord, local, sweep, fired>>
  BY DEF CheckLiquidation, CheckCrossLiquidation, marketState
<1>2. CASE CheckLiquidation
  <2>1. PICK t \in k.todo :
          \/ strikes' = OnHealthy(t) /\ k' = [k EXCEPT !.todo = @ \ {t}] /\ Saw(t, FALSE)
          \/ /\ Saw(t, TRUE) /\ strikes' = Strike(t)
             /\ k' = IF ConfirmStrike(t) THEN [k EXCEPT !.todo = @ \ {t}, !.pc = "fire", !.cur = {t}]
                     ELSE [k EXCEPT !.todo = @ \ {t}]
          \/ k' = [k EXCEPT !.todo = @ \ {t}] /\ UNCHANGED <<strikes, reads>>
    BY <1>2 DEF CheckLiquidation
  <2>2. t \in Iso /\ t \in Targets
    BY <1>2 DEF CheckLiquidation, CycleOK, Targets
  <2>3. CycleOK'
    BY <1>2, <2>1 DEF CheckLiquidation, CycleOK, CycleFields
  <2>4. StrikesEarned'
    <3>1. CASE strikes' = OnHealthy(t) /\ k' = [k EXCEPT !.todo = @ \ {t}] /\ Saw(t, FALSE)
      <4>1. strikes' = [strikes EXCEPT ![t] = 0] /\ reads' = [reads EXCEPT ![t] = 0]
        BY <3>1 DEF OnHealthy, ClearStrike, Saw
      <4>2. k'.pc = "liq"
        BY <1>2, <3>1 DEF CheckLiquidation, CycleOK, CycleFields
      <4> QED
        BY <2>2, <4>1, <4>2 DEF StrikesEarned
    <3>2. CASE /\ Saw(t, TRUE) /\ strikes' = Strike(t)
               /\ k' = IF ConfirmStrike(t) THEN [k EXCEPT !.todo = @ \ {t}, !.pc = "fire", !.cur = {t}]
                       ELSE [k EXCEPT !.todo = @ \ {t}]
      <4>1. /\ strikes' = [strikes EXCEPT ![t] = IF ConfirmStrike(t) THEN 0 ELSE @ + 1]
            /\ reads' = [reads EXCEPT ![t] = IF @ < ConfirmReads THEN @ + 1 ELSE @]
        BY <3>2 DEF Strike, Saw
      <4>2. CASE ConfirmStrike(t)
        <5>1. k'.pc = "fire" /\ k'.cur = {t}
          BY <3>2, <4>2 DEF CycleOK, CycleFields
        <5>2. reads'[t] >= ConfirmReads \/ LocallyBankrupt'
          BY <1>1, <2>2, <4>1, <4>2 DEF ConfirmStrike, LocallyBankrupt, StrikesEarned
        <5> QED
          BY <2>2, <4>1, <4>2, <5>1, <5>2 DEF StrikesEarned, Targets
      <4>3. CASE ~ConfirmStrike(t)
        <5>1. k'.pc = "liq"
          BY <1>2, <3>2, <4>3 DEF CycleOK, CycleFields, CheckLiquidation
        <5> QED
          BY <2>2, <4>1, <4>3, <5>1 DEF StrikesEarned, ConfirmStrike, Targets
      <4> QED
        BY <4>2, <4>3
    <3>3. CASE k' = [k EXCEPT !.todo = @ \ {t}] /\ UNCHANGED <<strikes, reads>>
      BY <1>2, <3>3 DEF CheckLiquidation, CycleOK, CycleFields, StrikesEarned
    <3> QED
      BY <2>1, <3>1, <3>2, <3>3
  <2>5. KeeperTypeOK'
    BY <1>1, <2>3, <2>4 DEF KeeperTypeOK, CycleOK, StrikesEarned
  <2> QED
    BY <1>1, <2>3, <2>4, <2>5 DEF TwoReads
<1>3. CASE CheckCrossLiquidation
  <2>1. PICK t \in k.todo :
          /\ \/ strikes' = OnHealthy(t)
             \/ strikes' = Strike(t)
             \/ UNCHANGED strikes
          /\ Saw(t, Liquidatable(t)) \/ UNCHANGED reads
          /\ \/ k' = [k EXCEPT !.todo = @ \ {t}]
             \/ k' = [k EXCEPT !.todo = @ \ {t}, !.pc = "crossfire", !.cur = {t}]
    BY <1>3 DEF CheckCrossLiquidation
  <2>2. t \in Cross /\ t \in Targets /\ t \notin Iso
    BY <1>3 DEF CheckCrossLiquidation, CycleOK, Targets
  <2>3. /\ DOMAIN k' = CycleFields /\ k'.closes = k.closes /\ k'.snap = k.snap /\ k'.todo = k.todo \ {t}
        /\ k'.orders = k.orders
    BY <2>1 DEF CycleOK, CycleFields
  <2>4. k'.pc = "cross" \/ (k'.pc = "crossfire" /\ k'.cur = {t})
    <3>1. k.pc = "cross"
      BY <1>3 DEF CheckCrossLiquidation
    <3>2. CASE k' = [k EXCEPT !.todo = @ \ {t}]
      BY <3>1, <3>2 DEF CycleOK, CycleFields
    <3>3. CASE k' = [k EXCEPT !.todo = @ \ {t}, !.pc = "crossfire", !.cur = {t}]
      BY <3>3 DEF CycleOK, CycleFields
    <3> QED
      BY <2>1, <3>2, <3>3
  <2>9. CycleOK'
    <3>1. k.todo \subseteq Cross
      BY <1>3 DEF CheckCrossLiquidation, CycleOK
    <3> QED
      BY <2>3, <2>4, <3>1 DEF CycleOK
  <2>5. strikes' \in [Targets -> 0..(ConfirmReads - 1)] /\ \A x \in Iso : strikes'[x] = strikes[x]
    <3>1. CASE strikes' = OnHealthy(t)
      BY <2>2, <3>1 DEF OnHealthy, ClearStrike, StrikesEarned, Targets
    <3>2. CASE strikes' = Strike(t)
      BY <2>2, <3>2 DEF Strike, ConfirmStrike, StrikesEarned, Targets
    <3> QED
      BY <2>1, <3>1, <3>2 DEF StrikesEarned
  <2>6. reads' \in [Targets -> 0..ConfirmReads] /\ \A x \in Iso : reads'[x] = reads[x]
    BY <2>1, <2>2 DEF Saw, StrikesEarned, Targets
  <2>7. StrikesEarned'
    BY <2>2, <2>4, <2>5, <2>6 DEF StrikesEarned
  <2>8. KeeperTypeOK'
    BY <1>1, <2>7, <2>9 DEF KeeperTypeOK, CycleOK, StrikesEarned
  <2> QED
    BY <1>1, <2>7, <2>8, <2>9 DEF TwoReads
<1> QED
  BY <1>2, <1>3

\* A liquidation is sent
LEMMA LiquidationSent ==
  ASSUME ScanInv, ExecuteLiquidation
  PROVE  ScanInv' /\ TwoReads
<1> USE DEF ScanInv
<1>1. UNCHANGED <<mark, ord, local, strikes, sweep, reads>>
  BY DEF ExecuteLiquidation, memory
<1>2. PICK t \in k.cur : /\ fired' = [for |-> t, reads |-> reads[t], bankrupt |-> LocallyBankrupt]
                         /\ \/ pos' = [pos EXCEPT ![t] = "gone"]
                            \/ pos' = [pos EXCEPT ![t] = "grace"]
                            \/ UNCHANGED pos
  BY DEF ExecuteLiquidation
<1>3. k' = [k EXCEPT !.pc = IF k.pc = "fire" THEN "liq" ELSE "cross", !.cur = {}]
  BY DEF ExecuteLiquidation
<1>4. k.pc \in {"fire", "crossfire"}
  BY DEF ExecuteLiquidation
<1>5. KeeperTypeOK'
  BY <1>1, <1>2, <1>3 DEF KeeperTypeOK, CycleOK, CycleFields
<1>6. CycleOK'
  BY <1>3, <1>4 DEF CycleOK, CycleFields
<1>7. k'.pc \in {"liq", "cross"}
  BY <1>3, <1>4 DEF CycleOK, CycleFields
<1>8. StrikesEarned'
  BY <1>1, <1>7 DEF StrikesEarned
<1>9. TwoReads
  <2>1. fired'.for = t /\ fired'.reads = reads[t] /\ fired'.bankrupt = LocallyBankrupt
    BY <1>2
  <2>2. CASE k.pc = "fire"
    BY <1>2, <2>1, <2>2 DEF TwoReads, StrikesEarned
  <2>3. CASE k.pc = "crossfire"
    <3>1. t \notin Iso
      BY <1>2, <2>3, ScanConstants DEF StrikesEarned
    <3> QED
      BY <2>1, <3>1 DEF TwoReads
  <2> QED
    BY <1>4, <2>2, <2>3
<1> QED
  BY <1>5, <1>6, <1>8, <1>9

\* The phases behind the liquidations: no strike and no read changes
LEMMA LaterPhases ==
  ASSUME ScanInv,
         UpdateTrailingStopPeaks \/ CheckOrder \/ ExecuteOrder \/ TrackTriggeredStuck \/ EndPhase
  PROVE  ScanInv' /\ TwoReads
<1> USE DEF ScanInv
<1>1. UNCHANGED <<mark, pos, local, strikes, sweep, reads, fired>>
  BY DEF UpdateTrailingStopPeaks, CheckOrder, ExecuteOrder, TrackTriggeredStuck, EndPhase, marketState,
         memory, ghosts
<1>2. ord' \in [Orders -> {"pending", "executed", "reconciled"}]
  <2>1. ord \in [Orders -> {"pending", "executed", "reconciled"}]
    BY DEF KeeperTypeOK
  <2>2. CASE ExecuteOrder
    <3>1. \A o \in Orders : [ord EXCEPT ![o] = "reconciled"] \in [Orders -> {"pending", "executed", "reconciled"}]
                         /\ [ord EXCEPT ![o] = "executed"] \in [Orders -> {"pending", "executed", "reconciled"}]
      BY <2>1
    <3>2. k.cur \subseteq Orders
      BY <2>2 DEF ExecuteOrder, StrikesEarned
    <3> QED
      BY <2>1, <2>2, <3>1, <3>2 DEF ExecuteOrder, ReconcileFactoryOrder
  <2>3. CASE UpdateTrailingStopPeaks \/ CheckOrder \/ TrackTriggeredStuck \/ EndPhase
    BY <2>1, <2>3 DEF UpdateTrailingStopPeaks, CheckOrder, TrackTriggeredStuck, EndPhase, marketState
  <2> QED
    BY <2>2, <2>3
<1>3. /\ DOMAIN k' = CycleFields /\ k'.closes \in 0..MaxClosesPerCycle /\ k'.snap \subseteq Targets
      /\ k'.orders \subseteq Orders
      /\ \/ k'.pc \in {"peaks", "orders", "adl", "sleep"}
         \/ k'.pc = "execute" /\ k'.cur \subseteq Orders
         \/ k'.pc = "cross" /\ k'.todo \subseteq Cross
  <2>1. CASE UpdateTrailingStopPeaks
    BY <2>1 DEF UpdateTrailingStopPeaks, CycleOK, CycleFields
  <2>2. CASE CheckOrder
    <3> DEFINE rest(o) == [k EXCEPT !.orders = @ \ {o}]
    <3>1. PICK o \in k.orders :
            \/ k' = [rest(o) EXCEPT !.pc = "execute", !.cur = {o}, !.trig = @ \union {o}]
            \/ k' = rest(o)
      BY <2>2 DEF CheckOrder
    <3>2. k.pc = "orders"
      BY <2>2 DEF CheckOrder
    <3>3. CASE k' = [rest(o) EXCEPT !.pc = "execute", !.cur = {o}, !.trig = @ \union {o}]
      BY <3>1, <3>3 DEF CycleOK, CycleFields
    <3>4. CASE k' = rest(o)
      BY <3>2, <3>4 DEF CycleOK, CycleFields
    <3> QED
      BY <3>1, <3>3, <3>4
  <2>3. CASE ExecuteOrder
    BY <2>3 DEF ExecuteOrder, CycleOK, CycleFields
  <2>4. CASE TrackTriggeredStuck
    BY <2>4 DEF TrackTriggeredStuck, CycleOK, CycleFields
  <2>5. CASE EndPhase
    <3>1. CASE k' = [k EXCEPT !.pc = "cross", !.todo = k.snap \intersect Cross]
      BY <3>1 DEF CycleOK, CycleFields
    <3>2. CASE k' = [k EXCEPT !.pc = "peaks"]
      BY <3>2 DEF CycleOK, CycleFields
    <3>3. CASE k' = Idling
      BY <3>3, ScanConstants DEF CycleFields, Idling
    <3> QED
      BY <2>5, <3>1, <3>2, <3>3 DEF EndPhase
  <2> QED
    BY <2>1, <2>2, <2>3, <2>4, <2>5
<1>4. KeeperTypeOK'
  BY <1>1, <1>2, <1>3 DEF KeeperTypeOK
<1>5. CycleOK' /\ StrikesEarned'
  BY <1>1, <1>3 DEF CycleOK, StrikesEarned
<1> QED
  BY <1>1, <1>4, <1>5 DEF TwoReads

\* The walk of the winners closes at most its bound
LEMMA AdlPhase ==
  ASSUME ScanInv, ProbeAdl \/ AdlClose
  PROVE  ScanInv' /\ TwoReads
<1> USE DEF ScanInv
<1>1. UNCHANGED <<mark, ord, local, strikes, sweep, reads, fired>>
  BY DEF ProbeAdl, AdlClose, ghosts
<1>2. /\ DOMAIN k' = CycleFields /\ k'.closes \in 0..MaxClosesPerCycle /\ k'.snap \subseteq Targets
      /\ k'.orders \subseteq Orders
      /\ \/ k'.pc = "end"
         \/ k'.pc = "adlwalk" /\ k'.todo \subseteq Targets
  <2>1. CASE ProbeAdl
    BY <2>1 DEF ProbeAdl, CycleOK, CycleFields
  <2>2. CASE AdlClose
    <3>1. k.pc = "adlwalk" /\ k.todo \subseteq Targets
      BY <2>2 DEF AdlClose, CycleOK
    <3>2. \/ k' = [k EXCEPT !.pc = "end"]
          \/ \E t : k' = [k EXCEPT !.todo = @ \ {t}]
          \/ k.closes < MaxClosesPerCycle /\ \E t : k' = [[k EXCEPT !.todo = @ \ {t}] EXCEPT !.closes = @ + 1]
      <4> DEFINE left == IF local >= WinAt THEN k.todo ELSE {}
      <4>1. ASSUME NEW t \in left, left # {}, k.closes < MaxClosesPerCycle,
                   \/ k' = [k EXCEPT !.pc = "end"]
                   \/ k' = [k EXCEPT !.todo = @ \ {t}]
                   \/ k' = [[k EXCEPT !.todo = @ \ {t}] EXCEPT !.closes = @ + 1]
            PROVE  \/ k' = [k EXCEPT !.pc = "end"]
                   \/ \E x : k' = [k EXCEPT !.todo = @ \ {x}]
                   \/ k.closes < MaxClosesPerCycle /\ \E x : k' = [[k EXCEPT !.todo = @ \ {x}] EXCEPT !.closes = @ + 1]
        BY <4>1
      <4>2. \/ k' = [k EXCEPT !.pc = "end"]
            \/ /\ left # {} /\ k.closes < MaxClosesPerCycle
               /\ \E t \in left : \/ k' = [k EXCEPT !.pc = "end"]
                                  \/ k' = [k EXCEPT !.todo = @ \ {t}]
                                  \/ k' = [[k EXCEPT !.todo = @ \ {t}] EXCEPT !.closes = @ + 1]
        BY <2>2 DEF AdlClose
      <4> QED
        BY <4>1, <4>2
    <3>3. CASE k' = [k EXCEPT !.pc = "end"]
      BY <3>3 DEF CycleOK, CycleFields
    <3>4. ASSUME NEW t, k' = [k EXCEPT !.todo = @ \ {t}]
          PROVE  /\ DOMAIN k' = CycleFields /\ k'.closes \in 0..MaxClosesPerCycle /\ k'.snap \subseteq Targets
                 /\ k'.orders \subseteq Orders
                 /\ k'.pc = "adlwalk" /\ k'.todo \subseteq Targets
      BY <3>1, <3>4 DEF CycleOK, CycleFields
    <3>5. ASSUME NEW t, k.closes < MaxClosesPerCycle, k' = [[k EXCEPT !.todo = @ \ {t}] EXCEPT !.closes = @ + 1]
          PROVE  /\ DOMAIN k' = CycleFields /\ k'.closes \in 0..MaxClosesPerCycle /\ k'.snap \subseteq Targets
                 /\ k'.orders \subseteq Orders
                 /\ k'.pc = "adlwalk" /\ k'.todo \subseteq Targets
      BY <3>1, <3>5, ScanConstants DEF CycleOK, CycleFields
    <3> QED
      BY <3>2, <3>3, <3>4, <3>5
  <2> QED
    BY <2>1, <2>2
<1>3. pos' \in [Targets -> {"open", "grace", "gone"}]
  <2>1. pos \in [Targets -> {"open", "grace", "gone"}]
    BY DEF KeeperTypeOK
  <2>2. pos' = pos \/ \E t : pos' = [pos EXCEPT ![t] = "gone"]
    BY DEF ProbeAdl, AdlClose
  <2> QED
    BY <2>1, <2>2
<1>4. KeeperTypeOK'
  BY <1>1, <1>2, <1>3 DEF KeeperTypeOK
<1>5. CycleOK' /\ StrikesEarned'
  BY <1>1, <1>2 DEF CycleOK, StrikesEarned
<1> QED
  BY <1>1, <1>4, <1>5 DEF TwoReads

\* A restart forgets the strikes together with the reads
LEMMA RestartForgets ==
  ASSUME ScanInv, RestartScan
  PROVE  ScanInv' /\ TwoReads
<1> USE ScanConstants DEF ScanInv
<1>1. UNCHANGED <<mark, pos, ord, local, fired>> /\ k' = Idling /\ sweep' = 0
  BY DEF RestartScan, marketState
<1>2. strikes' = [t \in Targets |-> 0] /\ reads' = [t \in Targets |-> 0]
  BY DEF RestartScan
<1>3. KeeperTypeOK'
  BY <1>1, <1>2 DEF KeeperTypeOK, Idling
<1>4. CycleOK' /\ StrikesEarned'
  BY <1>1, <1>2 DEF CycleOK, StrikesEarned, Idling, CycleFields, Targets
<1> QED
  BY <1>1, <1>3, <1>4 DEF TwoReads

\* L0-9 of the keeper for every number of confirming reads: an isolated position is liquidated
\* after that many liquidatable reads with no healthy one between, or because it is bankrupt
THEOREM KeeperTwoStrike == KeeperInit /\ [][KeeperNext]_keeperVars => TwoStrike
<1>1. ScanInv /\ [KeeperNext]_keeperVars => ScanInv' /\ TwoReads
  BY MarketMovesScan, CycleStarts, TargetRead, LiquidationSent, LaterPhases, AdlPhase, RestartForgets
     DEF KeeperNext, KeeperStep
<1>2. ScanInv => KeeperTypeOK
  BY DEF ScanInv
<1>3. ScanInv /\ [KeeperNext]_keeperVars => [TwoReads]_keeperVars
  BY <1>1
<1> QED
  BY ScanInitial, <1>1, <1>2, <1>3, PTL DEF TwoStrike, TwoReads

-----------------------------------------------------------------------------
(* One write: what its caller is told is what the chain did.                *)

WriteFields == {"pc", "kind", "attempt", "sends", "polls", "tx", "seq", "doubt", "tried", "fee", "res"}
WritePhases == {"rest", "account", "sim", "send", "poll", "recheck"}
TxRows == [seq : Nat, st : {"pool", "ok", "failed", "expired"}, for : Kinds \union {"bump"}, fee : BaseFee..MaxFee]

\* The write in progress; an outcome is known only at rest, and a write in doubt goes on only
\* when it has a re-check
WriteOK ==
    /\ DOMAIN w = WriteFields
    /\ w.pc \in WritePhases /\ w.kind \in Kinds /\ w.seq \in Nat /\ w.tx \in Nat /\ w.doubt \in BOOLEAN
    /\ w.attempt \in 1..MaxRetries /\ w.sends \in 0..(SendAttempts - 1) /\ w.polls \in 0..PollAttempts
    /\ w.tried \in 1..Endpoints /\ w.fee \in BaseFee..MaxFee
    /\ w.pc # "rest" => w.res = "none"
    /\ w.pc \in {"account", "sim", "send", "poll"} /\ w.doubt => Rechecked(w.kind)

\* The chain: a write that was accepted had its effect
ChainOK ==
    /\ seqNo \in Nat /\ hits \in Nat /\ server \in 0..(Endpoints - 1)
    /\ goal \in {"due", "grace", "gone"}
    /\ txs \in Seq(TxRows)
    /\ \A i \in DOMAIN txs : txs[i].st = "ok" /\ txs[i].for # "bump" => hits > 0

\* The write polls its own transaction
PollsItsOwn ==
    /\ w.pc \in {"poll", "recheck"} => w.tx \in DOMAIN txs /\ txs[w.tx].for # "bump"
    /\ SuccessIsReal

TxInv == WriteOK /\ ChainOK /\ PollsItsOwn
DoubtRechecked == w.doubt /\ w.pc # "rest" /\ Len(txs') > Len(txs) => Rechecked(w.kind)

LEMMA TxInitial == TxInit => TxInv
<1> SUFFICES ASSUME TxInit PROVE TxInv
  OBVIOUS
<1>1. WriteOK
  BY TxConstants DEF TxInit, WriteOK, Resting, WriteFields, WritePhases, Kinds
<1>2. ChainOK
  BY TxConstants DEF TxInit, ChainOK
<1>3. PollsItsOwn
  BY DEF TxInit, PollsItsOwn, SuccessIsReal, Resting
<1> QED
  BY <1>1, <1>2, <1>3 DEF TxInv

LEMMA TxTyped == TxInv => TxTypeOK
<1> SUFFICES ASSUME TxInv PROVE TxTypeOK
  OBVIOUS
<1>1. \A i \in DOMAIN txs : txs[i] \in TxRows
  BY DEF TxInv, ChainOK
<1>2. \A i \in DOMAIN txs : txs[i].st \in {"pool", "ok", "failed", "expired"} /\ txs[i].fee \in BaseFee..MaxFee
  BY <1>1 DEF TxRows
<1> QED
  BY <1>2 DEF TxInv, WriteOK, ChainOK, TxTypeOK, WritePhases

\* What the control of a write does to its record
LEMMA NextAttemptKeeps ==
  ASSUME WriteOK, w.pc # "rest", NextAttempt, w.doubt => Rechecked(w.kind)
  PROVE  WriteOK' /\ w'.pc \in {"account", "rest"} /\ w'.res # "success"
<1> DEFINE up == [w EXCEPT !.pc = "account", !.attempt = @ + 1, !.sends = 0, !.polls = 0, !.tried = 1,
                           !.fee = InclusionFee]
           down == [w EXCEPT !.pc = "rest", !.res = "failed"]
<1>1. InclusionFee \in BaseFee..MaxFee
  BY TxConstants DEF WriteOK, InclusionFee
<1>2. CASE w.attempt < MaxRetries
  <2>1. w' = up
    BY <1>2 DEF NextAttempt
  <2> QED
    BY <1>1, <1>2, <2>1, TxConstants DEF WriteOK, WriteFields, WritePhases, Kinds, Rechecked
<1>3. CASE ~(w.attempt < MaxRetries)
  <2>1. w' = down
    BY <1>3 DEF NextAttempt, Finish
  <2> QED
    BY <2>1 DEF WriteOK, WriteFields, WritePhases, Kinds, Rechecked
<1> QED
  BY <1>2, <1>3

\* A transaction joins the pool
LEMMA Submits ==
  ASSUME ChainOK, NEW row \in TxRows, row.st = "pool", txs' = Append(txs, row),
         UNCHANGED <<seqNo, hits, goal>>, server' \in 0..(Endpoints - 1)
  PROVE  /\ ChainOK' /\ Len(txs) + 1 \in DOMAIN txs' /\ txs'[Len(txs) + 1] = row
         /\ \A i \in DOMAIN txs : i \in DOMAIN txs' /\ txs'[i] = txs[i]
<1>1. txs \in Seq(TxRows) /\ Len(txs) \in Nat /\ DOMAIN txs = 1..Len(txs)
  BY DEF ChainOK
<1>2. txs' \in Seq(TxRows) /\ DOMAIN txs' = 1..(Len(txs) + 1)
  BY <1>1
<1>3. txs'[Len(txs) + 1] = row /\ \A i \in DOMAIN txs : txs'[i] = txs[i]
  BY <1>1
<1>4. \A i \in DOMAIN txs' : txs'[i].st = "ok" /\ txs'[i].for # "bump" => hits' > 0
  <2> SUFFICES ASSUME NEW i \in DOMAIN txs', txs'[i].st = "ok", txs'[i].for # "bump" PROVE hits' > 0
    OBVIOUS
  <2>1. i \in DOMAIN txs
    BY <1>1, <1>2, <1>3
  <2> QED
    BY <1>3, <2>1 DEF ChainOK
<1> QED
  BY <1>1, <1>2, <1>3, <1>4 DEF ChainOK

\* The chain decides about a transaction in the pool
LEMMA Settles ==
  ASSUME TxInv, NEW i \in DOMAIN txs, Land(i) \/ Expire(i)
  PROVE  TxInv' /\ DoubtRechecked
<1> USE DEF TxInv
<1>1. txs \in Seq(TxRows) /\ txs[i] \in TxRows /\ DOMAIN txs = 1..Len(txs)
  BY DEF ChainOK
<1>2. txs[i].st = "pool" /\ UNCHANGED <<w, server>>
  BY DEF Land, Expire, Pooled
<1>3. PICK st \in {"ok", "failed", "expired"} :
        /\ txs' = [txs EXCEPT ![i].st = st]
        /\ hits' = hits \/ hits' = hits + 1
        /\ st = "ok" /\ txs[i].for # "bump" => hits' > 0
        /\ goal' \in {"due", "grace", "gone"} /\ seqNo' \in Nat
  <2>1. CASE Expire(i)
    BY <2>1 DEF Expire, ChainOK
  <2>2. CASE Land(i)
    <3> DEFINE works == txs[i].for # "bump" /\ goal = "due"
               st == IF txs[i].for = "bump" \/ works THEN "ok" ELSE "failed"
    <3>1. /\ txs' = [txs EXCEPT ![i].st = st] /\ hits' = IF works THEN hits + 1 ELSE hits
          /\ seqNo' = seqNo + 1
          /\ goal' = (IF works THEN "gone" ELSE goal) \/ goal' = "grace"
      BY <2>2 DEF Land
    <3>2. seqNo' \in Nat /\ goal' \in {"due", "grace", "gone"}
      BY <3>1 DEF ChainOK
    <3>3. hits' = hits \/ hits' = hits + 1
      BY <3>1
    <3>4. st = "ok" /\ txs[i].for # "bump" => hits' > 0
      BY <3>1 DEF ChainOK
    <3>5. st \in {"ok", "failed", "expired"}
      OBVIOUS
    <3> HIDE DEF st
    <3> QED
      BY <3>1, <3>2, <3>3, <3>4, <3>5
  <2> QED
    BY <2>1, <2>2
<1>4. [txs[i] EXCEPT !.st = st] \in TxRows
  BY <1>1 DEF TxRows
<1>5. txs' \in Seq(TxRows) /\ DOMAIN txs' = DOMAIN txs /\ Len(txs') = Len(txs)
  BY <1>1, <1>3, <1>4
<1>6. txs'[i].for = txs[i].for /\ txs'[i].st = st /\ \A j \in DOMAIN txs : j # i => txs'[j] = txs[j]
  BY <1>1, <1>3 DEF TxRows
<1>7. ChainOK'
  <2>1. hits' \in Nat /\ (hits > 0 => hits' > 0)
    BY <1>3 DEF ChainOK
  <2>2. ASSUME NEW j \in DOMAIN txs', txs'[j].st = "ok", txs'[j].for # "bump"
        PROVE  hits' > 0
    <3>1. CASE j = i
      BY <1>3, <1>6, <2>2, <3>1
    <3>2. CASE j # i
      BY <1>5, <1>6, <2>1, <2>2, <3>2 DEF ChainOK
    <3> QED
      BY <3>1, <3>2
  <2> QED
    BY <1>2, <1>3, <1>5, <2>1, <2>2 DEF ChainOK
<1>8. PollsItsOwn'
  <2>1. w.pc \in {"poll", "recheck"} => w.tx \in DOMAIN txs' /\ txs'[w.tx].for # "bump"
    BY <1>5, <1>6 DEF PollsItsOwn
  <2>2. w.res = "success" => w.tx \in DOMAIN txs' /\ txs'[w.tx].st = "ok" /\ hits' > 0
    BY <1>2, <1>3, <1>5, <1>6 DEF PollsItsOwn, SuccessIsReal, ChainOK
  <2> QED
    BY <1>2, <2>1, <2>2 DEF PollsItsOwn, SuccessIsReal
<1>9. WriteOK'
  BY <1>2 DEF WriteOK
<1>10. DoubtRechecked
  BY <1>5 DEF DoubtRechecked, ChainOK
<1> QED
  BY <1>7, <1>8, <1>9, <1>10

\* Steps of the write that leave the transactions alone
LEMMA ChainRests ==
  ASSUME TxInv, UNCHANGED <<seqNo, txs, hits>>, server' \in 0..(Endpoints - 1),
         goal' \in {"due", "grace", "gone"}, WriteOK',
         w'.pc \in {"poll", "recheck"} => w'.tx = w.tx /\ w.pc \in {"poll", "recheck"},
         w'.res = "success" => w'.tx \in DOMAIN txs /\ txs[w'.tx].st = "ok" /\ hits > 0
  PROVE  TxInv' /\ DoubtRechecked
<1>1. ChainOK'
  BY DEF TxInv, ChainOK
<1>2. PollsItsOwn'
  BY DEF TxInv, PollsItsOwn, SuccessIsReal
<1>3. DoubtRechecked
  BY DEF TxInv, ChainOK, DoubtRechecked
<1> QED
  BY <1>1, <1>2, <1>3 DEF TxInv

\* The write ends without success
LEMMA GivesUp ==
  ASSUME WriteOK, NEW res \in {"failed", "indeterminate", "success"}, Finish(res)
  PROVE  WriteOK' /\ w'.pc = "rest" /\ w'.res = res /\ w'.tx = w.tx
BY DEF Finish, WriteOK, WriteFields, WritePhases

LEMMA QuietSteps ==
  ASSUME TxInv, OtherActs \/ GetAccount \/ Simulate \/ Recheck \/ RecheckFails
                \/ (\E kind \in Kinds : StartWrite(kind)) \/ UNCHANGED txVars
  PROVE  TxInv' /\ DoubtRechecked
<1> USE DEF TxInv
<1>1. UNCHANGED <<seqNo, txs, hits, server>> /\ goal' \in {"due", "grace", "gone"}
  BY DEF OtherActs, GetAccount, Simulate, Recheck, RecheckFails, StartWrite, txVars, ChainOK
<1>2. server' \in 0..(Endpoints - 1)
  BY <1>1 DEF ChainOK
<1>3. w.res = "success" => w.tx \in DOMAIN txs /\ txs[w.tx].st = "ok" /\ hits > 0
  BY DEF PollsItsOwn, SuccessIsReal
<1>4. CASE OtherActs \/ UNCHANGED txVars
  <2>1. w' = w
    BY <1>4 DEF OtherActs, txVars
  <2>2. WriteOK'
    BY <2>1 DEF WriteOK
  <2> QED
    BY <1>1, <1>2, <1>3, <2>1, <2>2, ChainRests
<1>5. CASE GetAccount
  <2>1. w' = [w EXCEPT !.pc = "sim", !.seq = seqNo + 1, !.tried = 1] /\ w.pc = "account"
    BY <1>5 DEF GetAccount
  <2>2. WriteOK' /\ w'.pc = "sim" /\ w'.res = "none"
    <3>1. seqNo + 1 \in Nat /\ 1 \in 1..Endpoints
      BY TxConstants DEF ChainOK
    <3> QED
      BY <2>1, <3>1 DEF WriteOK, WriteFields, WritePhases
  <2> QED
    BY <1>1, <1>2, <2>2, ChainRests
<1>6. CASE Simulate
  <2>1. WriteOK' /\ w'.pc \in {"send", "rest"} /\ w'.res # "success"
    <3>1. CASE Finish("failed")
      BY <3>1, GivesUp
    <3>2. CASE w' = [w EXCEPT !.pc = "send", !.tried = 1]
      BY <1>6, <3>2, TxConstants DEF Simulate, WriteOK, WriteFields, WritePhases
    <3> QED
      BY <1>6, <3>1, <3>2 DEF Simulate
  <2> QED
    BY <1>1, <1>2, <2>1, ChainRests
<1>7. CASE Recheck \/ RecheckFails
  <2>1. w.pc = "recheck"
    BY <1>7 DEF Recheck, RecheckFails
  <2>2. CASE Finish("indeterminate")
    <3>1. WriteOK' /\ w'.pc = "rest" /\ w'.res = "indeterminate"
      BY <2>2, GivesUp
    <3> QED
      BY <1>1, <1>2, <3>1, ChainRests
  <2>3. CASE StillNeeded /\ NextAttempt
    <3>1. WriteOK' /\ w'.pc \in {"account", "rest"} /\ w'.res # "success"
      BY <2>1, <2>3, NextAttemptKeeps DEF StillNeeded
    <3> QED
      BY <1>1, <1>2, <3>1, ChainRests
  <2> QED
    BY <1>7, <2>2, <2>3 DEF Recheck, RecheckFails
<1>8. ASSUME NEW kind \in Kinds, StartWrite(kind) PROVE TxInv' /\ DoubtRechecked
  <2>1. w' = [Resting EXCEPT !.pc = "account", !.kind = kind]
    BY <1>8 DEF StartWrite
  <2>2. WriteOK' /\ w'.pc = "account" /\ w'.res = "none"
    BY <2>1, TxConstants DEF WriteOK, WriteFields, WritePhases, Resting
  <2> QED
    BY <1>1, <1>2, <2>2, ChainRests
<1> QED
  BY <1>4, <1>5, <1>6, <1>7, <1>8

\* Polling ends with what the chain says, or in doubt
LEMMA PollStep ==
  ASSUME TxInv, PollTransaction
  PROVE  TxInv' /\ DoubtRechecked
<1> USE DEF TxInv
<1>1. w.pc = "poll" /\ UNCHANGED <<seqNo, txs, goal, hits, server>>
  BY DEF PollTransaction
<1>2. server' \in 0..(Endpoints - 1) /\ goal' \in {"due", "grace", "gone"}
  BY <1>1 DEF ChainOK
<1>3. w.tx \in DOMAIN txs /\ txs[w.tx].for # "bump" /\ w.res = "none"
  BY <1>1 DEF PollsItsOwn, WriteOK
<1>4. CASE txs[w.tx].st = "ok" /\ Finish("success")
  <2>1. WriteOK' /\ w'.pc = "rest" /\ w'.tx = w.tx
    BY <1>4, GivesUp
  <2>2. hits > 0
    BY <1>3, <1>4 DEF ChainOK
  <2> QED
    BY <1>1, <1>2, <1>3, <1>4, <2>1, <2>2, ChainRests
<1>5. CASE NextAttempt
  <2>1. WriteOK' /\ w'.pc \in {"account", "rest"} /\ w'.res # "success"
    BY <1>1, <1>5, NextAttemptKeeps DEF WriteOK
  <2> QED
    BY <1>1, <1>2, <2>1, ChainRests
<1>6. CASE IF w.polls < PollAttempts THEN w' = [w EXCEPT !.polls = @ + 1, !.tried = 1]
           ELSE w' = [w EXCEPT !.pc = "recheck", !.doubt = TRUE]
  <2>1. CASE w.polls < PollAttempts
    <3>1. w' = [w EXCEPT !.polls = @ + 1, !.tried = 1]
      BY <1>6, <2>1
    <3>2. w.polls + 1 \in 0..PollAttempts /\ 1 \in 1..Endpoints
      BY <2>1, TxConstants DEF WriteOK
    <3>3. WriteOK' /\ w'.tx = w.tx /\ w'.res = "none"
      BY <1>1, <1>3, <3>1, <3>2 DEF WriteOK, WriteFields, WritePhases
    <3> QED
      BY <1>1, <1>2, <3>3, ChainRests
  <2>2. CASE ~(w.polls < PollAttempts)
    <3>1. w' = [w EXCEPT !.pc = "recheck", !.doubt = TRUE]
      BY <1>6, <2>2
    <3>2. WriteOK' /\ w'.tx = w.tx /\ w'.res = "none"
      BY <1>1, <1>3, <3>1 DEF WriteOK, WriteFields, WritePhases
    <3> QED
      BY <1>1, <1>2, <3>2, ChainRests
  <2> QED
    BY <2>1, <2>2
<1> QED
  BY <1>4, <1>5, <1>6 DEF PollTransaction, Confirmed

\* A send: pooled, put off, or refused
LEMMA SendStep ==
  ASSUME TxInv, Send
  PROVE  TxInv' /\ DoubtRechecked
<1> USE DEF TxInv
<1>1. w.pc = "send" /\ UNCHANGED <<seqNo, goal, hits, server>> /\ w.res = "none"
  BY DEF Send, WriteOK
<1>2. server' \in 0..(Endpoints - 1) /\ goal' \in {"due", "grace", "gone"}
  BY <1>1 DEF ChainOK
<1>3. w.doubt => Rechecked(w.kind)
  BY <1>1 DEF WriteOK
<1> DEFINE row == [seq |-> w.seq, st |-> "pool", for |-> w.kind, fee |-> w.fee]
<1>4. CASE txs' = Append(txs, row) /\ w' = [w EXCEPT !.pc = "poll", !.tx = Len(txs) + 1, !.tried = 1]
  <2>1. row \in TxRows /\ row.st = "pool" /\ row.for # "bump"
    BY DEF WriteOK, TxRows, Kinds
  <2> HIDE DEF row
  <2>2. ChainOK' /\ Len(txs) + 1 \in DOMAIN txs' /\ txs'[Len(txs) + 1] = row
    BY <1>1, <1>2, <1>4, <2>1, Submits
  <2>3. Len(txs) \in Nat
    BY DEF ChainOK
  <2>4. WriteOK' /\ w'.tx = Len(txs) + 1 /\ w'.res = "none"
    BY <1>1, <1>4, <2>3, TxConstants DEF WriteOK, WriteFields, WritePhases
  <2>5. PollsItsOwn'
    BY <2>1, <2>2, <2>4 DEF PollsItsOwn, SuccessIsReal
  <2> QED
    BY <1>3, <2>2, <2>4, <2>5 DEF DoubtRechecked
<1>5. CASE UNCHANGED txs /\ SendsCounted < SendAttempts
           /\ w' = [w EXCEPT !.pc = "account", !.sends = SendsCounted, !.tried = 1]
  <2>1. WriteOK' /\ w'.pc = "account" /\ w'.res = "none"
    BY <1>1, <1>5, TxConstants DEF WriteOK, WriteFields, WritePhases, SendsCounted
  <2> QED
    BY <1>1, <1>2, <1>5, <2>1, ChainRests
<1>6. CASE UNCHANGED txs /\ NextAttempt
  <2>1. WriteOK' /\ w'.pc \in {"account", "rest"} /\ w'.res # "success"
    BY <1>1, <1>3, <1>6, NextAttemptKeeps
  <2> QED
    BY <1>1, <1>2, <1>6, <2>1, ChainRests
<1> QED
  BY <1>4, <1>5, <1>6 DEF Send

\* A call that fails in transport may still have been received, and the endpoint rotates
LEMMA TransportFails ==
  ASSUME TxInv, RpcFails
  PROVE  TxInv' /\ DoubtRechecked
<1> USE DEF TxInv
<1>1. w.pc \in {"account", "sim", "send", "poll"} /\ UNCHANGED <<seqNo, goal, hits>> /\ w.res = "none"
  BY DEF RpcFails, WriteOK
<1>2. w.doubt => Rechecked(w.kind)
  BY <1>1 DEF WriteOK
<1>3. server' \in 0..(Endpoints - 1)
  <2>1. Endpoints \in Nat \ {0} /\ server \in 0..(Endpoints - 1)
    BY TxConstants DEF ChainOK
  <2>2. server' = server \/ server' = (server + 1) % Endpoints
    BY DEF RpcFails
  <2> QED
    BY <2>1, <2>2
<1>4. WriteOK' /\ w'.res # "success" /\ (w'.pc \in {"poll", "recheck"} => w'.tx = w.tx /\ w.pc = "poll")
  <2>1. CASE NextAttempt
    BY <1>1, <1>2, <2>1, NextAttemptKeeps
  <2>2. CASE w.tried < Endpoints /\ w' = [w EXCEPT !.tried = @ + 1]
    BY <1>1, <2>2, TxConstants DEF WriteOK, WriteFields, WritePhases
  <2> QED
    BY <2>1, <2>2 DEF RpcFails
<1> DEFINE row == [seq |-> w.seq, st |-> "pool", for |-> w.kind, fee |-> w.fee]
<1>5. ChainOK' /\ \A i \in DOMAIN txs : i \in DOMAIN txs' /\ txs'[i] = txs[i]
  <2>1. CASE txs' = Append(txs, row)
    <3>1. row \in TxRows /\ row.st = "pool"
      BY DEF WriteOK, TxRows, Kinds
    <3> HIDE DEF row
    <3> QED
      BY <1>1, <1>3, <2>1, <3>1, Submits
  <2>2. CASE UNCHANGED txs
    BY <1>1, <1>3, <2>2 DEF ChainOK
  <2> QED
    BY <2>1, <2>2 DEF RpcFails
<1>6. PollsItsOwn'
  BY <1>4, <1>5 DEF PollsItsOwn, SuccessIsReal
<1> QED
  BY <1>2, <1>4, <1>5, <1>6 DEF DoubtRechecked

\* A TTL bump is sent between two writes
LEMMA BumpStep ==
  ASSUME TxInv, MaybeBumpTtls
  PROVE  TxInv' /\ DoubtRechecked
<1> USE DEF TxInv
<1>1. w.pc = "rest" /\ UNCHANGED <<seqNo, goal, hits, w, server>>
  BY DEF MaybeBumpTtls
<1>2. server' \in 0..(Endpoints - 1)
  BY <1>1 DEF ChainOK
<1> DEFINE row == [seq |-> seqNo + 1, st |-> "pool", for |-> "bump", fee |-> BaseFee]
<1>3. ChainOK' /\ \A i \in DOMAIN txs : i \in DOMAIN txs' /\ txs'[i] = txs[i]
  <2>1. CASE txs' = Append(txs, row)
    <3>1. row \in TxRows /\ row.st = "pool"
      BY TxConstants DEF ChainOK, TxRows
    <3> HIDE DEF row
    <3> QED
      BY <1>1, <1>2, <2>1, <3>1, Submits
  <2>2. CASE UNCHANGED txs
    BY <1>1, <1>2, <2>2 DEF ChainOK
  <2> QED
    BY <2>1, <2>2 DEF MaybeBumpTtls
<1>4. WriteOK'
  BY <1>1 DEF WriteOK
<1>5. PollsItsOwn'
  BY <1>1, <1>3 DEF PollsItsOwn, SuccessIsReal
<1> QED
  BY <1>1, <1>3, <1>4, <1>5 DEF DoubtRechecked

\* For every number of endpoints, retries, sends and polls: success is reported only for a
\* transaction that landed and acted, and a write in doubt is sent again only after its re-check
THEOREM KeeperWritesHonest == TxInit /\ [][TxNext]_txVars => WritesHonest
<1>1. TxInv /\ [TxNext]_txVars => TxInv' /\ DoubtRechecked
  <2> SUFFICES ASSUME TxInv, [TxNext]_txVars PROVE TxInv' /\ DoubtRechecked
    OBVIOUS
  <2>1. ASSUME NEW kind \in Kinds, StartWrite(kind) PROVE TxInv' /\ DoubtRechecked
    BY <2>1, QuietSteps
  <2>2. CASE UNCHANGED txVars
    BY <2>2, QuietSteps
  <2>3. CASE WriteStep
    BY <2>3, QuietSteps, PollStep, SendStep, TransportFails DEF WriteStep
  <2>4. CASE ChainMoves
    BY <2>4, QuietSteps, Settles DEF ChainMoves
  <2>5. CASE MaybeBumpTtls
    BY <2>5, BumpStep
  <2> QED
    BY <2>1, <2>2, <2>3, <2>4, <2>5 DEF TxNext
<1>2. TxInv => TxTypeOK /\ SuccessIsReal
  BY TxTyped DEF TxInv, PollsItsOwn
<1>3. TxInv /\ [TxNext]_txVars => [DoubtRechecked]_txVars
  BY <1>1
<1> QED
  BY TxInitial, <1>1, <1>2, <1>3, PTL DEF WritesHonest, NoBlindRebuild, DoubtRechecked

-----------------------------------------------------------------------------
(* Discovery: a walk whose size is right has found everything below its     *)
(* watermark.                                                               *)

WalkFields == {"pc", "expect", "ctr", "cnt", "todo", "found", "ids"}
WalkPhases == {"sleep", "views", "views2", "control", "walk", "judge", "read"}

MarketIdsOK ==
    /\ DOMAIN issued = Sides /\ DOMAIN live = Sides /\ DOMAIN archived = Sides
    /\ \A s \in Sides : issued[s] \in Nat /\ live[s] \subseteq 1..issued[s] /\ archived[s] \subseteq 1..issued[s]

\* A remembered state that misses no live id
Complete(st) ==
    /\ DOMAIN st = Sides
    /\ \A s \in Sides : /\ st[s] \in [watermark : 0..issued[s], live : SUBSET (1..issued[s])]
                        /\ \A id \in live[s] : id <= st[s].watermark => id \in st[s].live

\* One side of a walk: some set of the counted size holds all that is live and all that was
\* found; an id still live is to be read, was found, or was in the views' answer
Walked(s) ==
    /\ d.ctr[s] \in 0..issued[s] /\ known[s].watermark <= d.ctr[s]
    /\ d.todo[s] \subseteq 1..d.ctr[s]
    /\ \E L \in SUBSET (1..d.ctr[s]) : /\ d.cnt[s] # NoCount => d.cnt[s] = Cardinality(L)
                                       /\ live[s] \intersect (1..d.ctr[s]) \subseteq L
                                       /\ d.found[s] \subseteq L
    /\ \A e \in d.expect : \A id \in live[s] : id <= d.ctr[s] => id \in d.todo[s] \/ id \in d.found[s] \/ id \in e[s]

Walking == d.pc \in {"walk", "judge"}

\* What the views answered holds the archived ids that are live: entries are archived only between cycles
WalkOK ==
    /\ DOMAIN d = WalkFields /\ d.pc \in WalkPhases
    /\ d.pc \in {"views", "views2"} => DOMAIN d.ids = Sides /\ d.expect = {}
    /\ d.pc \in {"views", "views2", "control"} => d.found = PerSide({})
    /\ d.pc = "views2" => live["position"] \intersect archived["position"] \subseteq d.ids["position"]
    /\ d.pc \in {"control", "walk", "judge"} =>
          \A e \in d.expect : \A s \in Sides : live[s] \intersect archived[s] \subseteq e[s]
    /\ Walking => DOMAIN d.todo = Sides /\ DOMAIN d.found = Sides /\ \A s \in Sides : Walked(s)
    /\ d.pc = "judge" => \A s \in Sides : d.todo[s] = {}

StreaksOK == \A s \in Sides : streak[s] \in 0..PageStreak

DiscoveryInv == MarketIdsOK /\ Complete(known) /\ Complete(disk) /\ StreaksOK /\ WalkOK

LEMMA DiscoveryTyped == DiscoveryInv => NoLiveIdLost
BY DEF DiscoveryInv, NoLiveIdLost, DiscoveryTypeOK, MarketIdsOK, Complete, StreaksOK, WalkOK, WalkPhases

LEMMA DiscoveryInitial == DiscoveryInit => DiscoveryInv
<1> SUFFICES ASSUME DiscoveryInit PROVE DiscoveryInv
  OBVIOUS
<1>1. MarketIdsOK
  BY DEF DiscoveryInit, MarketIdsOK, PerSide
<1>2. known = EmptyDiscoveryState /\ disk = EmptyDiscoveryState /\ \A s \in Sides : live[s] = {} /\ issued[s] = 0
  BY DEF DiscoveryInit, PerSide
<1>3. Complete(EmptyDiscoveryState)
  BY <1>2 DEF Complete, EmptyDiscoveryState, PerSide
<1>4. StreaksOK
  BY DiscoveryConstants DEF DiscoveryInit, StreaksOK, PerSide
<1>5. WalkOK
  BY DEF DiscoveryInit, WalkOK, WalkFields, WalkPhases, Walking, Asleep
<1> QED
  BY <1>1, <1>2, <1>3, <1>4, <1>5 DEF DiscoveryInv

\* What the market may do to the ids: none below the counter comes back, none is archived mid-cycle
OnlyShrinks ==
    /\ \A s \in Sides : /\ issued[s] <= issued'[s]
                        /\ live'[s] \intersect (1..issued[s]) \subseteq live[s]
    /\ d.pc # "sleep" => \A s \in Sides : archived'[s] \subseteq archived[s]

LEMMA CompleteStays ==
  ASSUME MarketIdsOK, MarketIdsOK', OnlyShrinks, Complete(known), Complete(disk), UNCHANGED <<known, disk>>
  PROVE  Complete(known)' /\ Complete(disk)'
BY DEF MarketIdsOK, OnlyShrinks, Complete

LEMMA MarketKeepsWalk ==
  ASSUME DiscoveryInv, MarketIdsOK', OnlyShrinks, UNCHANGED <<known, d>>
  PROVE  WalkOK'
<1> USE DEF DiscoveryInv
<1>1. \A s \in Sides : d.pc # "sleep" => live'[s] \intersect archived'[s] \subseteq live[s] \intersect archived[s]
  BY DEF MarketIdsOK, OnlyShrinks
<1>2. ASSUME NEW s \in Sides, Walked(s) PROVE Walked(s)'
  <2>1. d.ctr[s] \in 0..issued[s] /\ issued[s] \in Nat /\ issued'[s] \in Nat /\ issued[s] <= issued'[s]
    BY <1>2 DEF Walked, MarketIdsOK, OnlyShrinks
  <2>2. d.ctr[s] \in 0..issued'[s]
    BY <2>1
  <2>3. \A id \in live'[s] : id <= d.ctr[s] => id \in live[s]
    BY <2>1 DEF MarketIdsOK, OnlyShrinks
  <2>4. live'[s] \intersect (1..d.ctr[s]) \subseteq live[s] \intersect (1..d.ctr[s])
    BY <2>1, <2>3
  <2>5. \E L \in SUBSET (1..d.ctr[s]) : /\ d.cnt[s] # NoCount => d.cnt[s] = Cardinality(L)
                                        /\ live'[s] \intersect (1..d.ctr[s]) \subseteq L
                                        /\ d.found[s] \subseteq L
    BY <1>2, <2>4 DEF Walked
  <2> QED
    BY <1>2, <2>2, <2>3, <2>5 DEF Walked
<1>3. "position" \in Sides
  BY DEF Sides
<1> QED
  BY <1>1, <1>2, <1>3 DEF WalkOK, Walking

LEMMA MarketStep ==
  ASSUME DiscoveryInv, MarketTrades \/ UNCHANGED discoveryVars
  PROVE  DiscoveryInv'
<1> USE DEF DiscoveryInv
<1>1. UNCHANGED <<known, disk, streak, d>>
  BY DEF MarketTrades, Upgrade, IssueId, CloseId, Archive, Restore, discoveryVars
<1>2. MarketIdsOK' /\ OnlyShrinks
  <2>1. CASE Upgrade \/ UNCHANGED discoveryVars
    BY <2>1 DEF Upgrade, discoveryVars, MarketIdsOK, OnlyShrinks
  <2>2. ASSUME NEW s \in Sides, IssueId(s) PROVE MarketIdsOK' /\ OnlyShrinks
    BY <2>2 DEF IssueId, MarketIdsOK, OnlyShrinks
  <2>3. ASSUME NEW s \in Sides, CloseId(s) PROVE MarketIdsOK' /\ OnlyShrinks
    BY <2>3 DEF CloseId, MarketIdsOK, OnlyShrinks
  <2>4. ASSUME NEW s \in Sides, Archive(s) PROVE MarketIdsOK' /\ OnlyShrinks
    BY <2>4 DEF Archive, MarketIdsOK, OnlyShrinks
  <2>5. ASSUME NEW s \in Sides, Restore(s) PROVE MarketIdsOK' /\ OnlyShrinks
    BY <2>5 DEF Restore, MarketIdsOK, OnlyShrinks
  <2> QED
    BY <2>1, <2>2, <2>3, <2>4, <2>5 DEF MarketTrades
<1>3. Complete(known)' /\ Complete(disk)'
  BY <1>1, <1>2, CompleteStays
<1>4. WalkOK'
  BY <1>1, <1>2, MarketKeepsWalk
<1>5. StreaksOK'
  BY <1>1 DEF StreaksOK
<1> QED
  BY <1>2, <1>3, <1>4, <1>5

\* Steps of the discovery that remember nothing
LEMMA NothingRemembered ==
  ASSUME DiscoveryInv, UNCHANGED <<marketIds, known, disk, streak>>, WalkOK'
  PROVE  DiscoveryInv'
BY DEF DiscoveryInv, marketIds, MarketIdsOK, Complete, StreaksOK

LEMMA AsleepOK ==
  /\ DOMAIN Asleep = WalkFields /\ Asleep.pc = "sleep" /\ Asleep.expect = {}
  /\ Asleep.found = PerSide({}) /\ Asleep.ids = PerSide({}) /\ DOMAIN PerSide({}) = Sides
BY DEF Asleep, WalkFields, PerSide

LEMMA RestingWalk ==
  ASSUME DOMAIN d' = WalkFields, d'.pc \in {"sleep", "views", "control", "read"}, d'.expect = {},
         d'.found = PerSide({}), d'.pc = "views" => DOMAIN d'.ids = Sides
  PROVE  WalkOK'
BY DEF WalkOK, WalkPhases, Walking

LEMMA RestingSteps ==
  ASSUME DiscoveryInv, BeginDiscovery \/ ReadEntities \/ DiscoveryThrows
  PROVE  DiscoveryInv'
<1>1. UNCHANGED <<marketIds, known, disk, streak>>
  BY DEF BeginDiscovery, ReadEntities, DiscoveryThrows, marketIds
<1>2. WalkOK'
  <2>1. ASSUME NEW pc \in {"views", "control"}, d' = [Asleep EXCEPT !.pc = pc] PROVE WalkOK'
    <3>1. /\ DOMAIN d' = WalkFields /\ d'.pc = pc /\ d'.expect = {} /\ d'.found = PerSide({})
          /\ DOMAIN d'.ids = Sides
      BY <2>1, AsleepOK DEF WalkFields
    <3> QED
      BY <3>1, RestingWalk
  <2>2. CASE d' = Asleep
    BY <2>2, AsleepOK, RestingWalk
  <2>3. CASE d' = [Asleep EXCEPT !.pc = "read", !.ids = d.ids]
    <3>1. DOMAIN d' = WalkFields /\ d'.pc = "read" /\ d'.expect = {} /\ d'.found = PerSide({})
      BY <2>3, AsleepOK DEF WalkFields
    <3> QED
      BY <3>1, RestingWalk
  <2> QED
    BY <2>1, <2>2, <2>3 DEF BeginDiscovery, ReadEntities, DiscoveryThrows
<1> QED
  BY <1>1, <1>2, NothingRemembered

\* A view is read: what it answers holds every live id of its side
LEMMA ViewsStep ==
  ASSUME DiscoveryInv, ReadViews
  PROVE  DiscoveryInv'
<1> USE DEF DiscoveryInv
<1>1. UNCHANGED <<marketIds, known, disk, streak>>
  BY DEF ReadViews, marketIds
<1> DEFINE s == IF d.pc = "views" THEN "position" ELSE "order"
           got == [d EXCEPT !.ids[s] = live[s]]
           after == IF d.pc = "views" THEN "views2" ELSE IF mode = "shadow" THEN "control" ELSE "read"
<1>2. \/ d' = [got EXCEPT !.pc = after, !.expect = IF after = "control" THEN {got.ids} ELSE {}]
      \/ d' = [Asleep EXCEPT !.pc = "control"]
  BY DEF ReadViews
<1>3. CASE d' = [Asleep EXCEPT !.pc = "control"]
  <2>1. DOMAIN d' = WalkFields /\ d'.pc = "control" /\ d'.expect = {} /\ d'.found = PerSide({})
    BY <1>3, AsleepOK DEF WalkFields
  <2> QED
    BY <1>1, <2>1, RestingWalk, NothingRemembered
<1>4. CASE d' = [got EXCEPT !.pc = after, !.expect = IF after = "control" THEN {got.ids} ELSE {}]
  <2>1. d.pc \in {"views", "views2"} /\ DOMAIN d = WalkFields /\ DOMAIN d.ids = Sides
    BY DEF ReadViews, WalkOK
  <2>2. s \in Sides
    BY DEF Sides
  <2>3. /\ DOMAIN got = WalkFields /\ DOMAIN got.ids = Sides /\ got.ids[s] = live[s]
        /\ got.found = d.found
        /\ \A x \in Sides : x # s => got.ids[x] = d.ids[x]
    BY <2>1, <2>2 DEF WalkFields
  <2>4. after \in {"views2", "control", "read"} /\ (after = "views2" <=> d.pc = "views")
    BY <2>1
  <2> HIDE DEF got, after
  <2>9. d.found = PerSide({})
    BY <2>1 DEF WalkOK
  <2>5. /\ DOMAIN d' = WalkFields /\ d'.pc = after /\ d'.ids = got.ids /\ d'.found = got.found
        /\ d'.expect = IF after = "control" THEN {got.ids} ELSE {}
    BY <1>4, <2>3 DEF WalkFields
  <2>6. after = "views2" => live["position"] \intersect archived["position"] \subseteq got.ids["position"]
    BY <2>3, <2>4
  <2>7. after = "control" => \A x \in Sides : live[x] \intersect archived[x] \subseteq got.ids[x]
    <3> SUFFICES ASSUME after = "control", NEW x \in Sides PROVE live[x] \intersect archived[x] \subseteq got.ids[x]
      OBVIOUS
    <3>1. d.pc = "views2" /\ s = "order"
      BY <2>1, <2>4
    <3>2. CASE x = "order"
      BY <2>3, <3>1, <3>2
    <3>3. CASE x = "position"
      BY <2>3, <3>1, <3>3 DEF WalkOK
    <3> QED
      BY <3>2, <3>3 DEF Sides
  <2>8. WalkOK'
    <3>1. UNCHANGED <<live, archived>>
      BY <1>1 DEF marketIds
    <3> QED
      BY <2>3, <2>4, <2>5, <2>6, <2>7, <2>9, <3>1 DEF WalkOK, WalkPhases, Walking
  <2> QED
    BY <1>1, <2>8, NothingRemembered
<1> QED
  BY <1>2, <1>3, <1>4

\* The counters are read: every live id is a candidate, and the live set is the counted set
LEMMA ControlStep ==
  ASSUME DiscoveryInv, ReadControl
  PROVE  DiscoveryInv'
<1> USE DEF DiscoveryInv
<1>1. UNCHANGED <<marketIds, known, disk, streak>> /\ UNCHANGED <<issued, live, archived>> /\ d.pc = "control"
  BY DEF ReadControl, marketIds
<1> DEFINE cnt == [s \in Sides |-> IF upgraded THEN Cardinality(live[s]) ELSE NoCount]
           todo == [s \in Sides |-> known[s].live \union ((known[s].watermark + 1)..issued[s])]
<1>2. d' = [d EXCEPT !.pc = "walk", !.ctr = issued, !.cnt = cnt, !.todo = todo]
  BY DEF ReadControl
<1>3. /\ DOMAIN todo = Sides
      /\ \A s \in Sides : /\ cnt[s] # NoCount => cnt[s] = Cardinality(live[s])
                          /\ todo[s] = known[s].live \union ((known[s].watermark + 1)..issued[s])
  OBVIOUS
<1> HIDE DEF cnt, todo
<1>4. /\ DOMAIN d' = WalkFields /\ d'.pc = "walk" /\ d'.ctr = issued /\ d'.cnt = cnt /\ d'.todo = todo
      /\ d'.found = d.found /\ d'.expect = d.expect
  BY <1>2 DEF WalkOK, WalkFields
<1>5. d.found = PerSide({}) /\ \A s \in Sides : d.found[s] = {}
  BY <1>1 DEF WalkOK, PerSide
<1>6. ASSUME NEW s \in Sides PROVE Walked(s)'
  <2>1. /\ issued[s] \in Nat /\ live[s] \subseteq 1..issued[s]
        /\ known[s] \in [watermark : 0..issued[s], live : SUBSET (1..issued[s])]
        /\ \A id \in live[s] : id <= known[s].watermark => id \in known[s].live
    BY DEF MarketIdsOK, Complete
  <2>2. issued[s] \in 0..issued[s] /\ known[s].watermark \in 0..issued[s] /\ known[s].live \subseteq 1..issued[s]
    BY <2>1
  <2>3. todo[s] \subseteq 1..issued[s]
    BY <1>3, <2>2
  <2>4. \A id \in live[s] : id \in todo[s]
    BY <1>3, <2>1, <2>2
  <2>5. live[s] \in SUBSET (1..issued[s]) /\ d.found[s] \subseteq live[s] /\ (cnt[s] # NoCount => cnt[s] = Cardinality(live[s]))
    BY <1>3, <1>5, <2>1
  <2>6. \E L \in SUBSET (1..issued[s]) : /\ cnt[s] # NoCount => cnt[s] = Cardinality(L)
                                        /\ live[s] \intersect (1..issued[s]) \subseteq L
                                        /\ d.found[s] \subseteq L
    BY <2>5
  <2>7. known' = known /\ issued' = issued /\ live' = live
    BY <1>1
  <2> QED
    BY <1>4, <2>2, <2>3, <2>4, <2>6, <2>7 DEF Walked
<1>7. WalkOK'
  <2>1. DOMAIN d.found = Sides
    BY <1>5 DEF PerSide
  <2> QED
    BY <1>1, <1>3, <1>4, <1>6, <2>1 DEF WalkOK, WalkPhases, Walking
<1> QED
  BY <1>1, <1>7, NothingRemembered

\* A chunk of keys is read: what is live and readable is found, what is archived was in the views
LEMMA WalkStep ==
  ASSUME DiscoveryInv, WalkChunk
  PROVE  DiscoveryInv'
<1> USE DEF DiscoveryInv
<1>1. UNCHANGED <<marketIds, known, disk, streak>> /\ UNCHANGED <<issued, live, archived>> /\ d.pc = "walk"
  BY DEF WalkChunk, marketIds
<1>2. /\ DOMAIN d = WalkFields /\ DOMAIN d.todo = Sides /\ DOMAIN d.found = Sides
      /\ \A x \in Sides : Walked(x)
      /\ \A e \in d.expect : \A x \in Sides : live[x] \intersect archived[x] \subseteq e[x]
  BY <1>1 DEF WalkOK, Walking
<1> DEFINE left == {x \in Sides : d.todo[x] # {}}
           s == IF "position" \in left THEN "position" ELSE "order"
           c == NextChunk(d.todo[s])
<1>3. CASE left = {} /\ d' = [d EXCEPT !.pc = "judge"]
  <2>1. /\ DOMAIN d' = WalkFields /\ d'.pc = "judge" /\ d'.ctr = d.ctr /\ d'.cnt = d.cnt /\ d'.todo = d.todo
        /\ d'.found = d.found /\ d'.expect = d.expect
    BY <1>2, <1>3 DEF WalkFields
  <2>2. \A x \in Sides : d.todo[x] = {}
    BY <1>3
  <2>3. \A x \in Sides : Walked(x)'
    BY <1>1, <1>2, <2>1 DEF Walked
  <2>4. WalkOK'
    BY <1>1, <1>2, <2>1, <2>2, <2>3 DEF WalkOK, WalkPhases, Walking
  <2> QED
    BY <1>1, <2>4, NothingRemembered
<1>4. CASE d' = [d EXCEPT !.todo[s] = @ \ c, !.found[s] = @ \union (c \intersect Readable(s))]
  <2>1. s \in Sides
    BY DEF Sides
  <2>2. c \subseteq d.todo[s]
    BY DEF NextChunk
  <2> HIDE DEF c, s
  <2> DEFINE seen == d.found[s] \union (c \intersect Readable(s))
  <2>3. /\ DOMAIN d' = WalkFields /\ d'.pc = "walk" /\ d'.ctr = d.ctr /\ d'.cnt = d.cnt /\ d'.expect = d.expect
        /\ DOMAIN d'.todo = Sides /\ DOMAIN d'.found = Sides
        /\ d'.todo[s] = d.todo[s] \ c /\ d'.found[s] = seen
        /\ \A x \in Sides : x # s => d'.todo[x] = d.todo[x] /\ d'.found[x] = d.found[x]
    BY <1>1, <1>2, <1>4, <2>1 DEF WalkFields
  <2>4. ASSUME NEW x \in Sides PROVE Walked(x)'
    <3>1. CASE x # s
      BY <1>1, <1>2, <2>3, <3>1 DEF Walked
    <3>2. CASE x = s
      <4>1. Walked(s)
        BY <1>2, <2>1
      <4>2. d.todo[s] \subseteq 1..d.ctr[s]
        BY <4>1 DEF Walked
      <4>3. c \intersect Readable(s) \subseteq live[s] \intersect (1..d.ctr[s])
        BY <2>2, <4>2 DEF Readable
      <4>4. PICK L \in SUBSET (1..d.ctr[s]) : /\ d.cnt[s] # NoCount => d.cnt[s] = Cardinality(L)
                                              /\ live[s] \intersect (1..d.ctr[s]) \subseteq L
                                              /\ d.found[s] \subseteq L
        BY <4>1 DEF Walked
      <4>5. seen \subseteq L
        BY <4>3, <4>4
      <4>6. \A id \in live[s] : id \in c => id \in seen \/ id \in archived[s]
        BY DEF Readable
      <4>7. ASSUME NEW e \in d.expect, NEW id \in live[s], id <= d.ctr[s]
            PROVE  id \in d.todo[s] \ c \/ id \in seen \/ id \in e[s]
        <5>1. id \in d.todo[s] \/ id \in d.found[s] \/ id \in e[s]
          BY <4>1, <4>7 DEF Walked
        <5>2. id \in archived[s] => id \in e[s]
          BY <1>2, <2>1
        <5> QED
          BY <4>6, <5>1, <5>2
      <4>8. known' = known /\ issued' = issued /\ live' = live
        BY <1>1
      <4>9. d.ctr[s] \in 0..issued[s] /\ known[s].watermark <= d.ctr[s]
        BY <4>1 DEF Walked
      <4> HIDE DEF seen
      <4>10. \E M \in SUBSET (1..d.ctr[s]) : /\ d.cnt[s] # NoCount => d.cnt[s] = Cardinality(M)
                                             /\ live[s] \intersect (1..d.ctr[s]) \subseteq M
                                             /\ seen \subseteq M
        BY <4>4, <4>5
      <4> QED
        BY <2>3, <3>2, <4>2, <4>7, <4>8, <4>9, <4>10 DEF Walked
    <3> QED
      BY <3>1, <3>2
  <2>5. WalkOK'
    BY <1>1, <1>2, <2>3, <2>4 DEF WalkOK, WalkPhases, Walking
  <2> QED
    BY <1>1, <2>5, NothingRemembered
<1> QED
  BY <1>3, <1>4 DEF WalkChunk

LEMMA LargerOf ==
  ASSUME NEW a \in Nat, NEW b \in Nat
  PROVE  Max({a, b}) = IF a >= b THEN a ELSE b
<1> DEFINE m == IF a >= b THEN a ELSE b
<1>1. m \in {a, b} /\ \A y \in {a, b} : m >= y
  OBVIOUS
<1>2. \A x \in {a, b} : (\A y \in {a, b} : x >= y) => x = m
  OBVIOUS
<1> HIDE DEF m
<1>3. Max({a, b}) = m
  BY <1>1, <1>2 DEF Max
<1> QED
  BY <1>3 DEF m

LEMMA SmallerOf ==
  ASSUME NEW a \in Nat, NEW b \in Nat
  PROVE  Min({a, b}) = IF a <= b THEN a ELSE b
<1> DEFINE m == IF a <= b THEN a ELSE b
<1>1. m \in {a, b} /\ \A y \in {a, b} : m <= y
  OBVIOUS
<1>2. \A x \in {a, b} : (\A y \in {a, b} : x <= y) => x = m
  OBVIOUS
<1> HIDE DEF m
<1>3. Min({a, b}) = m
  BY <1>1, <1>2 DEF Min
<1> QED
  BY <1>3 DEF m

\* A side whose walk has the right size: it found all that is live up to the counter
LEMMA RightSizeIsComplete ==
  ASSUME DiscoveryInv, d.pc = "judge", NEW s \in Sides, ChecksumOk(s)
  PROVE  /\ d.found[s] \subseteq 1..issued[s] /\ Watermark(s) \in 0..issued[s]
         /\ \A id \in live[s] : id <= Watermark(s) => id \in d.found[s]
<1> USE DEF DiscoveryInv
<1>1. Walked(s) /\ d.todo[s] = {} /\ issued[s] \in Nat /\ live[s] \subseteq 1..issued[s]
  BY DEF WalkOK, Walking, MarketIdsOK
<1>2. d.ctr[s] \in 0..issued[s] /\ known[s].watermark \in 0..issued[s] /\ known[s].watermark <= d.ctr[s]
  BY <1>1 DEF Walked, Complete
<1>3. Watermark(s) = d.ctr[s]
  BY <1>1, <1>2, LargerOf DEF Watermark
<1>4. PICK L \in SUBSET (1..d.ctr[s]) : /\ d.cnt[s] # NoCount => d.cnt[s] = Cardinality(L)
                                        /\ live[s] \intersect (1..d.ctr[s]) \subseteq L
                                        /\ d.found[s] \subseteq L
  BY <1>1 DEF Walked
<1>7. d.found[s] \subseteq 1..issued[s]
  <2>1. 1..d.ctr[s] \subseteq 1..issued[s]
    BY <1>1, <1>2
  <2> QED
    BY <1>4, <2>1
<1>5. CASE d.cnt[s] # NoCount
  <2>1. IsFiniteSet(1..d.ctr[s])
    <3> DEFINE n == d.ctr[s]
    <3>1. n \in Int
      BY <1>1, <1>2
    <3> HIDE DEF n
    <3>2. IsFiniteSet(1..n)
      BY <3>1, FS_Interval
    <3> QED
      BY <3>2 DEF n
  <2>2. IsFiniteSet(L)
    BY <2>1, FS_Subset
  <2>3. Cardinality(L) = Cardinality(d.found[s])
    BY <1>4, <1>5 DEF ChecksumOk
  <2>4. d.found[s] = L
    BY <1>4, <2>2, <2>3, FS_Subset
  <2> QED
    BY <1>1, <1>2, <1>3, <1>4, <1>7, <2>4
<1>6. CASE d.cnt[s] = NoCount
  <2>1. PICK e \in d.expect : e[s] = d.found[s]
    BY <1>6 DEF ChecksumOk
  <2>2. \A id \in live[s] : id <= d.ctr[s] => id \in d.found[s]
    BY <1>1, <2>1 DEF Walked
  <2> QED
    BY <1>2, <1>3, <1>7, <2>2
<1> QED
  BY <1>5, <1>6

\* Judgement: a side is accepted or held; what is remembered and saved is complete either way
LEMMA JudgeStep ==
  ASSUME DiscoveryInv, Judge
  PROVE  DiscoveryInv'
<1> USE DEF DiscoveryInv
<1>1. UNCHANGED <<issued, live, archived>> /\ d.pc = "judge"
  BY DEF Judge, marketIds
<1>2. MarketIdsOK'
  BY <1>1 DEF MarketIdsOK
<1>3. known' = [s \in Sides |-> IF ChecksumOk(s) THEN [watermark |-> Watermark(s), live |-> d.found[s]]
                                 ELSE known[s]]
  BY DEF Judge
<1>4. Complete(known)'
  <2> SUFFICES ASSUME NEW s \in Sides
               PROVE  /\ known'[s] \in [watermark : 0..issued[s], live : SUBSET (1..issued[s])]
                      /\ \A id \in live[s] : id <= known'[s].watermark => id \in known'[s].live
    BY <1>1, <1>3 DEF Complete
  <2>1. CASE ChecksumOk(s)
    <3>1. known'[s] = [watermark |-> Watermark(s), live |-> d.found[s]]
      BY <1>3, <2>1
    <3>2. /\ d.found[s] \subseteq 1..issued[s] /\ Watermark(s) \in 0..issued[s]
          /\ \A id \in live[s] : id <= Watermark(s) => id \in d.found[s]
      BY <1>1, <2>1, RightSizeIsComplete
    <3> QED
      BY <3>1, <3>2
  <2>2. CASE ~ChecksumOk(s)
    BY <1>3, <2>2 DEF Complete
  <2> QED
    BY <2>1, <2>2
<1>5. Complete(disk)'
  <2>1. disk' = disk \/ disk' = known'
    BY DEF Judge, SaveWalk
  <2> QED
    BY <1>1, <1>4, <2>1 DEF Complete
<1>6. StreaksOK'
  <2> SUFFICES ASSUME NEW s \in Sides PROVE streak'[s] \in 0..PageStreak
    BY DEF StreaksOK
  <2>1. streak'[s] = 0 \/ streak'[s] = HoldStreak(s)
    BY DEF Judge
  <2>2. streak[s] \in 0..PageStreak /\ PageStreak \in Nat
    BY DiscoveryConstants DEF StreaksOK
  <2>3. HoldStreak(s) \in 0..PageStreak
    BY <2>2, SmallerOf DEF HoldStreak
  <2> QED
    BY <2>1, <2>2, <2>3
<1>7. WalkOK'
  <2>1. PICK ids : d' = [Asleep EXCEPT !.pc = "read", !.ids = ids]
    BY DEF Judge
  <2>2. DOMAIN d' = WalkFields /\ d'.pc = "read" /\ d'.expect = {} /\ d'.found = PerSide({})
    BY <2>1, AsleepOK DEF WalkFields
  <2> QED
    BY <2>2, RestingWalk
<1> QED
  BY <1>2, <1>4, <1>5, <1>6, <1>7

\* A restart comes back with what was saved, or with nothing remembered
LEMMA RestartStep ==
  ASSUME DiscoveryInv, RestartKeeper
  PROVE  DiscoveryInv'
<1> USE DEF DiscoveryInv
<1>1. /\ UNCHANGED <<issued, live, archived, disk>> /\ d' = Asleep /\ streak' = PerSide(0)
      /\ known' \in {disk, EmptyDiscoveryState}
  BY DEF RestartKeeper, marketIds
<1>2. MarketIdsOK'
  BY <1>1 DEF MarketIdsOK
<1>3. Complete(EmptyDiscoveryState)
  <2>1. \A s \in Sides : EmptyDiscoveryState[s] = [watermark |-> 0, live |-> {}]
    BY DEF EmptyDiscoveryState, PerSide
  <2>2. DOMAIN EmptyDiscoveryState = Sides
    BY DEF EmptyDiscoveryState, PerSide
  <2>3. \A s \in Sides : \A id \in live[s] : issued[s] \in Nat /\ id >= 1
    BY DEF MarketIdsOK
  <2>4. \A s \in Sides : EmptyDiscoveryState[s] \in [watermark : 0..issued[s], live : SUBSET (1..issued[s])]
    BY <2>1 DEF MarketIdsOK
  <2> QED
    BY <2>1, <2>2, <2>3, <2>4 DEF Complete, MarketIdsOK
<1>4. Complete(disk)' /\ Complete(known)'
  BY <1>1, <1>3 DEF Complete
<1>5. StreaksOK'
  BY <1>1, DiscoveryConstants DEF StreaksOK, PerSide
<1>6. WalkOK'
  BY <1>1, AsleepOK, RestingWalk
<1> QED
  BY <1>2, <1>4, <1>5, <1>6

\* The trust rule for every number of ids, every chunk size and every streak: although the keeper
\* compares counts only, and trades, failures, archived entries and restarts come between any two
\* reads, no live id below the watermark is ever forgotten, in memory or on disk
THEOREM DiscoveryLosesNothing == DiscoveryInit /\ [][DiscoveryNext]_discoveryVars => []NoLiveIdLost
<1>1. DiscoveryInv /\ [DiscoveryNext]_discoveryVars => DiscoveryInv'
  BY MarketStep, RestingSteps, ViewsStep, ControlStep, WalkStep, JudgeStep, RestartStep
     DEF DiscoveryNext, DiscoveryStep
<1> QED
  BY DiscoveryInitial, DiscoveryTyped, <1>1, PTL

-----------------------------------------------------------------------------
(* The publisher: what may be stored next stays near what the file says.    *)

Band == MinPrice..MaxPrice
IsBatch(batch) == DOMAIN batch \subseteq Assets /\ \A a \in DOMAIN batch : batch[a] \in Band

\* Types, and what PublisherTypeOK leaves out of them
PublisherTyped ==
    /\ clock \in 0..MaxClock /\ round \in Nat /\ savedAt \in -1..clock
    /\ slot \in [Assets -> [price : Band, round : Nat]] /\ \A a \in Assets : slot[a].round <= round
    /\ current \in [Assets -> [price : Nat, at : Int]] /\ file \in [Assets -> [price : Nat, at : Int]]
    /\ \A a \in Assets : current[a].at \in -1..clock /\ file[a].at \in -1..clock
    /\ \A x \in floating : IsBatch(x.batch) /\ x.round \in Nat /\ x.round <= round
    /\ nav \in [Assets -> Int] /\ synced \in [Assets -> Nat]
    /\ DOMAIN cycle = {"pc", "batch", "round", "todo"}
    /\ cycle.pc \in {"idle", "push", "landed", "sync", "done"}
    /\ IsBatch(cycle.batch) /\ cycle.round \in Nat /\ cycle.todo \subseteq DOMAIN cycle.batch

\* A cycle's round is newer than everything sent before it, and what it landed is what is stored
RoundsOK ==
    /\ cycle.pc \in {"idle", "push"} =>
          /\ \A x \in floating : x.round < round - 1
          /\ \A a \in Assets : slot[a].round < round - 1
    /\ cycle.pc \in {"push", "landed", "sync"} => cycle.round \in {round - 1, round}
    /\ cycle.pc \in {"landed", "sync"} =>
          /\ \A a \in DOMAIN cycle.batch : slot[a] = [price |-> cycle.batch[a], round |-> cycle.round]
          /\ \A x \in floating : x.round < cycle.round

\* A cycle fetches, pushes and notes in one tick: the file and the prices in memory are from
\* earlier ticks, and what is pushed still passes the bound when it is noted
OnePushATick ==
    /\ cycle.pc \in {"idle", "push", "landed"} =>
          savedAt < clock /\ (clock = 0 \/ \A a \in Assets : current[a].at < clock)
    /\ cycle.pc \in {"push", "landed"} => \A a \in DOMAIN cycle.batch : JumpBound(a, cycle.batch[a])

\* What the chain may store for an asset now or next: its price, that of a newer batch in doubt, or
\* that of the batch about to be pushed
MayStore(a) ==
    {q \in Band : \/ q = slot[a].price
                  \/ \E x \in floating : a \in DOMAIN x.batch /\ slot[a].round < x.round /\ q = x.batch[a]
                  \/ cycle.pc = "push" /\ a \in DOMAIN cycle.batch /\ q = cycle.batch[a]}

InWindow(price) == clock - price.at <= Window

\* The process remembers its last push: the file is that push, or lags it by less than a save
Running(a) ==
    /\ InWindow(current[a]) => \A q \in MayStore(a) : Dist(q, current[a].price) <= MaxMove
    /\ InWindow(file[a]) =>
          \/ current[a] = file[a]
          \/ /\ 0 <= savedAt /\ savedAt < current[a].at /\ current[a].at - savedAt < SaveEvery
             /\ Dist(current[a].price, file[a].price) <= MaxMove * (current[a].at - savedAt)

\* It only remembers the file: what may be stored is near the file, or near the push it forgot
Restarted(a) ==
    /\ current[a] = file[a]
    /\ InWindow(file[a]) =>
          \E forgotten \in Nat :
             /\ Dist(forgotten, file[a].price) <= MaxMove * (SaveEvery - 1)
             /\ \A q \in MayStore(a) : Dist(q, forgotten) <= MaxMove \/ Dist(q, file[a].price) <= MaxMove

Remembers(a) ==
    /\ 0 <= file[a].at /\ file[a].at <= current[a].at
    /\ Running(a) \/ Restarted(a)

Remembered == ~lostFile => \A a \in Assets : Remembers(a)

\* The mark is the price last synced, unless that sync failed; an asset with no sync to come has not moved
MarksSynced ==
    /\ \A a \in Assets \ missed : synced[a] = 0 \/ nav[a] = synced[a]
    /\ cycle.pc = "sync" => \A a \in DOMAIN cycle.batch \ cycle.todo : ~Moved(a, cycle.batch[a])

PublisherInv ==
    /\ PublisherTyped /\ RoundsOK /\ OnePushATick /\ Remembered /\ MarksSynced
    /\ BreakerSurvivesRestart

LEMMA PublisherNumbers ==
    /\ MinPrice \in Nat \ {0} /\ MaxPrice \in Nat /\ MaxMove \in Nat /\ MaxMove # 0
    /\ SaveEvery \in Nat /\ SaveEvery # 0 /\ SyncMove \in Nat /\ SyncMove # 0 /\ FullSyncEvery \in Nat
    /\ StartPrice \in Band /\ Window \in Nat /\ MaxClock \in Nat /\ IsFiniteSet(Assets)
  BY PublisherConstants DEF Band

\* The bound grows by one step with every tick the file may lag behind
LEMMA BoundGrows ==
  ASSUME NEW m \in Nat, NEW i \in Nat, NEW j \in Nat, i < j
  PROVE  m * i \in Nat /\ m * i + m <= m * j /\ m * i <= m * j
<1>1. PICK gap \in Nat : j = i + 1 + gap
  <2> WITNESS j - i - 1 \in Nat
  <2> QED OBVIOUS
<1>2. m * j = m * i + m + m * gap
  BY <1>1
<1>3. m * gap \in Nat /\ m * i \in Nat
  OBVIOUS
<1> QED
  BY <1>2, <1>3

LEMMA DistFacts ==
  ASSUME NEW x \in Nat, NEW y \in Nat, NEW z \in Nat
  PROVE  /\ Dist(x, y) \in Nat /\ Dist(x, y) = Dist(y, x) /\ Dist(x, x) = 0
         /\ Dist(x, z) <= Dist(x, y) + Dist(y, z)
  BY DEF Dist

\* Two prices that may be stored one after the other are within the bound
LEMMA NextPriceBounded ==
  ASSUME PublisherTyped, NEW a \in Assets, Remembers(a), InWindow(file[a]),
         NEW p \in MayStore(a), NEW q \in MayStore(a)
  PROVE  Dist(p, q) <= MaxMove * (SaveEvery + 1)
<1> USE PublisherNumbers
<1>0. p \in Nat /\ q \in Nat /\ current[a].price \in Nat /\ file[a].price \in Nat /\ current[a].at \in Int /\ file[a].at \in Int /\ clock \in Int
  BY DEF MayStore, Band, PublisherTyped
<1>1. MaxMove * (SaveEvery - 1) \in Nat /\ MaxMove * (SaveEvery + 1) = MaxMove * (SaveEvery - 1) + MaxMove + MaxMove
  <2>1. MaxMove * (SaveEvery + 1) = MaxMove * SaveEvery + MaxMove /\ MaxMove * SaveEvery = MaxMove * (SaveEvery - 1) + MaxMove
    OBVIOUS
  <2>2. SaveEvery - 1 \in Nat
    OBVIOUS
  <2>3. MaxMove * (SaveEvery - 1) \in Nat
    BY <2>2
  <2> QED
    BY <2>1, <2>3
<1>2. CASE Running(a)
  <2>1. InWindow(current[a])
    BY <1>0 DEF InWindow, Remembers
  <2>2. Dist(p, current[a].price) <= MaxMove /\ Dist(q, current[a].price) <= MaxMove
    BY <1>2, <2>1 DEF Running
  <2> DEFINE c == current[a].price
             lag == MaxMove * (SaveEvery - 1)
  <2>3. c \in Nat /\ lag \in Nat /\ Dist(p, c) <= MaxMove /\ Dist(q, c) <= MaxMove /\ MaxMove * (SaveEvery + 1) = lag + MaxMove + MaxMove
    BY <1>0, <1>1, <2>2
  <2> HIDE DEF c, lag
  <2>4. Dist(p, q) <= MaxMove + MaxMove
    BY <1>0, <2>3 DEF Dist
  <2>5. Dist(p, q) \in Nat
    BY <1>0, DistFacts
  <2> QED
    BY <2>3, <2>4, <2>5
<1>3. CASE Restarted(a)
  <2>1. PICK c \in Nat : /\ Dist(c, file[a].price) <= MaxMove * (SaveEvery - 1)
                         /\ \A r \in MayStore(a) : Dist(r, c) <= MaxMove \/ Dist(r, file[a].price) <= MaxMove
    BY <1>3 DEF Restarted
  <2>2. /\ Dist(p, c) <= MaxMove \/ Dist(p, file[a].price) <= MaxMove
        /\ Dist(q, c) <= MaxMove \/ Dist(q, file[a].price) <= MaxMove
    BY <2>1
  <2> DEFINE f == file[a].price
             lag == MaxMove * (SaveEvery - 1)
  <2>3. f \in Nat /\ lag \in Nat /\ Dist(c, f) <= lag /\ MaxMove * (SaveEvery + 1) = lag + MaxMove + MaxMove
    BY <1>0, <1>1, <2>1
  <2>4. (Dist(p, c) <= MaxMove \/ Dist(p, f) <= MaxMove) /\ (Dist(q, c) <= MaxMove \/ Dist(q, f) <= MaxMove)
    BY <2>2
  <2> HIDE DEF f, lag
  <2>5. Dist(p, q) <= lag + MaxMove + MaxMove
    BY <1>0, <2>3, <2>4 DEF Dist
  <2> QED
    BY <2>3, <2>5
<1> QED
  BY <1>2, <1>3 DEF Remembers

\* Nothing new may be stored and nothing is pushed or saved: time alone forgets nothing
LEMMA StillRemembered ==
  ASSUME PublisherTyped, clock' \in Nat, clock <= clock', savedAt' = savedAt, NEW a \in Assets, Remembers(a),
         current'[a] = current[a], file'[a] = file[a], MayStore(a)' \subseteq MayStore(a)
  PROVE  Remembers(a)'
<1>1. clock \in Nat /\ current[a].at \in Int /\ file[a].at \in Int
  BY DEF PublisherTyped
<1>2. (InWindow(current[a]))' => InWindow(current[a])
  BY <1>1, PublisherNumbers DEF InWindow
<1>3. (InWindow(file[a]))' => InWindow(file[a])
  BY <1>1, PublisherNumbers DEF InWindow
<1>4. CASE Running(a)
  <2>1. Running(a)'
    BY <1>2, <1>3, <1>4 DEF Running
  <2> QED
    BY <2>1 DEF Remembers
<1>5. CASE Restarted(a)
  <2>1. Restarted(a)'
    BY <1>3, <1>5 DEF Restarted
  <2> QED
    BY <2>1 DEF Remembers
<1> QED
  BY <1>4, <1>5 DEF Remembers

\* Nothing is stored, in doubt, pushed or saved
LEMMA RestingRemembers ==
  ASSUME PublisherTyped, Remembered, cycle'.pc # "push",
         UNCHANGED <<clock, slot, floating, current, file, savedAt, lostFile>>
  PROVE  Remembered'
<1> SUFFICES ASSUME ~lostFile', NEW a \in Assets PROVE Remembers(a)'
  BY DEF Remembered
<1>1. MayStore(a)' \subseteq MayStore(a)
  BY DEF MayStore
<1>2. Remembers(a) /\ clock' \in Nat /\ clock <= clock'
  BY DEF PublisherTyped, Remembered
<1> QED
  BY <1>1, <1>2, StillRemembered

\* Storing one of the prices that may be stored is a bounded step
LEMMA StepsBounded ==
  ASSUME PublisherTyped, Remembered, Note(slot'), \A a \in Assets : slot'[a].price \in MayStore(a)
  PROVE  BreakerSurvivesRestart'
<1> SUFFICES ASSUME NEW a \in Assets, lastStep'[a].guarded
             PROVE  lastStep'[a].size <= MaxMove * (SaveEvery + 1)
  BY DEF BreakerSurvivesRestart
<1>1. lastStep'[a].guarded = Guarded(a) /\ lastStep'[a].size = Dist(slot'[a].price, slot[a].price)
  BY DEF Note
<1>2. ~lostFile /\ InWindow(file[a])
  BY <1>1 DEF Guarded, InWindow
<1>3. slot[a].price \in MayStore(a)
  BY DEF MayStore, PublisherTyped
<1>4. Dist(slot'[a].price, slot[a].price) <= MaxMove * (SaveEvery + 1)
  BY <1>2, <1>3, NextPriceBounded DEF Remembered
<1> QED
  BY <1>1, <1>4

LEMMA PublisherStarts == PublisherInit => PublisherInv
<1> SUFFICES ASSUME PublisherInit PROVE PublisherInv
  OBVIOUS
<1> USE PublisherNumbers DEF PublisherInit
<1>1. StartPrice \in Nat /\ StartPrice # 0
  BY DEF Band
<1>2. PublisherTyped
  BY <1>1 DEF PublisherTyped, Quiet, NoBatch, IsBatch, Band
<1>3. RoundsOK /\ OnePushATick
  BY DEF RoundsOK, OnePushATick, Quiet
<1>4. Remembered
  <2> SUFFICES ASSUME NEW a \in Assets PROVE Remembers(a)
    BY DEF Remembered
  <2>1. MayStore(a) \subseteq {StartPrice} /\ current[a] = [price |-> StartPrice, at |-> 0] /\ file[a] = current[a]
    BY DEF MayStore, Quiet
  <2>2. Dist(StartPrice, StartPrice) <= MaxMove
    BY <1>1 DEF Dist
  <2> QED
    BY <2>1, <2>2 DEF Remembers, Running
<1>5. MarksSynced
  BY DEF MarksSynced, Quiet
<1>6. BreakerSurvivesRestart
  <2>1. MaxMove * (SaveEvery + 1) \in Nat
    OBVIOUS
  <2> QED
    BY <2>1 DEF BreakerSurvivesRestart, NoStep
<1> QED
  BY <1>2, <1>3, <1>4, <1>5, <1>6 DEF PublisherInv

LEMMA PublisherTicks ==
  ASSUME PublisherInv, Tick
  PROVE  PublisherInv'
<1> USE PublisherNumbers DEF PublisherInv, Tick
<1>1. PublisherTyped'
  BY DEF PublisherTyped, Quiet, NoBatch, IsBatch
<1>2. RoundsOK' /\ OnePushATick' /\ MarksSynced'
  BY DEF PublisherTyped, RoundsOK, OnePushATick, MarksSynced, Quiet
<1>3. Remembered'
  <2> SUFFICES ASSUME ~lostFile', NEW a \in Assets PROVE Remembers(a)'
    BY DEF Remembered
  <2>1. MayStore(a)' \subseteq MayStore(a)
    BY DEF MayStore, Quiet
  <2>2. clock' \in Nat /\ clock <= clock' /\ Remembers(a)
    BY DEF PublisherTyped, Remembered
  <2> QED
    BY <2>1, <2>2, StillRemembered
<1>4. BreakerSurvivesRestart'
  BY DEF BreakerSurvivesRestart
<1> QED
  BY <1>1, <1>2, <1>3, <1>4

\* The group a cycle pushes is of one of the two rounds, and of eligible assets
LEMMA GroupOfOneRound ==
  ASSUME round \in Nat, NEW eligible \in SUBSET Assets, eligible # {}, NEW of \in [Assets -> {round - 1, round}]
  PROVE  /\ LargestGroup(eligible, of).round \in {round - 1, round}
         /\ LargestGroup(eligible, of).assets \subseteq eligible
<1> DEFINE group(r) == {a \in eligible : of[a] = r}
           rounds == {of[a] : a \in eligible}
           Best(r) == \A q \in rounds :
                        \/ Cardinality(group(q)) < Cardinality(group(r))
                        \/ Cardinality(group(q)) = Cardinality(group(r)) /\ q <= r
<1>1. rounds \subseteq {round - 1, round} /\ rounds # {}
  OBVIOUS
<1>2. \A r : Cardinality(group(r)) \in Nat
  <2> TAKE r
  <2>1. IsFiniteSet(group(r))
    BY PublisherNumbers, FS_Subset
  <2> QED
    BY <2>1, FS_CardinalityType
<1>3. \E r \in rounds : Best(r)
  <2> DEFINE n(r) == Cardinality(group(r))
  <2>1. n(round) \in Nat /\ n(round - 1) \in Nat
    BY <1>2
  <2> HIDE DEF group, rounds
  <2>2. CASE round \in rounds /\ (round - 1 \notin rounds \/ n(round - 1) <= n(round))
    BY <1>1, <2>1, <2>2
  <2>3. CASE round - 1 \in rounds /\ (round \notin rounds \/ n(round) < n(round - 1))
    BY <1>1, <2>1, <2>3
  <2>4. round \in rounds \/ round - 1 \in rounds
    BY <1>1
  <2>5. n(round - 1) <= n(round) \/ n(round) < n(round - 1)
    BY <2>1
  <2> HIDE DEF n, Best
  <2> QED
    BY <2>2, <2>3, <2>4, <2>5
<1> DEFINE best == CHOOSE r \in rounds : Best(r)
<1>4. best \in rounds
  <2> HIDE DEF rounds, Best
  <2> QED
    BY <1>3
<1>5. LargestGroup(eligible, of) = [assets |-> group(best), round |-> best]
  BY DEF LargestGroup
<1> HIDE DEF best
<1>6. group(best) \subseteq eligible
  OBVIOUS
<1> HIDE DEF group
<1> QED
  BY <1>1, <1>4, <1>5, <1>6

LEMMA FetchKeeps ==
  ASSUME PublisherInv, FetchRound
  PROVE  PublisherInv'
<1> USE PublisherNumbers DEF PublisherInv
<1>0. /\ cycle.pc = "idle"
      /\ UNCHANGED <<clock, round, slot, floating, current, file, savedAt, nav, synced, fullAt, lostFile, lastStep, missed>>
  BY DEF FetchRound
<1>3. BreakerSurvivesRestart'
  BY <1>0 DEF BreakerSurvivesRestart
<1>1. CASE cycle' = [Quiet EXCEPT !.pc = "done"]
  <2>1. cycle'.pc = "done" /\ PublisherTyped'
    BY <1>0, <1>1 DEF Quiet, NoBatch, PublisherTyped, IsBatch
  <2>2. RoundsOK' /\ OnePushATick' /\ MarksSynced'
    BY <1>0, <2>1 DEF RoundsOK, OnePushATick, MarksSynced
  <2>3. Remembered'
    BY <1>0, <2>1, RestingRemembers
  <2> QED
    BY <1>0, <1>3, <2>1, <2>2, <2>3
<1>2. CASE ~(cycle' = [Quiet EXCEPT !.pc = "done"])
  <2>1. PICK price \in [Assets -> PriceRange], of \in [Assets -> {round - 1, round}], vetoed \in SecondSourceVetoes :
          cycle' = Gathered(price, of, vetoed)
    BY <1>2 DEF FetchRound
  <2> DEFINE eligible == {a \in Assets \ vetoed : PassesPublishDefenses(a, price[a])}
             g == LargestGroup(eligible, of)
             batch == [a \in g.assets |-> price[a]]
  <2>14. eligible # {}
    BY <1>2, <2>1 DEF Gathered
  <2>2. eligible # {} /\ eligible \subseteq Assets /\ \A a \in eligible : price[a] \in Band /\ JumpBound(a, price[a])
    BY <2>14 DEF PassesPublishDefenses, Band
  <2>3. cycle' = [Quiet EXCEPT !.pc = "push", !.round = g.round, !.batch = batch]
    BY <2>1, <2>14 DEF Gathered
  <2> HIDE DEF eligible
  <2>4. g.round \in {round - 1, round} /\ g.assets \subseteq eligible
    BY <2>2, GroupOfOneRound DEF PublisherTyped
  <2> HIDE DEF g
  <2>5. DOMAIN batch \subseteq eligible /\ \A a \in DOMAIN batch : batch[a] \in Band /\ JumpBound(a, batch[a])
    BY <2>2, <2>4
  <2>6. IsBatch(batch)
    BY <2>2, <2>5 DEF IsBatch
  <2> HIDE DEF batch
  <2>7. /\ DOMAIN cycle' = {"pc", "batch", "round", "todo"} /\ cycle'.pc = "push" /\ cycle'.batch = batch
        /\ cycle'.round = g.round /\ cycle'.todo = {}
    BY <2>3 DEF Quiet
  <2>8. \A x \in floating : x.round < round - 1
    BY <1>0 DEF RoundsOK
  <2>9. \A a \in Assets : slot[a].round < round - 1 /\ slot[a].round \in Nat
    BY <1>0 DEF RoundsOK, PublisherTyped
  <2>10. g.round \in Nat /\ g.round <= round
    <3>1. CASE Assets = {}
      BY <2>2, <3>1
    <3>2. CASE Assets # {}
      BY <2>4, <2>9, <3>2 DEF PublisherTyped
    <3> QED
      BY <3>1, <3>2
  <2>11. PublisherTyped'
    BY <1>0, <2>6, <2>7, <2>10 DEF PublisherTyped
  <2>15. RoundsOK'
    BY <1>0, <2>4, <2>7, <2>8, <2>9 DEF RoundsOK
  <2>16. OnePushATick'
    BY <1>0, <2>5, <2>7 DEF OnePushATick, JumpBound
  <2>12. MarksSynced'
    BY <1>0, <2>7 DEF MarksSynced
  <2>13. Remembered'
    <3> SUFFICES ASSUME ~lostFile', NEW a \in Assets PROVE Remembers(a)'
      BY DEF Remembered
    <3>1. Remembers(a) /\ current[a].at \in Int /\ file[a].at \in Int /\ clock \in Int /\ current[a].at >= 0
      BY <1>0 DEF PublisherTyped, Remembered, Remembers
    <3>2. \A q \in MayStore(a)' : q \in MayStore(a) \/ (a \in DOMAIN batch /\ q = batch[a])
      BY <1>0, <2>7 DEF MayStore
    <3>3. a \in DOMAIN batch /\ InWindow(current[a]) => Dist(batch[a], current[a].price) <= MaxMove
      BY <2>5, <3>1 DEF JumpBound, InWindow
    <3>4. CASE Running(a)
      <4>1. Running(a)'
        BY <1>0, <3>2, <3>3, <3>4 DEF Running, InWindow
      <4> QED
        BY <1>0, <3>1, <4>1 DEF Remembers
    <3>5. CASE Restarted(a)
      <4>1. Restarted(a)'
        BY <1>0, <3>2, <3>3, <3>5 DEF Restarted, InWindow
      <4> QED
        BY <1>0, <3>1, <4>1 DEF Remembers
    <3> QED
      BY <3>1, <3>4, <3>5 DEF Remembers
  <2> QED
    BY <1>0, <1>3, <2>11, <2>12, <2>13, <2>15, <2>16
<1> QED
  BY <1>1, <1>2


LEMMA PushLandsKeeps ==
  ASSUME PublisherInv, PushLands
  PROVE  PublisherInv'
<1> USE PublisherNumbers DEF PublisherInv
<1>0. /\ cycle.pc = "push" /\ slot' = Stored(cycle.batch, cycle.round) /\ Note(slot')
      /\ cycle' = [cycle EXCEPT !.pc = "landed"]
      /\ UNCHANGED <<clock, round, floating, current, file, savedAt, nav, synced, fullAt, lostFile, pubFaults, missed>>
  BY DEF PushLands
<1>1. /\ DOMAIN cycle' = {"pc", "batch", "round", "todo"} /\ cycle'.pc = "landed"
      /\ cycle'.batch = cycle.batch /\ cycle'.round = cycle.round /\ cycle'.todo = cycle.todo
  BY <1>0 DEF PublisherTyped
<1>2. /\ IsBatch(cycle.batch) /\ cycle.round \in Nat /\ cycle.round \in {round - 1, round} /\ round \in Nat
      /\ \A a \in Assets : slot[a].round \in Nat /\ slot[a].round < cycle.round
      /\ \A x \in floating : x.round \in Nat /\ x.round < cycle.round
  BY <1>0 DEF PublisherTyped, RoundsOK
<1>3. /\ DOMAIN slot' = Assets
      /\ \A a \in Assets : slot'[a] = IF a \in DOMAIN cycle.batch THEN [price |-> cycle.batch[a], round |-> cycle.round]
                                      ELSE slot[a]
  BY <1>0, <1>2 DEF Stored
<1>4. slot' \in [Assets -> [price : Band, round : Nat]] /\ \A a \in Assets : slot'[a].round <= round
  <2> SUFFICES ASSUME NEW a \in Assets PROVE slot'[a] \in [price : Band, round : Nat] /\ slot'[a].round <= round
    BY <1>0, <1>3 DEF Stored
  <2> QED
    BY <1>2, <1>3 DEF PublisherTyped, IsBatch
<1>5. PublisherTyped'
  BY <1>0, <1>1, <1>4 DEF PublisherTyped
<1>10. RoundsOK'
  BY <1>0, <1>1, <1>2, <1>3 DEF RoundsOK, IsBatch
<1>11. OnePushATick'
  BY <1>0, <1>1 DEF OnePushATick, JumpBound
<1>6. MarksSynced'
  BY <1>0, <1>1 DEF MarksSynced
<1>7. ASSUME NEW a \in Assets PROVE MayStore(a)' \subseteq MayStore(a) /\ slot'[a].price \in MayStore(a)
  <2>5. slot'[a].price \in Band
    BY <1>4
  <2>1. slot'[a].price \in MayStore(a)
    <3>1. CASE a \in DOMAIN cycle.batch
      <4>1. slot'[a].price = cycle.batch[a]
        BY <1>3, <3>1
      <4> QED
        BY <1>0, <2>5, <3>1, <4>1 DEF MayStore
    <3>2. CASE a \notin DOMAIN cycle.batch
      <4>1. slot'[a].price = slot[a].price
        BY <1>3, <3>2
      <4> QED
        BY <2>5, <4>1 DEF MayStore
    <3> QED
      BY <3>1, <3>2
  <2>2. slot[a].round <= slot'[a].round /\ slot[a].round \in Nat /\ slot'[a].round \in Nat
    BY <1>2, <1>3
  <2>3. ASSUME NEW x \in floating, slot'[a].round < x.round PROVE slot[a].round < x.round
    BY <1>2, <2>2, <2>3
  <2>4. MayStore(a)' \subseteq MayStore(a)
    BY <1>0, <1>1, <2>1, <2>3 DEF MayStore
  <2> QED
    BY <2>1, <2>4
<1>8. Remembered'
  <2> SUFFICES ASSUME ~lostFile', NEW a \in Assets PROVE Remembers(a)'
    BY DEF Remembered
  <2>1. Remembers(a) /\ clock' \in Nat /\ clock <= clock'
    BY <1>0 DEF PublisherTyped, Remembered
  <2> QED
    BY <1>0, <1>7, <2>1, StillRemembered
<1>9. BreakerSurvivesRestart'
  BY <1>0, <1>7, StepsBounded
<1> QED
  BY <1>5, <1>6, <1>8, <1>9, <1>10, <1>11

LEMMA ResolvesKeeps ==
  ASSUME PublisherInv, Resolves
  PROVE  PublisherInv'
<1> USE PublisherNumbers DEF PublisherInv
<1>0. UNCHANGED <<clock, round, current, file, savedAt, nav, synced, fullAt, cycle, lostFile, pubFaults, missed>>
  BY DEF Resolves
<1>1. PICK x \in floating : /\ floating' = floating \ {x}
                            /\ \/ slot' = Stored(x.batch, x.round) /\ Note(slot')
                               \/ UNCHANGED <<slot, lastStep>>
  BY DEF Resolves
<1>2. IsBatch(x.batch) /\ x.round \in Nat /\ x.round <= round /\ round \in Nat
  BY DEF PublisherTyped
<1>3. DOMAIN slot' = Assets
  BY <1>1 DEF Stored, PublisherTyped
<1>4. \A a \in Assets : \/ slot'[a] = slot[a]
                        \/ /\ a \in DOMAIN x.batch /\ x.round > slot[a].round
                           /\ slot'[a] = [price |-> x.batch[a], round |-> x.round]
  BY <1>1 DEF Stored
<1>5. slot' \in [Assets -> [price : Band, round : Nat]] /\ \A a \in Assets : slot'[a].round <= round
  <2>1. ASSUME NEW a \in Assets PROVE slot'[a] \in [price : Band, round : Nat] /\ slot'[a].round <= round
    <3>1. CASE slot'[a] = slot[a]
      BY <3>1 DEF PublisherTyped
    <3>2. CASE a \in DOMAIN x.batch /\ slot'[a] = [price |-> x.batch[a], round |-> x.round]
      BY <1>2, <3>2 DEF IsBatch
    <3> QED
      BY <1>4, <3>1, <3>2
  <2>2. slot' = [a \in Assets |-> slot'[a]]
    BY <1>1 DEF Stored, PublisherTyped
  <2> QED
    BY <2>1, <2>2
<1>6. PublisherTyped'
  BY <1>0, <1>1, <1>5 DEF PublisherTyped
<1>7. RoundsOK'
  <2>1. ASSUME cycle.pc \in {"idle", "push"}, NEW a \in Assets PROVE slot'[a].round < round - 1
    <3>1. x.round < round - 1 /\ slot[a].round < round - 1
      BY <2>1 DEF RoundsOK
    <3> QED
      <4>1. CASE slot'[a] = slot[a]
        BY <3>1, <4>1
      <4>2. CASE slot'[a] = [price |-> x.batch[a], round |-> x.round]
        <5>1. slot'[a].round = x.round
          BY <4>2
        <5> QED
          BY <3>1, <5>1
      <4> QED
        BY <1>4, <4>1, <4>2
  <2>2. ASSUME cycle.pc \in {"landed", "sync"}, NEW a \in DOMAIN cycle.batch PROVE slot'[a] = slot[a]
    <3>1. x.round < cycle.round /\ slot[a] = [price |-> cycle.batch[a], round |-> cycle.round] /\ a \in Assets
      BY <2>2 DEF RoundsOK, PublisherTyped, IsBatch
    <3>2. slot[a].round = cycle.round /\ cycle.round \in Nat
      BY <3>1 DEF PublisherTyped
    <3>3. ~(x.round > slot[a].round)
      BY <1>2, <3>1, <3>2
    <3> QED
      BY <1>4, <3>1, <3>3
  <2> QED
    BY <1>0, <1>1, <2>1, <2>2 DEF RoundsOK
<1>8. OnePushATick' /\ MarksSynced'
  BY <1>0 DEF OnePushATick, JumpBound, MarksSynced, Moved
<1>9. ASSUME NEW a \in Assets PROVE MayStore(a)' \subseteq MayStore(a) /\ slot'[a].price \in MayStore(a)
  <2>1. slot'[a].price \in MayStore(a)
    BY <1>4, <1>5 DEF MayStore, PublisherTyped
  <2>5. slot[a].round \in Nat
    BY DEF PublisherTyped
  <2>2. slot[a].round <= slot'[a].round /\ slot[a].round \in Nat /\ slot'[a].round \in Nat
    <3>1. CASE slot'[a] = slot[a]
      BY <2>5, <3>1
    <3>2. CASE x.round > slot[a].round /\ slot'[a] = [price |-> x.batch[a], round |-> x.round]
      BY <1>2, <2>5, <3>2
    <3> QED
      BY <1>4, <3>1, <3>2
  <2>3. ASSUME NEW y \in floating, slot'[a].round < y.round PROVE slot[a].round < y.round
    BY <2>2, <2>3 DEF PublisherTyped
  <2>4. MayStore(a)' \subseteq MayStore(a)
    BY <1>0, <1>1, <2>1, <2>3 DEF MayStore
  <2> QED
    BY <2>1, <2>4
<1>10. Remembered'
  <2> SUFFICES ASSUME ~lostFile', NEW a \in Assets PROVE Remembers(a)'
    BY DEF Remembered
  <2>1. Remembers(a) /\ clock' \in Nat /\ clock <= clock'
    BY <1>0 DEF PublisherTyped, Remembered
  <2> QED
    BY <1>0, <1>9, <2>1, StillRemembered
<1>11. BreakerSurvivesRestart'
  <2>1. CASE Note(slot')
    BY <2>1, <1>9, StepsBounded
  <2>2. CASE UNCHANGED lastStep
    BY <2>2 DEF BreakerSurvivesRestart
  <2> QED
    BY <1>1, <2>1, <2>2
<1> QED
  BY <1>6, <1>7, <1>8, <1>10, <1>11

LEMMA PushInDoubtKeeps ==
  ASSUME PublisherInv, PushInDoubt
  PROVE  PublisherInv'
<1> USE PublisherNumbers DEF PublisherInv
<1>0. /\ cycle.pc = "push" /\ cycle' = [Quiet EXCEPT !.pc = "done"]
      /\ UNCHANGED <<clock, round, slot, current, file, savedAt, nav, synced, fullAt, lostFile, lastStep, missed>>
  BY DEF PushInDoubt
<1>1. \A x \in floating' : x \in floating \/ x = [batch |-> cycle.batch, round |-> cycle.round]
  BY DEF PushInDoubt
<1>2. cycle'.pc = "done" /\ cycle'.batch = NoBatch
  BY <1>0 DEF Quiet
<1>3. PublisherTyped'
  <2>1. \A x \in floating' : IsBatch(x.batch) /\ x.round \in Nat /\ x.round <= round
    BY <1>0, <1>1 DEF PublisherTyped, RoundsOK
  <2> QED
    BY <1>0, <2>1 DEF PublisherTyped, Quiet, NoBatch, IsBatch
<1>4. RoundsOK' /\ OnePushATick' /\ MarksSynced' /\ BreakerSurvivesRestart'
  BY <1>0, <1>2 DEF RoundsOK, OnePushATick, MarksSynced, BreakerSurvivesRestart
<1>5. Remembered'
  <2> SUFFICES ASSUME ~lostFile', NEW a \in Assets PROVE Remembers(a)'
    BY DEF Remembered
  <2>1. MayStore(a)' \subseteq MayStore(a)
    BY <1>0, <1>1, <1>2 DEF MayStore
  <2>2. Remembers(a) /\ clock' \in Nat /\ clock <= clock'
    BY <1>0 DEF PublisherTyped, Remembered
  <2> QED
    BY <1>0, <2>1, <2>2, StillRemembered
<1> QED
  BY <1>3, <1>4, <1>5

\* Once the prices in memory are on disk there is no lag
LEMMA WrittenRemembers ==
  ASSUME PublisherTyped, NEW a \in Assets, Remembers(a), clock' = clock, current'[a] = current[a], file'[a] = current[a],
         MayStore(a)' \subseteq MayStore(a)
  PROVE  Remembers(a)'
<1>1. CASE Running(a)
  <2>1. Running(a)'
    BY <1>1 DEF Running, InWindow
  <2> QED
    BY <2>1 DEF Remembers, PublisherTyped
<1>2. CASE Restarted(a)
  <2>1. Restarted(a)'
    BY <1>2 DEF Restarted, InWindow
  <2> QED
    BY <2>1 DEF Remembers, PublisherTyped
<1> QED
  BY <1>1, <1>2 DEF Remembers

\* A save writes what is in memory, is throttled, or is lost
LEMMA SavedOutcomes ==
  ASSUME NEW prices, Saved(prices)
  PROVE  \/ file' = prices /\ savedAt' = clock /\ lostFile' = lostFile
         \/ UNCHANGED <<file, savedAt, lostFile>> /\ savedAt >= 0 /\ clock - savedAt < SaveEvery
         \/ UNCHANGED <<file, savedAt>> /\ lostFile' = TRUE
  BY DEF Saved

LEMMA NotePushKeeps ==
  ASSUME PublisherInv, NotePush
  PROVE  PublisherInv'
<1> USE PublisherNumbers DEF PublisherInv
<1> DEFINE batch == cycle.batch
<1>0. /\ cycle.pc = "landed" /\ Saved(current')
      /\ current' = [a \in Assets |-> IF a \in DOMAIN batch THEN [price |-> batch[a], at |-> clock] ELSE current[a]]
      /\ UNCHANGED <<clock, round, slot, floating, nav, synced, lastStep, missed>>
  BY DEF NotePush
<1>1. PICK todo \in SUBSET DOMAIN batch :
                     /\ cycle' = [cycle EXCEPT !.pc = "sync", !.todo = todo]
                     /\ \A a \in DOMAIN batch \ todo : ~Moved(a, batch[a])
  <2> DEFINE full == clock - fullAt > FullSyncEvery
             marked == {a \in DOMAIN cycle.batch : full \/ Moved(a, cycle.batch[a])}
  <2>1. cycle' = [cycle EXCEPT !.pc = "sync", !.todo = marked]
    BY DEF NotePush
  <2>2. marked \subseteq DOMAIN batch /\ \A a \in DOMAIN batch \ marked : ~Moved(a, batch[a])
    OBVIOUS
  <2> HIDE DEF marked
  <2> USE <2>2
  <2> WITNESS marked \in SUBSET DOMAIN batch
  <2> QED
    BY <2>1, <2>2
<1>2. /\ DOMAIN cycle' = {"pc", "batch", "round", "todo"} /\ cycle'.pc = "sync"
      /\ cycle'.batch = batch /\ cycle'.round = cycle.round /\ cycle'.todo = todo
  BY <1>1 DEF PublisherTyped
<1>3. IsBatch(batch) /\ clock \in Nat /\ savedAt \in Int /\ savedAt < clock
  BY <1>0 DEF PublisherTyped, OnePushATick
<1>4. current' \in [Assets -> [price : Nat, at : Int]] /\ \A a \in Assets : current'[a].at \in -1..clock
  <2>1. ASSUME NEW a \in Assets PROVE current'[a] \in [price : Nat, at : Int] /\ current'[a].at \in -1..clock
    <3>1. CASE a \in DOMAIN batch
      <4>1. batch[a] \in Nat /\ current'[a] = [price |-> batch[a], at |-> clock]
        BY <1>0, <1>3, <3>1 DEF IsBatch, Band
      <4> QED
        BY <1>3, <4>1
    <3>2. CASE a \notin DOMAIN batch
      BY <1>0, <3>2 DEF PublisherTyped
    <3> QED
      BY <3>1, <3>2
  <2> QED
    BY <1>0, <2>1
<1>5. PublisherTyped'
  <2>1. file' \in {file, current'} /\ savedAt' \in {savedAt, clock}
    BY <1>0, SavedOutcomes
  <2>2. file' \in [Assets -> [price : Nat, at : Int]] /\ \A a \in Assets : file'[a].at \in -1..clock
    BY <1>4, <2>1 DEF PublisherTyped
  <2> QED
    BY <1>0, <1>1, <1>2, <1>3, <1>4, <2>1, <2>2 DEF PublisherTyped
<1>6. RoundsOK' /\ OnePushATick' /\ BreakerSurvivesRestart'
  BY <1>0, <1>2 DEF RoundsOK, OnePushATick, BreakerSurvivesRestart
<1>7. MarksSynced'
  BY <1>0, <1>1, <1>2 DEF MarksSynced, Moved
<1>8. Remembered'
  <2> SUFFICES ASSUME ~lostFile', NEW a \in Assets PROVE Remembers(a)'
    BY DEF Remembered
  <2>1. \/ file' = current' /\ savedAt' = clock
        \/ UNCHANGED <<file, savedAt>> /\ savedAt >= 0 /\ clock - savedAt < SaveEvery
    BY <1>0, SavedOutcomes
  <2>2. ~lostFile
    BY <1>0, SavedOutcomes
  <2>3. Remembers(a) /\ current[a].at \in -1..clock /\ file[a].at \in -1..clock /\ current[a].price \in Nat /\ file[a].price \in Nat
    BY <2>2 DEF Remembered, PublisherTyped
  <2>4. CASE a \notin DOMAIN batch
    <3>1. current'[a] = current[a]
      BY <1>0, <2>4
    <3>2. MayStore(a)' \subseteq MayStore(a)
      BY <1>0, <1>2, <2>4 DEF MayStore
    <3>3. file' = current' => Remembers(a)'
      BY <1>0, <2>3, <3>1, <3>2, WrittenRemembers
    <3>4. UNCHANGED <<file, savedAt>> => Remembers(a)'
      BY <1>0, <1>3, <2>3, <3>1, <3>2, StillRemembered
    <3> QED
      BY <2>1, <3>3, <3>4
  <2>5. CASE a \in DOMAIN batch
    <3>1. current'[a] = [price |-> batch[a], at |-> clock] /\ batch[a] \in Nat
      BY <1>0, <1>3, <2>5 DEF IsBatch, Band
    <3>2. slot'[a] = [price |-> batch[a], round |-> cycle.round] /\ \A x \in floating' : x.round < cycle.round /\ x.round \in Nat
      BY <1>0, <2>5 DEF RoundsOK, PublisherTyped
    <3>3. \A q \in MayStore(a)' : q = batch[a]
      BY <1>2, <3>2 DEF MayStore, PublisherTyped
    <3>4. \A q \in MayStore(a)' : Dist(q, current'[a].price) <= MaxMove
      BY <3>1, <3>3, DistFacts
    <3>5. CASE file' = current'
      <4>1. Running(a)'
        BY <3>4, <3>5 DEF Running
      <4> QED
        BY <1>3, <3>1, <3>5, <4>1 DEF Remembers
    <3>6. CASE UNCHANGED <<file, savedAt>> /\ savedAt >= 0 /\ clock - savedAt < SaveEvery
      <4>1. InWindow(file[a])' => Dist(batch[a], file[a].price) <= MaxMove * (clock - savedAt)
        <5> SUFFICES ASSUME InWindow(file[a]) PROVE Dist(batch[a], file[a].price) <= MaxMove * (clock - savedAt)
          BY <1>0, <3>6 DEF InWindow
        <5>1. current[a].at >= 0 /\ InWindow(current[a])
          BY <1>3, <2>3 DEF InWindow, Remembers
        <5>2. Dist(batch[a], current[a].price) <= MaxMove
          <6>1. JumpBound(a, batch[a])
            BY <1>0, <2>5 DEF OnePushATick
          <6> QED
            BY <1>3, <2>3, <5>1, <6>1 DEF JumpBound, InWindow
        <5>3. 0 < clock - savedAt /\ clock - savedAt \in Nat
          BY <1>3, <3>6
        <5>4. MaxMove * 0 = 0 /\ MaxMove <= MaxMove * (clock - savedAt)
          <6>1. MaxMove * 0 + MaxMove <= MaxMove * (clock - savedAt)
            BY <5>3, BoundGrows
          <6> QED
            BY <6>1
        <5>5. CASE current[a] = file[a]
          <6>1. Dist(batch[a], file[a].price) <= MaxMove /\ Dist(batch[a], file[a].price) \in Nat
            BY <2>3, <3>1, <5>2, <5>5, DistFacts
          <6>2. MaxMove * (clock - savedAt) \in Int
            BY <5>3
          <6> QED
            BY <5>4, <6>1, <6>2
        <5>6. CASE current[a] # file[a]
          <6>1. /\ savedAt < current[a].at
                /\ Dist(current[a].price, file[a].price) <= MaxMove * (current[a].at - savedAt)
            BY <2>3, <5>6 DEF Remembers, Running, Restarted
          <6>2. current[a].at < clock
            BY <1>0, <1>3, <3>6 DEF OnePushATick, PublisherTyped
          <6> DEFINE i == current[a].at - savedAt
                     j == clock - savedAt
          <6>3. i \in Nat /\ j \in Nat /\ i < j
            BY <1>3, <2>3, <3>6, <6>1, <6>2
          <6>4. MaxMove * i + MaxMove <= MaxMove * j /\ MaxMove * i \in Nat /\ MaxMove * j \in Int
            <7> HIDE DEF i, j
            <7> QED
              BY <6>3, BoundGrows
          <6>5. Dist(batch[a], file[a].price) <= Dist(batch[a], current[a].price) + Dist(current[a].price, file[a].price)
            BY <2>3, <3>1, DistFacts
          <6>6. /\ Dist(batch[a], file[a].price) \in Nat /\ Dist(batch[a], current[a].price) \in Nat
                /\ Dist(current[a].price, file[a].price) \in Nat
            BY <2>3, <3>1, DistFacts
          <6>7. Dist(current[a].price, file[a].price) <= MaxMove * i
            BY <6>1
          <6> HIDE DEF i
          <6>8. Dist(batch[a], file[a].price) <= MaxMove * j
            BY <5>2, <6>4, <6>5, <6>6, <6>7
          <6> QED
            BY <6>8
        <5> QED
          BY <5>5, <5>6
      <4>2. Running(a)'
        BY <1>0, <1>3, <3>1, <3>4, <3>6, <4>1 DEF Running
      <4> QED
        BY <1>0, <1>3, <2>3, <3>1, <3>6, <4>2 DEF Remembers
    <3> QED
      BY <2>1, <3>5, <3>6
  <2> QED
    BY <2>4, <2>5
<1> QED
  BY <1>5, <1>6, <1>7, <1>8

LEMMA SyncKeeps ==
  ASSUME PublisherInv, SyncAssetPnl
  PROVE  PublisherInv'
<1> USE PublisherNumbers DEF PublisherInv
<1>0. /\ cycle.pc = "sync" /\ BreakerSurvivesRestart'
      /\ UNCHANGED <<clock, round, slot, floating, current, file, savedAt, fullAt, lostFile, lastStep>>
  BY DEF SyncAssetPnl, BreakerSurvivesRestart
<1>1. CASE cycle.todo = {}
  <2>1. cycle' = [Quiet EXCEPT !.pc = "done"] /\ UNCHANGED <<nav, synced, missed>>
    BY <1>1 DEF SyncAssetPnl
  <2>2. PublisherTyped' /\ cycle'.pc = "done"
    BY <1>0, <2>1 DEF PublisherTyped, Quiet, NoBatch, IsBatch
  <2>3. RoundsOK' /\ OnePushATick' /\ MarksSynced'
    BY <1>0, <2>1, <2>2 DEF RoundsOK, OnePushATick, MarksSynced
  <2> QED
    BY <1>0, <2>2, <2>3, RestingRemembers
<1>2. CASE cycle.todo # {}
  <2>1. PICK a \in cycle.todo :
          /\ cycle' = [cycle EXCEPT !.todo = cycle.todo \ {a}]
          /\ synced' = [synced EXCEPT ![a] = cycle.batch[a]]
          /\ \/ nav' = [nav EXCEPT ![a] = slot[a].price] /\ missed' = missed \ {a}
             \/ UNCHANGED nav /\ missed' = missed \union {a}
    BY <1>2 DEF SyncAssetPnl
  <2>2. /\ DOMAIN cycle' = {"pc", "batch", "round", "todo"} /\ cycle'.pc = "sync" /\ cycle'.batch = cycle.batch
        /\ cycle'.round = cycle.round /\ cycle'.todo = cycle.todo \ {a}
    BY <1>0, <2>1 DEF PublisherTyped
  <2>3. a \in DOMAIN cycle.batch /\ a \in Assets /\ cycle.batch[a] \in Nat /\ cycle.batch[a] # 0
    BY DEF PublisherTyped, IsBatch, Band
  <2>4. slot[a].price = cycle.batch[a]
    <3>1. slot[a] = [price |-> cycle.batch[a], round |-> cycle.round]
      BY <1>0, <2>3 DEF RoundsOK
    <3> QED
      BY <3>1
  <2>5. synced' \in [Assets -> Nat] /\ nav' \in [Assets -> Int]
    BY <2>1, <2>3, <2>4 DEF PublisherTyped
  <2>6. PublisherTyped'
    BY <1>0, <2>2, <2>5 DEF PublisherTyped
  <2>7. RoundsOK' /\ OnePushATick'
    BY <1>0, <2>2 DEF RoundsOK, OnePushATick
  <2>8. \A b \in Assets : b # a => synced'[b] = synced[b] /\ nav'[b] = nav[b] /\ (b \in missed' <=> b \in missed)
    BY <2>1 DEF PublisherTyped
  <2>9. synced'[a] = cycle.batch[a] /\ (a \in missed' \/ nav'[a] = cycle.batch[a])
    BY <2>1, <2>3, <2>4 DEF PublisherTyped
  <2>10. \A b \in Assets \ missed' : synced'[b] = 0 \/ nav'[b] = synced'[b]
    BY <2>8, <2>9 DEF MarksSynced
  <2>11. ASSUME NEW b \in DOMAIN cycle.batch \ cycle'.todo PROVE Moved(b, cycle.batch[b])' = FALSE
    <3>1. CASE b = a
      <4>1. Dist(cycle.batch[a], cycle.batch[a]) = 0
        BY <2>3 DEF Dist
      <4> QED
        BY <2>2, <2>3, <2>9, <3>1, <4>1 DEF Moved
    <3>2. CASE b # a
      <4>1. b \in Assets /\ ~Moved(b, cycle.batch[b])
        BY <1>0, <2>2, <3>2 DEF MarksSynced, PublisherTyped, IsBatch
      <4> QED
        BY <2>2, <2>8, <3>2, <4>1 DEF Moved
    <3> QED
      BY <3>1, <3>2
  <2>12. MarksSynced'
    BY <2>2, <2>10, <2>11 DEF MarksSynced
  <2> QED
    BY <1>0, <2>2, <2>6, <2>7, <2>12, RestingRemembers
<1> QED
  BY <1>1, <1>2

LEMMA SaveAgainKeeps ==
  ASSUME PublisherInv, SaveAgain
  PROVE  PublisherInv'
<1> USE PublisherNumbers DEF PublisherInv
<1>0. /\ cycle.pc = "done" /\ Saved(current)
      /\ UNCHANGED <<clock, round, slot, floating, current, nav, synced, fullAt, cycle, lastStep, missed>>
  BY DEF SaveAgain
<1>1. PublisherTyped'
  <2>1. file' \in {file, current} /\ savedAt' \in {savedAt, clock}
    BY <1>0, SavedOutcomes
  <2> QED
    BY <1>0, <2>1 DEF PublisherTyped
<1>2. RoundsOK' /\ OnePushATick' /\ MarksSynced' /\ BreakerSurvivesRestart'
  BY <1>0 DEF RoundsOK, OnePushATick, MarksSynced, Moved, BreakerSurvivesRestart
<1>3. Remembered'
  <2> SUFFICES ASSUME ~lostFile', NEW a \in Assets PROVE Remembers(a)'
    BY DEF Remembered
  <2>1. ~lostFile /\ (file' = current \/ UNCHANGED <<file, savedAt>>)
    BY <1>0, SavedOutcomes
  <2>2. Remembers(a) /\ clock' \in Nat /\ clock <= clock'
    BY <1>0, <2>1 DEF PublisherTyped, Remembered
  <2>3. MayStore(a)' \subseteq MayStore(a)
    BY <1>0 DEF MayStore
  <2>4. file' = current => Remembers(a)'
    BY <1>0, <2>2, <2>3, WrittenRemembers
  <2>5. UNCHANGED <<file, savedAt>> => Remembers(a)'
    BY <1>0, <2>2, <2>3, StillRemembered
  <2> QED
    BY <2>1, <2>4, <2>5
<1> QED
  BY <1>1, <1>2, <1>3

LEMMA RestartKeeps ==
  ASSUME PublisherInv, RestartPublisher
  PROVE  PublisherInv'
<1> USE PublisherNumbers DEF PublisherInv
<1>0. /\ savedAt' = -1 /\ synced' = [a \in Assets |-> 0] /\ cycle' = [Quiet EXCEPT !.pc = "done"]
      /\ UNCHANGED <<clock, round, slot, floating, file, nav, lastStep, missed>>
      /\ \/ current' = file /\ UNCHANGED lostFile
         \/ current' = [a \in Assets |-> [price |-> 0, at |-> -1]] /\ lostFile' = TRUE
  BY DEF RestartPublisher
<1>1. PublisherTyped' /\ cycle'.pc = "done"
  <2>1. /\ DOMAIN cycle' = {"pc", "batch", "round", "todo"} /\ cycle'.pc = "done"
        /\ IsBatch(cycle'.batch) /\ cycle'.round \in Nat /\ cycle'.todo = {}
    BY <1>0 DEF Quiet, NoBatch, IsBatch
  <2>2. current' \in [Assets -> [price : Nat, at : Int]] /\ \A a \in Assets : current'[a].at \in -1..clock
    <3>1. CASE current' = file
      BY <3>1 DEF PublisherTyped
    <3>2. CASE current' = [a \in Assets |-> [price |-> 0, at |-> -1]]
      BY <3>2 DEF PublisherTyped
    <3> QED
      BY <1>0, <3>1, <3>2
  <2> QED
    BY <1>0, <2>1, <2>2 DEF PublisherTyped
<1>2. RoundsOK' /\ OnePushATick' /\ MarksSynced' /\ BreakerSurvivesRestart'
  BY <1>0, <1>1 DEF RoundsOK, OnePushATick, MarksSynced, BreakerSurvivesRestart
<1>3. Remembered'
  <2> SUFFICES ASSUME ~lostFile', NEW a \in Assets PROVE Remembers(a)'
    BY DEF Remembered
  <2>1. current' = file /\ ~lostFile
    BY <1>0
  <2>2. /\ Remembers(a) /\ current[a].at \in Int /\ file[a].at \in Int /\ clock \in Nat
        /\ current[a].price \in Nat /\ file[a].price \in Nat /\ savedAt \in Int
    BY <2>1 DEF PublisherTyped, Remembered
  <2>3. MayStore(a)' \subseteq MayStore(a)
    BY <1>0, <1>1 DEF MayStore
  <2>4. Restarted(a)'
    <3>1. CASE Restarted(a)
      BY <1>0, <2>1, <2>3, <3>1 DEF Restarted, InWindow
    <3>2. CASE Running(a)
      <4> SUFFICES ASSUME InWindow(file[a])
                   PROVE  /\ Dist(current[a].price, file[a].price) <= MaxMove * (SaveEvery - 1)
                          /\ \A q \in MayStore(a) : Dist(q, current[a].price) <= MaxMove
        BY <1>0, <2>1, <2>2, <2>3 DEF Restarted, InWindow
      <4>1. \A q \in MayStore(a) : Dist(q, current[a].price) <= MaxMove
        BY <2>2, <3>2 DEF Running, Remembers, InWindow
      <4>2. CASE current[a] = file[a]
        <5>1. Dist(current[a].price, file[a].price) = 0
          BY <2>2, <4>2, DistFacts
        <5>2. SaveEvery - 1 \in Nat
          OBVIOUS
        <5>3. MaxMove * (SaveEvery - 1) \in Nat
          BY <5>2
        <5> QED
          BY <4>1, <5>1, <5>3
      <4>3. CASE current[a] # file[a]
        <5> DEFINE i == current[a].at - savedAt
        <5>1. i \in Nat /\ i < SaveEvery /\ Dist(current[a].price, file[a].price) <= MaxMove * i
          BY <2>2, <3>2, <4>3 DEF Running
        <5>2. Dist(current[a].price, file[a].price) \in Nat
          BY <2>2, DistFacts
        <5> HIDE DEF i
        <5>3. MaxMove * i + MaxMove <= MaxMove * SaveEvery /\ MaxMove * i \in Nat
          BY <5>1, BoundGrows
        <5>4. MaxMove * (SaveEvery - 1) = MaxMove * SaveEvery - MaxMove /\ MaxMove * SaveEvery \in Nat
          OBVIOUS
        <5> QED
          BY <4>1, <5>1, <5>2, <5>3, <5>4
      <4> QED
        BY <4>2, <4>3
    <3> QED
      BY <2>2, <3>1, <3>2 DEF Remembers
  <2> QED
    BY <1>0, <2>1, <2>2, <2>4 DEF Remembers
<1> QED
  BY <1>1, <1>2, <1>3

LEMMA PublisherInvIsEnough == PublisherInv => PricesGuarded
<1> SUFFICES ASSUME PublisherInv PROVE PricesGuarded
  OBVIOUS
<1> USE PublisherNumbers DEF PublisherInv
<1>1. PublisherTypeOK
  BY DEF PublisherTypeOK, PublisherTyped, Band
<1>2. NavFollows
  <2> SUFFICES ASSUME cycle.pc = "sync", cycle.todo = {}, NEW a \in DOMAIN cycle.batch \ missed
               PROVE  Dist(nav[a], cycle.batch[a]) < SyncMove
    BY DEF NavFollows
  <2>1. a \in Assets /\ cycle.batch[a] \in Nat /\ ~Moved(a, cycle.batch[a])
    BY DEF PublisherTyped, IsBatch, Band, MarksSynced
  <2>4. synced[a] \in Nat
    BY <2>1 DEF PublisherTyped
  <2>5. Dist(cycle.batch[a], synced[a]) \in Nat
    BY <2>1, <2>4, DistFacts
  <2>2. synced[a] \in Nat /\ synced[a] # 0 /\ Dist(cycle.batch[a], synced[a]) < SyncMove
    BY <2>1, <2>4, <2>5 DEF Moved
  <2>3. nav[a] = synced[a]
    BY <2>1, <2>2 DEF MarksSynced
  <2> QED
    BY <2>1, <2>2, <2>3, DistFacts
<1> QED
  BY <1>1, <1>2 DEF PricesGuarded

THEOREM PublishedPricesGuarded == PublisherInit /\ [][PublisherNext]_publisherVars => []PricesGuarded
<1>1. PublisherInv /\ [PublisherNext]_publisherVars => PublisherInv'
  <2> SUFFICES ASSUME PublisherInv, [PublisherNext]_publisherVars PROVE PublisherInv'
    OBVIOUS
  <2>1. CASE UNCHANGED publisherVars
    BY <2>1 DEF publisherVars, PublisherInv, PublisherTyped, RoundsOK, OnePushATick, JumpBound, Remembered, Remembers,
         Running, Restarted, InWindow, MayStore, MarksSynced, Moved, BreakerSurvivesRestart
  <2> QED
    BY <2>1, PublisherTicks, FetchKeeps, PushLandsKeeps, ResolvesKeeps, PushInDoubtKeeps, NotePushKeeps, SyncKeeps,
       SaveAgainKeeps, RestartKeeps DEF PublisherNext, PublisherStep
<1> QED
  BY PublisherStarts, <1>1, PublisherInvIsEnough, PTL

-----------------------------------------------------------------------------
(* The timed duties: deadlines that move by what may fail.                  *)

\* The ticks whose duty is done
Ticks == time + (IF ran THEN 1 ELSE 0)

ClockTyped ==
    /\ duty \in {"funding", "custody", "stork"} /\ time \in Nat /\ time \in 0..MaxTime /\ ran \in BOOLEAN /\ dutyFaults \in Nat
    /\ sentAt \in Never..time /\ delivered \in Never..time
FundTyped ==
    /\ lastFunding \in 0..time /\ thawed \in 0..time /\ frozen \in BOOLEAN
    /\ nextFunding \in Int /\ submitted \in Never..lastFunding
CustodyTyped ==
    /\ short \in BOOLEAN /\ shortSince \in Never..time /\ (short => shortSince >= 0)
    /\ custodyStreak \in 0..Ticks
StorkTyped ==
    /\ ws \in {"connecting", "open", "silent", "waiting"} /\ backoff \in 1..BackoffMax
    /\ frameAt \in Never..time /\ relayStreak \in 0..Ticks /\ darkAlertAt \in Int
DutiesTyped == ClockTyped /\ FundTyped /\ CustodyTyped /\ StorkTyped

\* How late funding may be, and how long a deficit may go unpaged, after the faults so far
FundLate == FundingPeriod + FailedRetry * dutyFaults
Patience == CustodyStreak + AlertWindow * dutyFaults

\* The last time that leaves nothing to pay before it
Since == IF lastFunding > thawed THEN lastFunding ELSE thawed

\* The next attempt comes in time, and so did the last
OnSchedule ==
    duty = "funding" =>
        /\ frozen => nextFunding <= time + FundLate
        /\ ~frozen => nextFunding <= Since + FundLate /\ Ticks <= Since + FundLate

Paged == delivered # Never /\ delivered >= shortSince - AlertWindow

\* An unpaged deficit is young: the checks that are left to its streak, and the end of a window
\* that suppresses its page, come before the deadline
Watched ==
    duty = "custody" /\ short =>
        \/ Paged
        \/ /\ Ticks - shortSince < Patience
           /\ Ticks - shortSince + CustodyStreak - 1 - custodyStreak < Patience
           /\ sentAt # Never => sentAt + AlertWindow - shortSince < Patience

DInv == DutiesTyped /\ OnSchedule /\ Watched /\ DarkFeedReported

\* One more fault moves each deadline by what it can cost
LEMMA Deadlines ==
  ASSUME DutiesConstants, dutyFaults \in Nat
  PROVE  /\ FundLate \in Nat /\ Patience \in Nat /\ FundingPeriod \in Nat
         /\ FundLate >= FundingPeriod /\ Patience >= CustodyStreak
         /\ FundingPeriod >= FundingInterval /\ FundingPeriod >= ContractInterval + NotDueRetry
         /\ dutyFaults' = dutyFaults => FundLate' = FundLate /\ Patience' = Patience
         /\ dutyFaults' = dutyFaults + 1 =>
               /\ FundLate' = FundLate + FailedRetry
               /\ Patience' = Patience + AlertWindow /\ Patience' >= CustodyStreak + AlertWindow
<1>1. {ContractInterval, FundingInterval, NotDueRetry, FailedRetry, CustodyStreak, AlertWindow} \subseteq Nat
  BY DEF DutiesConstants
<1> DEFINE fr == FailedRetry * dutyFaults
           aw == AlertWindow * dutyFaults
<1>2. fr \in Nat /\ aw \in Nat
  BY <1>1
<1>3. FundLate = FundingPeriod + fr /\ Patience = CustodyStreak + aw
  BY DEF FundLate, Patience
<1>4. FundingPeriod \in Nat /\ FundingPeriod >= FundingInterval /\ FundingPeriod >= ContractInterval + NotDueRetry
  BY <1>1 DEF FundingPeriod
<1>5. dutyFaults' = dutyFaults => FundLate' = FundLate /\ Patience' = Patience
  BY DEF FundLate, Patience, FundingPeriod
<1>6. ASSUME dutyFaults' = dutyFaults + 1
      PROVE  FundLate' = FundingPeriod + fr + FailedRetry /\ Patience' = CustodyStreak + aw + AlertWindow
  <2>1. FailedRetry * (dutyFaults + 1) = fr + FailedRetry /\ AlertWindow * (dutyFaults + 1) = aw + AlertWindow
    BY <1>1
  <2>2. FundLate' = FundingPeriod + FailedRetry * (dutyFaults + 1)
        /\ Patience' = CustodyStreak + AlertWindow * (dutyFaults + 1)
    BY <1>6 DEF FundLate, Patience, FundingPeriod
  <2> HIDE DEF fr, aw
  <2> QED
    BY <1>1, <1>2, <1>4, <2>1, <2>2
<1> HIDE DEF fr, aw
<1> QED
  BY <1>1, <1>2, <1>3, <1>4, <1>5, <1>6

LEMMA DutiesStart == ASSUME DutiesConstants, DutiesInit PROVE DInv
<1>1. dutyFaults \in Nat
  BY DEF DutiesInit
<1>2. FundLate \in Nat /\ FundLate >= FundingPeriod /\ FundingPeriod \in Nat
  BY <1>1, Deadlines
<1>3. DutiesTyped
  <2>1. ran \in BOOLEAN /\ frozen \in BOOLEAN /\ short \in BOOLEAN /\ ~short
    BY DEF DutiesInit
  <2>2. /\ time = 0 /\ Ticks = 0 /\ duty \in {"funding", "custody", "stork"} /\ dutyFaults = 0
        /\ sentAt = -1 /\ delivered = -1 /\ lastFunding = 0 /\ thawed = 0 /\ nextFunding = 0 /\ submitted = -1
        /\ shortSince = -1 /\ custodyStreak = 0 /\ Never = -1
    BY DEF DutiesInit, Ticks, Never
  <2>3. MaxTime \in Nat /\ BackoffMax \in Nat \ {0}
    BY DEF DutiesConstants
  <2>4. ClockTyped /\ FundTyped /\ CustodyTyped
    BY <2>1, <2>2, <2>3 DEF ClockTyped, FundTyped, CustodyTyped
  <2>5. StorkTyped
    BY <2>2, <2>3 DEF DutiesInit, StorkTyped, Long
  <2> QED
    BY <2>4, <2>5 DEF DutiesTyped
<1>4. OnSchedule
  BY <1>2 DEF DutiesInit, OnSchedule, Since, Ticks
<1>5. Watched /\ DarkFeedReported
  BY DEF DutiesInit, Watched, DarkFeedReported
<1> QED
  BY <1>3, <1>4, <1>5 DEF DInv

\* The clock never ticks past an attempt or a check that is due
LEMMA TickKeepsDuties == ASSUME DutiesConstants, DInv, DutyTick PROVE DInv'
<1>1. /\ time \in Nat /\ time' = time + 1 /\ time' \in 0..MaxTime /\ ran = TRUE /\ ran' = FALSE
      /\ UNCHANGED <<duty, alerting, funding, custody, stork, dutyFaults>>
  BY DEF DutyTick, DInv, DutiesTyped, ClockTyped, DutiesConstants
<1>2. Ticks' = Ticks /\ Ticks = time' /\ FundLate' = FundLate /\ Patience' = Patience
  BY <1>1 DEF Ticks, FundLate, Patience, FundingPeriod
<1>3. DutiesTyped'
  <2> USE <1>1, <1>2 DEF DInv, DutiesTyped
  <2>1. ClockTyped'
    <3>1. ran' \in BOOLEAN
      OBVIOUS
    <3>2. duty' = duty /\ dutyFaults' = dutyFaults /\ sentAt' = sentAt /\ delivered' = delivered
      BY DEF alerting
    <3>3. time <= time' /\ Never \in Int
      BY DEF Never
    <3>4. sentAt \in Never..time /\ delivered \in Never..time
      BY DEF ClockTyped
    <3> QED
      BY <3>1, <3>2, <3>3, <3>4 DEF ClockTyped
  <2>2. FundTyped' /\ CustodyTyped' /\ StorkTyped'
    BY DEF FundTyped, CustodyTyped, StorkTyped, Never, funding, custody, stork
  <2> QED
    BY <2>1, <2>2
<1>4. OnSchedule'
  <2>1. FundLate \in Nat /\ nextFunding \in Int
    BY Deadlines DEF DInv, DutiesTyped, ClockTyped, FundTyped
  <2> QED
    BY <1>1, <1>2, <2>1 DEF DInv, OnSchedule, Since, funding
<1>5. Watched'
  BY <1>1, <1>2 DEF DInv, Watched, Paged, Never, alerting, custody
<1>6. DarkFeedReported'
  BY <1>1 DEF DarkFeedReported
<1> QED
  BY <1>3, <1>4, <1>5, <1>6 DEF DInv

\* What the steps of one duty leave alone
LEMMA TicksRun ==
  ASSUME ClockTyped, time' = time, ran' = ran \/ (ran = FALSE /\ ran' = TRUE)
  PROVE  ran' \in BOOLEAN /\ Ticks \in Nat /\ Ticks' \in Nat /\ Ticks <= Ticks' /\ time \in Nat
<1>1. time \in Nat /\ ran \in BOOLEAN
  BY DEF ClockTyped
<1>2. ran' \in BOOLEAN
  BY <1>1
<1>3. CASE ran
  <2>1. ran' = TRUE
    BY <1>1, <1>3
  <2>2. Ticks = time + 1 /\ Ticks' = time + 1
    BY <1>3, <2>1 DEF Ticks
  <2> QED
    BY <1>1, <1>2, <2>2
<1>4. CASE ~ran
  <2>1. Ticks = time
    BY <1>1, <1>4 DEF Ticks
  <2>2. CASE ran'
    BY <1>1, <1>2, <2>1, <2>2 DEF Ticks
  <2>3. CASE ~ran'
    BY <1>1, <1>2, <2>1, <2>3 DEF Ticks
  <2> QED
    BY <2>2, <2>3
<1> QED
  BY <1>3, <1>4

LEMMA FundingAlone ==
  ASSUME DInv, duty = "funding", UNCHANGED <<duty, time, alerting, custody, stork>>,
         ran' = ran \/ (ran = FALSE /\ ran' = TRUE), dutyFaults' \in Nat, FundTyped', OnSchedule'
  PROVE  DInv'
<1>1. ran' \in BOOLEAN /\ Ticks \in Nat /\ Ticks' \in Nat /\ Ticks <= Ticks' /\ time \in Nat
  BY TicksRun DEF DInv, DutiesTyped
<1>2. ClockTyped' /\ CustodyTyped' /\ StorkTyped'
  BY <1>1 DEF DInv, DutiesTyped, ClockTyped, CustodyTyped, StorkTyped, alerting, custody, stork, Never
<1>3. Watched' /\ DarkFeedReported'
  BY DEF Watched, DarkFeedReported
<1> QED
  BY <1>2, <1>3 DEF DInv, DutiesTyped

LEMMA FundingKeepsDuties ==
  ASSUME DutiesConstants, DInv, OthersFund \/ FreezeOrThaw \/ MaybeApplyFunding \/ RestartFunding
  PROVE  DInv'
<1>1. /\ duty = "funding" /\ time \in Nat /\ ran \in BOOLEAN /\ dutyFaults \in Nat
      /\ lastFunding \in 0..time /\ thawed \in 0..time /\ frozen \in BOOLEAN
      /\ nextFunding \in Int /\ submitted \in Never..lastFunding /\ Never = -1
  BY DEF DInv, DutiesTyped, ClockTyped, FundTyped, OthersFund, FreezeOrThaw, MaybeApplyFunding, RestartFunding, Never
<1>2. /\ FundLate \in Nat /\ FundingPeriod \in Nat /\ FundLate >= FundingPeriod
      /\ FundingPeriod >= FundingInterval /\ FundingPeriod >= ContractInterval + NotDueRetry
      /\ dutyFaults' = dutyFaults => FundLate' = FundLate
      /\ dutyFaults' = dutyFaults + 1 => FundLate' = FundLate + FailedRetry
  BY <1>1, Deadlines
<1>3. {ContractInterval, FundingInterval, NotDueRetry, FailedRetry} \subseteq Nat \ {0}
  BY DEF DutiesConstants
<1>4. /\ Since \in 0..time /\ lastFunding <= Since /\ thawed <= Since
  BY <1>1 DEF Since
<1>5. /\ frozen => nextFunding <= time + FundLate
      /\ ~frozen => nextFunding <= Since + FundLate /\ Ticks <= Since + FundLate
  BY <1>1 DEF DInv, OnSchedule
<1>6. Ticks = time + (IF ran THEN 1 ELSE 0)
  BY DEF Ticks
<1>7. CASE OthersFund
  <2>1. /\ ~frozen /\ lastFunding' = time
        /\ UNCHANGED <<duty, time, ran, frozen, thawed, nextFunding, submitted, dutyFaults, alerting, custody, stork>>
    BY <1>7 DEF OthersFund
  <2>2. Since' = time /\ Ticks' = Ticks
    BY <1>1, <2>1 DEF Since, Ticks
  <2>3. FundTyped'
    BY <1>1, <2>1 DEF FundTyped
  <2>4. OnSchedule'
    BY <1>1, <1>2, <1>3, <1>4, <1>5, <1>6, <2>1, <2>2 DEF OnSchedule
  <2> QED
    BY <1>1, <2>1, <2>3, <2>4, FundingAlone
<1>8. CASE FreezeOrThaw
  <2>1. /\ frozen' = ~frozen /\ thawed' = (IF frozen THEN time ELSE thawed) /\ dutyFaults' = dutyFaults + 1
        /\ UNCHANGED <<duty, time, ran, lastFunding, nextFunding, submitted, alerting, custody, stork>>
    BY <1>8 DEF FreezeOrThaw, DutyFault
  <2>2. Ticks' = Ticks /\ (frozen => Since' = time)
    BY <1>1, <2>1 DEF Since, Ticks
  <2>3. FundTyped' /\ dutyFaults' \in Nat
    BY <1>1, <2>1 DEF FundTyped
  <2>4. OnSchedule'
    <3>1. FundLate' = FundLate + FailedRetry
      BY <1>2, <2>1
    <3>2. CASE frozen
      <4>1. ~frozen' /\ Since' = time /\ nextFunding' <= time + FundLate
        BY <1>5, <2>1, <2>2, <3>2
      <4>2. Ticks' <= time + 1
        BY <1>1, <1>6, <2>2
      <4>3. nextFunding' <= Since' + FundLate' /\ Ticks' <= Since' + FundLate'
        BY <1>1, <1>2, <1>3, <1>6, <2>1, <2>2, <3>1, <4>1, <4>2
      <4> QED
        BY <4>1, <4>3 DEF OnSchedule
    <3>3. CASE ~frozen
      <4>1. frozen' /\ nextFunding' = nextFunding /\ nextFunding <= Since + FundLate /\ time' = time
        BY <1>5, <2>1, <3>3
      <4>2. nextFunding' <= time' + FundLate'
        BY <1>1, <1>2, <1>3, <1>4, <3>1, <4>1
      <4> QED
        BY <4>1, <4>2 DEF OnSchedule
    <3> QED
      BY <3>2, <3>3
  <2> QED
    BY <1>1, <2>1, <2>3, <2>4, FundingAlone
<1>9. CASE MaybeApplyFunding
  <2>1. /\ ran = FALSE /\ ran' = TRUE
        /\ UNCHANGED <<duty, time, frozen, thawed, alerting, custody, stork>>
    BY <1>1, <1>9 DEF MaybeApplyFunding
  <2>2. Ticks = time /\ Ticks' = time + 1
    BY <1>1, <2>1 DEF Ticks
  <2>3. CASE time < nextFunding /\ UNCHANGED <<lastFunding, nextFunding, fundStreak, submitted, dutyFaults>>
    <3>1. Since' = Since
      BY <2>1, <2>3 DEF Since
    <3>2. FundTyped' /\ dutyFaults' \in Nat
      BY <1>1, <2>1, <2>3 DEF FundTyped
    <3>3. OnSchedule'
      BY <1>1, <1>2, <1>4, <1>5, <2>1, <2>2, <2>3, <3>1 DEF OnSchedule
    <3> QED
      BY <1>1, <2>1, <3>2, <3>3, FundingAlone
  <2>4. CASE /\ lastFunding' = time /\ submitted' = time /\ ~frozen
             /\ nextFunding' = time + FundingInterval /\ UNCHANGED dutyFaults
    <3>1. Since' = time
      BY <1>1, <2>1, <2>4 DEF Since
    <3>2. FundTyped' /\ dutyFaults' \in Nat
      BY <1>1, <1>3, <2>1, <2>4 DEF FundTyped
    <3>3. OnSchedule'
      BY <1>1, <1>2, <1>3, <2>1, <2>2, <2>4, <3>1 DEF OnSchedule
    <3> QED
      BY <1>1, <2>1, <3>2, <3>3, FundingAlone
  <2>5. CASE (~FundingDue \/ frozen) /\ NotDue /\ UNCHANGED <<lastFunding, submitted, dutyFaults>>
    <3>1. Since' = Since /\ nextFunding' = time + NotDueRetry /\ (~frozen => time - lastFunding < ContractInterval)
      BY <1>1, <1>3, <2>1, <2>5 DEF Since, NotDue, FundingDue
    <3>2. FundTyped' /\ dutyFaults' \in Nat
      BY <1>1, <1>3, <2>1, <2>5, <3>1 DEF FundTyped
    <3>3. OnSchedule'
      BY <1>1, <1>2, <1>3, <1>4, <2>1, <2>2, <2>5, <3>1 DEF OnSchedule
    <3> QED
      BY <1>1, <2>1, <3>2, <3>3, FundingAlone
  <2>6. CASE /\ dutyFaults' = dutyFaults + 1 /\ Failed /\ UNCHANGED submitted
             /\ UNCHANGED lastFunding \/ lastFunding' = time
    <3>1. Since' >= Since /\ Since' \in Nat /\ nextFunding' = time + FailedRetry
      BY <1>1, <1>3, <2>1, <2>6 DEF Since, Failed
    <3>2. FundTyped' /\ dutyFaults' \in Nat
      BY <1>1, <1>3, <2>1, <2>6, <3>1 DEF FundTyped
    <3>3. OnSchedule'
      BY <1>1, <1>2, <1>3, <1>4, <1>5, <2>1, <2>2, <2>6, <3>1 DEF OnSchedule
    <3> QED
      BY <1>1, <2>1, <3>2, <3>3, FundingAlone
  <2> QED
    BY <1>9, <2>3, <2>4, <2>5, <2>6 DEF MaybeApplyFunding, DutyFault
<1>10. CASE RestartFunding
  <2>1. /\ dutyFaults' = dutyFaults + 1
        /\ nextFunding' = (IF submitted # Never THEN submitted + FundingInterval ELSE time)
        /\ UNCHANGED <<duty, time, ran, lastFunding, frozen, thawed, submitted, alerting, custody, stork>>
    BY <1>10 DEF RestartFunding, DutyFault
  <2>2. Since' = Since /\ Ticks' = Ticks
    BY <2>1 DEF Since, Ticks
  <2>3. FundTyped' /\ dutyFaults' \in Nat
    BY <1>1, <1>3, <2>1 DEF FundTyped
  <2>4. OnSchedule'
    BY <1>1, <1>2, <1>3, <1>4, <1>5, <1>6, <2>1, <2>2 DEF OnSchedule
  <2> QED
    BY <1>1, <2>1, <2>3, <2>4, FundingAlone
<1> QED
  BY <1>7, <1>8, <1>9, <1>10

LEMMA CustodyAlone ==
  ASSUME DInv, duty = "custody", UNCHANGED <<duty, time, funding, stork>>,
         ran' = ran \/ (ran = FALSE /\ ran' = TRUE), dutyFaults' \in Nat,
         sentAt' \in Never..time, delivered' \in Never..time, CustodyTyped', Watched'
  PROVE  DInv'
<1>1. ran' \in BOOLEAN /\ Ticks \in Nat /\ Ticks' \in Nat /\ Ticks <= Ticks' /\ time \in Nat
  BY TicksRun DEF DInv, DutiesTyped
<1>2. ClockTyped' /\ FundTyped' /\ StorkTyped'
  BY <1>1 DEF DInv, DutiesTyped, ClockTyped, FundTyped, StorkTyped, funding, stork, Never
<1>3. OnSchedule' /\ DarkFeedReported'
  BY DEF OnSchedule, DarkFeedReported
<1> QED
  BY <1>2, <1>3 DEF DInv, DutiesTyped

\* A page goes out, is suppressed by a younger one, or fails
LEMMA OnePage ==
  ASSUME ClockTyped, NEW failing \in BOOLEAN, SendAlert(failing)
  PROVE  \/ sentAt # Never /\ time - sentAt < AlertWindow /\ UNCHANGED <<sentAt, delivered>>
         \/ sentAt' = time /\ ~failing /\ delivered' = time
         \/ sentAt' = time /\ failing /\ delivered' = delivered
  BY DEF SendAlert, alerting

LEMMA CustodyKeepsDuties ==
  ASSUME DutiesConstants, DInv, DeficitAppears \/ CheckCustody \/ RestartCustody
  PROVE  DInv'
<1>1. /\ duty = "custody" /\ time \in Nat /\ ran \in BOOLEAN /\ dutyFaults \in Nat
      /\ sentAt \in Never..time /\ delivered \in Never..time /\ Never = -1
      /\ short \in BOOLEAN /\ shortSince \in Never..time /\ (short => shortSince >= 0)
      /\ custodyStreak \in 0..Ticks /\ ClockTyped
  BY DEF DInv, DutiesTyped, ClockTyped, CustodyTyped, DeficitAppears, CheckCustody, RestartCustody, Never
<1>2. /\ Patience \in Nat /\ Patience >= CustodyStreak
      /\ dutyFaults' = dutyFaults => Patience' = Patience
      /\ dutyFaults' = dutyFaults + 1 => Patience' = Patience + AlertWindow /\ Patience' >= CustodyStreak + AlertWindow
  BY <1>1, Deadlines
<1>3. /\ CustodyStreak \in Nat /\ AlertWindow \in Nat /\ CustodyStreak >= 1 /\ AlertWindow >= 1
      /\ CustodyStreak <= AlertWindow + 1
  BY DEF DutiesConstants
<1>4. short => \/ Paged
               \/ /\ Ticks - shortSince < Patience
                  /\ Ticks - shortSince + CustodyStreak - 1 - custodyStreak < Patience
                  /\ sentAt # Never => sentAt + AlertWindow - shortSince < Patience
  BY <1>1 DEF DInv, Watched
<1>5. Ticks = time + (IF ran THEN 1 ELSE 0) /\ Ticks \in Nat
  BY <1>1 DEF Ticks
<1>6. CASE DeficitAppears
  <2>1. /\ short' = ~short /\ shortSince' = (IF short THEN Never ELSE time) /\ dutyFaults' = dutyFaults + 1
        /\ UNCHANGED <<duty, time, ran, sentAt, delivered, custodyStreak, funding, stork>>
    BY <1>6 DEF DeficitAppears, DutyFault, alerting
  <2>2. Ticks' = Ticks
    BY <2>1 DEF Ticks
  <2>3. dutyFaults' \in Nat /\ sentAt' \in Never..time /\ delivered' \in Never..time
    BY <1>1, <2>1
  <2>4. CustodyTyped'
    <3>1. short' \in BOOLEAN /\ (short' => ~short)
      BY <1>1, <2>1
    <3>2. shortSince' \in Never..time /\ (short' => shortSince' = time)
      BY <1>1, <2>1, <3>1
    <3>3. time' = time /\ custodyStreak' \in 0..Ticks'
      BY <1>1, <2>1, <2>2
    <3> QED
      BY <1>1, <3>1, <3>2, <3>3 DEF CustodyTyped
  <2>5. Watched'
    <3>1. sentAt' = sentAt /\ custodyStreak' = custodyStreak /\ (~short => shortSince' = time) /\ (short => ~short')
      BY <2>1
    <3>2. Patience' >= CustodyStreak + AlertWindow /\ Patience' \in Int
      BY <1>2, <1>3, <2>1
    <3>3. Ticks' \in Int /\ Ticks' <= time + 1
      BY <1>1, <1>5, <2>2
    <3> DEFINE t == Ticks'
               limit == Patience'
    <3>9. time \in Int /\ limit \in Int /\ limit >= 2 /\ limit >= CustodyStreak + AlertWindow /\ t \in Int /\ t <= time + 1
      BY <1>1, <1>3, <3>2, <3>3
    <3> HIDE DEF t, limit
    <3>4. t - time < limit
      BY <3>9
    <3>5. t - time + CustodyStreak - 1 - custodyStreak < limit
      <4>1. custodyStreak \in Nat
        BY <1>1, <1>5
      <4> QED
        BY <1>3, <3>9, <4>1
    <3>6. sentAt # Never => sentAt + AlertWindow - time < Patience'
      BY <1>1, <1>3, <3>2
    <3>7. CASE short
      BY <3>1, <3>7 DEF Watched
    <3>8. CASE ~short
      BY <3>1, <3>4, <3>5, <3>6, <3>8 DEF Watched, t, limit
    <3> QED
      BY <3>7, <3>8
  <2> QED
    BY <1>1, <2>1, <2>3, <2>4, <2>5, CustodyAlone
<1>7. CASE CheckCustody
  <2>1. /\ ran = FALSE /\ ran' = TRUE
        /\ UNCHANGED <<duty, time, short, shortSince, funding, stork>>
    BY <1>1, <1>7 DEF CheckCustody
  <2>2. Ticks = time /\ Ticks' = time + 1
    BY <1>1, <2>1 DEF Ticks
  <2>3. CASE short /\ custodyStreak' = custodyStreak + 1
    <3>1. CustodyTyped'
      BY <1>1, <2>1, <2>2, <2>3 DEF CustodyTyped
    <3>2. CASE UNCHANGED dutyFaults /\ Pages /\ SendAlert(FALSE)
      <4>1. \/ sentAt # Never /\ time - sentAt < AlertWindow /\ UNCHANGED <<sentAt, delivered>>
            \/ sentAt' = time /\ delivered' = time
        BY <1>1, <3>2, OnePage
      <4>2. CASE sentAt # Never /\ time - sentAt < AlertWindow /\ UNCHANGED <<sentAt, delivered>>
        <5>1. Paged' <=> Paged
          BY <2>1, <4>2 DEF Paged
        <5>2. custodyStreak + 1 >= CustodyStreak
          BY <3>2 DEF Pages
        <5>3. Watched'
          BY <1>1, <1>2, <1>3, <1>4, <2>1, <2>2, <2>3, <3>2, <4>2, <5>1, <5>2 DEF Watched
        <5> QED
          BY <1>1, <2>1, <3>1, <3>2, <4>2, <5>3, CustodyAlone
      <4>3. CASE sentAt' = time /\ delivered' = time
        <5>1. Paged'
          BY <1>1, <1>3, <2>1, <4>3 DEF Paged
        <5>2. Watched'
          BY <5>1 DEF Watched
        <5>3. sentAt' \in Never..time /\ delivered' \in Never..time /\ dutyFaults' \in Nat
          BY <1>1, <3>2, <4>3
        <5> QED
          BY <1>1, <2>1, <3>1, <5>2, <5>3, CustodyAlone
      <4> QED
        BY <4>1, <4>2, <4>3
    <3>3. CASE UNCHANGED dutyFaults /\ ~Pages /\ UNCHANGED <<sentAt, delivered>>
      <4>1. Paged' <=> Paged
        BY <2>1, <3>3 DEF Paged
      <4>2. custodyStreak + 1 < CustodyStreak
        BY <1>1, <1>3, <1>5, <3>3 DEF Pages
      <4>3. Watched'
        BY <1>1, <1>2, <1>3, <1>4, <2>1, <2>2, <2>3, <3>3, <4>1, <4>2 DEF Watched
      <4> QED
        BY <1>1, <2>1, <3>1, <3>3, <4>3, CustodyAlone
    <3>4. CASE DutyFault /\ (IF Pages THEN SendAlert(TRUE) ELSE UNCHANGED alerting)
      <4>1. delivered' = delivered /\ sentAt' \in {sentAt, time} /\ dutyFaults' = dutyFaults + 1
        <5>1. CASE Pages
          BY <1>1, <3>4, <5>1, OnePage DEF DutyFault
        <5>2. CASE ~Pages
          BY <3>4, <5>2 DEF alerting, DutyFault
        <5> QED
          BY <5>1, <5>2
      <4>2. Paged' <=> Paged
        BY <2>1, <4>1 DEF Paged
      <4>3. Watched'
        <5> SUFFICES ASSUME ~Paged PROVE Watched'
          BY <4>2 DEF Watched
        <5>1. Patience' = Patience + AlertWindow /\ Patience' \in Nat
          BY <1>2, <1>3, <4>1
        <5>2. Ticks' - shortSince' < Patience'
          BY <1>1, <1>2, <1>3, <1>4, <2>1, <2>2, <2>3, <5>1
        <5>3. Ticks' - shortSince' + CustodyStreak - 1 - custodyStreak' < Patience'
          BY <1>1, <1>2, <1>3, <1>4, <2>1, <2>2, <2>3, <5>1
        <5>4. sentAt' # Never => sentAt' + AlertWindow - shortSince' < Patience'
          <6>1. CASE sentAt' = time
            BY <1>1, <1>2, <1>3, <1>4, <2>1, <2>2, <2>3, <5>1, <6>1
          <6>2. CASE sentAt' = sentAt
            BY <1>1, <1>2, <1>3, <1>4, <2>1, <2>3, <5>1, <6>2
          <6> QED
            BY <4>1, <6>1, <6>2
        <5> QED
          BY <5>2, <5>3, <5>4 DEF Watched
      <4>4. dutyFaults' \in Nat /\ sentAt' \in Never..time /\ delivered' \in Never..time
        BY <1>1, <4>1
      <4> QED
        BY <1>1, <2>1, <3>1, <4>3, <4>4, CustodyAlone
    <3>5. CASE DutyFault /\ UNCHANGED <<custodyStreak, alerting>>
      BY <1>1, <1>5, <2>3, <3>5
    <3> QED
      BY <1>7, <2>3, <3>2, <3>3, <3>4, <3>5 DEF CheckCustody, alerting
  <2>4. CASE ~short
    <3>1. /\ sentAt' \in {sentAt, time} /\ delivered' \in {delivered, time}
          /\ custodyStreak' \in {custodyStreak + 1, 0, custodyStreak} /\ dutyFaults' \in {dutyFaults, dutyFaults + 1}
      <4>1. SendAlert(FALSE) => sentAt' \in {sentAt, time} /\ delivered' \in {delivered, time}
        BY <1>1, OnePage
      <4> QED
        BY <1>7, <2>4, <4>1 DEF CheckCustody, DutyFault, alerting
    <3>2. CustodyTyped' /\ dutyFaults' \in Nat /\ sentAt' \in Never..time /\ delivered' \in Never..time
      BY <1>1, <2>1, <2>2, <2>4, <3>1 DEF CustodyTyped
    <3>3. Watched'
      BY <2>1, <2>4 DEF Watched
    <3> QED
      BY <1>1, <2>1, <3>2, <3>3, CustodyAlone
  <2>5. CASE short /\ DutyFault /\ UNCHANGED <<custodyStreak, alerting>>
    <3>1. dutyFaults' = dutyFaults + 1 /\ UNCHANGED <<sentAt, delivered, custodyStreak>>
      BY <2>5 DEF DutyFault, alerting
    <3>2. Paged' <=> Paged
      BY <2>1, <3>1 DEF Paged
    <3>3. CustodyTyped' /\ dutyFaults' \in Nat /\ sentAt' \in Never..time /\ delivered' \in Never..time
      BY <1>1, <2>1, <2>2, <3>1 DEF CustodyTyped
    <3>4. Watched'
      BY <1>1, <1>2, <1>3, <1>4, <2>1, <2>2, <2>5, <3>1, <3>2 DEF Watched
    <3> QED
      BY <1>1, <2>1, <3>3, <3>4, CustodyAlone
  <2> QED
    BY <1>1, <1>7, <2>3, <2>4, <2>5 DEF CheckCustody
<1>8. CASE RestartCustody
  <2>1. /\ custodyStreak' = 0 /\ sentAt' = Never /\ dutyFaults' = dutyFaults + 1
        /\ UNCHANGED <<duty, time, ran, delivered, short, shortSince, funding, stork>>
    BY <1>8 DEF RestartCustody, DutyFault
  <2>2. Ticks' = Ticks /\ (Paged' <=> Paged)
    BY <2>1 DEF Ticks, Paged
  <2>3. CustodyTyped' /\ dutyFaults' \in Nat /\ sentAt' \in Never..time /\ delivered' \in Never..time
    BY <1>1, <1>5, <2>1, <2>2 DEF CustodyTyped
  <2>4. Watched'
    BY <1>1, <1>2, <1>3, <1>4, <1>5, <2>1, <2>2 DEF Watched
  <2> QED
    BY <1>1, <2>1, <2>3, <2>4, CustodyAlone
<1> QED
  BY <1>6, <1>7, <1>8

LEMMA StorkKeepsDuties ==
  ASSUME DutiesConstants, DInv,
         \/ SocketOpens \/ SocketCloses \/ SocketReconnects \/ SocketGoesSilent \/ FrameArrives \/ StorkRelayTick
  PROVE  DInv'
<1> DEFINE Socket == SocketOpens \/ SocketCloses \/ SocketReconnects \/ SocketGoesSilent \/ FrameArrives
<1>1. /\ duty = "stork" /\ time \in Nat /\ ran \in BOOLEAN /\ dutyFaults \in Nat /\ ClockTyped /\ StorkTyped
      /\ BackoffMax \in Nat \ {0} /\ backoff \in 1..BackoffMax /\ Ticks \in Nat /\ relayStreak \in 0..Ticks
      /\ Never = -1 /\ frameAt \in Never..time /\ darkAlertAt \in Int /\ {DarkAfter, DarkThrottle} \subseteq Nat
  <2>1. duty = "stork" /\ ClockTyped /\ StorkTyped
    BY DEF DInv, DutiesTyped, SocketOpens, SocketCloses, SocketReconnects, SocketGoesSilent, FrameArrives, StorkRelayTick
  <2>2. Ticks \in Nat
    BY <2>1 DEF ClockTyped, Ticks
  <2>3. BackoffMax \in Nat \ {0} /\ {DarkAfter, DarkThrottle} \subseteq Nat
    BY DEF DutiesConstants
  <2> QED
    BY <2>1, <2>2, <2>3 DEF ClockTyped, StorkTyped, Never
<1>2. UNCHANGED <<duty, time, funding, custody>>
  BY DEF SocketOpens, SocketCloses, SocketReconnects, SocketGoesSilent, FrameArrives, StorkRelayTick
<1>3. /\ ran' \in BOOLEAN /\ dutyFaults' \in Nat /\ Ticks' \in Nat /\ Ticks <= Ticks'
      /\ sentAt' \in Never..time /\ delivered' \in Never..time /\ StorkTyped' /\ DarkFeedReported'
  <2>1. CASE Socket
    <3>1. /\ UNCHANGED <<ran, alerting, relayStreak, darkAlertAt>> /\ dutyFaults' \in {dutyFaults, dutyFaults + 1}
          /\ ws' \in {"connecting", "open", "silent", "waiting"} /\ backoff' \in 1..BackoffMax
          /\ frameAt' \in {frameAt, time}
      BY <1>1, <2>1 DEF SocketOpens, SocketCloses, SocketReconnects, SocketGoesSilent, FrameArrives, DutyFault,
                        NextBackoff, StorkTyped
    <3>2. Ticks' = Ticks
      BY <1>2, <3>1 DEF Ticks
    <3>3. StorkTyped'
      BY <1>1, <1>2, <3>1, <3>2 DEF StorkTyped
    <3>4. DarkFeedReported'
      <4>1. CASE frameAt' = frameAt
        BY <1>2, <3>1, <4>1 DEF DInv, DarkFeedReported, FrameAge, Long
      <4>2. CASE frameAt' = time
        BY <1>1, <1>2, <4>2 DEF DarkFeedReported, FrameAge
      <4> QED
        BY <3>1, <4>1, <4>2
    <3> QED
      BY <1>1, <1>2, <3>1, <3>2, <3>3, <3>4 DEF ClockTyped, alerting
  <2>2. CASE StorkRelayTick
    <3>1. /\ ran = FALSE /\ ran' = TRUE /\ UNCHANGED <<ws, backoff, frameAt>>
          /\ dutyFaults' \in {dutyFaults, dutyFaults + 1} /\ relayStreak' \in {relayStreak, 0, relayStreak + 1}
          /\ darkAlertAt' \in {darkAlertAt, time}
          /\ UNCHANGED alerting \/ SendAlert(FALSE)
      BY <1>1, <2>2 DEF StorkRelayTick, DutyFault
    <3>2. Ticks = time /\ Ticks' = time + 1
      BY <1>1, <1>2, <3>1 DEF Ticks
    <3>3. sentAt' \in Never..time /\ delivered' \in Never..time
      <4>1. sentAt' \in {sentAt, time} /\ delivered' \in {delivered, time}
        BY <1>1, <3>1, OnePage DEF alerting
      <4> QED
        BY <1>1, <4>1 DEF ClockTyped
    <3>4. StorkTyped'
      BY <1>1, <1>2, <3>1, <3>2 DEF StorkTyped
    <3>5. FrameAge' = FrameAge
      BY <1>2, <3>1 DEF FrameAge, Long
    <3>6. FrameAge > DarkAfter => time - darkAlertAt' <= DarkThrottle
      <4> SUFFICES ASSUME FrameAge > DarkAfter PROVE time - darkAlertAt' <= DarkThrottle
        OBVIOUS
      <4>1. FrameAge \in Int
        BY <1>1 DEF FrameAge, Long, DutiesConstants
      <4>2. ~(FrameAge <= DarkAfter)
        BY <1>1, <4>1
      <4>3. IF DarkDue THEN darkAlertAt' = time ELSE darkAlertAt' = darkAlertAt
        BY <2>2, <4>2 DEF StorkRelayTick
      <4> QED
        BY <1>1, <4>3 DEF DarkDue
    <3>7. DarkFeedReported'
      BY <1>2, <3>5, <3>6 DEF DarkFeedReported
    <3> QED
      BY <1>1, <3>1, <3>2, <3>3, <3>4, <3>7
  <2> QED
    BY <2>1, <2>2
<1>4. ClockTyped' /\ FundTyped' /\ CustodyTyped'
  BY <1>1, <1>2, <1>3 DEF DInv, DutiesTyped, ClockTyped, FundTyped, CustodyTyped, funding, custody, Never
<1>5. OnSchedule' /\ Watched'
  BY <1>1, <1>2 DEF OnSchedule, Watched
<1> QED
  BY <1>3, <1>4, <1>5 DEF DInv, DutiesTyped

LEMMA DInvIsEnough == ASSUME DutiesConstants, DInv PROVE DutiesKept
<1>1. ClockTyped /\ FundTyped /\ CustodyTyped /\ StorkTyped
  BY DEF DInv, DutiesTyped
<1>2. DutiesTypeOK
  BY <1>1 DEF DutiesTypeOK, ClockTyped, FundTyped, CustodyTyped, StorkTyped, Ticks
<1>3. FundLate \in Nat /\ Patience \in Nat
  BY <1>1, Deadlines DEF ClockTyped
<1>4. FundingKeepsUp
  <2> SUFFICES ASSUME duty = "funding", ran, ~frozen
               PROVE  \E since \in {lastFunding, thawed} : time - since < FundLate
    BY DEF FundingKeepsUp, FundLate
  <2>1. Since \in {lastFunding, thawed} /\ Ticks <= Since + FundLate /\ Ticks = time + 1
    BY DEF DInv, OnSchedule, Since, Ticks
  <2>2. time \in Int /\ Since \in Int
    BY <1>1, <2>1 DEF ClockTyped, FundTyped
  <2> QED
    BY <1>3, <2>1, <2>2
<1>5. DeficitPaged
  <2> SUFFICES ASSUME duty = "custody", ran, short
               PROVE  Paged \/ time - shortSince < Patience
    BY DEF DeficitPaged, Paged, Patience
  <2>1. Paged \/ Ticks - shortSince < Patience
    BY DEF DInv, Watched
  <2>2. Ticks = time + 1 /\ time \in Int /\ shortSince \in Int
    BY <1>1 DEF Ticks, ClockTyped, CustodyTyped, Never
  <2> QED
    BY <1>3, <2>1, <2>2
<1> QED
  BY <1>2, <1>4, <1>5 DEF DutiesKept, DInv

\* The timed duties meet their deadlines whatever fails (index.ts, alerts.ts, storkFast.ts)
THEOREM DutiesAreKept == DutiesInit /\ [][DutiesNext]_dutyVars => []DutiesKept
<1>1. DInv /\ [DutiesNext]_dutyVars => DInv'
  <2> SUFFICES ASSUME DInv, [DutiesNext]_dutyVars PROVE DInv'
    OBVIOUS
  <2>1. CASE UNCHANGED dutyVars
    <3>1. UNCHANGED <<duty, time, ran, sentAt, delivered, lastFunding, frozen, thawed, nextFunding, submitted,
                      short, shortSince, custodyStreak, ws, backoff, frameAt, relayStreak, darkAlertAt, dutyFaults>>
      BY <2>1 DEF dutyVars, alerting, funding, custody, stork
    <3>2. Ticks' = Ticks /\ Since' = Since /\ FundLate' = FundLate /\ Patience' = Patience /\ (Paged' <=> Paged)
      BY <3>1 DEF Ticks, Since, FundLate, Patience, FundingPeriod, Paged
    <3>3. DutiesTyped' /\ OnSchedule' /\ Watched'
      BY <3>1, <3>2 DEF DInv, DutiesTyped, ClockTyped, FundTyped, CustodyTyped, StorkTyped, OnSchedule, Watched
    <3>4. DarkFeedReported'
      BY <3>1 DEF DInv, DarkFeedReported, FrameAge, Long
    <3> QED
      BY <3>3, <3>4 DEF DInv
  <2> QED
    BY <2>1, DutiesConstants, TickKeepsDuties, FundingKeepsDuties, CustodyKeepsDuties, StorkKeepsDuties DEF DutiesNext
<1>2. DutiesInit => DInv
  BY DutiesConstants, DutiesStart
<1>3. DInv => DutiesKept
  BY DutiesConstants, DInvIsEnough
<1> QED
  BY <1>1, <1>2, <1>3, PTL
=============================================================================
