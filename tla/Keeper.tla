------------------------------- MODULE Keeper -------------------------------
(***************************************************************************)
(* The keeper's scan of one snapshot (scripts/keeper/src/index.ts):        *)
(* liquidations of isolated positions and cross accounts behind the local  *)
(* prefilter and the two-strike rule, trailing peaks, orders with the      *)
(* stuck counter, and the ADL walk.  Every await is a step: the mark       *)
(* moves, other keepers and traders act, calls fail or stay in doubt.      *)
(*                                                                         *)
(* Prices are levels of one asset.  A long position is bankrupt at         *)
(* BankruptAt or below, liquidatable at LiqAt or below, a candidate of the *)
(* buffered prefilter at CandAt or below, a winner at WinAt or above;      *)
(* orders trigger at WinAt.                                                *)
(***************************************************************************)
EXTENDS Integers, Sequences, FiniteSets

CONSTANTS Iso, Cross,         \* isolated positions; cross accounts (one position each)
          Orders,             \* orders, all of them factory-vault orders
          Worlds,             \* which of them exist at the start
          Levels, BankruptAt, LiqAt, CandAt, WinAt,
          ConfirmReads,       \* triggerConfirmReads
          SweepEvery,         \* cycles per FULL_SWEEP_INTERVAL_MS
          StuckCycles,        \* triggeredStuckAlertCycles
          MaxClosesPerCycle,  \* adlMaxClosesPerCycle
          MaxMoves,           \* bound on moves of the market
          MaxScanFaults       \* bound on failed and doubtful calls

ASSUME ScanConstants ==
    /\ BankruptAt < LiqAt /\ LiqAt < CandAt /\ CandAt < WinAt
    /\ ConfirmReads \in Nat \ {0} /\ SweepEvery \in Nat \ {0} /\ StuckCycles \in Nat \ {0}
    /\ CandAt \in Levels /\ MaxClosesPerCycle \in Nat
    /\ Iso \intersect Cross = {}      \* position ids and account addresses

VARIABLES mark, poor,         \* chain price; the pool cannot cover the winners
          stale,              \* the stored price is too old for entries (#30)
          owed,               \* funding pending beyond what the prefilter's buffer covers
          flag,               \* AdlActive on chain
          pos, ord, peak,     \* positions, orders, trailing peak on chain
          doubt,              \* submitted, not confirmed: may still land
          local,              \* currentPrices: the price this keeper pushed last
          strikes, stuck,     \* liqStrikes, triggeredStuckCounts
          adlCache,           \* adlActive: {} for undefined
          k,                  \* the cycle in progress
          sweep,              \* cycles until the next full sweep
          reads,              \* history: liquidatable reads in a row per target
          fired,              \* history: the last liquidation sent, with its reads
          paged,              \* orders reported stuck
          moves, sFaults

keeperVars == <<mark, poor, stale, owed, flag, pos, ord, peak, doubt, local, strikes, stuck, adlCache, k,
                sweep, reads, fired, paged, moves, sFaults>>
marketState == <<mark, poor, stale, owed, flag, pos, ord, peak, doubt>>
memory == <<local, strikes, stuck, adlCache, sweep>>
ghosts == <<reads, fired, paged>>

Targets == Iso \union Cross
OpenTargets == {t \in Targets : pos[t] # "gone"}
Priced(t) == pos[t] = "open" /\ mark <= LiqAt
Liquidatable(t) == pos[t] = "open" /\ (mark <= LiqAt \/ owed)
Winners == {t \in OpenTargets : mark >= WinAt}
Stress == poor /\ Winners # {}       \* payable profit above coverage: what check_adl_trigger stores
Triggered(o) == ord[o] = "pending" /\ mark >= WinAt

Idling == [pc |-> "sleep", todo |-> {}, orders |-> {}, full |-> FALSE, pushed |-> FALSE,
           cur |-> {}, trig |-> {}, closes |-> 0, snap |-> {}]

StartWith(there) ==
    /\ mark = CandAt /\ poor = FALSE /\ stale = FALSE /\ owed = FALSE /\ flag = FALSE
    /\ pos = [t \in Targets |-> IF t \in there THEN "open" ELSE "gone"]
    /\ ord = [o \in Orders |-> IF o \in there THEN "pending" ELSE "reconciled"]
    /\ peak = CandAt
    /\ doubt = {} /\ local = CandAt
    /\ strikes = [t \in Targets |-> 0] /\ stuck = [o \in Orders |-> 0] /\ adlCache = {}
    /\ k = Idling /\ sweep = 0
    /\ reads = [t \in Targets |-> 0] /\ fired = [for |-> "none", reads |-> 0, bankrupt |-> FALSE]
    /\ paged = {} /\ moves = 0 /\ sFaults = 0

KeeperInit == \E there \in Worlds : StartWith(there)

ScanFault == sFaults < MaxScanFaults /\ sFaults' = sFaults + 1

----------------------------------------------------------------------------
(***************************************************************************)
(* The market and its other actors (external).                             *)
(***************************************************************************)
MarketMove(change) ==
    /\ moves < MaxMoves /\ moves' = moves + 1 /\ change
    /\ UNCHANGED <<local, strikes, stuck, adlCache, k, sweep, ghosts, sFaults>>

OtherKeeperPushes == MarketMove(mark' \in Levels \ {mark} /\ UNCHANGED <<poor, stale, owed, flag, pos, ord, peak, doubt>>)
PoolDrains == MarketMove(poor' = ~poor /\ UNCHANGED <<mark, stale, owed, flag, pos, ord, peak, doubt>>)
PriceAges == MarketMove(stale' = ~stale /\ UNCHANGED <<mark, poor, owed, flag, pos, ord, peak, doubt>>)
Shortfall == MarketMove(Stress /\ ~flag /\ flag' = TRUE /\ UNCHANGED <<mark, poor, stale, owed, pos, ord, peak, doubt>>)
FundingAccrues == MarketMove(~owed /\ owed' = TRUE /\ UNCHANGED <<mark, poor, stale, flag, pos, ord, peak, doubt>>)
GraceEnds == MarketMove(\E t \in Targets : pos[t] = "grace" /\ pos' = [pos EXCEPT ![t] = "open"]
                                     /\ UNCHANGED <<mark, poor, stale, owed, flag, ord, peak, doubt>>)

\* A transaction in doubt lands if the contract still accepts it, or expires
Resolve ==
    /\ \E x \in doubt :
          /\ doubt' = doubt \ {x}
          /\ \/ UNCHANGED <<pos, ord, flag>>
             \/ /\ x[1] = "liq" /\ Liquidatable(x[2])
                /\ pos' = [pos EXCEPT ![x[2]] = "gone"] /\ UNCHANGED <<ord, flag>>
             \/ /\ x[1] = "order" /\ Triggered(x[2])
                /\ ord' = [ord EXCEPT ![x[2]] = "executed"] /\ UNCHANGED <<pos, flag>>
             \/ /\ x[1] = "adl" /\ flag /\ x[2] \in Winners
                /\ pos' = [pos EXCEPT ![x[2]] = "gone"] /\ UNCHANGED <<ord, flag>>
    /\ UNCHANGED <<mark, poor, stale, owed, peak, memory, k, ghosts, moves, sFaults>>

----------------------------------------------------------------------------
(***************************************************************************)
(* The cycle: the oracle push, one snapshot, then the scans in order.      *)
(***************************************************************************)
RunKeeperCycle ==
    /\ k.pc = "sleep"
    /\ \/ /\ local # mark /\ local' = mark     \* our push of the current round lands
          /\ k' = [Idling EXCEPT !.pc = "snap", !.pushed = TRUE]
       \/ /\ UNCHANGED local                   \* not due, refused or failed
          /\ k' = [Idling EXCEPT !.pc = "snap"]
    /\ UNCHANGED <<marketState, strikes, stuck, adlCache, sweep, ghosts, moves, sFaults>>

\* buildSnapshot: whole, partial, or failed (null: the scans are skipped)
BuildSnapshot ==
    /\ k.pc = "snap"
    /\ \/ /\ UNCHANGED sFaults
          /\ LET full == sweep = 0
             IN  /\ k' = [k EXCEPT !.pc = "liq", !.snap = OpenTargets, !.todo = OpenTargets \intersect Iso, !.full = full,
                                   !.orders = {o \in Orders : ord[o] = "pending"}]
                 /\ sweep' = IF full THEN SweepEvery - 1 ELSE sweep - 1
                 /\ strikes' = [t \in Targets |-> IF t \in OpenTargets THEN strikes[t] ELSE 0]
                 /\ reads' = [t \in Targets |-> IF t \in OpenTargets THEN reads[t] ELSE 0]
       \/ /\ ScanFault
          /\ \E missed \in OpenTargets :
                LET got == OpenTargets \ {missed}
                IN  /\ k' = [k EXCEPT !.pc = "liq", !.snap = got, !.todo = got \intersect Iso, !.full = FALSE,
                                      !.orders = {o \in Orders : ord[o] = "pending"}]
                    /\ strikes' = [t \in Targets |-> IF t \in got THEN strikes[t] ELSE 0]
                    /\ reads' = [t \in Targets |-> IF t \in got THEN reads[t] ELSE 0]
                    /\ sweep' = IF sweep = 0 THEN 0 ELSE sweep - 1
       \/ /\ ScanFault /\ k' = Idling
          /\ UNCHANGED <<strikes, sweep, reads>>
    /\ UNCHANGED <<marketState, local, stuck, adlCache, fired, paged, moves>>

\* isLiquidationCandidate, isCrossLiquidationCandidate: local price, buffered threshold
IsCandidate == k.full \/ local <= CandAt
LocallyBankrupt == local <= BankruptAt

\* confirmStrike: enough strikes, this one counted, or nothing left to protect
ConfirmStrike(t) == LocallyBankrupt \/ ConfirmReads <= 1 \/ strikes[t] + 1 >= ConfirmReads

Strike(t) == [strikes EXCEPT ![t] = IF ConfirmStrike(t) THEN 0 ELSE @ + 1]
ClearStrike(t) == [strikes EXCEPT ![t] = 0]
KeepStrike(t) == strikes

Saw(t, bad) == reads' = [reads EXCEPT ![t] = IF bad THEN (IF @ < ConfirmReads THEN @ + 1 ELSE @) ELSE 0]

\* What a healthy read does to the counter (not a candidate, #50 or #20)
OnHealthy(t) == ClearStrike(t)

\* checkLiquidations, one position: prefilter, simulate, confirm
CheckLiquidation ==
    /\ k.pc = "liq" /\ k.todo # {}
    /\ \E t \in k.todo :
          LET rest == [k EXCEPT !.todo = @ \ {t}]
          IN  \/ /\ ~IsCandidate
                 /\ strikes' = OnHealthy(t) /\ k' = rest /\ Saw(t, FALSE) /\ UNCHANGED sFaults
              \/ /\ IsCandidate /\ Liquidatable(t)
                 /\ Saw(t, TRUE)
                 /\ strikes' = Strike(t)
                 /\ k' = IF ConfirmStrike(t) THEN [rest EXCEPT !.pc = "fire", !.cur = {t}] ELSE rest
                 /\ UNCHANGED sFaults
              \/ /\ IsCandidate /\ (pos[t] = "gone" \/ (pos[t] = "open" /\ ~Liquidatable(t)))    \* #20, #50
                 /\ strikes' = OnHealthy(t) /\ k' = rest /\ Saw(t, FALSE) /\ UNCHANGED sFaults
              \/ /\ IsCandidate /\ pos[t] = "grace"                                          \* #83
                 /\ k' = rest /\ UNCHANGED <<strikes, reads, sFaults>>
              \/ /\ IsCandidate /\ ScanFault                                                 \* transport
                 /\ k' = rest /\ UNCHANGED <<strikes, reads>>
    /\ UNCHANGED <<marketState, local, stuck, adlCache, sweep, fired, paged, moves>>

\* executeLiquidation: through the router with a fresh round, else directly; the submission
\* simulates again, so a position that recovered in between is refused
ExecuteLiquidation ==
    /\ k.pc \in {"fire", "crossfire"}
    /\ \E t \in k.cur :
          /\ fired' = [for |-> t, reads |-> reads[t], bankrupt |-> LocallyBankrupt]
          /\ \/ /\ Liquidatable(t)
                /\ \/ pos' = [pos EXCEPT ![t] = "gone"]
                   \/ pos' = [pos EXCEPT ![t] = "grace"]
                /\ UNCHANGED <<doubt, sFaults>>
             \/ ~Liquidatable(t) /\ UNCHANGED <<pos, doubt, sFaults>>
             \/ /\ ScanFault /\ Liquidatable(t)
                /\ \/ UNCHANGED doubt
                   \/ doubt' = doubt \union {<<"liq", t>>}
                /\ UNCHANGED pos
    /\ k' = [k EXCEPT !.pc = IF k.pc = "fire" THEN "liq" ELSE "cross", !.cur = {}]
    /\ UNCHANGED <<mark, poor, stale, owed, flag, ord, peak, memory, reads, paged, moves>>

\* checkCrossMarginLiquidations, one account: the strike counts a local candidate; only the
\* submission asks the chain.  An unreadable balance skips the account unless the sweep is full.
CheckCrossLiquidation ==
    /\ k.pc = "cross" /\ k.todo # {}
    /\ \E t \in k.todo :
          LET rest == [k EXCEPT !.todo = @ \ {t}]
          IN  \/ /\ ~IsCandidate
                 /\ strikes' = OnHealthy(t) /\ k' = rest /\ Saw(t, Liquidatable(t)) /\ UNCHANGED sFaults
              \/ /\ IsCandidate
                 /\ Saw(t, Liquidatable(t))
                 /\ strikes' = Strike(t)
                 /\ k' = IF ConfirmStrike(t) THEN [rest EXCEPT !.pc = "crossfire", !.cur = {t}] ELSE rest
                 /\ UNCHANGED sFaults
              \/ /\ ~k.full /\ ScanFault /\ k' = rest /\ UNCHANGED <<strikes, reads>>
    /\ UNCHANGED <<marketState, local, stuck, adlCache, sweep, fired, paged, moves>>

\* updateTrailingStopPeaks: only in a cycle that pushed, only when the simulation says it moves
UpdateTrailingStopPeaks ==
    /\ k.pc = "peaks"
    /\ peak' = IF k.pushed /\ mark > peak THEN mark ELSE peak
    /\ k' = [k EXCEPT !.pc = "orders", !.todo = {}]
    /\ UNCHANGED <<mark, poor, stale, owed, flag, pos, ord, doubt, memory, ghosts, moves, sFaults>>

\* checkOrders, one order: simulate; #30 is rescued through the router with a signed round
OrderSim(o) == Triggered(o) /\ ~stale
TryRouterRescue(o) == Triggered(o) /\ stale

CheckOrder ==
    /\ k.pc = "orders" /\ k.orders # {}
    /\ \E o \in k.orders :
          LET rest == [k EXCEPT !.orders = @ \ {o}]
          IN  \/ /\ OrderSim(o) \/ TryRouterRescue(o)
                 /\ k' = [rest EXCEPT !.pc = "execute", !.cur = {o}, !.trig = @ \union {o}]
                 /\ UNCHANGED sFaults
              \/ ~Triggered(o) /\ k' = rest /\ UNCHANGED sFaults
              \/ ScanFault /\ k' = rest
    /\ UNCHANGED <<marketState, memory, ghosts, moves>>

\* maybeReconcileFactoryOrder follows our own execution once; a failed call is not tried again
ReconcileFactoryOrder(o) ==
    \/ ord' = [ord EXCEPT ![o] = "reconciled"] /\ UNCHANGED sFaults
    \/ ord' = [ord EXCEPT ![o] = "executed"] /\ ScanFault

\* executeOrder and handleOrderExecutionResult
ExecuteOrder ==
    /\ k.pc = "execute"
    /\ \E o \in k.cur :
          \/ Triggered(o) /\ ReconcileFactoryOrder(o) /\ UNCHANGED doubt
          \/ ~Triggered(o) /\ UNCHANGED <<ord, doubt, sFaults>>
          \/ /\ ScanFault /\ Triggered(o)
             /\ \/ UNCHANGED <<ord, doubt>>
                \/ doubt' = doubt \union {<<"order", o>>} /\ UNCHANGED ord
    /\ k' = [k EXCEPT !.pc = "orders", !.cur = {}]
    /\ UNCHANGED <<mark, poor, stale, owed, flag, pos, peak, memory, ghosts, moves>>

\* trackTriggeredStuck: counts of the orders triggered this cycle, others forgotten
TrackTriggeredStuck ==
    /\ k.pc = "orders" /\ k.orders = {}
    /\ stuck' = [o \in Orders |-> IF o \in k.trig THEN stuck[o] + 1 ELSE 0]
    /\ paged' = paged \union {o \in k.trig : stuck[o] + 1 = StuckCycles}
    /\ k' = [k EXCEPT !.pc = "adl"]
    /\ UNCHANGED <<marketState, local, strikes, adlCache, sweep, reads, fired, moves, sFaults>>

----------------------------------------------------------------------------
(***************************************************************************)
(* ADL: probe when due, make the stored flag follow, walk the winners.     *)
(***************************************************************************)
\* manageAdl: the local mirror skips the probe while nothing is payable at the local price
ProbeDue == k.full \/ adlCache = {TRUE} \/ local >= WinAt

\* probeAndDriveAdl: the simulated flag against the cached one, the stored flag read and
\* flipped only when they differ; then the cache takes the simulated flag
Flips == adlCache # {Stress}

ProbeAdl ==
    /\ k.pc = "adl"
    /\ \/ /\ ProbeDue /\ k.snap # {}
          /\ flag' = IF Flips THEN Stress ELSE flag
          /\ adlCache' = IF Flips THEN {Stress} ELSE adlCache
          /\ k' = [k EXCEPT !.pc = IF adlCache' = {TRUE} THEN "adlwalk" ELSE "end", !.todo = k.snap]
          /\ UNCHANGED sFaults
       \/ /\ ~ProbeDue \/ k.snap = {}
          /\ k' = [k EXCEPT !.pc = "end"] /\ UNCHANGED <<flag, adlCache, sFaults>>
       \/ /\ ScanFault /\ k' = [k EXCEPT !.pc = "end"] /\ UNCHANGED <<flag, adlCache>>
    /\ UNCHANGED <<mark, poor, stale, owed, pos, ord, peak, doubt, local, strikes, stuck, sweep, ghosts, moves>>

\* The ranked walk of the snapshot's winners at the local price, bounded per cycle: #84 drops the
\* cache and stops, a doubtful close stops, a recovered pool clears the flag and stops
AdlClose ==
    /\ k.pc = "adlwalk"
    /\ LET left == IF local >= WinAt THEN k.todo ELSE {}
       IN  \/ /\ left = {} \/ k.closes >= MaxClosesPerCycle
              /\ k' = [k EXCEPT !.pc = "end"]
              /\ UNCHANGED <<flag, pos, doubt, adlCache, sFaults>>
           \/ /\ left # {} /\ k.closes < MaxClosesPerCycle
              /\ \E t \in left :
                    LET rest == [k EXCEPT !.todo = @ \ {t}]
                    IN  \/ /\ ~flag /\ adlCache' = {FALSE} /\ k' = [k EXCEPT !.pc = "end"]
                           /\ UNCHANGED <<flag, pos, doubt, sFaults>>
                        \/ /\ flag /\ t \notin Winners /\ k' = rest
                           /\ UNCHANGED <<flag, pos, doubt, adlCache, sFaults>>
                        \/ /\ flag /\ t \in Winners
                           /\ pos' = [pos EXCEPT ![t] = "gone"]
                           /\ LET over == ~(poor /\ Winners \ {t} # {})
                              IN  /\ flag' = IF over THEN FALSE ELSE flag
                                  /\ adlCache' = IF over THEN {FALSE} ELSE adlCache
                                  /\ k' = IF over THEN [k EXCEPT !.pc = "end"]
                                          ELSE [rest EXCEPT !.closes = @ + 1]
                           /\ UNCHANGED <<doubt, sFaults>>
                        \/ /\ flag /\ t \in Winners /\ ScanFault
                           /\ doubt' = doubt \union {<<"adl", t>>} /\ k' = [k EXCEPT !.pc = "end"]
                           /\ UNCHANGED <<flag, pos, adlCache>>
    /\ UNCHANGED <<mark, poor, stale, owed, ord, peak, local, strikes, stuck, sweep, ghosts, moves>>

\* The loop sleeps; an error anywhere is caught and counted, the next cycle runs
EndPhase ==
    /\ \/ k.pc = "liq" /\ k.todo = {} /\ k' = [k EXCEPT !.pc = "cross", !.todo = k.snap \intersect Cross]
       \/ k.pc = "cross" /\ k.todo = {} /\ k' = [k EXCEPT !.pc = "peaks"]
       \/ k.pc = "end" /\ k' = Idling
    /\ UNCHANGED <<marketState, memory, ghosts, moves, sFaults>>

\* Watchdog exit, crash or deploy: prices come back from the file, the other memory does not
RestartScan ==
    /\ ScanFault
    /\ k' = Idling /\ strikes' = [t \in Targets |-> 0] /\ stuck' = [o \in Orders |-> 0]
    /\ adlCache' = {} /\ sweep' = 0 /\ reads' = [t \in Targets |-> 0]
    /\ UNCHANGED <<marketState, local, fired, paged, moves>>

KeeperStep == \/ RunKeeperCycle \/ BuildSnapshot \/ CheckLiquidation \/ ExecuteLiquidation
              \/ CheckCrossLiquidation \/ UpdateTrailingStopPeaks \/ CheckOrder \/ ExecuteOrder
              \/ TrackTriggeredStuck \/ ProbeAdl \/ AdlClose \/ EndPhase
MarketMoves == OtherKeeperPushes \/ PoolDrains \/ PriceAges \/ FundingAccrues \/ Shortfall \/ GraceEnds
KeeperNext == KeeperStep \/ MarketMoves \/ Resolve \/ RestartScan

----------------------------------------------------------------------------
KeeperTypeOK ==
    /\ mark \in Levels /\ local \in Levels
    /\ pos \in [Targets -> {"open", "grace", "gone"}]
    /\ ord \in [Orders -> {"pending", "executed", "reconciled"}]
    /\ \A t \in Targets : strikes[t] \in 0..(ConfirmReads - 1)
    /\ k.closes <= MaxClosesPerCycle /\ sweep \in 0..SweepEvery

\* L0-9: an isolated position is liquidated after ConfirmReads liquidatable reads with no healthy
\* one between them, or because it is bankrupt at the keeper's price; across restarts, partial
\* snapshots and failed calls
TwoStrike ==
    []KeeperTypeOK /\
    [][fired' # fired /\ fired'.for \in Iso => fired'.reads >= ConfirmReads \/ fired'.bankrupt]_keeperVars

\* A position or account whose price says so does not stay liquidatable for ever while the keeper
\* knows the price, whatever fails, whoever else acts and however often the process restarts
LiquidatedInTheEnd == \A t \in Targets : []<>(~Priced(t) \/ local # mark)

\* A triggered order leaves the book, or stops being triggered
OrdersServed == \A o \in Orders : Triggered(o) ~> ~Triggered(o)

\* While the pool cannot cover them and the keeper knows the price, winners are closed until it can
WinnersDeleveraged == []<>(~Stress \/ local # mark)
=============================================================================
