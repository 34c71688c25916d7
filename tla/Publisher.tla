----------------------------- MODULE Publisher -----------------------------
(***************************************************************************)
(* The price publisher of the keeper (scripts/keeper/src/index.ts, with    *)
(* state.ts): one oracle cycle per tick fetches a signed round, passes it  *)
(* through the publish defenses, pushes one batch, remembers what it       *)
(* pushed in memory and in a throttled file, and syncs the vault's NAV for *)
(* the assets that moved.  The process may stop between any two steps and  *)
(* a push may stay in doubt.                                               *)
(*                                                                         *)
(* Prices are whole steps; MaxMove is the per-push bound in steps.         *)
(***************************************************************************)
EXTENDS Integers, FiniteSets

CONSTANTS Assets, TopPrice,   \* the feed attests 1..TopPrice
          StartPrice,         \* the price at the start
          MinPrice, MaxPrice, \* the sanity band
          MaxMove,            \* maxMovePct
          Window,             \* jumpBoundWindowMs in ticks
          SaveEvery,          \* STATE_MIN_WRITE_MS in ticks
          SyncMove,           \* PNL_SYNC_MOVE_BPS, in steps
          FullSyncEvery,      \* FULL_PNL_SYNC_INTERVAL_MS in ticks
          MaxClock, MaxPubFaults

ASSUME PublisherConstants ==
    /\ {TopPrice, MinPrice, MaxMove, SaveEvery, SyncMove, FullSyncEvery, StartPrice} \subseteq Nat \ {0}
    /\ StartPrice \in MinPrice..MaxPrice /\ IsFiniteSet(Assets)
    /\ MaxPrice \in Nat /\ Window \in Nat /\ MaxClock \in Nat /\ MaxPubFaults \in Nat

VARIABLES clock, round,       \* ticks; the newest signed round
          slot,               \* chain: [price, round] stored per asset
          floating,           \* batches in doubt, each [asset -> price] with its round
          current,            \* currentPrices: [price, at], at = -1 for none
          file, savedAt,      \* lastPushedPrices on disk; lastWrite.at, -1 after a start
          nav, synced, fullAt,  \* vault mark per asset, lastSyncedPnlPrice (0: none), lastFullPnlSyncAt
          cycle,              \* the oracle cycle in progress
          lostFile,           \* history: a save was lost
          missed,             \* history: assets whose last sync failed
          lastStep,           \* history: the last change of each stored price
          pubFaults

publisherVars == <<clock, round, slot, floating, current, file, savedAt, nav, synced, fullAt, cycle,
                   lostFile, missed, lastStep, pubFaults>>

PriceRange == 1..TopPrice
NoBatch == [x \in {} |-> 0]
Quiet == [pc |-> "idle", batch |-> NoBatch, round |-> 0, todo |-> {}]
Dist(x, y) == IF x > y THEN x - y ELSE y - x
NoStep == [a \in Assets |-> [size |-> 0, guarded |-> TRUE]]

PublisherInit ==
    LET p == StartPrice IN
      /\ clock = 0 /\ round = 2
      /\ slot = [a \in Assets |-> [price |-> p, round |-> 0]]
      /\ floating = {}
      /\ current = [a \in Assets |-> [price |-> p, at |-> 0]] /\ file = current
      /\ savedAt = -1
      /\ nav = [a \in Assets |-> p] /\ synced = [a \in Assets |-> p] /\ fullAt = 0
      /\ cycle = Quiet /\ lostFile = FALSE /\ missed = {} /\ lastStep = NoStep /\ pubFaults = 0

PubFault == pubFaults < MaxPubFaults /\ pubFaults' = pubFaults + 1

\* The contract keeps the newest round only (external)
Stored(batch, r) ==
    [a \in Assets |-> IF a \in DOMAIN batch /\ r > slot[a].round
                      THEN [price |-> batch[a], round |-> r] ELSE slot[a]]
\* The file remembers a push of the asset that is still inside the window
Guarded(a) == ~lostFile /\ clock - file[a].at <= Window
Note(new) == lastStep' = [a \in Assets |-> [size |-> Dist(new[a].price, slot[a].price), guarded |-> Guarded(a)]]

Tick ==
    /\ cycle.pc = "done" /\ clock < MaxClock
    /\ clock' = clock + 1 /\ round' = round + 2 /\ cycle' = Quiet
    /\ UNCHANGED <<slot, floating, current, file, savedAt, nav, synced, fullAt, lostFile, lastStep, pubFaults, missed>>

\* A batch in doubt lands, or its time bound passes
Resolves ==
    /\ \E x \in floating :
          /\ floating' = floating \ {x}
          /\ \/ slot' = Stored(x.batch, x.round) /\ Note(slot')
             \/ UNCHANGED <<slot, lastStep>>
    /\ UNCHANGED <<clock, round, current, file, savedAt, nav, synced, fullAt, cycle, lostFile, pubFaults, missed>>

----------------------------------------------------------------------------
\* The band, and the jump bound against the last price pushed while that push is recent
JumpBound(a, p) ==
    \/ current[a].at < 0
    \/ Dist(p, current[a].price) <= MaxMove
    \/ clock - current[a].at > Window

PassesPublishDefenses(a, p) == p \in MinPrice..MaxPrice /\ JumpBound(a, p)

\* The assets one round can carry: the largest group of eligible attestations, the newer on a tie
LargestGroup(eligible, of) ==
    LET group(r) == {a \in eligible : of[a] = r}
        best == CHOOSE r \in {of[a] : a \in eligible} :
                   \A q \in {of[a] : a \in eligible} :
                       \/ Cardinality(group(q)) < Cardinality(group(r))
                       \/ Cardinality(group(q)) = Cardinality(group(r)) /\ q <= r
    IN  [assets |-> group(best), round |-> best]

\* The reference ticker and the Stork feed, when they answer, may each veto an asset; unreachable
\* or stale they let it pass (their prices are external)
SecondSourceVetoes == SUBSET Assets

\* The cycle that pushes what passed of the attestations, or is done when nothing did
Gathered(price, of, vetoed) ==
    LET eligible == {a \in Assets \ vetoed : PassesPublishDefenses(a, price[a])}
        g == LargestGroup(eligible, of)
    IN  IF eligible = {} THEN [Quiet EXCEPT !.pc = "done"]
        ELSE [Quiet EXCEPT !.pc = "push", !.round = g.round, !.batch = [a \in g.assets |-> price[a]]]

\* updateOraclePrices up to the push.  The fetch may fail or straddle two rounds signed since the
\* last one (a round served again carries the prices it had and changes nothing).
FetchRound ==
    /\ cycle.pc = "idle"
    /\ \/ /\ PubFault /\ cycle' = [Quiet EXCEPT !.pc = "done"]
       \/ /\ UNCHANGED pubFaults
          /\ \E price \in [Assets -> PriceRange], of \in [Assets -> {round - 1, round}], vetoed \in SecondSourceVetoes :
                cycle' = Gathered(price, of, vetoed)
    /\ UNCHANGED <<clock, round, slot, floating, current, file, savedAt, nav, synced, fullAt, lostFile, lastStep, missed>>

\* The push landed; the process has not noted it yet
PushLands ==
    /\ cycle.pc = "push"
    /\ slot' = Stored(cycle.batch, cycle.round) /\ Note(slot')
    /\ cycle' = [cycle EXCEPT !.pc = "landed"]
    /\ UNCHANGED <<clock, round, floating, current, file, savedAt, nav, synced, fullAt, lostFile, pubFaults, missed>>

PushInDoubt ==
    /\ cycle.pc = "push" /\ PubFault
    /\ \/ floating' = floating \union {[batch |-> cycle.batch, round |-> cycle.round]}
       \/ UNCHANGED floating                    \* a plain failure
    /\ cycle' = [Quiet EXCEPT !.pc = "done"]
    /\ UNCHANGED <<clock, round, slot, current, file, savedAt, nav, synced, fullAt, lostFile, lastStep, missed>>

SavedNever(prices) == UNCHANGED <<file, savedAt, lostFile, pubFaults>>

\* saveKeeperState: at most one write per SaveEvery ticks of a process; a failure is not fatal
Saved(prices) ==
    \/ /\ savedAt < 0 \/ clock - savedAt >= SaveEvery
       /\ file' = prices /\ savedAt' = clock /\ UNCHANGED <<lostFile, pubFaults>>
    \/ /\ savedAt >= 0 /\ clock - savedAt < SaveEvery
       /\ UNCHANGED <<file, savedAt, lostFile, pubFaults>>
    \/ /\ savedAt < 0 \/ clock - savedAt >= SaveEvery
       /\ PubFault /\ lostFile' = TRUE /\ UNCHANGED <<file, savedAt>>

Moved(a, p) == synced[a] = 0 \/ Dist(p, synced[a]) >= SyncMove

\* What follows a confirmed push: current prices, the file, and which assets to sync
NotePush ==
    /\ cycle.pc = "landed"
    /\ current' = [a \in Assets |-> IF a \in DOMAIN cycle.batch THEN [price |-> cycle.batch[a], at |-> clock]
                                    ELSE current[a]]
    /\ Saved(current')
    /\ LET full == clock - fullAt > FullSyncEvery
       IN  /\ fullAt' = IF full THEN clock ELSE fullAt
           /\ cycle' = [cycle EXCEPT !.pc = "sync",
                          !.todo = {a \in DOMAIN cycle.batch : full \/ Moved(a, cycle.batch[a])}]
    /\ UNCHANGED <<clock, round, slot, floating, nav, synced, lastStep, missed>>

\* syncAssetPnl at the stored price; a failure is logged and the asset still counts as synced
SyncAssetPnl ==
    /\ cycle.pc = "sync"
    /\ IF cycle.todo = {} THEN cycle' = [Quiet EXCEPT !.pc = "done"] /\ UNCHANGED <<nav, synced, missed, pubFaults>>
       ELSE \E a \in cycle.todo :
              /\ cycle' = [cycle EXCEPT !.todo = @ \ {a}]
              /\ synced' = [synced EXCEPT ![a] = cycle.batch[a]]
              /\ \/ nav' = [nav EXCEPT ![a] = slot[a].price] /\ missed' = missed \ {a} /\ UNCHANGED pubFaults
                 \/ PubFault /\ UNCHANGED nav /\ missed' = missed \union {a}
    /\ UNCHANGED <<clock, round, slot, floating, current, file, savedAt, fullAt, lostFile, lastStep>>

\* The discovery walk of the same cycle saves too, so a change the throttle held back is written
SaveAgain ==
    /\ cycle.pc = "done" /\ file # current /\ Saved(current)
    /\ UNCHANGED <<clock, round, slot, floating, current, nav, synced, fullAt, cycle, lastStep, missed>>

\* Crash, watchdog exit or deploy: prices come back from the file, or nothing if it is unreadable
RestartPublisher ==
    /\ PubFault
    /\ \/ current' = file /\ UNCHANGED <<file, lostFile>>
       \/ /\ current' = [a \in Assets |-> [price |-> 0, at |-> -1]] /\ lostFile' = TRUE /\ UNCHANGED file
    /\ savedAt' = -1 /\ synced' = [a \in Assets |-> 0] /\ fullAt' = -FullSyncEvery - 1
    /\ cycle' = [Quiet EXCEPT !.pc = "done"]
    /\ UNCHANGED <<clock, round, slot, floating, nav, lastStep, missed>>

PublisherStep == FetchRound \/ PushLands \/ NotePush \/ SyncAssetPnl \/ SaveAgain \/ Tick
PublisherNext == PublisherStep \/ PushInDoubt \/ Resolves \/ RestartPublisher

----------------------------------------------------------------------------
PublisherTypeOK ==
    /\ clock \in 0..MaxClock /\ savedAt \in -1..MaxClock
    /\ \A a \in Assets : slot[a].price \in MinPrice..MaxPrice /\ slot[a].round <= round
    /\ \A a \in Assets : current[a].at \in -1..clock /\ file[a].at \in -1..clock
    /\ cycle.pc \in {"idle", "push", "landed", "sync", "done"}

\* K-2: the jump bound survives restarts, throttled writes and pushes in doubt.  While the file
\* remembers a push of the asset inside the window, two stored prices in a row differ by at most
\* one bound for the push, one for a batch in doubt or a push the crash hid, and one for every
\* push the file may lag behind.
BreakerSurvivesRestart ==
    \A a \in Assets : lastStep[a].guarded => lastStep[a].size <= MaxMove * (SaveEvery + 1)

\* When the syncs of a push are done the vault's mark is within the threshold of the pushed price
\* for every asset whose last sync did not fail: small moves must not add up, and a restart or a
\* push in doubt must not leave the mark behind
NavFollows ==
    cycle.pc = "sync" /\ cycle.todo = {} =>
        \A a \in DOMAIN cycle.batch \ missed : Dist(nav[a], cycle.batch[a]) < SyncMove

\* What is pushed is bounded by what was pushed before, and the vault is told of it (index.ts
\* publishPrices and syncAssetPnl, state.ts)
PricesGuarded == PublisherTypeOK /\ BreakerSurvivesRestart /\ NavFollows
=============================================================================
