------------------------------ MODULE Discovery ------------------------------
(***************************************************************************)
(* How the keeper learns which positions and orders are live               *)
(* (scripts/keeper/src/discovery.ts, discoverIds and buildSnapshot of      *)
(* index.ts): the pre-upgrade views, or a walk over ledger entries that is *)
(* believed only when its size agrees with the market's open counters.     *)
(* Trades land between any two reads, calls fail, the process restarts     *)
(* from its file.  An archived entry is live but absent to a raw ledger    *)
(* read; a simulated call restores it and sees it.                         *)
(***************************************************************************)
EXTENDS Integers, FiniteSets, FiniteSetsExt

CONSTANTS MaxId,        \* bound on the ids the market issues, per side
          ChunkSize,    \* keys per getLedgerEntries request
          PageStreak,   \* MISMATCH_ESCALATION_STREAK
          MaxDiscoveryFaults

Sides == {"position", "order"}

ASSUME DiscoveryConstants ==
    /\ MaxId \in [Sides -> Nat] /\ ChunkSize \in Nat \ {0} /\ PageStreak \in Nat \ {0}
    /\ MaxDiscoveryFaults \in Nat

VARIABLES issued, live, archived,   \* the market: ids handed out, live ids, those not readable
          upgraded,                 \* the views are deleted and the counters exist
          mode,                     \* KEEPER_DISCOVERY
          known, disk,              \* walk state per side, in memory and in the state file
          lastGood, streak,         \* per side: previous good set (<<>> for null), mismatches in a row
          d,                        \* the discovery in progress
          snapshot, blind,          \* ids of the last snapshot, consecutive read failures
          dFaults

discoveryVars == <<issued, live, archived, upgraded, mode, known, disk, lastGood, streak, d,
                   snapshot, blind, dFaults>>
marketIds == <<issued, live, archived, upgraded>>

PerSide(x) == [s \in Sides |-> x]
EmptyDiscoveryState == PerSide([watermark |-> 0, live |-> {}])
NoCount == -1     \* the counter entry does not exist
Asleep == [pc |-> "sleep", expect |-> {}, ctr |-> PerSide(0), cnt |-> PerSide(NoCount),
           todo |-> PerSide({}), found |-> PerSide({}), ids |-> PerSide({})]

DiscoveryInit ==
    /\ issued = PerSide(0) /\ live = PerSide({}) /\ archived = PerSide({})
    /\ mode \in {"legacy", "shadow", "chain"}
    /\ upgraded = (mode = "chain")
    /\ known = EmptyDiscoveryState /\ disk = EmptyDiscoveryState
    /\ lastGood = PerSide({}) /\ streak = PerSide(0)
    /\ d = Asleep /\ snapshot = PerSide({}) /\ blind = 0 /\ dFaults = 0

DiscoveryFault == dFaults < MaxDiscoveryFaults /\ dFaults' = dFaults + 1

----------------------------------------------------------------------------
\* The market (external)
IssueId(s) == /\ issued[s] < MaxId[s]
           /\ issued' = [issued EXCEPT ![s] = @ + 1]
           /\ live' = [live EXCEPT ![s] = @ \union {issued[s] + 1}]
           /\ UNCHANGED <<archived, upgraded, mode, known, disk, lastGood, streak, d, snapshot, blind, dFaults>>

CloseId(s) == /\ \E id \in live[s] \ archived[s] : live' = [live EXCEPT ![s] = @ \ {id}]
              /\ UNCHANGED <<issued, archived, upgraded, mode, known, disk, lastGood, streak, d,
                             snapshot, blind, dFaults>>

\* An entry's rent runs for days: it is archived between two cycles, not during one
Archive(s) == /\ DiscoveryFault /\ d.pc = "sleep"
              /\ \E id \in live[s] : archived' = [archived EXCEPT ![s] = @ \union {id}]
              /\ UNCHANGED <<issued, live, upgraded, mode, known, disk, lastGood, streak, d, snapshot, blind>>

Restore(s) == /\ archived[s] # {} /\ archived' = [archived EXCEPT ![s] = {}]
              /\ UNCHANGED <<issued, live, upgraded, mode, known, disk, lastGood, streak, d,
                             snapshot, blind, dFaults>>

Upgrade == /\ ~upgraded /\ upgraded' = TRUE
           /\ UNCHANGED <<issued, live, archived, mode, known, disk, lastGood, streak, d, snapshot, blind, dFaults>>

Readable(s) == live[s] \ archived[s]

----------------------------------------------------------------------------
\* saveKeeperState: written now, or put off by the write throttle
SaveWalk(st) == disk' \in {disk, st}

BeginDiscovery ==
    /\ d.pc = "sleep"
    /\ d' = [Asleep EXCEPT !.pc = IF mode = "chain" THEN "control" ELSE "views"]
    /\ UNCHANGED <<marketIds, mode, known, disk, lastGood, streak, snapshot, blind, dFaults>>

\* The get_all_* views, one after the other; a failure falls forward to the walk
ReadViews ==
    /\ d.pc \in {"views", "views2"}
    /\ LET s == IF d.pc = "views" THEN "position" ELSE "order"
           got == [d EXCEPT !.ids[s] = live[s]]
           after == IF d.pc = "views" THEN "views2" ELSE IF mode = "shadow" THEN "control" ELSE "read"
       IN  \/ /\ ~upgraded
              /\ d' = [got EXCEPT !.pc = after, !.expect = IF after = "control" THEN {got.ids} ELSE {}]
              /\ UNCHANGED dFaults
           \/ /\ upgraded \/ dFaults < MaxDiscoveryFaults
              /\ d' = [Asleep EXCEPT !.pc = "control"]
              /\ dFaults' = IF upgraded THEN dFaults ELSE dFaults + 1
    /\ UNCHANGED <<marketIds, mode, known, disk, lastGood, streak, snapshot, blind>>

\* One read of the four control entries, then the candidates: the known-live ids and the new ones
ReadControl ==
    /\ d.pc = "control"
    /\ d' = [d EXCEPT !.pc = "walk", !.ctr = issued,
                      !.cnt = [s \in Sides |-> IF upgraded THEN Cardinality(live[s]) ELSE NoCount],
                      !.todo = [s \in Sides |-> known[s].live \union ((known[s].watermark + 1)..issued[s])]]
    /\ UNCHANGED <<marketIds, mode, known, disk, lastGood, streak, snapshot, blind, dFaults>>

\* The ids are asked for in ascending order, so many per request
NextChunk(todo) == {x \in todo : Cardinality({y \in todo : y < x}) < ChunkSize}

\* getMarketDataEntries: the next chunk of keys, positions before orders
WalkChunk ==
    /\ d.pc = "walk"
    /\ LET left == {s \in Sides : d.todo[s] # {}}
           s == IF "position" \in left THEN "position" ELSE "order"
           c == NextChunk(d.todo[s])
       IN  IF left = {} THEN d' = [d EXCEPT !.pc = "judge"]
           ELSE d' = [d EXCEPT !.todo[s] = @ \ c, !.found[s] = @ \union (c \intersect Readable(s))]
    /\ UNCHANGED <<marketIds, mode, known, disk, lastGood, streak, snapshot, blind, dFaults>>

ChecksumOkLenient(s) == d.cnt[s] # NoCount /\ d.cnt[s] >= Cardinality(d.found[s])

\* The counter agrees with the size of what was found, or the views' set equals it
ChecksumOk(s) ==
    IF d.cnt[s] # NoCount THEN d.cnt[s] = Cardinality(d.found[s])
    ELSE \E e \in d.expect : e[s] = d.found[s]

Watermark(s) == Max({d.ctr[s], known[s].watermark})

HoldUncounted(s) == streak[s]
HoldStreak(s) == Min({streak[s] + 1, PageStreak})

\* acceptPositions/acceptOrders and holdPositions/holdOrders, each side on its own
Judge ==
    /\ d.pc = "judge"
    /\ LET next(s) == [watermark |-> Watermark(s), live |-> d.found[s]]
           walked == [s \in Sides |-> IF ~ChecksumOk(s) /\ lastGood[s] # {} THEN UNION lastGood[s] ELSE d.found[s]]
       IN  /\ known' = [s \in Sides |-> IF ChecksumOk(s) THEN next(s) ELSE known[s]]
           /\ lastGood' = [s \in Sides |-> IF ChecksumOk(s) THEN {d.found[s]} ELSE lastGood[s]]
           /\ streak' = [s \in Sides |-> IF ChecksumOk(s) THEN 0 ELSE HoldStreak(s)]
           /\ SaveWalk(known')
           /\ d' = [Asleep EXCEPT !.pc = "read", !.ids = IF d.expect # {} THEN d.ids ELSE walked]
    /\ UNCHANGED <<marketIds, mode, snapshot, blind, dFaults>>

\* buildSnapshot: every id read once; a row that is gone is dropped, a failed read is left out
\* unless all of them failed
ReadEntities ==
    /\ d.pc = "read"
    /\ \E failed \in {[s \in Sides |-> {}], [s \in Sides |-> IF s = "position" THEN d.ids[s] ELSE {}], d.ids} :
          LET none == \A s \in Sides : failed[s] = {}
              total == (\E s \in Sides : d.ids[s] # {}) /\ failed = d.ids
          IN  /\ IF none THEN UNCHANGED dFaults ELSE DiscoveryFault
              /\ IF total THEN blind' = Min({blind + 1, PageStreak}) /\ UNCHANGED snapshot
                 ELSE /\ blind' = 0
                      /\ snapshot' = [s \in Sides |-> (d.ids[s] \ failed[s]) \intersect live[s]]
    /\ d' = Asleep
    /\ UNCHANGED <<marketIds, mode, known, disk, lastGood, streak>>

\* A read throws: no snapshot this cycle, scans are skipped; a shadow walk never fails the views
DiscoveryThrows ==
    /\ d.pc \in {"control", "walk"} /\ DiscoveryFault
    /\ IF d.expect # {} THEN d' = [Asleep EXCEPT !.pc = "read", !.ids = d.ids] /\ UNCHANGED blind
       ELSE d' = Asleep /\ blind' = Min({blind + 1, PageStreak})
    /\ UNCHANGED <<marketIds, mode, known, disk, lastGood, streak, snapshot>>

\* Exit and restart; the state file may turn out unreadable, which yields a fresh state
RestartKeeper ==
    /\ DiscoveryFault
    /\ known' \in {disk, EmptyDiscoveryState}
    /\ lastGood' = PerSide({}) /\ streak' = PerSide(0) /\ d' = Asleep /\ snapshot' = PerSide({}) /\ blind' = 0
    /\ UNCHANGED <<marketIds, mode, disk>>

DiscoveryStep == BeginDiscovery \/ ReadViews \/ ReadControl \/ WalkChunk \/ Judge \/ ReadEntities
MarketTrades == \/ Upgrade
                \/ \E s \in Sides : IssueId(s) \/ CloseId(s) \/ Archive(s) \/ Restore(s)
DiscoveryNext == DiscoveryStep \/ MarketTrades \/ DiscoveryThrows \/ RestartKeeper

----------------------------------------------------------------------------
DiscoveryTypeOK ==
    /\ \A s \in Sides : /\ archived[s] \subseteq 1..issued[s] /\ live[s] \subseteq 1..issued[s]
                        /\ known[s] \in [watermark : 0..issued[s], live : SUBSET (1..issued[s])]
                        /\ disk[s] \in [watermark : 0..issued[s], live : SUBSET (1..issued[s])]
                        /\ streak[s] \in 0..PageStreak
    /\ d.pc \in {"sleep", "views", "views2", "control", "walk", "judge", "read"}

\* The trust rule of discovery.ts: an id at or below the watermark that is live is in the live
\* set, in memory and on disk, although only counts are compared and trades land mid-walk;
\* an id outside both is never looked at again
NoLiveIdLost ==
    /\ DiscoveryTypeOK
    /\ \A s \in Sides : \A id \in live[s] :
          /\ id <= known[s].watermark => id \in known[s].live
          /\ id <= disk[s].watermark => id \in disk[s].live

\* Every live position and order reaches a snapshot, or it closes, or a human is paged because
\* an entry stays unreadable (the loop runs on; faults are finite)
SeenOrPaged ==
    \A s \in Sides : \A id \in 1..MaxId[s] :
        (id \in live[s]) ~> (id \in snapshot[s] \/ id \notin live[s] \/ streak[s] = PageStreak)
=============================================================================
