------------------------------ MODULE Indexer ------------------------------
(***************************************************************************)
(* The event indexer (indexer/src): pollers that page through the chain's  *)
(* contract events, the handlers that archive and project each event in    *)
(* one database transaction, the enrichment that runs after the commit,    *)
(* the compare-and-swap cursor, the clamp to the RPC retention window and  *)
(* the offline rebuild.  Two pollers may run at once (a deploy overlap),   *)
(* either may crash between any two awaits and start again.                *)
(*                                                                         *)
(* The chain is external: stream is the order of the events, head how many *)
(* are published, oldest the first ledger the RPC still serves.            *)
(***************************************************************************)
EXTENDS Integers, Sequences, FiniteSets, SequencesExt

CONSTANTS Pollers,     \* indexer processes sharing one database
          Streams,     \* event sequences the chain may publish
          PageLimit,   \* getEvents limit
          ColdStart,   \* coldStartLedgers
          MaxFaults    \* bound on crashes and failed calls

VARIABLES stream, head, oldest,     \* the chain and its RPC
          cur, archive, db, dead, gaps,   \* poll_cursor, events_raw, projections, dead_letter, ledger_gaps
          pl,                       \* per poller: its program counter and locals
          rx,                       \* the rebuild: off, or the set of archive rows still to replay
          sent,                     \* bus emissions per event
          skipped, floor,           \* history: archived but not projected; where the cold start began
          faults

Contracts == {"market", "factory", "lpVault", "referral"}
Positions == {1, 2}   \* position ids

\* The chain orders its events by ledger, and ledgers count from 1
ASSUME ChainOrder ==
    \A s \in Streams :
        /\ Len(s) \in Nat /\ DOMAIN s = 1..Len(s)
        /\ \A i \in DOMAIN s : s[i].led \in Nat \ {0} /\ s[i].con \in Contracts
        /\ \A i, j \in DOMAIN s : i <= j => s[i].led <= s[j].led

\* The size of position k on chain after each event of s: an opening sets it, a tranche is taken
\* off, a partial close announces what remains, a close or a cross liquidation ends it
Touches(e, k) == e.con = "market" /\ k \in e.ids
Opens(e, k) == Touches(e, k) /\ e.topic = "position_opened"
SizeAfter(e, k, size) ==
    CASE ~Touches(e, k) -> size
      [] Touches(e, k) /\ e.topic \in {"position_opened", "position_reduced"} -> e.amt
      [] Touches(e, k) /\ e.topic = "position_partial_liq" -> size - e.amt
      [] Touches(e, k) /\ e.topic \in {"position_closed", "cross_liq"} -> 0
      [] OTHER -> size
Held(s, k) ==
    LET size[n \in 0..Len(s)] == IF n = 0 THEN 0 ELSE SizeAfter(s[n], k, size[n - 1])
    IN  size

\* The market opens an id once, and nothing but an opening makes a position larger
ASSUME ChainSizes ==
    \A s \in Streams : \A i \in DOMAIN s : s[i].amt \in Int /\ \A k \in Positions :
        /\ Held(s, k)[i] \in Nat
        /\ ~Opens(s[i], k) => Held(s, k)[i] <= Held(s, k)[i - 1]
        /\ \A j \in DOMAIN s : Opens(s[i], k) /\ Opens(s[j], k) => i = j

ASSUME PollerConstants ==
    /\ Pollers # {}
    /\ PageLimit \in Nat \ {0} /\ ColdStart \in Nat /\ MaxFaults \in Nat

chain == <<stream, head, oldest>>
vars == <<stream, head, oldest, cur, archive, db, dead, gaps, pl, rx, sent, skipped, floor, faults>>

Max2(a, b) == IF a > b THEN a ELSE b
Ledger(i) == IF i = 0 THEN 1 ELSE stream[i].led
Latest == Ledger(head)

(***************************************************************************)
(* Decoding: a topic of the contract is recognised, any other is skipped;  *)
(* a payload of the wrong shape throws.                                    *)
(***************************************************************************)
MarketTopics == {"position_opened", "position_closed", "position_partial_liq",
                 "position_reduced", "cross_liq", "bad_debt_recorded", "order_placed"}
FactoryTopics == {"vault_created", "deposit", "withdraw", "fees_claimed", "paused",
                  "unpaused", "leader_open", "leader_close", "leader_limit"}
LpTopics == {"deposit", "withdraw", "pnl_settled", "buffer_paid", "deposit_cap_set"}
ReferralTopics == {"code_created", "trade_recorded", "claimed"}

Topics(con) == CASE con = "factory" -> FactoryTopics
                 [] con = "referral" -> ReferralTopics
                 [] con = "lpVault" -> LpTopics
                 [] OTHER -> MarketTopics
Recognised(e) == e.topic \in Topics(e.con)
Decodes(e) == Recognised(e) /\ ~e.garbled

(***************************************************************************)
(* The projections.  pos[k] is the size of row k (0: no row); rows the     *)
(* events with a typed row keyed by event id; blank the leader_close rows  *)
(* written without a pnl; vault and ref are <<>> until the row exists.     *)
(***************************************************************************)
EmptyDb == [pos |-> [k \in Positions |-> 0], rows |-> {}, blank |-> {}, vault |-> <<>>, ref |-> <<>>]

ApplyMarket(d, i) ==
    LET e == stream[i]
        opened == e.topic = "position_opened"
        closed == e.topic = "position_closed"
        size(k) == IF k \notin e.ids THEN d.pos[k]
                   ELSE IF opened THEN e.amt
                   ELSE IF closed \/ d.pos[k] = 0 THEN 0
                   ELSE IF e.topic = "position_partial_liq" THEN d.pos[k] - e.amt
                   ELSE IF e.topic = "position_reduced" THEN e.amt
                   ELSE d.pos[k]
    IN  [d EXCEPT !.pos = [k \in Positions |-> size(k)],
                  !.rows = IF e.topic \in {"position_closed", "position_partial_liq", "bad_debt_recorded"}
                           THEN @ \union {i} ELSE @]

\* Rows of position_closed with the transaction of event i, as the SELECT of leader_close sees them
ClosedInTx(i) == {j \in archive : stream[j].topic = "position_closed" /\ stream[j].tx = stream[i].tx}

UpsertVault(d, i) ==
    LET e == stream[i]
        known == d.vault # <<>>
    IN  CASE e.topic = "vault_created" -> [d EXCEPT !.vault = <<[usdc |-> 0, paused |-> FALSE]>>]
          [] e.topic = "deposit" /\ known -> [d EXCEPT !.vault[1].usdc = @ + e.amt]
          [] e.topic \in {"withdraw", "fees_claimed"} /\ known -> [d EXCEPT !.vault[1].usdc = @ - e.amt]
          [] e.topic \in {"paused", "unpaused"} /\ known -> [d EXCEPT !.vault[1].paused = (e.topic = "paused")]
          [] OTHER -> d

LogActivity(d, i) ==
    LET e == stream[i]
    IN  [d EXCEPT !.rows = IF e.topic \in {"deposit", "withdraw", "fees_claimed", "leader_open", "leader_close"}
                           THEN @ \union {i} ELSE @,
                  !.blank = IF e.topic = "leader_close" /\ ClosedInTx(i) = {} THEN @ \union {i} ELSE @]

LogTyped(d, i) ==
    [d EXCEPT !.rows = IF stream[i].topic = "deposit_cap_set" THEN @ ELSE @ \union {i}]

ApplyReferral(d, i) ==
    LET e == stream[i]
        fresh == i \notin d.rows
    IN  CASE e.topic = "code_created" -> [d EXCEPT !.ref = IF @ = <<>> THEN <<0>> ELSE @]
          [] e.topic = "trade_recorded" /\ fresh ->
                 [d EXCEPT !.rows = @ \union {i}, !.ref = IF @ = <<>> THEN @ ELSE <<@[1] + e.amt>>]
          [] e.topic = "claimed" /\ fresh ->
                 [d EXCEPT !.rows = @ \union {i}, !.ref = IF @ = <<>> THEN @ ELSE <<0>>]
          [] OTHER -> d

Project(d, i) ==
    LET con == stream[i].con
    IN  CASE con = "market" -> ApplyMarket(d, i)
          [] con = "factory" -> LogActivity(UpsertVault(d, i), i)
          [] con = "lpVault" -> LogTyped(d, i)
          [] con = "referral" -> ApplyReferral(d, i)

(***************************************************************************)
(* The chain's own state after n events, as a simulation at that height    *)
(* reads it (external).  cross_liq kills its ids, a leader trade moves the *)
(* vault by an amount its event does not carry.                            *)
(***************************************************************************)
ChainStep(d, i) ==
    LET e == stream[i]
    IN  CASE e.topic = "cross_liq" -> [d EXCEPT !.pos = [k \in Positions |-> IF k \in e.ids THEN 0 ELSE @[k]]]
          [] e.topic \in {"leader_open", "leader_close"} /\ d.vault # <<>> -> [d EXCEPT !.vault[1].usdc = @ + e.amt]
          [] OTHER -> Project(d, i)

ChainAt(n) == FoldLeft(ChainStep, EmptyDb, [i \in 1..n |-> i])

----------------------------------------------------------------------------
Idle == [pc |-> "idle", snap |-> <<>>, start |-> 0, next |-> 1, end |-> 0, top |-> 0]
Off == [Idle EXCEPT !.pc = "off"]

Init ==
    /\ stream \in Streams
    /\ head = 0
    /\ oldest = 1
    /\ cur = <<>>
    /\ archive = {}
    /\ db = EmptyDb
    /\ dead = {}
    /\ gaps = {}
    /\ pl = [p \in Pollers |-> Off]
    /\ rx = <<>>
    /\ sent = [i \in DOMAIN stream |-> 0]
    /\ skipped = {}
    /\ floor = 0
    /\ faults = 0

Fault == faults < MaxFaults /\ faults' = faults + 1

\* The chain closes a ledger with one more event
Publish ==
    /\ head < Len(stream)
    /\ head' = head + 1
    /\ UNCHANGED <<stream, oldest, cur, archive, db, dead, gaps, pl, rx, sent, skipped, floor, faults>>

\* The RPC drops its oldest ledger.  It keeps days of ledgers and a batch takes seconds, so
\* the window does not move past a page that is being applied.
Retire ==
    /\ oldest < Latest
    /\ \A p \in Pollers : pl[p].pc \notin {"apply", "post"}
    /\ Fault
    /\ oldest' = oldest + 1
    /\ UNCHANGED <<stream, head, cur, archive, db, dead, gaps, pl, rx, sent, skipped, floor>>

(***************************************************************************)
(* syncVaultRow: overwrite the row with the chain's state at the head.     *)
(***************************************************************************)
SyncVaultRow(d) == IF d.vault = <<>> THEN d ELSE [d EXCEPT !.vault = ChainAt(head).vault]

\* reconcileAllVaults: every row of the vaults table, here the one vault
ReconcileAllVaults(d) == SyncVaultRow(d)

\* main(): boot, with the reconcile of every vault row before polling starts.  A second
\* process only exists while one deploy replaces another, never on an empty database.
Boot(p) ==
    /\ pl[p].pc = "off"
    /\ cur # <<>> \/ \A q \in Pollers : pl[q].pc = "off"
    /\ rx = <<>>
    /\ pl' = [pl EXCEPT ![p] = Idle]
    /\ \/ /\ db' = ReconcileAllVaults(db)
          /\ UNCHANGED faults
       \/ /\ Fault
          /\ UNCHANGED db
    /\ UNCHANGED <<stream, head, oldest, cur, archive, dead, gaps, rx, sent, skipped, floor>>

\* The process dies, or is stopped by a signal, between two awaits
Crash(p) ==
    /\ pl[p].pc # "off"
    /\ Fault
    /\ pl' = [pl EXCEPT ![p] = Off]
    /\ UNCHANGED <<stream, head, oldest, cur, archive, db, dead, gaps, rx, sent, skipped, floor>>

----------------------------------------------------------------------------
ColdStartLedger == Max2(1, Latest - ColdStart)

\* pollOnce up to the RPC call: the cursor row, or the cold start ledger
ReadCursor(p) ==
    /\ pl[p].pc = "idle"
    /\ LET start == IF cur # <<>> THEN cur[1].led ELSE ColdStartLedger
       IN  /\ pl' = [pl EXCEPT ![p] = [Idle EXCEPT !.pc = "fetch", !.snap = cur, !.start = start]]
           /\ floor' = IF cur = <<>> THEN start ELSE floor
    /\ UNCHANGED <<stream, head, oldest, cur, archive, db, dead, gaps, rx, sent, skipped, faults>>

\* The position the request names: the paging token when there is one, else the start ledger
After(p) ==
    LET s == pl[p].snap
    IN  IF s # <<>> /\ s[1].tok >= 0 THEN s[1].tok
        ELSE Cardinality({i \in 1..Len(stream) : stream[i].led < pl[p].start})
OutOfRetention(p) ==
    LET s == pl[p].snap
    IN  IF s # <<>> /\ s[1].tok >= 0 THEN Ledger(s[1].tok) < oldest ELSE pl[p].start < oldest

FetchEvents(p) ==
    /\ pl[p].pc = "fetch"
    /\ ~OutOfRetention(p)
    /\ LET from == After(p)
           to == IF from + PageLimit < head THEN from + PageLimit ELSE Max2(from, head)
       IN  pl' = [pl EXCEPT ![p].pc = "apply", ![p].next = from + 1, ![p].end = to,
                            ![p].top = IF pl[p].snap = <<>> THEN 0 ELSE pl[p].snap[1].led]
    /\ UNCHANGED <<stream, head, oldest, cur, archive, db, dead, gaps, rx, sent, skipped, floor, faults>>

FetchFailsForGood(p) ==
    /\ pl[p].pc = "fetch"
    /\ Fault
    /\ pl' = [pl EXCEPT ![p].pc = "fatal"]
    /\ UNCHANGED <<stream, head, oldest, cur, archive, db, dead, gaps, rx, sent, skipped, floor>>

\* Retries exhausted, or a non-transient error: the loop logs it and sleeps
FetchFails(p) ==
    /\ pl[p].pc = "fetch"
    /\ Fault
    /\ pl' = [pl EXCEPT ![p] = Idle]
    /\ UNCHANGED <<stream, head, oldest, cur, archive, db, dead, gaps, rx, sent, skipped, floor>>

(***************************************************************************)
(* writeCursor compares last_ledger alone; a miss stops this poller.       *)
(***************************************************************************)
Expected(p) == IF pl[p].snap = <<>> THEN -1 ELSE pl[p].snap[1].led
Stored == IF cur = <<>> THEN -1 ELSE cur[1].led
CasHits(p) == Expected(p) = Stored

CommitCursor(p, led, tok) ==
    IF CasHits(p) THEN /\ cur' = <<[led |-> led, tok |-> tok]>>
                       /\ pl' = [pl EXCEPT ![p] = Idle]
                  ELSE /\ pl' = [pl EXCEPT ![p] = [Idle EXCEPT !.pc = "fatal"]]
                       /\ UNCHANGED cur

ClampUnrecorded(p) ==
    /\ pl[p].pc = "fetch"
    /\ OutOfRetention(p)
    /\ CommitCursor(p, oldest, -1)
    /\ UNCHANGED <<stream, head, oldest, archive, db, dead, gaps, rx, sent, skipped, floor, faults>>

\* clampToRetention: record the hole, resume at the oldest retained ledger without a token
ClampToRetention(p) ==
    /\ pl[p].pc = "fetch"
    /\ OutOfRetention(p)
    /\ gaps' = IF oldest - 1 >= pl[p].start THEN gaps \union {<<pl[p].start, oldest - 1>>} ELSE gaps
    /\ CommitCursor(p, oldest, -1)
    /\ UNCHANGED <<stream, head, oldest, archive, db, dead, rx, sent, skipped, floor, faults>>

----------------------------------------------------------------------------
\* An event has been dealt with: on to the next one, counting its ledger
Advance(p, i, counted) ==
    pl' = [pl EXCEPT ![p].pc = "apply", ![p].next = i + 1,
                     ![p].top = IF counted THEN Max2(@, stream[i].led) ELSE @]

DeadLetter(i, stage) == dead \union {<<i, stage>>}

NextEvent(p) == pl[p].pc = "apply" /\ pl[p].next <= pl[p].end

\* The decoder throws: a dead_letter row keeps the raw XDR; an unknown topic is skipped
DecodeFails(p) ==
    /\ NextEvent(p)
    /\ LET i == pl[p].next
       IN  /\ ~Decodes(stream[i])
           /\ dead' = IF Recognised(stream[i]) THEN DeadLetter(i, "decode") ELSE dead
           /\ Advance(p, i, Recognised(stream[i]))
    /\ UNCHANGED <<stream, head, oldest, cur, archive, db, gaps, rx, sent, skipped, floor, faults>>

HandleUnguarded(p) ==
    /\ NextEvent(p)
    /\ LET i == pl[p].next
       IN  /\ Decodes(stream[i])
           /\ archive' = archive \union {i}
           /\ db' = Project(db, i)
    /\ pl' = [pl EXCEPT ![p].pc = "post"]
    /\ UNCHANGED <<stream, head, oldest, cur, dead, gaps, rx, sent, skipped, floor, faults>>

\* One write transaction: archive row, projection, commit; a duplicate rolls back and returns
Handle(p) ==
    /\ NextEvent(p)
    /\ LET i == pl[p].next
       IN  /\ Decodes(stream[i])
           /\ IF i \in archive
              THEN /\ Advance(p, i, TRUE)
                   /\ UNCHANGED <<archive, db>>
              ELSE /\ archive' = archive \union {i}
                   /\ db' = Project(db, i)
                   /\ pl' = [pl EXCEPT ![p].pc = "post"]
    /\ UNCHANGED <<stream, head, oldest, cur, dead, gaps, rx, sent, skipped, floor, faults>>

HandleFailsHalfApplied(p) ==
    /\ NextEvent(p)
    /\ Fault
    /\ LET i == pl[p].next
       IN  /\ Decodes(stream[i])
           /\ i \notin archive
           /\ db' = Project(db, i)
    /\ pl' = [pl EXCEPT ![p] = Idle]
    /\ UNCHANGED <<stream, head, oldest, cur, archive, dead, gaps, rx, sent, skipped, floor>>

\* The transaction throws: rolled back, the archive row kept best effort, dead letter, batch abandoned
HandleFails(p) ==
    /\ NextEvent(p)
    /\ Fault
    /\ LET i == pl[p].next
       IN  /\ Decodes(stream[i])
           /\ i \notin archive
           /\ \/ /\ archive' = archive \union {i}
                 /\ skipped' = skipped \union {i}
                 /\ dead' = DeadLetter(i, "apply")
              \/ UNCHANGED <<archive, skipped, dead>>
    /\ pl' = [pl EXCEPT ![p] = Idle]
    /\ UNCHANGED <<stream, head, oldest, cur, db, gaps, rx, sent, floor>>

(***************************************************************************)
(* After the commit: cross_liq drops the trader's rows the chain no longer *)
(* holds; a leader trade resyncs the vault row.  A failed look-up keeps    *)
(* the row, a failed resync is only logged.                                *)
(***************************************************************************)
NeedsSync(i) == stream[i].con = "factory" /\ stream[i].topic \in {"leader_open", "leader_close"}

CleanupCrossLiquidated(d, kept) ==
    [d EXCEPT !.pos = [k \in Positions |-> IF ChainAt(head).pos[k] = 0 /\ k \notin kept THEN 0 ELSE @[k]]]

Enrich(d, i, kept) ==
    CASE stream[i].topic = "cross_liq" -> CleanupCrossLiquidated(d, kept)
      [] NeedsSync(i) /\ kept = {} -> SyncVaultRow(d)
      [] OTHER -> d

PostCommit(p) ==
    /\ pl[p].pc = "post"
    /\ LET i == pl[p].next
       IN  /\ db' = Enrich(db, i, {})
           /\ sent' = [sent EXCEPT ![i] = @ + 1]
           /\ Advance(p, i, TRUE)
    /\ UNCHANGED <<stream, head, oldest, cur, archive, dead, gaps, rx, skipped, floor, faults>>

EnrichFails(p) ==
    /\ pl[p].pc = "post"
    /\ Fault
    /\ LET i == pl[p].next
       IN  /\ NeedsSync(i) \/ stream[i].topic = "cross_liq"
           /\ \E kept \in SUBSET Positions \ {{}} : db' = Enrich(db, i, kept)
           /\ sent' = [sent EXCEPT ![i] = @ + 1]
           /\ Advance(p, i, TRUE)
    /\ UNCHANGED <<stream, head, oldest, cur, archive, dead, gaps, rx, skipped, floor>>

\* The batch is done: move the cursor, or on a quiet page only refresh updated_at (same CAS)
FinishBatch(p) ==
    /\ pl[p].pc = "apply"
    /\ pl[p].next > pl[p].end
    /\ LET w == pl[p]
           empty == w.snap # <<>> /\ w.end = After(p)
       IN  IF empty
           THEN \/ CommitCursor(p, w.snap[1].led, w.snap[1].tok)
                \/ pl' = [pl EXCEPT ![p] = Idle] /\ UNCHANGED cur
           ELSE CommitCursor(p, IF w.top = 0 THEN w.start ELSE w.top, w.end)
    /\ UNCHANGED <<stream, head, oldest, archive, db, dead, gaps, rx, sent, skipped, floor, faults>>

----------------------------------------------------------------------------
\* reindexProjections, with every poller stopped: truncate, replay the archive in order
Truncate ==
    /\ rx = <<>>
    /\ archive # {}
    /\ \A p \in Pollers : pl[p].pc = "off"
    /\ Fault
    /\ db' = [EmptyDb EXCEPT !.rows = {i \in db.rows : stream[i].topic = "bad_debt_recorded"}]
    /\ rx' = <<archive>>
    /\ skipped' = archive
    /\ UNCHANGED <<stream, head, oldest, cur, archive, dead, gaps, pl, sent, floor>>

\* Rows are read in chain order
Replay ==
    /\ rx # <<>>
    /\ \E i \in rx[1] :
           /\ \A j \in rx[1] : i <= j
           /\ db' = Enrich(Project(db, i), i, {})
           /\ skipped' = skipped \ {i}
           /\ rx' = <<rx[1] \ {i}>>
    /\ UNCHANGED <<stream, head, oldest, cur, archive, dead, gaps, pl, sent, floor, faults>>

\* The rebuild exits: every row replayed, or killed half way
EndReindex ==
    /\ rx # <<>>
    /\ rx[1] = {} \/ faults < MaxFaults
    /\ faults' = IF rx[1] = {} THEN faults ELSE faults + 1
    /\ rx' = <<>>
    /\ UNCHANGED <<stream, head, oldest, cur, archive, db, dead, gaps, pl, sent, skipped, floor>>

----------------------------------------------------------------------------
Poll(p) == \/ ReadCursor(p) \/ FetchEvents(p) \/ ClampToRetention(p)
           \/ DecodeFails(p) \/ Handle(p) \/ PostCommit(p) \/ FinishBatch(p)

Next == \/ Publish \/ Retire
        \/ Truncate \/ Replay \/ EndReindex
        \/ \E p \in Pollers : \/ Poll(p) \/ Boot(p) \/ Crash(p)
                              \/ FetchFails(p) \/ HandleFails(p) \/ EnrichFails(p)

(***************************************************************************)
(* Fairness: each process's loop keeps running (the event loop never stops *)
(* taking its next step), a stopped process is started again, a rebuild    *)
(* runs to its end.                                                        *)
(***************************************************************************)
Fairness == /\ \A p \in Pollers : WF_vars(Poll(p)) /\ WF_vars(Boot(p))
            /\ WF_vars(Replay) /\ WF_vars(EndReindex) /\ WF_vars(Publish)

Spec == Init /\ [][Next]_vars /\ Fairness
----------------------------------------------------------------------------
\* Every variable holds a value of its kind
TypeOK ==
    /\ stream \in Streams
    /\ head \in 0..Len(stream)
    /\ oldest \in 1..Latest
    /\ \/ cur = <<>>
       \/ Len(cur) = 1 /\ cur[1].led \in Nat /\ cur[1].tok \in -1..Len(stream)
    /\ archive \subseteq 1..head
    /\ skipped \subseteq archive
    /\ dead \subseteq (1..head) \X {"decode", "apply"}
    /\ \A k \in Positions : db.pos[k] \in Nat
    /\ db.rows \union db.blank \subseteq archive
    /\ \A p \in Pollers : pl[p].pc \in {"off", "idle", "fetch", "apply", "post", "fatal"}
    /\ faults \in 0..MaxFaults

\* An event the cursor has moved past
Passed(i) == cur # <<>> /\ IF cur[1].tok >= 0 THEN i <= cur[1].tok ELSE stream[i].led < cur[1].led

\* Where a passed event can be recovered from: the archive, a dead letter, a recorded gap
Accounted(i) ==
    \/ ~Recognised(stream[i])
    \/ i \in archive
    \/ <<i, "decode">> \in dead
    \/ \E g \in gaps : stream[i].led \in g[1]..g[2]
    \/ stream[i].led < floor

\* Deploy overlap: a CAS miss stops a poller only because the other one moved the cursor, so
\* the pollers never all stop themselves (poll.ts commitCursor, cursor.ts writeCursor)
OnePollerSurvives == \E p \in Pollers : pl[p].pc # "fatal"

\* The cursor never moves past an event that left no trace (poll.ts: a batch commits its
\* cursor only after every event of it was archived or dead-lettered, a clamp records its
\* gap), and overlapping pollers do not stop each other
NoSilentLoss == OnePollerSurvives /\ \A i \in 1..head : Passed(i) => Accounted(i)

\* What the projection must hold: every archived event that was not skipped, once, in order
ProjectUpTo[n \in 0..Len(stream)] ==
    IF n = 0 THEN EmptyDb
    ELSE IF n \in archive \ skipped THEN Project(ProjectUpTo[n - 1], n) ELSE ProjectUpTo[n - 1]
Projected == ProjectUpTo[Len(stream)]
NotBadDebt(S) == {i \in S : stream[i].topic # "bad_debt_recorded"}

\* The tables fed by relative updates equal the fold of the archive however pollers overlap,
\* crash, retry or rebuild (handlers/referral.ts: claimable + payout; events_raw guard, I-4)
ProjectedOnce == /\ db.ref = Projected.ref
                 /\ NotBadDebt(db.rows) = NotBadDebt(Projected.rows)

\* A projected position differs from the chain's only by events still to come, by skipped
\* events, or by a cross_liq whose enrichment was lost (handlers/market.ts, positionSync.ts)
NoInventedSize ==
    (skipped = {} /\ gaps = {} /\ dead = {} /\ \A i \in archive : stream[i].topic # "cross_liq") =>
        db.pos = Projected.pos

\* A leader_close row lacks its pnl only when the position_closed of its transaction never
\* reached the archive (handlers/vault.ts: it lands in events_raw before our handler runs)
PnlOfLeaderClose ==
    \A i \in db.blank : \A j \in 1..(i - 1) :
        (stream[j].topic = "position_closed" /\ stream[j].tx = stream[i].tx) =>
            (j \notin archive /\ Accounted(j))

\* Subscribers hear of an event at most once, and only after its row is durable
BusAtMostOnce == \A i \in DOMAIN sent : sent[i] <= 1 /\ (sent[i] = 1 => i \in archive)

\* The projections follow from the archive and nothing else: relative updates are applied once,
\* sizes are the chain's, a close finds its pnl and a subscriber hears of it once (router.ts)
ProjectionExact == TypeOK /\ ProjectedOnce /\ NoInventedSize /\ PnlOfLeaderClose /\ BusAtMostOnce

\* With finitely many faults every published event is eventually accounted for (poll.ts loop:
\* an error is logged and retried until stopped)
EventuallyAccounted == <>[](head = Len(stream) /\ \A i \in 1..head : Accounted(i))

\* The archive and the referral balance implement the ledger of exactly-once, in-order events
Ledgers == INSTANCE EventLedger WITH log <- archive, missing <- skipped, book <- db.ref
ImplementsLedger == Ledgers!LedgerSpec
=============================================================================
