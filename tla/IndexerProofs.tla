--------------------------- MODULE IndexerProofs ---------------------------
(***************************************************************************)
(* The indexer, proved to lose no event and to implement the ledger of     *)
(* exactly-once, in-order events, however pollers overlap, crash, retry,   *)
(* are clamped to the retention window, and however the archive is rebuilt.*)
(*                                                                         *)
(* The invariant describes what a poller may believe.  Every event up to a *)
(* cursor, to the start of a page or to an archived event has left a trace *)
(* (Cover); every event after it is within the ledgers the poller and the  *)
(* RPC still speak of (From).  The projections are then followed as a run  *)
(* over the kept events (CoreRun), which one event more extends by a step. *)
(***************************************************************************)
EXTENDS Indexer, Migrations, Candles, FiniteSetTheorems, WellFoundedInduction, TLAPS

Ordered(s) ==
    /\ Len(s) \in Nat /\ DOMAIN s = 1..Len(s)
    /\ \A i \in DOMAIN s : s[i].led \in Nat \ {0} /\ s[i].con \in Contracts
    /\ \A i, j \in DOMAIN s : i <= j => s[i].led <= s[j].led

\* The events that left a trace
Traced == {i \in DOMAIN stream : Accounted(i)}

Cover(s, T, n) == \A k \in DOMAIN s : k <= n => k \in T
From(s, n, led) == \A k \in DOMAIN s : k > n => s[k].led >= led

\* The position a cursor stands for
Before(s, led) == {i \in 1..Len(s) : s[i].led < led}
Pos(s, c) == IF c.tok >= 0 THEN c.tok ELSE Cardinality(Before(s, c.led))

CursorOK(s, T, low, c) ==
    /\ c.led \in Nat /\ c.tok \in Int /\ -1 <= c.tok /\ c.tok <= Len(s)
    /\ Cover(s, T, Pos(s, c)) /\ From(s, Pos(s, c), c.led) /\ From(s, Pos(s, c), low)

PollerFields == {"pc", "snap", "start", "next", "end", "top"}
Pcs == {"off", "idle", "fetch", "apply", "post", "fatal"}
Runs(w) == w.pc \in {"fetch", "apply", "post"}
InBatch(w) == w.pc \in {"apply", "post"}

\* What a request rests on: the cursor it read, or the cold start
RequestOK(s, T, low, w) ==
    /\ w.start \in Nat
    /\ w.snap = <<>> => w.start = low
    /\ w.snap # <<>> => /\ w.snap = <<w.snap[1]>> /\ w.start = w.snap[1].led
                        /\ CursorOK(s, T, low, w.snap[1])

\* A page in progress
BatchOK(s, T, low, old, w) ==
    /\ w.next \in Nat \ {0} /\ w.end \in Nat /\ w.end <= Len(s) /\ w.next <= w.end + 1
    /\ w.top \in Nat
    /\ Cover(s, T, w.next - 1)
    /\ From(s, w.next - 1, old) /\ From(s, w.next - 1, low)
    /\ From(s, w.next - 1, w.top) /\ From(s, w.next - 1, w.start)

PollerOK(s, T, low, old, done, w) ==
    /\ DOMAIN w = PollerFields /\ w.pc \in Pcs
    /\ Runs(w) => RequestOK(s, T, low, w)
    /\ InBatch(w) => BatchOK(s, T, low, old, w)
    /\ w.pc = "post" => w.next \in done /\ w.next <= w.end

ChainOK ==
    /\ stream \in Streams /\ head \in Nat /\ head <= Len(stream)
    /\ oldest \in Nat \ {0} /\ floor \in Nat

CursorsOK ==
    /\ cur # <<>> => cur = <<cur[1]>> /\ CursorOK(stream, Traced, floor, cur[1])
    /\ DOMAIN pl = Pollers
    /\ \A p \in Pollers : PollerOK(stream, Traced, floor, oldest, archive, pl[p])

\* Until a cursor is stored there is one process, and the cold start only moves on
ColdOK ==
    /\ cur = <<>> => /\ floor <= ColdStartLedger
                     /\ \A p, q \in Pollers : pl[p].pc # "off" /\ pl[q].pc # "off" => p = q
    /\ \A p \in Pollers : Runs(pl[p]) /\ pl[p].snap = <<>> => cur = <<>>

\* Somebody would hit if he compared now
Hopeful(w, led) ==
    w.pc \in {"off", "idle"} \/ (Runs(w) /\ (IF w.snap = <<>> THEN -1 ELSE w.snap[1].led) = led)
SurvivorOK == \E p \in Pollers : Hopeful(pl[p], Stored)

ArchiveOK ==
    /\ \A j \in archive : j \in DOMAIN stream /\ Decodes(stream[j]) /\ Cover(stream, Traced, j)
    /\ skipped \subseteq archive
TracesOK ==
    /\ \A i \in DOMAIN stream : <<i, "decode">> \in dead => ~Decodes(stream[i])
    /\ \A g \in gaps : g[1] \in Int /\ g[2] \in Int /\ g[2] < oldest

DbFields == {"pos", "rows", "blank", "vault", "ref"}
Debt(i) == stream[i].topic = "bad_debt_recorded"
DbOK ==
    /\ DOMAIN db = DbFields
    /\ \A i \in db.rows : i \in archive /\ (i \notin skipped \/ Debt(i))
RebuildOK ==
    rx # <<>> => rx = <<rx[1]>> /\ rx[1] = skipped /\ \A p \in Pollers : pl[p].pc = "off"

IInv == /\ ChainOK /\ CursorsOK /\ ColdOK /\ SurvivorOK
        /\ ArchiveOK /\ TracesOK /\ DbOK /\ RebuildOK

-----------------------------------------------------------------------------
(* Positions in an ordered stream. *)

LEMMA StreamOrdered == ASSUME ChainOK PROVE Ordered(stream)
BY ChainOrder DEF ChainOK, Ordered

LEMMA UpTo ==
  ASSUME NEW n \in Nat
  PROVE  IsFiniteSet(1..n) /\ Cardinality(1..n) = n
<1>1. Cardinality(1..n) = IF 1 > n THEN 0 ELSE n - 1 + 1
  BY FS_Interval
<1> QED
  BY <1>1, FS_Interval

(* The events before a ledger are the first ones, as many as there are. *)
LEMMA BeforeCounts ==
  ASSUME NEW s, Ordered(s), NEW led \in Nat
  PROVE  LET n == Cardinality(Before(s, led))
         IN  /\ n \in Nat /\ n <= Len(s)
             /\ \A k \in DOMAIN s : k <= n <=> s[k].led < led
<1> DEFINE D == Before(s, led)
           n == Cardinality(D)
<1>1. Len(s) \in Nat /\ DOMAIN s = 1..Len(s)
  BY DEF Ordered
<1>2. IsFiniteSet(1..Len(s)) /\ Cardinality(1..Len(s)) = Len(s)
  BY <1>1, UpTo
<1>3. D \subseteq 1..Len(s)
  BY DEF Before
<1>4. IsFiniteSet(D) /\ n \in Nat /\ n <= Len(s)
  BY <1>2, <1>3, FS_Subset, FS_CardinalityType
<1>5. ASSUME NEW k \in DOMAIN s, s[k].led < led
      PROVE  k <= n
  <2>1. 1..k \subseteq D
    <3> SUFFICES ASSUME NEW j \in 1..k PROVE j \in D
      OBVIOUS
    <3>1. j \in DOMAIN s /\ s[j].led <= s[k].led
      BY <1>1 DEF Ordered
    <3>2. s[j].led \in Int /\ s[k].led \in Int
      BY <3>1 DEF Ordered
    <3> QED
      BY <1>1, <1>5, <3>1, <3>2 DEF Before
  <2>2. Cardinality(1..k) = k
    BY <1>1, UpTo
  <2> QED
    BY <1>4, <2>1, <2>2, FS_Subset
<1>6. ASSUME NEW k \in DOMAIN s, ~(s[k].led < led)
      PROVE  ~(k <= n)
  <2>1. D \subseteq 1..(k - 1)
    <3> SUFFICES ASSUME NEW j \in D, j >= k PROVE FALSE
      BY <1>1, <1>3
    <3>1. j \in DOMAIN s /\ s[k].led <= s[j].led /\ s[j].led < led
      BY <1>1, <1>3 DEF Ordered, Before
    <3>2. s[j].led \in Int /\ s[k].led \in Int
      BY <3>1 DEF Ordered
    <3> QED
      BY <1>6, <3>1, <3>2
  <2>2. k - 1 \in Nat /\ IsFiniteSet(1..(k - 1)) /\ Cardinality(1..(k - 1)) = k - 1
    BY <1>1, UpTo
  <2>3. n <= k - 1
    BY <2>1, <2>2, FS_Subset
  <2> QED
    BY <1>1, <1>4, <2>3
<1> HIDE DEF n
<1> QED
  BY <1>4, <1>5, <1>6 DEF n

(* Nothing from a ledger on comes before its position. *)
LEMMA BeforePlace ==
  ASSUME NEW s, Ordered(s), NEW led \in Nat
  PROVE  LET n == Cardinality(Before(s, led))
         IN  /\ n \in Nat /\ n <= Len(s) /\ From(s, n, led)
             /\ \A k \in DOMAIN s : k <= n => s[k].led < led
<1> DEFINE n == Cardinality(Before(s, led))
<1>1. /\ n \in Nat /\ n <= Len(s) /\ \A k \in DOMAIN s : k <= n <=> s[k].led < led
  BY BeforeCounts
<1> HIDE DEF n
<1>2. \A k \in DOMAIN s : k \in Nat /\ s[k].led \in Nat
  BY DEF Ordered
<1> QED
  BY <1>1, <1>2 DEF From, n

(* A position is in the stream, or before it. *)
LEMMA PosType ==
  ASSUME NEW s, Ordered(s), NEW T, NEW low, NEW c, CursorOK(s, T, low, c)
  PROVE  Pos(s, c) \in Nat /\ Pos(s, c) <= Len(s)
<1>1. CASE c.tok >= 0
  BY <1>1 DEF CursorOK, Pos
<1>2. CASE ~(c.tok >= 0)
  <2>1. c.led \in Nat
    BY DEF CursorOK
  <2>2. Cardinality(Before(s, c.led)) \in Nat /\ Cardinality(Before(s, c.led)) <= Len(s)
    BY <2>1, BeforePlace
  <2> QED
    BY <1>2, <2>2 DEF Pos
<1> QED
  BY <1>1, <1>2

(* Once traced, always traced: what a poller believes only gains ground. *)
LEMMA CursorKept ==
  ASSUME NEW s, NEW T, NEW T2, T \subseteq T2, NEW low, NEW c, CursorOK(s, T, low, c)
  PROVE  CursorOK(s, T2, low, c)
BY DEF CursorOK, Cover

LEMMA PollerKept ==
  ASSUME NEW s, NEW T, NEW T2, T \subseteq T2, NEW low, NEW old, NEW done, NEW done2,
         done \subseteq done2, NEW w, PollerOK(s, T, low, old, done, w)
  PROVE  PollerOK(s, T2, low, old, done2, w)
<1>1. Runs(w) => RequestOK(s, T2, low, w)
  <2> SUFFICES ASSUME Runs(w) PROVE RequestOK(s, T2, low, w)
    OBVIOUS
  <2>1. RequestOK(s, T, low, w)
    BY DEF PollerOK
  <2>2. w.snap # <<>> => CursorOK(s, T2, low, w.snap[1])
    BY <2>1, CursorKept DEF RequestOK
  <2> QED
    BY <2>1, <2>2 DEF RequestOK
<1>2. InBatch(w) => BatchOK(s, T2, low, old, w)
  BY DEF PollerOK, BatchOK, Cover
<1> QED
  BY <1>1, <1>2 DEF PollerOK

(* A process that is not in the middle of a request believes nothing. *)
LEMMA Resting ==
  ASSUME NEW w, DOMAIN w = PollerFields, w.pc \in {"off", "idle", "fatal"},
         NEW s, NEW T, NEW low, NEW old, NEW done
  PROVE  PollerOK(s, T, low, old, done, w) /\ ~Runs(w)
BY DEF PollerOK, Runs, InBatch, Pcs

LEMMA RestingRows ==
  /\ DOMAIN Idle = PollerFields /\ Idle.pc = "idle"
  /\ DOMAIN Off = PollerFields /\ Off.pc = "off"
  /\ DOMAIN [Idle EXCEPT !.pc = "fatal"] = PollerFields /\ [Idle EXCEPT !.pc = "fatal"].pc = "fatal"
BY DEF Idle, Off, PollerFields

-----------------------------------------------------------------------------
(* The steps of one poller. *)

(* Where a request starts, everything before has left a trace. *)
LEMMA RequestStart ==
  ASSUME IInv, NEW p \in Pollers, pl[p].pc = "fetch"
  PROVE  /\ After(p) \in Nat /\ After(p) <= Len(stream)
         /\ Cover(stream, Traced, After(p))
         /\ From(stream, After(p), pl[p].start) /\ From(stream, After(p), floor)
         /\ pl[p].start \in Nat
         /\ pl[p].snap # <<>> => From(stream, After(p), pl[p].snap[1].led)
<1> DEFINE w == pl[p]
<1>1. Ordered(stream) /\ RequestOK(stream, Traced, floor, w) /\ floor \in Nat
  BY StreamOrdered DEF IInv, ChainOK, CursorsOK, PollerOK, Runs
<1>2. CASE w.snap = <<>>
  <2>1. w.start = floor /\ After(p) = Cardinality(Before(stream, floor))
    BY <1>1, <1>2 DEF RequestOK, After, Before
  <2>2. /\ After(p) \in Nat /\ After(p) <= Len(stream) /\ From(stream, After(p), floor)
        /\ \A k \in DOMAIN stream : k <= After(p) => stream[k].led < floor
    BY <1>1, <2>1, BeforePlace
  <2>3. Cover(stream, Traced, After(p))
    BY <2>2 DEF Cover, Traced, Accounted
  <2> QED
    BY <1>1, <1>2, <2>1, <2>2, <2>3
<1>3. CASE w.snap # <<>>
  <2> DEFINE c == w.snap[1]
  <2>1. w.start = c.led /\ CursorOK(stream, Traced, floor, c) /\ w.start \in Nat
    BY <1>1, <1>3 DEF RequestOK
  <2>2. After(p) = Pos(stream, c)
    BY <1>3, <2>1 DEF After, Pos, Before
  <2>3. Pos(stream, c) \in Nat /\ Pos(stream, c) <= Len(stream)
    BY <1>1, <2>1, PosType
  <2> QED
    BY <1>3, <2>1, <2>2, <2>3 DEF CursorOK
<1> QED
  BY <1>2, <1>3

(* What happened is not undone. *)
Onward ==
    /\ stream' = stream /\ oldest' = oldest /\ floor' = floor /\ head' = head
    /\ archive \subseteq archive' /\ dead \subseteq dead' /\ gaps \subseteq gaps'

LEMMA TracedGrows ==
  ASSUME stream' = stream, archive \subseteq archive', dead \subseteq dead', gaps \subseteq gaps',
         Ordered(stream), floor \in Nat, floor' \in Nat, floor <= floor'
  PROVE  Traced \subseteq Traced'
<1> SUFFICES ASSUME NEW i \in Traced PROVE i \in Traced'
  OBVIOUS
<1>1. i \in DOMAIN stream /\ Accounted(i) /\ stream[i].led \in Nat
  BY DEF Traced, Ordered
<1>2. Accounted(i)'
  BY <1>1 DEF Accounted, Recognised, Topics
<1> QED
  BY <1>1, <1>2 DEF Traced

LEMMA OnwardTraced ==
  ASSUME IInv, Onward
  PROVE  Traced \subseteq Traced'
<1>1. Ordered(stream) /\ floor \in Nat
  BY StreamOrdered DEF IInv, ChainOK
<1> QED
  BY <1>1, TracedGrows DEF Onward

(* One poller moves, the others and the cursor stay or the cursor is its own. *)
LEMMA PollerMoves ==
  ASSUME IInv, Onward, NEW p \in Pollers, DOMAIN pl' = Pollers,
         \A q \in Pollers : q # p => pl'[q] = pl[q],
         PollerOK(stream, Traced', floor, oldest, archive', pl'[p]),
         \/ cur' = cur
         \/ cur' = <<cur'[1]>> /\ CursorOK(stream, Traced', floor, cur'[1])
  PROVE  CursorsOK'
<1>1. Traced \subseteq Traced'
  BY OnwardTraced
<1>2. \A q \in Pollers : PollerOK(stream, Traced, floor, oldest, archive, pl[q])
  BY DEF IInv, CursorsOK
<1>3. \A q \in Pollers : PollerOK(stream, Traced', floor, oldest, archive', pl[q])
  BY <1>1, <1>2, PollerKept DEF Onward
<1>4. \A q \in Pollers : PollerOK(stream, Traced', floor, oldest, archive', pl'[q])
  BY <1>3
<1>5. cur' # <<>> => cur' = <<cur'[1]>> /\ CursorOK(stream, Traced', floor, cur'[1])
  BY <1>1, CursorKept DEF IInv, CursorsOK
<1> QED
  BY <1>4, <1>5 DEF CursorsOK, Onward

(* The page a request returns. *)
LEMMA FetchedPage ==
  ASSUME IInv, NEW p \in Pollers, FetchEvents(p)
  PROVE  PollerOK(stream, Traced, floor, oldest, archive, pl'[p])
<1> DEFINE w == pl[p]
           from == After(p)
           to == IF from + PageLimit < head THEN from + PageLimit ELSE Max2(from, head)
           top == IF w.snap = <<>> THEN 0 ELSE w.snap[1].led
           v == [w EXCEPT !.pc = "apply", !.next = from + 1, !.end = to, !.top = top]
<1>1. w.pc = "fetch" /\ ~OutOfRetention(p) /\ pl'[p] = v
  BY DEF FetchEvents, IInv, CursorsOK
<1>2. /\ Ordered(stream) /\ head \in Nat /\ head <= Len(stream) /\ oldest \in Nat \ {0}
      /\ floor \in Nat
  BY StreamOrdered DEF IInv, ChainOK
<1>3. /\ from \in Nat /\ from <= Len(stream) /\ Cover(stream, Traced, from)
      /\ From(stream, from, w.start) /\ From(stream, from, floor) /\ w.start \in Nat
      /\ w.snap # <<>> => From(stream, from, w.snap[1].led)
  BY <1>1, RequestStart
<1>4. DOMAIN w = PollerFields /\ RequestOK(stream, Traced, floor, w)
  BY <1>1 DEF IInv, CursorsOK, PollerOK, Runs
<1>5. From(stream, from, oldest)
  <2>1. CASE w.snap # <<>> /\ w.snap[1].tok >= 0
    <3> DEFINE tok == w.snap[1].tok
    <3>1. tok \in Nat /\ tok <= Len(stream) /\ from = tok
      BY <1>4, <2>1 DEF RequestOK, CursorOK, After
    <3>2. Ledger(tok) >= oldest
      BY <1>1, <1>2, <1>4, <2>1, <3>1 DEF OutOfRetention, RequestOK, CursorOK, Ledger, Ordered
    <3> SUFFICES ASSUME NEW k \in DOMAIN stream, k > tok PROVE stream[k].led >= oldest
      BY <3>1 DEF From
    <3>3. stream[k].led \in Nat \ {0}
      BY <1>2 DEF Ordered
    <3>4. CASE tok = 0
      BY <1>2, <3>2, <3>3, <3>4 DEF Ledger
    <3>5. CASE tok # 0
      <4>1. tok \in DOMAIN stream
        BY <1>2, <3>1, <3>5 DEF Ordered
      <4>2. stream[tok].led <= stream[k].led /\ stream[tok].led \in Nat
        BY <1>2, <3>1, <4>1 DEF Ordered
      <4> QED
        BY <1>2, <3>2, <3>3, <3>5, <4>2 DEF Ledger
    <3> QED
      BY <3>4, <3>5
  <2>2. CASE ~(w.snap # <<>> /\ w.snap[1].tok >= 0)
    <3>1. w.start >= oldest
      BY <1>1, <1>2, <1>3, <2>2 DEF OutOfRetention
    <3>2. \A k \in DOMAIN stream : stream[k].led \in Nat
      BY <1>2 DEF Ordered
    <3> QED
      BY <1>2, <1>3, <3>1, <3>2 DEF From
  <2> QED
    BY <2>1, <2>2
<1>6. top \in Nat /\ From(stream, from, top)
  <2>1. CASE w.snap = <<>>
    BY <1>2, <2>1 DEF From, Ordered
  <2>2. CASE w.snap # <<>>
    BY <1>3, <1>4, <2>2 DEF RequestOK, CursorOK
  <2> QED
    BY <2>1, <2>2
<1>7. to \in Nat /\ to <= Len(stream) /\ from <= to
  <2>1. PageLimit \in Nat /\ Len(stream) \in Nat
    BY <1>2, PollerConstants DEF Ordered
  <2> QED
    BY <1>2, <1>3, <2>1 DEF Max2
<1> HIDE DEF from, to, top
<1>8. /\ DOMAIN v = PollerFields /\ v.pc = "apply" /\ v.snap = w.snap /\ v.start = w.start
      /\ v.next = from + 1 /\ v.end = to /\ v.top = top
  BY <1>4 DEF PollerFields
<1> HIDE DEF v
<1>9. RequestOK(stream, Traced, floor, v)
  BY <1>4, <1>8 DEF RequestOK
<1>10. BatchOK(stream, Traced, floor, oldest, v)
  <2>1. v.next - 1 = from /\ v.next \in Nat \ {0} /\ v.next <= v.end + 1
    BY <1>3, <1>7, <1>8
  <2> QED
    BY <1>3, <1>5, <1>6, <1>7, <1>8, <2>1 DEF BatchOK
<1>11. PollerOK(stream, Traced, floor, oldest, archive, v)
  BY <1>8, <1>9, <1>10 DEF PollerOK, Pcs, InBatch
<1> QED
  BY <1>1, <1>11

(* On to the next event, this one having left a trace. *)
LEMMA Advanced ==
  ASSUME IInv, Onward, NEW p \in Pollers, InBatch(pl[p]), NEW i, i = pl[p].next,
         i <= pl[p].end, i \in Traced', NEW counted \in BOOLEAN, Advance(p, i, counted)
  PROVE  PollerOK(stream, Traced', floor, oldest, archive', pl'[p])
<1> DEFINE w == pl[p]
           top == IF counted THEN Max2(w.top, stream[i].led) ELSE w.top
           v == [w EXCEPT !.pc = "apply", !.next = i + 1, !.top = top]
<1>1. DOMAIN pl = Pollers /\ PollerOK(stream, Traced, floor, oldest, archive, w)
  BY DEF IInv, CursorsOK
<1>2. Ordered(stream) /\ oldest \in Nat /\ floor \in Nat
  BY StreamOrdered DEF IInv, ChainOK
<1>3. pl'[p] = v
  BY <1>1 DEF Advance
<1>4. RequestOK(stream, Traced, floor, w) /\ BatchOK(stream, Traced, floor, oldest, w)
  BY <1>1 DEF PollerOK, InBatch, Runs
<1>5. i \in DOMAIN stream /\ stream[i].led \in Nat /\ i \in Nat /\ i - 1 \in Int
  BY <1>2, <1>4 DEF BatchOK, Ordered
<1>6. top \in Nat /\ \A k \in DOMAIN stream : k > i => stream[k].led >= top
  <2>1. w.top \in Nat /\ \A k \in DOMAIN stream : k > i => stream[k].led >= w.top
    BY <1>2, <1>4, <1>5 DEF BatchOK, From, Ordered
  <2>2. \A k \in DOMAIN stream : k > i => stream[k].led >= stream[i].led
    BY <1>2, <1>5 DEF Ordered
  <2> QED
    BY <1>5, <2>1, <2>2 DEF Max2
<1> HIDE DEF top
<1>7. /\ DOMAIN v = PollerFields /\ v.pc = "apply" /\ v.snap = w.snap /\ v.start = w.start
      /\ v.next = i + 1 /\ v.end = w.end /\ v.top = top
  BY <1>1 DEF PollerOK, PollerFields
<1> HIDE DEF v
<1>8. RequestOK(stream, Traced, floor, v)
  BY <1>4, <1>7 DEF RequestOK
<1>9. RequestOK(stream, Traced', floor, v)
  BY <1>8, OnwardTraced, CursorKept DEF RequestOK
<1>10. BatchOK(stream, Traced', floor, oldest, v)
  <2>1. Cover(stream, Traced', i)
    <3> SUFFICES ASSUME NEW k \in DOMAIN stream, k <= i PROVE k \in Traced'
      BY DEF Cover
    <3>1. k \in Nat
      BY <1>2 DEF Ordered
    <3>2. CASE k = i
      BY <3>2
    <3>3. CASE k # i
      <4>1. k <= i - 1
        BY <1>5, <3>1, <3>3
      <4> QED
        BY <1>4, <4>1, OnwardTraced DEF BatchOK, Cover
    <3> QED
      BY <3>2, <3>3
  <2>2. /\ From(stream, i, oldest) /\ From(stream, i, floor) /\ From(stream, i, w.start)
    <3>1. \A k \in DOMAIN stream : k \in Nat /\ (k > i => k > i - 1)
      BY <1>2, <1>5 DEF Ordered
    <3> QED
      BY <1>4, <3>1 DEF BatchOK, From
  <2>3. From(stream, i, top)
    BY <1>6 DEF From
  <2>4. v.next - 1 = i /\ v.next \in Nat \ {0} /\ v.next <= v.end + 1
    BY <1>4, <1>5, <1>7 DEF BatchOK
  <2> QED
    BY <1>4, <1>6, <1>7, <2>1, <2>2, <2>3, <2>4 DEF BatchOK
<1>11. PollerOK(stream, Traced', floor, oldest, archive', v)
  BY <1>7, <1>9, <1>10 DEF PollerOK, Pcs, InBatch
<1> QED
  BY <1>3, <1>11

(* A step of a running process that leaves the cursor alone. *)
LEMMA Steady ==
  ASSUME IInv, NEW p \in Pollers, pl[p].pc # "off", DOMAIN pl' = Pollers,
         \A q \in Pollers : q # p => pl'[q] = pl[q],
         \/ pl'[p].pc \in {"off", "idle"}
         \/ Runs(pl[p]) /\ Runs(pl'[p]) /\ pl'[p].snap = pl[p].snap,
         cur' = cur, floor' = floor, stream' = stream, head' = head, rx' = rx
  PROVE  ColdOK' /\ SurvivorOK' /\ RebuildOK'
<1>1. rx' = <<>>
  BY DEF IInv, RebuildOK
<1>2. Stored' = Stored /\ ColdStartLedger' = ColdStartLedger
  BY DEF Stored, ColdStartLedger, Latest, Ledger
<1>3. \A q \in Pollers : pl'[q].pc # "off" => pl[q].pc # "off"
  OBVIOUS
<1>4. \A q \in Pollers : Runs(pl'[q]) /\ pl'[q].snap = <<>> => Runs(pl[q]) /\ pl[q].snap = <<>>
  BY DEF Runs
<1>5. \A q \in Pollers : Hopeful(pl[q], Stored) => Hopeful(pl'[q], Stored')
  BY <1>2 DEF Hopeful, Runs
<1>6. ColdOK'
  BY <1>2, <1>3, <1>4 DEF IInv, ColdOK
<1>7. SurvivorOK'
  BY <1>5 DEF IInv, SurvivorOK
<1> QED
  BY <1>1, <1>6, <1>7 DEF RebuildOK

(* Compare and swap: the writer rests, or gives up because somebody else hit. *)
LEMMA Committed ==
  ASSUME IInv, Onward, NEW p \in Pollers, Runs(pl[p]), NEW led, NEW tok,
         CommitCursor(p, led, tok), rx' = rx,
         CursorOK(stream, Traced', floor, [led |-> led, tok |-> tok])
  PROVE  CursorsOK' /\ ColdOK' /\ SurvivorOK' /\ RebuildOK'
<1>1. DOMAIN pl = Pollers /\ pl[p].pc # "off" /\ pl[p].pc \notin {"off", "idle"}
  BY DEF IInv, CursorsOK, Runs
<1>2. rx' = <<>>
  BY <1>1 DEF IInv, RebuildOK
<1>3. CASE CasHits(p)
  <2> DEFINE c == [led |-> led, tok |-> tok]
  <2>1. cur' = <<c>> /\ pl' = [pl EXCEPT ![p] = Idle]
    BY <1>3 DEF CommitCursor
  <2> HIDE DEF c
  <2>2. DOMAIN pl' = Pollers /\ pl'[p] = Idle /\ \A q \in Pollers : q # p => pl'[q] = pl[q]
    BY <1>1, <2>1
  <2>3. PollerOK(stream, Traced', floor, oldest, archive', pl'[p]) /\ ~Runs(pl'[p])
    BY <2>2, Resting, RestingRows
  <2>4. cur' = <<cur'[1]>> /\ CursorOK(stream, Traced', floor, cur'[1]) /\ cur' # <<>>
    BY <2>1 DEF c
  <2>5. CursorsOK'
    BY <2>2, <2>3, <2>4, PollerMoves
  <2>6. \A q \in Pollers : ~(Runs(pl'[q]) /\ pl'[q].snap = <<>>)
    <3> SUFFICES ASSUME NEW q \in Pollers, Runs(pl'[q]), pl'[q].snap = <<>> PROVE FALSE
      OBVIOUS
    <3>1. q # p /\ Runs(pl[q]) /\ pl[q].snap = <<>>
      BY <2>2, <2>3
    <3>2. cur = <<>> /\ pl[q].pc # "off"
      BY <3>1 DEF IInv, ColdOK, Runs
    <3> QED
      BY <1>1, <3>1, <3>2 DEF IInv, ColdOK
  <2>7. ColdOK'
    BY <2>4, <2>6 DEF ColdOK
  <2>8. SurvivorOK'
    BY <2>2, RestingRows DEF SurvivorOK, Hopeful
  <2> QED
    BY <1>2, <2>5, <2>7, <2>8 DEF RebuildOK
<1>4. CASE ~CasHits(p)
  <2>1. cur' = cur /\ pl' = [pl EXCEPT ![p] = [Idle EXCEPT !.pc = "fatal"]]
    BY <1>4 DEF CommitCursor
  <2>2. DOMAIN pl' = Pollers /\ \A q \in Pollers : q # p => pl'[q] = pl[q]
    BY <1>1, <2>1
  <2>3. DOMAIN pl'[p] = PollerFields /\ pl'[p].pc = "fatal"
    BY <1>1, <2>1, RestingRows
  <2>4. PollerOK(stream, Traced', floor, oldest, archive', pl'[p]) /\ ~Runs(pl'[p])
    BY <2>3, Resting
  <2>5. CursorsOK'
    BY <2>1, <2>2, <2>4, PollerMoves
  <2>6. ColdOK'
    <3>1. ColdStartLedger' = ColdStartLedger
      BY DEF Onward, ColdStartLedger, Latest, Ledger
    <3>2. \A q \in Pollers : pl'[q].pc # "off" => pl[q].pc # "off"
      BY <1>1, <2>2
    <3>3. \A q \in Pollers : Runs(pl'[q]) => pl'[q] = pl[q]
      BY <2>2, <2>4
    <3> QED
      BY <2>1, <3>1, <3>2, <3>3 DEF IInv, ColdOK, Onward
  <2>7. SurvivorOK'
    <3>1. PICK r \in Pollers : Hopeful(pl[r], Stored)
      BY DEF IInv, SurvivorOK
    <3>2. ~Hopeful(pl[p], Stored)
      BY <1>1, <1>4 DEF Hopeful, CasHits, Expected
    <3>3. r # p /\ pl'[r] = pl[r] /\ Stored' = Stored
      BY <2>1, <2>2, <3>1, <3>2 DEF Stored
    <3> QED
      BY <3>1, <3>3 DEF SurvivorOK
  <2> QED
    BY <1>2, <2>5, <2>6, <2>7 DEF RebuildOK
<1> QED
  BY <1>3, <1>4

-----------------------------------------------------------------------------
(* The tables. *)

(* The referral row follows the ledger; no other contract touches it. *)
LEMMA UpsertFrame ==
  ASSUME NEW d, DOMAIN d = DbFields, NEW i
  PROVE  LET u == UpsertVault(d, i)
         IN  DOMAIN u = DbFields /\ u.rows = d.rows /\ u.ref = d.ref /\ u.blank = d.blank
<1>1. \A v : LET u == [d EXCEPT !.vault = v]
             IN  DOMAIN u = DbFields /\ u.rows = d.rows /\ u.ref = d.ref /\ u.blank = d.blank
  BY DEF DbFields
<1>2. UpsertVault(d, i) = d \/ \E v : UpsertVault(d, i) = [d EXCEPT !.vault = v]
  BY DEF UpsertVault
<1> QED
  BY <1>1, <1>2

LEMMA ProjectFrame ==
  ASSUME NEW d, DOMAIN d = DbFields, NEW i, stream[i].con \in Contracts
  PROVE  /\ DOMAIN Project(d, i) = DbFields
         /\ Project(d, i).rows \subseteq d.rows \union {i}
         /\ stream[i].con # "referral" => Project(d, i).ref = d.ref
         /\ \A k \in Project(d, i).blank : k \in d.blank \/ (k = i /\ ClosedInTx(i) = {})
<1>1. CASE stream[i].con = "market"
  <2>1. Project(d, i) = ApplyMarket(d, i)
    BY <1>1 DEF Project
  <2> QED
    BY <1>1, <2>1 DEF ApplyMarket, DbFields
<1>2. CASE stream[i].con = "factory"
  <2> DEFINE u == UpsertVault(d, i)
  <2>1. DOMAIN u = DbFields /\ u.rows = d.rows /\ u.ref = d.ref /\ u.blank = d.blank
    BY UpsertFrame
  <2>2. Project(d, i) = LogActivity(u, i)
    BY <1>2 DEF Project
  <2> HIDE DEF u
  <2> QED
    BY <1>2, <2>1, <2>2 DEF LogActivity, DbFields
<1>3. CASE stream[i].con = "lpVault"
  <2>1. Project(d, i) = LogTyped(d, i)
    BY <1>3 DEF Project
  <2> QED
    BY <1>3, <2>1 DEF LogTyped, DbFields
<1>4. CASE stream[i].con = "referral"
  <2>1. Project(d, i) = ApplyReferral(d, i)
    BY <1>4 DEF Project
  <2> QED
    BY <1>4, <2>1 DEF ApplyReferral, DbFields
<1> QED
  BY <1>1, <1>2, <1>3, <1>4 DEF Contracts

LEMMA ProjectCredits ==
  ASSUME NEW d, DOMAIN d = DbFields, NEW i, stream[i].con \in Contracts, Decodes(stream[i]),
         i \notin d.rows \/ Debt(i)
  PROVE  Project(d, i).ref = Ledgers!Credit(d.ref, stream[i])
<1>1. CASE stream[i].con # "referral"
  BY <1>1, ProjectFrame DEF Ledgers!Credit, Ledgers!Counts
<1>2. CASE stream[i].con = "referral"
  <2>1. Project(d, i) = ApplyReferral(d, i)
    BY <1>2 DEF Project
  <2>2. stream[i].topic \in ReferralTopics /\ ~stream[i].garbled
    BY <1>2 DEF Decodes, Recognised, Topics
  <2>3. i \notin d.rows
    BY <2>2 DEF Debt, ReferralTopics
  <2>4. CASE stream[i].topic = "code_created"
    BY <1>2, <2>1, <2>2, <2>4 DEF ApplyReferral, DbFields, Ledgers!Credit, Ledgers!Counts
  <2>5. CASE stream[i].topic = "trade_recorded"
    BY <1>2, <2>1, <2>2, <2>3, <2>5 DEF ApplyReferral, DbFields, Ledgers!Credit, Ledgers!Counts
  <2>6. CASE stream[i].topic = "claimed"
    BY <1>2, <2>1, <2>2, <2>3, <2>6 DEF ApplyReferral, DbFields, Ledgers!Credit, Ledgers!Counts
  <2> QED
    BY <2>2, <2>4, <2>5, <2>6 DEF ReferralTopics
<1> QED
  BY <1>1, <1>2

(* Neither a resync nor a cleanup touches the typed rows or the balances. *)
LEMMA SyncFrame ==
  ASSUME NEW d, DOMAIN d = DbFields
  PROVE  LET u == SyncVaultRow(d)
         IN  DOMAIN u = DbFields /\ u.rows = d.rows /\ u.ref = d.ref /\ u.blank = d.blank
<1>1. \A v : LET u == [d EXCEPT !.vault = v]
             IN  DOMAIN u = DbFields /\ u.rows = d.rows /\ u.ref = d.ref /\ u.blank = d.blank
  BY DEF DbFields
<1>2. SyncVaultRow(d) = d \/ SyncVaultRow(d) = [d EXCEPT !.vault = ChainAt(head).vault]
  BY DEF SyncVaultRow
<1> QED
  BY <1>1, <1>2

LEMMA EnrichFrame ==
  ASSUME NEW d, DOMAIN d = DbFields, NEW i, NEW kept
  PROVE  LET u == Enrich(d, i, kept)
         IN  DOMAIN u = DbFields /\ u.rows = d.rows /\ u.ref = d.ref /\ u.blank = d.blank
<1>1. \A v : LET u == [d EXCEPT !.pos = v]
             IN  DOMAIN u = DbFields /\ u.rows = d.rows /\ u.ref = d.ref /\ u.blank = d.blank
  BY DEF DbFields
<1>2. \E v : CleanupCrossLiquidated(d, kept) = [d EXCEPT !.pos = v]
  BY DEF CleanupCrossLiquidated
<1>3. LET u == CleanupCrossLiquidated(d, kept)
      IN  DOMAIN u = DbFields /\ u.rows = d.rows /\ u.ref = d.ref /\ u.blank = d.blank
  BY <1>1, <1>2
<1>4. Enrich(d, i, kept) \in {d, CleanupCrossLiquidated(d, kept), SyncVaultRow(d)}
  BY DEF Enrich
<1>5. LET u == SyncVaultRow(d)
      IN  DOMAIN u = DbFields /\ u.rows = d.rows /\ u.ref = d.ref /\ u.blank = d.blank
  BY SyncFrame
<1> QED
  BY <1>3, <1>4, <1>5

-----------------------------------------------------------------------------
(* The next event of a page is fresh: an archived event's past is archived too. *)
LEMMA NextPlace ==
  ASSUME IInv, NEW p \in Pollers, NextEvent(p)
  PROVE  /\ pl[p].next \in DOMAIN stream /\ pl[p].next \in Nat
         /\ stream[pl[p].next].con \in Contracts
         /\ stream[pl[p].next].led \in Nat
         /\ stream[pl[p].next].led >= oldest /\ stream[pl[p].next].led >= floor
         /\ Cover(stream, Traced, pl[p].next - 1)
<1> DEFINE i == pl[p].next
<1>1. Ordered(stream)
  BY StreamOrdered DEF IInv
<1>2. BatchOK(stream, Traced, floor, oldest, pl[p])
  BY DEF NextEvent, IInv, CursorsOK, PollerOK, InBatch
<1>3. i \in Nat \ {0} /\ i <= pl[p].end /\ pl[p].end \in Nat /\ pl[p].end <= Len(stream)
  BY <1>2 DEF BatchOK, NextEvent
<1>4. i \in DOMAIN stream /\ i > i - 1
  BY <1>1, <1>3 DEF Ordered
<1> QED
  BY <1>1, <1>2, <1>3, <1>4 DEF BatchOK, From, Ordered

LEMMA Fresh ==
  ASSUME IInv, NEW p \in Pollers, NextEvent(p), Decodes(stream[pl[p].next]),
         pl[p].next \notin archive
  PROVE  \A j \in archive : j < pl[p].next
<1> DEFINE i == pl[p].next
<1> SUFFICES ASSUME NEW j \in archive, ~(j < i) PROVE FALSE
  OBVIOUS
<1>1. /\ i \in DOMAIN stream /\ i \in Nat /\ stream[i].led \in Nat
      /\ stream[i].led >= oldest /\ stream[i].led >= floor
  BY NextPlace
<1>2. j \in DOMAIN stream /\ Cover(stream, Traced, j) /\ j \in Int
  BY StreamOrdered DEF IInv, ArchiveOK, Ordered
<1>3. Accounted(i)
  BY <1>1, <1>2 DEF Cover, Traced
<1>4. Recognised(stream[i]) /\ <<i, "decode">> \notin dead
  BY <1>1 DEF IInv, TracesOK, Decodes
<1>5. ASSUME NEW g \in gaps, stream[i].led \in g[1]..g[2] PROVE FALSE
  <2>1. g[1] \in Int /\ g[2] \in Int /\ g[2] < oldest /\ oldest \in Nat
    BY DEF IInv, TracesOK, ChainOK
  <2> QED
    BY <1>1, <1>5, <2>1
<1>6. floor \in Nat
  BY DEF IInv, ChainOK
<1> QED
  BY <1>1, <1>3, <1>4, <1>5, <1>6 DEF Accounted

-----------------------------------------------------------------------------
(* Every step keeps the invariant and is a step of the ledger. *)

LedgerStep == [Ledgers!LedgerNext]_<<stream, archive, skipped, db.ref>>

(* A step that writes no table but the cursor. *)
Untouched == archive' = archive /\ skipped' = skipped /\ dead' = dead /\ gaps' = gaps /\ db' = db

LEMMA TablesKept ==
  ASSUME IInv, Onward, Untouched
  PROVE  ChainOK' /\ ArchiveOK' /\ TracesOK' /\ DbOK' /\ LedgerStep
<1>1. Traced \subseteq Traced'
  BY OnwardTraced
<1>2. ChainOK' /\ TracesOK'
  BY DEF IInv, ChainOK, TracesOK, Onward, Untouched
<1>4. DbOK'
  BY DEF IInv, DbOK, Debt, Onward, Untouched
<1>3. ArchiveOK'
  BY <1>1 DEF IInv, ArchiveOK, Cover, Onward, Untouched
<1> QED
  BY <1>2, <1>3, <1>4 DEF LedgerStep, Onward, Untouched

LEMMA PublishStep ==
  ASSUME IInv, Publish PROVE IInv' /\ LedgerStep
<1>1. /\ stream' = stream /\ oldest' = oldest /\ floor' = floor /\ head' = head + 1
      /\ Untouched /\ cur' = cur /\ pl' = pl /\ rx' = rx /\ head < Len(stream)
  BY DEF Publish, Untouched
<1>2. Ordered(stream) /\ head \in Nat /\ floor \in Nat
  BY StreamOrdered DEF IInv, ChainOK
<1>3. Traced' = Traced
  BY <1>1 DEF Traced, Accounted, Recognised, Topics, Untouched
<1>4. CursorsOK' /\ SurvivorOK' /\ ArchiveOK' /\ TracesOK' /\ DbOK' /\ RebuildOK'
  <2>1. CursorsOK' /\ ArchiveOK'
    BY <1>1, <1>3 DEF IInv, CursorsOK, ArchiveOK, Untouched
  <2>2. SurvivorOK' /\ RebuildOK'
    BY <1>1 DEF IInv, SurvivorOK, RebuildOK, Untouched, Stored
  <2>3. TracesOK' /\ DbOK'
    BY <1>1 DEF IInv, TracesOK, DbOK, Debt, Untouched
  <2> QED
    BY <2>1, <2>2, <2>3
<1>5. ChainOK'
  BY <1>1, <1>2 DEF IInv, ChainOK, Ordered
<1>6. ColdOK'
  <2>1. head + 1 \in DOMAIN stream /\ stream[head + 1].led \in Nat \ {0}
    BY <1>1, <1>2 DEF Ordered
  <2>2. head # 0 => /\ head \in DOMAIN stream /\ stream[head].led \in Nat
                    /\ stream[head].led <= stream[head + 1].led
    BY <1>1, <1>2, <2>1 DEF Ordered
  <2>3. Latest \in Nat /\ Latest' \in Nat /\ Latest <= Latest'
    BY <1>1, <1>2, <2>1, <2>2 DEF Latest, Ledger
  <2>4. ColdStartLedger \in Nat /\ ColdStartLedger' \in Nat /\ ColdStartLedger <= ColdStartLedger'
    <3>1. /\ ColdStartLedger = Max2(1, Latest - ColdStart)
          /\ ColdStartLedger' = Max2(1, Latest' - ColdStart)
      BY DEF ColdStartLedger
    <3>2. ColdStart \in Nat
      BY PollerConstants
    <3>3. \A a, b \in Nat : a <= b => /\ Max2(1, a - ColdStart) \in Nat
                                     /\ Max2(1, a - ColdStart) <= Max2(1, b - ColdStart)
      BY <3>2 DEF Max2
    <3> QED
      BY <2>3, <3>1, <3>3
  <2>5. cur = <<>> => floor <= ColdStartLedger'
    BY <1>2, <2>4 DEF IInv, ColdOK
  <2> QED
    BY <1>1, <2>5 DEF IInv, ColdOK
<1> QED
  BY <1>1, <1>4, <1>5, <1>6 DEF IInv, LedgerStep, Untouched

LEMMA RetireStep ==
  ASSUME IInv, Retire PROVE IInv' /\ LedgerStep
<1>1. /\ stream' = stream /\ oldest' = oldest + 1 /\ floor' = floor /\ head' = head
      /\ Untouched /\ cur' = cur /\ pl' = pl /\ rx' = rx
      /\ \A p \in Pollers : ~InBatch(pl[p])
  BY DEF Retire, Untouched, InBatch
<1>2. Traced' = Traced
  BY <1>1 DEF Traced, Accounted, Recognised, Topics, Untouched
<1>3. CursorsOK'
  <2>1. \A p \in Pollers : PollerOK(stream, Traced, floor, oldest', archive, pl[p])
    BY <1>1 DEF IInv, CursorsOK, PollerOK
  <2> QED
    BY <1>1, <1>2, <2>1 DEF IInv, CursorsOK, Untouched
<1>4. ChainOK' /\ TracesOK'
  BY <1>1 DEF IInv, ChainOK, TracesOK, Untouched
<1>5. ColdStartLedger' = ColdStartLedger
  BY <1>1 DEF ColdStartLedger, Latest, Ledger
<1>6. SurvivorOK' /\ ArchiveOK' /\ ColdOK' /\ DbOK' /\ RebuildOK'
  <2>1. ArchiveOK' /\ DbOK'
    BY <1>1, <1>2 DEF IInv, ArchiveOK, DbOK, Debt, Untouched
  <2>2. SurvivorOK' /\ RebuildOK'
    BY <1>1 DEF IInv, SurvivorOK, RebuildOK, Untouched, Stored
  <2>3. ColdOK'
    BY <1>1, <1>5 DEF IInv, ColdOK
  <2> QED
    BY <2>1, <2>2, <2>3
<1> QED
  BY <1>1, <1>3, <1>4, <1>6 DEF IInv, LedgerStep, Untouched

(* A process stops, or an RPC call of it fails. *)
LEMMA Stops ==
  ASSUME IInv, NEW p \in Pollers, pl[p].pc # "off", NEW v, v \in {Idle, Off},
         pl' = [pl EXCEPT ![p] = v], Onward, Untouched, cur' = cur, rx' = rx
  PROVE  IInv' /\ LedgerStep
<1>1. DOMAIN pl' = Pollers /\ pl'[p] = v /\ \A q \in Pollers : q # p => pl'[q] = pl[q]
  BY DEF IInv, CursorsOK
<1>2. DOMAIN v = PollerFields /\ v.pc \in {"off", "idle"}
  BY RestingRows
<1>3. PollerOK(stream, Traced', floor, oldest, archive', pl'[p])
  BY <1>1, <1>2, Resting
<1>4. CursorsOK'
  BY <1>1, <1>3, PollerMoves
<1>5. floor' = floor /\ stream' = stream /\ head' = head
  BY DEF Onward
<1>6. ColdOK' /\ SurvivorOK' /\ RebuildOK'
  BY <1>1, <1>2, <1>5, Steady
<1> QED
  BY <1>4, <1>6, TablesKept DEF IInv

LEMMA CrashStep ==
  ASSUME IInv, NEW p \in Pollers, Crash(p) PROVE IInv' /\ LedgerStep
<1>1. Onward /\ Untouched /\ cur' = cur /\ rx' = rx /\ pl[p].pc # "off"
  BY DEF Crash, Onward, Untouched
<1>2. pl' = [pl EXCEPT ![p] = Off]
  BY DEF Crash
<1> QED
  BY <1>1, <1>2, Stops

LEMMA FetchFailsStep ==
  ASSUME IInv, NEW p \in Pollers, FetchFails(p) PROVE IInv' /\ LedgerStep
<1>1. Onward /\ Untouched /\ cur' = cur /\ rx' = rx /\ pl[p].pc # "off"
  BY DEF FetchFails, Onward, Untouched
<1>2. pl' = [pl EXCEPT ![p] = Idle]
  BY DEF FetchFails
<1> QED
  BY <1>1, <1>2, Stops

LEMMA BootStep ==
  ASSUME IInv, NEW p \in Pollers, Boot(p) PROVE IInv' /\ LedgerStep
<1>1. /\ Onward /\ cur' = cur /\ rx' = <<>> /\ archive' = archive /\ skipped' = skipped
      /\ dead' = dead /\ gaps' = gaps
      /\ cur # <<>> \/ \A q \in Pollers : pl[q].pc = "off"
  BY DEF Boot, Onward
<1>2. DOMAIN pl' = Pollers /\ pl'[p] = Idle /\ \A q \in Pollers : q # p => pl'[q] = pl[q]
  BY DEF Boot, IInv, CursorsOK
<1>3. PollerOK(stream, Traced', floor, oldest, archive', pl'[p]) /\ ~Runs(pl'[p])
  BY <1>2, Resting, RestingRows
<1>4. CursorsOK'
  BY <1>1, <1>2, <1>3, PollerMoves
<1>5. DOMAIN db' = DbFields /\ db'.rows = db.rows /\ db'.ref = db.ref
  <2>1. DOMAIN db = DbFields
    BY DEF IInv, DbOK
  <2>2. db' = db \/ db' = SyncVaultRow(db)
    BY DEF Boot, ReconcileAllVaults
  <2> QED
    BY <2>1, <2>2, SyncFrame
<1>6. ChainOK' /\ TracesOK' /\ DbOK'
  <2>1. ChainOK' /\ TracesOK'
    BY <1>1 DEF IInv, ChainOK, TracesOK, Onward
  <2>2. DbOK'
    BY <1>1, <1>5 DEF IInv, DbOK, Debt, Onward
  <2> QED
    BY <2>1, <2>2
<1>7. ArchiveOK'
  BY <1>1, OnwardTraced DEF IInv, ArchiveOK, Cover, Onward
<1>8. ColdOK'
  <2>1. ColdStartLedger' = ColdStartLedger
    BY <1>1 DEF Onward, ColdStartLedger, Latest, Ledger
  <2>2. \A q \in Pollers : Runs(pl'[q]) => pl'[q] = pl[q]
    BY <1>2, <1>3
  <2>3. ASSUME cur = <<>>, NEW q \in Pollers, pl'[q].pc # "off" PROVE q = p
    BY <1>1, <1>2, <2>3
  <2>4. /\ cur = <<>> => floor <= ColdStartLedger
        /\ \A q \in Pollers : Runs(pl[q]) /\ pl[q].snap = <<>> => cur = <<>>
    BY DEF IInv, ColdOK
  <2>5. cur' = cur /\ floor' = floor
    BY <1>1 DEF Onward
  <2> QED
    BY <2>1, <2>2, <2>3, <2>4, <2>5 DEF ColdOK
<1>9. SurvivorOK' /\ RebuildOK'
  BY <1>1, <1>2, RestingRows DEF SurvivorOK, Hopeful, RebuildOK
<1> QED
  BY <1>1, <1>4, <1>5, <1>6, <1>7, <1>8, <1>9 DEF IInv, LedgerStep, Onward

LEMMA ColdStartType == ASSUME IInv PROVE ColdStartLedger \in Nat
<1>1. Ordered(stream) /\ head \in Nat /\ head <= Len(stream)
  BY StreamOrdered DEF IInv, ChainOK
<1>2. head # 0 => stream[head].led \in Nat
  BY <1>1 DEF Ordered
<1>3. Latest \in Nat
  BY <1>1, <1>2 DEF Latest, Ledger
<1>4. ColdStart \in Nat
  BY PollerConstants
<1> QED
  BY <1>3, <1>4 DEF ColdStartLedger, Max2

LEMMA ReadCursorStep ==
  ASSUME IInv, NEW p \in Pollers, ReadCursor(p) PROVE IInv' /\ LedgerStep
<1> DEFINE start == IF cur # <<>> THEN cur[1].led ELSE ColdStartLedger
           v == [Idle EXCEPT !.pc = "fetch", !.snap = cur, !.start = start]
<1>1. /\ stream' = stream /\ oldest' = oldest /\ head' = head /\ Untouched /\ cur' = cur /\ rx' = rx
      /\ floor' = IF cur = <<>> THEN start ELSE floor
      /\ pl[p].pc = "idle" /\ pl' = [pl EXCEPT ![p] = v]
  BY DEF ReadCursor, Untouched
<1>2. DOMAIN pl = Pollers
  BY DEF IInv, CursorsOK
<1>3. DOMAIN v = PollerFields /\ v.pc = "fetch" /\ v.snap = cur /\ v.start = start
  BY DEF Idle, PollerFields
<1> HIDE DEF v, start
<1>4. DOMAIN pl' = Pollers /\ pl'[p] = v /\ \A q \in Pollers : q # p => pl'[q] = pl[q]
  BY <1>1, <1>2
<1>5. rx' = <<>>
  BY <1>1 DEF IInv, RebuildOK
<1>6. Stored' = Stored /\ ColdStartLedger' = ColdStartLedger
  BY <1>1 DEF Stored, ColdStartLedger, Latest, Ledger
<1>7. SurvivorOK'
  <2>1. Hopeful(v, Stored)
    BY <1>3 DEF Hopeful, Runs, Stored
  <2> QED
    BY <1>4, <1>6, <2>1 DEF SurvivorOK
<1>8. CASE cur # <<>>
  <2>1. Onward /\ start = cur[1].led
    BY <1>1, <1>8 DEF Onward, Untouched, start
  <2>2. cur = <<cur[1]>> /\ CursorOK(stream, Traced', floor, cur[1])
    BY <1>8, <2>1, OnwardTraced, CursorKept DEF IInv, CursorsOK
  <2>3. PollerOK(stream, Traced', floor, oldest, archive', v)
    <3>1. RequestOK(stream, Traced', floor, v)
      BY <1>3, <1>8, <2>1, <2>2 DEF RequestOK, CursorOK
    <3> QED
      BY <1>3, <3>1 DEF PollerOK, Pcs, InBatch
  <2>4. CursorsOK'
    BY <1>1, <1>4, <2>1, <2>3, PollerMoves
  <2>5. ColdOK'
    BY <1>1, <1>3, <1>4, <1>8 DEF IInv, ColdOK
  <2> QED
    BY <1>1, <1>5, <1>7, <2>1, <2>4, <2>5, TablesKept DEF IInv, RebuildOK
<1>9. CASE cur = <<>>
  <2>1. start = ColdStartLedger /\ floor' = ColdStartLedger
    BY <1>1, <1>9 DEF start
  <2>2. floor \in Nat /\ floor' \in Nat /\ floor <= floor' /\ Ordered(stream)
    BY <1>9, <2>1, ColdStartType, StreamOrdered DEF IInv, ChainOK, ColdOK
  <2>3. Traced \subseteq Traced'
    BY <1>1, <2>2, TracedGrows DEF Untouched
  <2>4. \A q \in Pollers : q # p => pl'[q].pc = "off"
    BY <1>1, <1>4, <1>9 DEF IInv, ColdOK
  <2>5. ASSUME NEW q \in Pollers PROVE PollerOK(stream, Traced', floor', oldest, archive', pl'[q])
    <3>1. CASE q # p
      <4>1. DOMAIN pl'[q] = PollerFields
        BY <1>4, <3>1 DEF IInv, CursorsOK, PollerOK
      <4> QED
        BY <2>4, <3>1, <4>1, Resting
    <3>2. CASE q = p
      <4>1. RequestOK(stream, Traced', floor', v)
        BY <1>3, <1>9, <2>1, <2>2 DEF RequestOK
      <4> QED
        BY <1>3, <1>4, <3>2, <4>1 DEF PollerOK, Pcs, InBatch
    <3> QED
      BY <3>1, <3>2
  <2>6. CursorsOK'
    BY <1>1, <1>4, <1>9, <2>5 DEF CursorsOK
  <2>7. ColdOK'
    <3>1. floor' <= ColdStartLedger'
      BY <1>6, <2>1, <2>2
    <3>2. \A q \in Pollers : pl'[q].pc # "off" => q = p
      BY <2>4
    <3> QED
      BY <1>1, <1>9, <3>1, <3>2 DEF ColdOK
  <2>8. ChainOK' /\ TracesOK'
    BY <1>1, <2>2 DEF IInv, ChainOK, TracesOK, Untouched
  <2>9. ArchiveOK'
    BY <1>1, <2>3 DEF IInv, ArchiveOK, Cover, Untouched
  <2>10. DbOK'
    BY <1>1 DEF IInv, DbOK, Debt, Untouched
  <2> QED
    BY <1>1, <1>5, <1>7, <2>6, <2>7, <2>8, <2>9, <2>10 DEF IInv, RebuildOK, LedgerStep, Untouched
<1> QED
  BY <1>8, <1>9

LEMMA FetchEventsStep ==
  ASSUME IInv, NEW p \in Pollers, FetchEvents(p) PROVE IInv' /\ LedgerStep
<1>1. Onward /\ Untouched /\ cur' = cur /\ rx' = rx /\ pl[p].pc = "fetch"
  BY DEF FetchEvents, Onward, Untouched
<1>2. /\ DOMAIN pl = Pollers /\ DOMAIN pl' = Pollers
      /\ \A q \in Pollers : q # p => pl'[q] = pl[q]
  BY DEF FetchEvents, IInv, CursorsOK
<1>3. pl'[p].pc = "apply" /\ pl'[p].snap = pl[p].snap
  <2>1. DOMAIN pl[p] = PollerFields
    BY DEF IInv, CursorsOK, PollerOK
  <2> QED
    BY <1>2, <2>1 DEF FetchEvents, PollerFields
<1>4. Traced' = Traced /\ archive' = archive
  BY <1>1 DEF Traced, Accounted, Recognised, Topics, Onward, Untouched
<1>5. PollerOK(stream, Traced', floor, oldest, archive', pl'[p])
  BY <1>4, FetchedPage
<1>6. CursorsOK'
  BY <1>1, <1>2, <1>5, PollerMoves
<1>7. floor' = floor /\ stream' = stream /\ head' = head /\ Runs(pl[p]) /\ Runs(pl'[p])
  BY <1>1, <1>3 DEF Onward, Runs
<1>8. ColdOK' /\ SurvivorOK' /\ RebuildOK'
  BY <1>1, <1>2, <1>3, <1>7, Steady
<1> QED
  BY <1>1, <1>6, <1>8, TablesKept DEF IInv

(* A clamp jumps over what it has just recorded as lost. *)
LEMMA ClampStep ==
  ASSUME IInv, NEW p \in Pollers, ClampToRetention(p) PROVE IInv' /\ LedgerStep
<1> DEFINE w == pl[p]
           c == [led |-> oldest, tok |-> -1]
           n == Cardinality(Before(stream, oldest))
<1>1. /\ Onward /\ archive' = archive /\ skipped' = skipped /\ dead' = dead /\ db' = db /\ rx' = rx
      /\ w.pc = "fetch" /\ OutOfRetention(p) /\ CommitCursor(p, oldest, -1)
      /\ gaps' = IF oldest - 1 >= w.start THEN gaps \union {<<w.start, oldest - 1>>} ELSE gaps
  BY DEF ClampToRetention, Onward
<1>2. Ordered(stream) /\ oldest \in Nat \ {0} /\ floor \in Nat
  BY StreamOrdered DEF IInv, ChainOK
<1>3. /\ After(p) \in Nat /\ After(p) <= Len(stream) /\ Cover(stream, Traced, After(p))
      /\ From(stream, After(p), w.start) /\ From(stream, After(p), floor) /\ w.start \in Nat
  BY <1>1, RequestStart
<1>4. /\ n \in Nat /\ n <= Len(stream) /\ From(stream, n, oldest)
      /\ \A k \in DOMAIN stream : k <= n <=> stream[k].led < oldest
  BY <1>2, BeforeCounts, BeforePlace
<1> HIDE DEF n
<1>5. Traced \subseteq Traced'
  BY <1>1, OnwardTraced
<1>6. Cover(stream, Traced', n)
  <2> SUFFICES ASSUME NEW k \in DOMAIN stream, k <= n PROVE k \in Traced'
    BY DEF Cover
  <2>1. stream[k].led < oldest /\ stream[k].led \in Nat /\ k \in Nat
    BY <1>2, <1>4 DEF Ordered
  <2>2. CASE k <= After(p)
    BY <1>3, <1>5, <2>2 DEF Cover
  <2>3. CASE ~(k <= After(p))
    <3>1. stream[k].led >= w.start
      BY <1>3, <2>1, <2>3 DEF From
    <3>2. <<w.start, oldest - 1>> \in gaps'
      BY <1>1, <1>2, <1>3, <2>1, <3>1
    <3>3. stream[k].led \in w.start..(oldest - 1)
      BY <1>2, <1>3, <2>1, <3>1
    <3>4. stream' = stream
      BY <1>1 DEF Onward
    <3>5. Accounted(k)'
      BY <3>2, <3>3, <3>4 DEF Accounted
    <3> QED
      BY <3>4, <3>5 DEF Traced
  <2> QED
    BY <2>2, <2>3
<1>7. From(stream, n, floor)
  <2> SUFFICES ASSUME NEW k \in DOMAIN stream, k > n PROVE stream[k].led >= floor
    BY DEF From
  <2>1. stream[k].led \in Nat /\ k \in Nat /\ k >= 1 /\ ~(stream[k].led < oldest)
    BY <1>2, <1>4 DEF Ordered
  <2>2. ASSUME k <= After(p) PROVE FALSE
    <3> DEFINE a == After(p)
    <3>1. a \in DOMAIN stream /\ stream[k].led <= stream[a].led /\ stream[a].led \in Nat
      BY <1>2, <1>3, <2>1, <2>2 DEF Ordered
    <3>2. RequestOK(stream, Traced, floor, w)
      BY <1>1 DEF IInv, CursorsOK, PollerOK, Runs
    <3>3. CASE w.snap # <<>> /\ w.snap[1].tok >= 0
      <4>1. a = w.snap[1].tok
        BY <3>3 DEF After
      <4>2. Ledger(a) < oldest
        BY <1>1, <3>3, <4>1 DEF OutOfRetention
      <4> QED
        BY <1>2, <1>3, <2>1, <2>2, <3>1, <4>2 DEF Ledger
    <3>4. CASE ~(w.snap # <<>> /\ w.snap[1].tok >= 0)
      <4>1. a = Cardinality(Before(stream, w.start))
        BY <3>4 DEF After, Before
      <4>2. w.start < oldest
        BY <1>1, <3>4 DEF OutOfRetention
      <4>3. \A j \in DOMAIN stream :
                j <= Cardinality(Before(stream, w.start)) <=> stream[j].led < w.start
        BY <1>2, <1>3, BeforeCounts
      <4>4. stream[a].led < w.start
        BY <1>3, <3>1, <4>1, <4>3
      <4> QED
        BY <1>2, <1>3, <2>1, <3>1, <4>2, <4>4
    <3> QED
      BY <3>3, <3>4
  <2>3. k > After(p)
    BY <1>3, <2>1, <2>2
  <2> QED
    BY <1>3, <2>3 DEF From
<1>8. CursorOK(stream, Traced', floor, c)
  <2>1. Pos(stream, c) = n /\ c.led = oldest /\ c.tok = -1
    BY DEF Pos, n
  <2>2. Len(stream) \in Nat
    BY <1>2 DEF Ordered
  <2> HIDE DEF c
  <2> QED
    BY <1>2, <1>4, <1>6, <1>7, <2>1, <2>2 DEF CursorOK
<1>9. Runs(w)
  BY <1>1 DEF Runs
<1>10. CursorsOK' /\ ColdOK' /\ SurvivorOK' /\ RebuildOK'
  BY <1>1, <1>8, <1>9, Committed
<1>11. ChainOK'
  BY <1>1 DEF IInv, ChainOK, Onward
<1>12. TracesOK'
  <2>1. stream' = stream /\ oldest' = oldest
    BY <1>1 DEF Onward
  <2>2. ASSUME NEW g \in gaps' PROVE g[1] \in Int /\ g[2] \in Int /\ g[2] < oldest
    <3>1. CASE g \in gaps
      BY <3>1 DEF IInv, TracesOK
    <3>2. CASE g \notin gaps
      <4>1. g = <<w.start, oldest - 1>>
        BY <1>1, <3>2
      <4> QED
        BY <1>2, <1>3, <4>1
    <3> QED
      BY <3>1, <3>2
  <2> QED
    BY <1>1, <2>1, <2>2 DEF IInv, TracesOK
<1>13. ArchiveOK' /\ DbOK'
  <2>1. ArchiveOK'
    BY <1>1, <1>5 DEF IInv, ArchiveOK, Cover, Onward
  <2>2. DbOK'
    BY <1>1 DEF IInv, DbOK, Debt, Onward
  <2> QED
    BY <2>1, <2>2
<1> QED
  BY <1>1, <1>10, <1>11, <1>12, <1>13 DEF IInv, LedgerStep, Onward

(* On to the next event. *)
LEMMA AdvanceKeeps ==
  ASSUME IInv, Onward, NEW p \in Pollers, InBatch(pl[p]), NEW i, i = pl[p].next,
         i <= pl[p].end, i \in Traced', NEW counted \in BOOLEAN, Advance(p, i, counted),
         cur' = cur, rx' = rx
  PROVE  CursorsOK' /\ ColdOK' /\ SurvivorOK' /\ RebuildOK'
<1>1. PollerOK(stream, Traced', floor, oldest, archive', pl'[p])
  BY Advanced
<1>2. DOMAIN pl = Pollers /\ DOMAIN pl[p] = PollerFields
  BY DEF IInv, CursorsOK, PollerOK
<1>3. DOMAIN pl' = Pollers /\ \A q \in Pollers : q # p => pl'[q] = pl[q]
  BY <1>2 DEF Advance
<1>4. pl'[p].pc = "apply" /\ pl'[p].snap = pl[p].snap
  BY <1>2 DEF Advance, PollerFields
<1>5. CursorsOK'
  BY <1>1, <1>3, PollerMoves
<1>6. /\ floor' = floor /\ stream' = stream /\ head' = head /\ pl[p].pc # "off"
      /\ Runs(pl[p]) /\ Runs(pl'[p])
  BY <1>4 DEF Onward, Runs, InBatch
<1> QED
  BY <1>3, <1>4, <1>5, <1>6, Steady

(* Event i of the page in hand. *)
LEMMA DecodeFailsStep ==
  ASSUME IInv, NEW p \in Pollers, DecodeFails(p) PROVE IInv' /\ LedgerStep
<1> DEFINE i == pl[p].next
           e == stream[i]
<1>1. /\ Onward /\ archive' = archive /\ skipped' = skipped /\ gaps' = gaps /\ db' = db
      /\ cur' = cur /\ rx' = rx /\ InBatch(pl[p]) /\ i <= pl[p].end /\ ~Decodes(e)
      /\ dead' = IF Recognised(e) THEN dead \union {<<i, "decode">>} ELSE dead
      /\ Advance(p, i, Recognised(e))
  BY DEF DecodeFails, NextEvent, InBatch, DeadLetter, Onward
<1>2. i \in DOMAIN stream /\ stream' = stream
  BY <1>1, NextPlace DEF DecodeFails, Onward
<1>3. i \in Traced'
  BY <1>1, <1>2 DEF Traced, Accounted
<1>4. Recognised(e) \in BOOLEAN
  BY DEF Recognised
<1>5. CursorsOK' /\ ColdOK' /\ SurvivorOK' /\ RebuildOK'
  <2> DEFINE counted == Recognised(e)
  <2>1. counted \in BOOLEAN /\ Advance(p, i, counted)
    BY <1>1, <1>4
  <2> HIDE DEF counted
  <2> QED
    BY <1>1, <1>3, <2>1, AdvanceKeeps
<1>6. TracesOK'
  <2>1. \A k \in DOMAIN stream : <<k, "decode">> \in dead' => ~Decodes(stream[k])
    BY <1>1 DEF IInv, TracesOK
  <2> QED
    BY <1>1, <1>2, <2>1 DEF IInv, TracesOK, Onward
<1>7. ChainOK'
  BY <1>1 DEF IInv, ChainOK, Onward
<1>8. ArchiveOK'
  BY <1>1, OnwardTraced DEF IInv, ArchiveOK, Cover, Onward
<1>9. DbOK'
  BY <1>1 DEF IInv, DbOK, Debt, Onward
<1> QED
  BY <1>1, <1>5, <1>6, <1>7, <1>8, <1>9 DEF IInv, LedgerStep, Onward

(* The archive row of the next event: it covers all that came before. *)
LEMMA Archived ==
  ASSUME IInv, Onward, NEW p \in Pollers, NextEvent(p), Decodes(stream[pl[p].next]),
         archive' = archive \union {pl[p].next}, skipped' \subseteq archive'
  PROVE  ArchiveOK'
<1> DEFINE i == pl[p].next
<1>1. i \in DOMAIN stream /\ i \in Nat /\ Cover(stream, Traced, i - 1)
  BY NextPlace
<1>2. Ordered(stream) /\ Traced \subseteq Traced' /\ stream' = stream
  BY StreamOrdered, OnwardTraced DEF IInv, Onward
<1>3. i \in Traced'
  BY <1>1, <1>2 DEF Traced, Accounted
<1>4. Cover(stream, Traced', i)
  <2> SUFFICES ASSUME NEW k \in DOMAIN stream, k <= i PROVE k \in Traced'
    BY DEF Cover
  <2>1. k = i \/ k <= i - 1
    BY <1>1, <1>2 DEF Ordered
  <2> QED
    BY <1>1, <1>2, <1>3, <2>1 DEF Cover
<1>5. ASSUME NEW j \in archive'
      PROVE  j \in DOMAIN stream /\ Decodes(stream[j]) /\ Cover(stream, Traced', j)
  <2>1. CASE j = i
    BY <1>1, <1>4, <2>1
  <2>2. CASE j # i
    BY <1>2, <2>2 DEF IInv, ArchiveOK, Cover
  <2> QED
    BY <2>1, <2>2
<1> QED
  BY <1>2, <1>5 DEF ArchiveOK

LEMMA HandleStep ==
  ASSUME IInv, NEW p \in Pollers, Handle(p) PROVE IInv' /\ LedgerStep
<1> DEFINE i == pl[p].next
           e == stream[i]
<1>1. /\ Onward /\ skipped' = skipped /\ dead' = dead /\ gaps' = gaps
      /\ cur' = cur /\ rx' = rx /\ NextEvent(p) /\ InBatch(pl[p]) /\ i <= pl[p].end /\ Decodes(e)
  BY DEF Handle, NextEvent, InBatch, Onward
<1>2. i \in DOMAIN stream /\ stream' = stream /\ e.con \in Contracts
  BY <1>1, NextPlace DEF Onward
<1>3. CASE i \in archive
  <2>1. Untouched /\ Advance(p, i, TRUE)
    BY <1>1, <1>3 DEF Handle, Untouched
  <2>2. i \in Traced'
    BY <1>2, <1>3, <2>1 DEF Traced, Accounted, Untouched
  <2>3. CursorsOK' /\ ColdOK' /\ SurvivorOK' /\ RebuildOK'
    BY <1>1, <2>1, <2>2, AdvanceKeeps
  <2> QED
    BY <1>1, <2>1, <2>3, TablesKept DEF IInv
<1>4. CASE i \notin archive
  <2> DEFINE w == pl[p]
             v == [w EXCEPT !.pc = "post"]
  <2>1. /\ archive' = archive \union {i} /\ db' = Project(db, i)
        /\ pl' = [pl EXCEPT ![p].pc = "post"]
    BY <1>4 DEF Handle
  <2>2. DOMAIN pl = Pollers /\ PollerOK(stream, Traced', floor, oldest, archive', w)
    <3>1. archive \subseteq archive'
      BY <2>1
    <3> QED
      BY <1>1, <3>1, OnwardTraced, PollerKept DEF IInv, CursorsOK
  <2>3. DOMAIN pl' = Pollers /\ pl'[p] = v /\ \A q \in Pollers : q # p => pl'[q] = pl[q]
    BY <2>1, <2>2
  <2>4. /\ DOMAIN v = PollerFields /\ v.pc = "post" /\ v.snap = w.snap /\ v.start = w.start
        /\ v.next = w.next /\ v.end = w.end /\ v.top = w.top
    BY <2>2 DEF PollerOK, PollerFields
  <2> HIDE DEF v
  <2>5. PollerOK(stream, Traced', floor, oldest, archive', v)
    <3>1. RequestOK(stream, Traced', floor, v)
      BY <1>1, <2>2, <2>4 DEF PollerOK, RequestOK, Runs, InBatch
    <3>2. BatchOK(stream, Traced', floor, oldest, v)
      BY <1>1, <2>2, <2>4 DEF PollerOK, BatchOK
    <3> QED
      BY <1>1, <2>1, <2>4, <3>1, <3>2 DEF PollerOK, Pcs
  <2>6. CursorsOK'
    BY <1>1, <2>3, <2>5, PollerMoves
  <2>7. ColdOK' /\ SurvivorOK' /\ RebuildOK'
    <3>1. /\ floor' = floor /\ head' = head /\ pl[p].pc # "off"
          /\ Runs(pl[p]) /\ Runs(pl'[p]) /\ pl'[p].snap = pl[p].snap
      BY <1>1, <2>3, <2>4 DEF Onward, Runs, InBatch
    <3> QED
      BY <1>1, <1>2, <2>3, <3>1, Steady
  <2>8. ChainOK' /\ TracesOK'
    BY <1>1 DEF IInv, ChainOK, TracesOK, Onward
  <2>9. skipped \subseteq archive
    BY DEF IInv, ArchiveOK
  <2>10. ArchiveOK'
    <3>1. skipped' \subseteq archive'
      BY <1>1, <2>1, <2>9
    <3> QED
      BY <1>1, <2>1, <3>1, Archived
  <2>11. DOMAIN db = DbFields /\ i \notin db.rows
    BY <1>4 DEF IInv, DbOK
  <2>12. DOMAIN db' = DbFields /\ db'.rows \subseteq db.rows \union {i}
    BY <1>2, <2>1, <2>11, ProjectFrame
  <2>13. DbOK'
    <3>1. \A k \in db.rows : k \in archive /\ (k \notin skipped \/ Debt(k))
      BY DEF IInv, DbOK
    <3> QED
      BY <1>1, <1>2, <1>4, <2>1, <2>9, <2>12, <3>1 DEF DbOK, Debt
  <2>14. Ledgers!Record(i)
    <3>1. db'.ref = Ledgers!Credit(db.ref, e)
      BY <1>1, <1>2, <2>1, <2>11, ProjectCredits
    <3>2. \A j \in archive : j < i
      BY <1>1, <1>4, Fresh
    <3> QED
      BY <1>1, <1>2, <2>1, <3>1, <3>2 DEF Ledgers!Record, Ledgers!Fresh
  <2>15. LedgerStep
    BY <1>2, <2>14 DEF LedgerStep, Ledgers!LedgerNext
  <2> QED
    BY <2>6, <2>7, <2>8, <2>10, <2>13, <2>15 DEF IInv
<1> QED
  BY <1>3, <1>4

LEMMA HandleFailsStep ==
  ASSUME IInv, NEW p \in Pollers, HandleFails(p) PROVE IInv' /\ LedgerStep
<1> DEFINE i == pl[p].next
           e == stream[i]
<1>1. /\ Onward /\ gaps' = gaps /\ db' = db /\ cur' = cur /\ rx' = rx
      /\ NextEvent(p) /\ pl[p].pc # "off" /\ Decodes(e) /\ i \notin archive
      /\ pl' = [pl EXCEPT ![p] = Idle]
      /\ \/ /\ archive' = archive \union {i} /\ skipped' = skipped \union {i}
            /\ dead' = dead \union {<<i, "apply">>}
         \/ archive' = archive /\ skipped' = skipped /\ dead' = dead
  BY DEF HandleFails, NextEvent, DeadLetter, Onward
<1>2. CASE Untouched
  BY <1>1, <1>2, Stops
<1>3. CASE ~Untouched
  <2>1. /\ archive' = archive \union {i} /\ skipped' = skipped \union {i}
        /\ dead' = dead \union {<<i, "apply">>}
    BY <1>1, <1>3 DEF Untouched
  <2>2. i \in DOMAIN stream /\ stream' = stream
    BY <1>1, NextPlace DEF Onward
  <2>3. DOMAIN pl' = Pollers /\ pl'[p] = Idle /\ \A q \in Pollers : q # p => pl'[q] = pl[q]
    BY <1>1 DEF IInv, CursorsOK
  <2>4. PollerOK(stream, Traced', floor, oldest, archive', pl'[p])
    BY <2>3, Resting, RestingRows
  <2>5. CursorsOK'
    BY <1>1, <2>3, <2>4, PollerMoves
  <2>6. ColdOK' /\ SurvivorOK' /\ RebuildOK'
    <3>1. floor' = floor /\ head' = head /\ pl'[p].pc \in {"off", "idle"}
      BY <1>1, <2>3, RestingRows DEF Onward
    <3> QED
      BY <1>1, <2>2, <2>3, <3>1, Steady
  <2>7. ChainOK'
    BY <1>1 DEF IInv, ChainOK, Onward
  <2>8. TracesOK'
    <3>1. \A k : <<k, "decode">> \in dead' => <<k, "decode">> \in dead
      BY <2>1
    <3> QED
      BY <1>1, <3>1 DEF IInv, TracesOK, Onward
  <2>9. skipped \subseteq archive
    BY DEF IInv, ArchiveOK
  <2>10. ArchiveOK'
    <3>1. skipped' \subseteq archive'
      BY <2>1, <2>9
    <3> QED
      BY <1>1, <2>1, <3>1, Archived
  <2>11. DbOK'
    <3>1. DOMAIN db = DbFields /\ \A k \in db.rows : k \in archive /\ (k \notin skipped \/ Debt(k))
      BY DEF IInv, DbOK
    <3> QED
      BY <1>1, <2>1, <2>2, <3>1 DEF DbOK, Debt
  <2>12. Ledgers!SetAside(i)
    <3>1. \A j \in archive : j < i
      BY <1>1, Fresh
    <3> QED
      BY <1>1, <2>1, <2>2, <3>1 DEF Ledgers!SetAside, Ledgers!Fresh
  <2>13. LedgerStep
    BY <2>2, <2>12 DEF LedgerStep, Ledgers!LedgerNext
  <2> QED
    BY <2>5, <2>6, <2>7, <2>8, <2>10, <2>11, <2>13 DEF IInv
<1> QED
  BY <1>2, <1>3

(* Enrichment rewrites rows that carry no balance; the event is in the archive. *)
LEMMA Enriched ==
  ASSUME IInv, Onward, NEW p \in Pollers, pl[p].pc = "post", Advance(p, pl[p].next, TRUE),
         archive' = archive, skipped' = skipped, dead' = dead, gaps' = gaps,
         cur' = cur, rx' = rx, NEW kept, db' = Enrich(db, pl[p].next, kept)
  PROVE  IInv' /\ LedgerStep
<1> DEFINE i == pl[p].next
<1>1. InBatch(pl[p]) /\ i \in archive /\ i <= pl[p].end /\ stream' = stream
  BY DEF InBatch, IInv, CursorsOK, PollerOK, Onward
<1>2. i \in Traced'
  BY <1>1 DEF IInv, ArchiveOK, Traced, Accounted
<1>3. CursorsOK' /\ ColdOK' /\ SurvivorOK' /\ RebuildOK'
  BY <1>1, <1>2, AdvanceKeeps
<1>4. DOMAIN db' = DbFields /\ db'.rows = db.rows /\ db'.ref = db.ref
  <2>1. DOMAIN db = DbFields
    BY DEF IInv, DbOK
  <2> QED
    BY <2>1, EnrichFrame
<1>5. ChainOK' /\ TracesOK'
  BY DEF IInv, ChainOK, TracesOK, Onward
<1>6. ArchiveOK'
  BY OnwardTraced DEF IInv, ArchiveOK, Cover, Onward
<1>7. DbOK'
  BY <1>1, <1>4 DEF IInv, DbOK, Debt
<1> QED
  BY <1>1, <1>3, <1>4, <1>5, <1>6, <1>7 DEF IInv, LedgerStep

LEMMA PostCommitStep ==
  ASSUME IInv, NEW p \in Pollers, PostCommit(p) PROVE IInv' /\ LedgerStep
<1>1. /\ Onward /\ pl[p].pc = "post" /\ Advance(p, pl[p].next, TRUE)
      /\ archive' = archive /\ skipped' = skipped /\ dead' = dead /\ gaps' = gaps
      /\ cur' = cur /\ rx' = rx /\ db' = Enrich(db, pl[p].next, {})
  BY DEF PostCommit, Onward
<1> QED
  BY <1>1, Enriched

LEMMA EnrichFailsStep ==
  ASSUME IInv, NEW p \in Pollers, EnrichFails(p) PROVE IInv' /\ LedgerStep
<1>1. /\ Onward /\ pl[p].pc = "post" /\ Advance(p, pl[p].next, TRUE)
      /\ archive' = archive /\ skipped' = skipped /\ dead' = dead /\ gaps' = gaps
      /\ cur' = cur /\ rx' = rx /\ \E kept : db' = Enrich(db, pl[p].next, kept)
  BY DEF EnrichFails, Onward
<1> QED
  BY <1>1, Enriched

(* The page is done: its end is a cursor. *)
LEMMA FinishBatchStep ==
  ASSUME IInv, NEW p \in Pollers, FinishBatch(p) PROVE IInv' /\ LedgerStep
<1> DEFINE w == pl[p]
           empty == w.snap # <<>> /\ w.end = After(p)
           led == IF empty THEN w.snap[1].led ELSE IF w.top = 0 THEN w.start ELSE w.top
           tok == IF empty THEN w.snap[1].tok ELSE w.end
           c == [led |-> led, tok |-> tok]
<1>1. Onward /\ Untouched /\ rx' = rx /\ w.pc = "apply" /\ w.next > w.end
  BY DEF FinishBatch, Onward, Untouched
<1>2. \/ CommitCursor(p, led, tok)
      \/ pl' = [pl EXCEPT ![p] = Idle] /\ cur' = cur
  BY DEF FinishBatch
<1>3. /\ Runs(w) /\ w.pc # "off"
      /\ RequestOK(stream, Traced, floor, w) /\ BatchOK(stream, Traced, floor, oldest, w)
  BY <1>1 DEF IInv, CursorsOK, PollerOK, Runs, InBatch
<1>4. CASE pl' = [pl EXCEPT ![p] = Idle] /\ cur' = cur
  BY <1>1, <1>3, <1>4, Stops
<1>5. CASE CommitCursor(p, led, tok)
  <2>1. CursorOK(stream, Traced, floor, c)
    <3>1. CASE empty
      <4>1. CursorOK(stream, Traced, floor, w.snap[1]) /\ c.led = w.snap[1].led /\ c.tok = w.snap[1].tok
        BY <1>3, <3>1 DEF RequestOK
      <4> HIDE DEF c
      <4> QED
        BY <4>1 DEF CursorOK, Pos
    <3>2. CASE ~empty
      <4>1. w.next - 1 = w.end /\ w.end \in Nat /\ w.end <= Len(stream)
        BY <1>1, <1>3 DEF BatchOK
      <4>2. /\ Cover(stream, Traced, w.end) /\ From(stream, w.end, floor)
            /\ From(stream, w.end, w.top) /\ From(stream, w.end, w.start)
            /\ w.top \in Nat /\ w.start \in Nat
        BY <1>3, <4>1 DEF BatchOK, RequestOK
      <4>3. c.tok = w.end /\ c.led \in {w.top, w.start}
        BY <3>2
      <4> HIDE DEF c
      <4>4. Pos(stream, c) = w.end
        BY <4>1, <4>3 DEF Pos
      <4> QED
        BY <4>1, <4>2, <4>3, <4>4 DEF CursorOK
    <3> QED
      BY <3>1, <3>2
  <2>2. CursorOK(stream, Traced', floor, c)
    BY <1>1, <2>1, OnwardTraced, CursorKept
  <2> HIDE DEF led, tok
  <2>3. CursorsOK' /\ ColdOK' /\ SurvivorOK' /\ RebuildOK'
    BY <1>1, <1>3, <1>5, <2>2, Committed
  <2> QED
    BY <1>1, <2>3, TablesKept DEF IInv
<1> QED
  BY <1>2, <1>4, <1>5

(* The rebuild writes the tables only, while no process runs. *)
LEMMA PollersKept ==
  ASSUME IInv, Onward, pl' = pl, cur' = cur, archive' = archive, dead' = dead, gaps' = gaps
  PROVE  CursorsOK' /\ ColdOK' /\ SurvivorOK' /\ ChainOK' /\ TracesOK'
<1>1. Traced' = Traced
  BY DEF Traced, Accounted, Recognised, Topics, Onward
<1>2. CursorsOK'
  BY <1>1 DEF IInv, CursorsOK, Onward
<1>3. ColdStartLedger' = ColdStartLedger /\ Stored' = Stored
  BY DEF Onward, ColdStartLedger, Latest, Ledger, Stored
<1>4. ColdOK' /\ SurvivorOK'
  BY <1>3 DEF IInv, ColdOK, SurvivorOK, Onward
<1>5. ChainOK' /\ TracesOK'
  BY DEF IInv, ChainOK, TracesOK, Onward
<1> QED
  BY <1>2, <1>4, <1>5

LEMMA TruncateStep ==
  ASSUME IInv, Truncate PROVE IInv' /\ LedgerStep
<1> DEFINE kept == {i \in db.rows : stream[i].topic = "bad_debt_recorded"}
           d == [EmptyDb EXCEPT !.rows = kept]
<1>1. /\ Onward /\ pl' = pl /\ cur' = cur /\ archive' = archive /\ dead' = dead /\ gaps' = gaps
      /\ stream' = stream /\ skipped' = archive /\ rx' = <<archive>> /\ db' = d
      /\ \A p \in Pollers : pl[p].pc = "off"
  BY DEF Truncate, Onward
<1>2. CursorsOK' /\ ColdOK' /\ SurvivorOK' /\ ChainOK' /\ TracesOK'
  BY <1>1, PollersKept
<1>3. DOMAIN d = DbFields /\ d.rows = kept /\ d.ref = <<>>
  BY DEF EmptyDb, DbFields
<1> HIDE DEF d
<1>4. ArchiveOK'
  BY <1>1, OnwardTraced DEF IInv, ArchiveOK, Cover
<1>5. DbOK'
  BY <1>1, <1>3 DEF IInv, DbOK, Debt
<1>6. RebuildOK'
  BY <1>1 DEF RebuildOK
<1>7. Ledgers!Reset
  BY <1>1, <1>3 DEF Ledgers!Reset
<1> QED
  BY <1>2, <1>4, <1>5, <1>6, <1>7 DEF IInv, LedgerStep, Ledgers!LedgerNext

LEMMA ReplayStep ==
  ASSUME IInv, Replay PROVE IInv' /\ LedgerStep
<1>1. /\ Onward /\ pl' = pl /\ cur' = cur /\ archive' = archive /\ dead' = dead /\ gaps' = gaps
      /\ stream' = stream /\ rx # <<>>
  BY DEF Replay, Onward
<1>2. PICK i \in rx[1] : /\ \A j \in rx[1] : i <= j
                         /\ db' = Enrich(Project(db, i), i, {})
                         /\ skipped' = skipped \ {i}
                         /\ rx' = <<rx[1] \ {i}>>
  BY DEF Replay
<1>3. rx[1] = skipped /\ \A p \in Pollers : pl[p].pc = "off"
  BY <1>1 DEF IInv, RebuildOK
<1>4. /\ i \in skipped /\ i \in archive /\ i \in DOMAIN stream /\ Decodes(stream[i])
      /\ skipped \subseteq archive
  BY <1>2, <1>3 DEF IInv, ArchiveOK
<1>5. stream[i].con \in Contracts
  BY <1>4, StreamOrdered DEF IInv, Ordered
<1>6. DOMAIN db = DbFields /\ \A k \in db.rows : k \in archive /\ (k \notin skipped \/ Debt(k))
  BY DEF IInv, DbOK
<1> DEFINE d == Project(db, i)
<1>7. /\ DOMAIN d = DbFields /\ d.rows \subseteq db.rows \union {i}
      /\ d.ref = Ledgers!Credit(db.ref, stream[i])
  <2>1. i \notin db.rows \/ Debt(i)
    BY <1>4, <1>6
  <2> QED
    BY <1>4, <1>5, <1>6, <2>1, ProjectFrame, ProjectCredits
<1> HIDE DEF d
<1>8. DOMAIN db' = DbFields /\ db'.rows = d.rows /\ db'.ref = d.ref
  BY <1>2, <1>7, EnrichFrame DEF d
<1>9. CursorsOK' /\ ColdOK' /\ SurvivorOK' /\ ChainOK' /\ TracesOK'
  BY <1>1, PollersKept
<1>10. ArchiveOK'
  <2>1. skipped' \subseteq archive'
    BY <1>1, <1>2, <1>4
  <2> QED
    BY <1>1, <2>1, OnwardTraced DEF IInv, ArchiveOK, Cover
<1>11. DbOK'
  BY <1>1, <1>2, <1>4, <1>6, <1>7, <1>8 DEF DbOK, Debt
<1>12. RebuildOK'
  BY <1>1, <1>2, <1>3 DEF RebuildOK
<1>13. Ledgers!Restore(i)
  BY <1>1, <1>2, <1>3, <1>4, <1>7, <1>8 DEF Ledgers!Restore
<1> QED
  BY <1>4, <1>9, <1>10, <1>11, <1>12, <1>13 DEF IInv, LedgerStep, Ledgers!LedgerNext

LEMMA EndReindexStep ==
  ASSUME IInv, EndReindex PROVE IInv' /\ LedgerStep
<1>1. /\ Onward /\ Untouched /\ pl' = pl /\ cur' = cur /\ rx' = <<>>
      /\ archive' = archive /\ dead' = dead /\ gaps' = gaps
  BY DEF EndReindex, Onward, Untouched
<1>2. CursorsOK' /\ ColdOK' /\ SurvivorOK'
  BY <1>1, PollersKept
<1>3. RebuildOK'
  BY <1>1 DEF RebuildOK
<1> QED
  BY <1>1, <1>2, <1>3, TablesKept DEF IInv

-----------------------------------------------------------------------------
LEMMA InitOK ==
  ASSUME Init PROVE IInv /\ Ledgers!LedgerInit
<1>1. /\ stream \in Streams /\ head = 0 /\ oldest = 1 /\ cur = <<>> /\ archive = {} /\ db = EmptyDb
      /\ dead = {} /\ gaps = {} /\ pl = [p \in Pollers |-> Off] /\ rx = <<>> /\ skipped = {} /\ floor = 0
  BY DEF Init
<1>2. ChainOK
  BY <1>1, ChainOrder DEF ChainOK
<1>3. \A p \in Pollers : pl[p] = Off /\ DOMAIN pl = Pollers
  BY <1>1
<1>4. \A p \in Pollers : PollerOK(stream, Traced, floor, oldest, archive, pl[p]) /\ ~Runs(pl[p])
  BY <1>3, Resting, RestingRows
<1>5. CursorsOK
  BY <1>1, <1>4 DEF CursorsOK
<1>6. ColdOK
  <2>1. floor <= ColdStartLedger
    <3>1. Latest = 1 /\ ColdStart \in Nat
      BY <1>1, PollerConstants DEF Latest, Ledger
    <3> QED
      BY <1>1, <3>1 DEF ColdStartLedger, Max2
  <2> QED
    BY <1>3, <1>4, <2>1, RestingRows DEF ColdOK
<1>7. SurvivorOK
  BY <1>3, PollerConstants, RestingRows DEF SurvivorOK, Hopeful
<1>8. DOMAIN db = DbFields /\ db.rows = {} /\ db.ref = <<>>
  BY <1>1 DEF EmptyDb, DbFields
<1>9. ArchiveOK /\ TracesOK /\ DbOK /\ RebuildOK
  BY <1>1, <1>8 DEF ArchiveOK, TracesOK, DbOK, RebuildOK
<1> QED
  BY <1>1, <1>2, <1>5, <1>6, <1>7, <1>8, <1>9 DEF IInv, Ledgers!LedgerInit

LEMMA NextOK ==
  ASSUME IInv, Next PROVE IInv' /\ LedgerStep
<1>1. CASE Publish \/ Retire \/ Truncate \/ Replay \/ EndReindex
  BY <1>1, PublishStep, RetireStep, TruncateStep, ReplayStep, EndReindexStep
<1>2. CASE \E p \in Pollers : Poll(p)
  <2>1. PICK p \in Pollers : Poll(p)
    BY <1>2
  <2>2. CASE ReadCursor(p) \/ FetchEvents(p) \/ ClampToRetention(p)
    BY <2>2, ReadCursorStep, FetchEventsStep, ClampStep
  <2>3. CASE DecodeFails(p) \/ Handle(p) \/ PostCommit(p) \/ FinishBatch(p)
    BY <2>3, DecodeFailsStep, HandleStep, PostCommitStep, FinishBatchStep
  <2> QED
    BY <2>1, <2>2, <2>3 DEF Poll
<1>3. CASE \E p \in Pollers : Boot(p) \/ Crash(p) \/ FetchFails(p) \/ HandleFails(p) \/ EnrichFails(p)
  BY <1>3, BootStep, CrashStep, FetchFailsStep, HandleFailsStep, EnrichFailsStep
<1> QED
  BY <1>1, <1>2, <1>3 DEF Next

LEMMA StutterOK ==
  ASSUME IInv, UNCHANGED vars PROVE IInv' /\ LedgerStep
<1>1. /\ Onward /\ Untouched /\ pl' = pl /\ cur' = cur /\ rx' = rx /\ head' = head
      /\ archive' = archive /\ dead' = dead /\ gaps' = gaps
  BY DEF vars, Onward, Untouched
<1>2. CursorsOK' /\ ColdOK' /\ SurvivorOK'
  BY <1>1, PollersKept
<1>3. RebuildOK'
  BY <1>1 DEF IInv, RebuildOK, Untouched
<1> QED
  BY <1>1, <1>2, <1>3, TablesKept DEF IInv

(* The invariant in words: nothing a cursor, a page or an archived event has left *)
(* behind is without a trace, and somebody can still move the cursor (poll.ts).   *)
THEOREM IndexerInvariant == Spec => []IInv
<1>1. Init => IInv
  BY InitOK
<1>2. IInv /\ [Next]_vars => IInv'
  BY NextOK, StutterOK
<1> QED
  BY <1>1, <1>2, PTL DEF Spec

(* However pollers overlap, crash, retry and rebuild, each event is recorded once, in the *)
(* chain's order, and the referral balance counts exactly the recorded events that are    *)
(* not set aside (router.ts events_raw guard, handlers/referral.ts, reindex.ts).          *)
THEOREM IndexerImplementsLedger == Spec => ImplementsLedger
<1>1. Init => Ledgers!LedgerInit
  BY InitOK
<1>2. IInv /\ [Next]_vars => LedgerStep
  BY NextOK, StutterOK
<1> QED
  BY <1>1, <1>2, IndexerInvariant, PTL DEF Spec, ImplementsLedger, Ledgers!LedgerSpec, LedgerStep

LEMMA NothingLost ==
  ASSUME IInv PROVE NoSilentLoss
<1>1. OnePollerSurvives
  <2>1. PICK p \in Pollers : Hopeful(pl[p], Stored)
    BY DEF IInv, SurvivorOK
  <2> QED
    BY <2>1 DEF OnePollerSurvives, Hopeful, Runs
<1>2. ASSUME NEW i \in 1..head, Passed(i) PROVE Accounted(i)
  <2> DEFINE c == cur[1]
  <2>1. Ordered(stream) /\ CursorOK(stream, Traced, floor, c)
    BY <1>2, StreamOrdered DEF Passed, IInv, CursorsOK
  <2>2. i \in DOMAIN stream
    BY <2>1 DEF IInv, ChainOK, Ordered
  <2>3. i <= Pos(stream, c)
    <3>1. CASE c.tok >= 0
      BY <1>2, <3>1 DEF Passed, Pos
    <3>2. CASE ~(c.tok >= 0)
      <4>1. c.led \in Nat /\ stream[i].led < c.led
        BY <1>2, <2>1, <3>2 DEF Passed, CursorOK
      <4>2. i <= Cardinality(Before(stream, c.led))
        BY <2>1, <2>2, <4>1, BeforeCounts
      <4> QED
        BY <3>2, <4>2 DEF Pos
    <3> QED
      BY <3>1, <3>2
  <2> QED
    BY <2>1, <2>2, <2>3 DEF CursorOK, Cover, Traced
<1> QED
  BY <1>1, <1>2 DEF NoSilentLoss

(* The cursor never moves past an event that left no trace, and overlapping pollers never *)
(* all stop each other (poll.ts commitCursor, cursor.ts writeCursor, clampToRetention).   *)
THEOREM IndexerLosesNothing == Spec => []NoSilentLoss
<1>1. IInv => NoSilentLoss
  BY NothingLost
<1> QED
  BY <1>1, IndexerInvariant, PTL

-----------------------------------------------------------------------------
(* What subscribers and readers see.  A commit is reported by the process that made it, *)
(* once; a leader_close row lacks its pnl for as long as its close is missing.          *)
BusOK ==
    /\ DOMAIN sent = DOMAIN stream
    /\ \A i \in DOMAIN stream : sent[i] = 0 \/ (sent[i] = 1 /\ i \in archive)
    /\ \A p \in Pollers : pl[p].pc = "post" => sent[pl[p].next] = 0
    /\ \A p, q \in Pollers : pl[p].pc = "post" /\ pl[q].pc = "post" /\ p # q =>
           pl[p].next # pl[q].next
BlankOK == db.blank \subseteq archive /\ PnlOfLeaderClose

\* A step of a poller that neither archives nor reports
Aside ==
    /\ stream' = stream /\ archive \subseteq archive' /\ sent' = sent
    /\ \A q \in Pollers : pl'[q].pc = "post" => pl'[q] = pl[q]

LEMMA AsideBus == ASSUME BusOK, Aside PROVE BusOK'
BY DEF BusOK, Aside

LEMMA MovesAside ==
  ASSUME NEW p \in Pollers, DOMAIN pl = Pollers, NEW v, v.pc # "post",
         pl' = [pl EXCEPT ![p] = v], sent' = sent, stream' = stream, archive \subseteq archive'
  PROVE  Aside
BY DEF Aside

LEMMA AdvancesAside ==
  ASSUME NEW p \in Pollers, DOMAIN pl = Pollers, DOMAIN pl[p] = PollerFields,
         NEW i, NEW counted, Advance(p, i, counted)
  PROVE  pl'[p].pc = "apply" /\ \A q \in Pollers : q # p => pl'[q] = pl[q]
BY DEF Advance, PollerFields

LEMMA BusKept ==
  ASSUME IInv, BusOK, [Next]_vars PROVE BusOK'
<1>1. DOMAIN pl = Pollers /\ \A p \in Pollers : DOMAIN pl[p] = PollerFields
  BY DEF IInv, CursorsOK, PollerOK
<1>2. CASE Publish \/ Retire \/ Truncate \/ Replay \/ EndReindex \/ UNCHANGED vars
  <2>1. stream' = stream /\ archive' = archive /\ sent' = sent /\ pl' = pl
    BY <1>2 DEF Publish, Retire, Truncate, Replay, EndReindex, vars
  <2> QED
    BY <2>1, AsideBus DEF Aside
<1>3. ASSUME NEW p \in Pollers, Poll(p) \/ Boot(p) \/ Crash(p) \/ FetchFails(p) \/ HandleFails(p) \/ EnrichFails(p)
      PROVE  BusOK'
  <2> DEFINE i == pl[p].next
  <2>1. CASE Boot(p) \/ Crash(p) \/ FetchFails(p) \/ HandleFails(p)
    <3>1. /\ pl' = [pl EXCEPT ![p] = Idle] \/ pl' = [pl EXCEPT ![p] = Off]
          /\ sent' = sent /\ stream' = stream /\ archive \subseteq archive'
      BY <2>1 DEF Boot, Crash, FetchFails, HandleFails
    <3>2. Idle.pc # "post" /\ Off.pc # "post"
      BY RestingRows
    <3>3. Aside
      BY <1>1, <3>1, <3>2, MovesAside
    <3> QED
      BY <3>3, AsideBus
  <2>2. CASE ReadCursor(p) \/ FetchEvents(p)
    <3>1. /\ sent' = sent /\ stream' = stream /\ archive' = archive
          /\ \A q \in Pollers : q # p => pl'[q] = pl[q]
      BY <1>1, <2>2 DEF ReadCursor, FetchEvents
    <3>2. pl'[p].pc # "post"
      <4>1. CASE ReadCursor(p)
        <5> DEFINE v(start) == [Idle EXCEPT !.pc = "fetch", !.snap = cur, !.start = start]
        <5>1. \E start : pl'[p] = v(start)
          BY <1>1, <4>1 DEF ReadCursor
        <5>2. \A start : v(start).pc = "fetch"
          BY DEF Idle
        <5> HIDE DEF v
        <5> QED
          BY <5>1, <5>2
      <4>2. CASE FetchEvents(p)
        <5>1. pl'[p].pc = "apply"
          BY <1>1, <4>2 DEF FetchEvents, PollerFields
        <5> QED
          BY <5>1
      <4> QED
        BY <2>2, <4>1, <4>2
    <3>3. Aside
      BY <3>1, <3>2 DEF Aside
    <3> QED
      BY <3>3, AsideBus
  <2>3. CASE ClampToRetention(p) \/ FinishBatch(p)
    <3>1. /\ sent' = sent /\ stream' = stream /\ archive' = archive
          /\ \E v \in {Idle, [Idle EXCEPT !.pc = "fatal"]} : pl' = [pl EXCEPT ![p] = v]
      BY <2>3 DEF ClampToRetention, FinishBatch, CommitCursor
    <3>2. \A v \in {Idle, [Idle EXCEPT !.pc = "fatal"]} : v.pc # "post"
      BY RestingRows
    <3>3. Aside
      BY <1>1, <3>1, <3>2, MovesAside
    <3> QED
      BY <3>3, AsideBus
  <2>4. CASE DecodeFails(p) \/ (Handle(p) /\ i \in archive)
    <3>1. /\ sent' = sent /\ stream' = stream /\ archive' = archive
          /\ \E counted : Advance(p, i, counted)
      BY <2>4 DEF DecodeFails, Handle
    <3>2. pl'[p].pc = "apply" /\ \A q \in Pollers : q # p => pl'[q] = pl[q]
      BY <1>1, <3>1, AdvancesAside
    <3>3. Aside
      BY <3>1, <3>2 DEF Aside
    <3> QED
      BY <3>3, AsideBus
  <2>5. CASE Handle(p) /\ i \notin archive
    <3>1. /\ sent' = sent /\ stream' = stream /\ archive' = archive \union {i}
          /\ pl' = [pl EXCEPT ![p].pc = "post"] /\ NextEvent(p)
      BY <2>5 DEF Handle
    <3>2. pl'[p].next = i /\ \A q \in Pollers : q # p => pl'[q] = pl[q]
      BY <1>1, <3>1 DEF PollerFields
    <3>3. i \in DOMAIN stream
      BY <3>1, NextPlace
    <3>4. sent[i] = 0
      BY <2>5, <3>3 DEF BusOK
    <3>5. \A q \in Pollers : pl[q].pc = "post" => pl[q].next # i
      BY <2>5 DEF IInv, CursorsOK, PollerOK
    <3> QED
      BY <3>1, <3>2, <3>4, <3>5 DEF BusOK
  <2>6. CASE PostCommit(p) \/ EnrichFails(p)
    <3>1. /\ sent' = [sent EXCEPT ![i] = @ + 1] /\ stream' = stream /\ archive' = archive
          /\ Advance(p, i, TRUE) /\ pl[p].pc = "post"
      BY <2>6 DEF PostCommit, EnrichFails
    <3>2. pl'[p].pc = "apply" /\ \A q \in Pollers : q # p => pl'[q] = pl[q]
      BY <1>1, <3>1, AdvancesAside
    <3>3. i \in archive /\ i \in DOMAIN stream
      BY <3>1 DEF IInv, CursorsOK, PollerOK, ArchiveOK
    <3>4. sent[i] = 0 /\ DOMAIN sent = DOMAIN stream
      BY <3>1 DEF BusOK
    <3>5. DOMAIN sent' = DOMAIN stream /\ sent'[i] = 1 /\ \A k \in DOMAIN stream : k # i => sent'[k] = sent[k]
      BY <3>1, <3>3, <3>4
    <3>6. \A q \in Pollers : q # p /\ pl[q].pc = "post" => pl[q].next # i /\ pl[q].next \in DOMAIN stream
      BY <3>1 DEF BusOK, IInv, CursorsOK, PollerOK, ArchiveOK
    <3> QED
      BY <3>1, <3>2, <3>3, <3>5, <3>6 DEF BusOK
  <2> QED
    BY <1>3, <2>1, <2>2, <2>3, <2>4, <2>5, <2>6 DEF Poll
<1> QED
  BY <1>2, <1>3 DEF Next

(* Traces are kept by every step: the archive, the dead letters, the gaps and the cold *)
(* start only grow.                                                                    *)
LEMMA NextTraced ==
  ASSUME IInv, [Next]_vars
  PROVE  /\ stream' = stream /\ Traced \subseteq Traced'
         /\ archive' = archive \/ \E p \in Pollers : Handle(p) \/ HandleFails(p)
<1>1. Ordered(stream) /\ floor \in Nat
  BY StreamOrdered DEF IInv, ChainOK
<1>2. ASSUME NEW p \in Pollers, ReadCursor(p)
      PROVE  archive' = archive /\ dead' = dead /\ gaps' = gaps /\ stream' = stream
             /\ floor' \in Nat /\ floor <= floor'
  <2>1. floor' = floor \/ (cur = <<>> /\ floor' = ColdStartLedger)
    BY <1>2 DEF ReadCursor
  <2>2. floor' \in Nat /\ floor <= floor'
    BY <1>1, <2>1, ColdStartType DEF IInv, ColdOK
  <2> QED
    BY <1>2, <2>2 DEF ReadCursor
<1> DEFINE Kept == archive' = archive /\ dead \subseteq dead' /\ gaps \subseteq gaps' /\ stream' = stream
                   /\ floor' = floor
<1>3. CASE Publish \/ Retire \/ Truncate \/ Replay \/ EndReindex \/ UNCHANGED vars
  <2>1. Kept
    BY <1>3 DEF Publish, Retire, Truncate, Replay, EndReindex, vars
  <2> QED
    BY <1>1, <2>1, TracedGrows
<1>4. ASSUME NEW p \in Pollers, Poll(p) \/ Boot(p) \/ Crash(p) \/ FetchFails(p) \/ HandleFails(p) \/ EnrichFails(p)
      PROVE  /\ stream' = stream /\ Traced \subseteq Traced'
             /\ archive' = archive \/ Handle(p) \/ HandleFails(p)
  <2>1. CASE ReadCursor(p)
    BY <1>1, <1>2, <2>1, TracedGrows
  <2>2. CASE Handle(p) \/ HandleFails(p)
    <3>1. Onward
      BY <2>2 DEF Handle, HandleFails, DeadLetter, Onward
    <3> QED
      BY <2>2, <3>1, OnwardTraced DEF Onward
  <2>3. CASE FetchEvents(p) \/ ClampToRetention(p) \/ DecodeFails(p) \/ PostCommit(p) \/ FinishBatch(p)
    <3>1. Kept
      BY <2>3 DEF FetchEvents, ClampToRetention, DecodeFails, DeadLetter, PostCommit, FinishBatch
    <3> QED
      BY <1>1, <3>1, TracedGrows
  <2>4. CASE Boot(p) \/ Crash(p) \/ FetchFails(p) \/ EnrichFails(p)
    <3>1. Kept
      BY <2>4 DEF Boot, Crash, FetchFails, EnrichFails
    <3> QED
      BY <1>1, <3>1, TracedGrows
  <2> QED
    BY <1>4, <2>1, <2>2, <2>3, <2>4 DEF Poll
<1> QED
  BY <1>3, <1>4 DEF Next

(* A blank row is written for the event in hand, when no close of its transaction is in *)
(* the archive; an event the archive has passed never enters it later.                  *)
LEMMA BlankKept ==
  ASSUME IInv, BlankOK, [Next]_vars PROVE BlankOK'
<1>1. /\ Ordered(stream) /\ stream' = stream /\ Traced \subseteq Traced'
      /\ archive' = archive \/ \E p \in Pollers : Handle(p) \/ HandleFails(p)
  BY StreamOrdered, NextTraced DEF IInv
<1>2. DOMAIN db = DbFields
  BY DEF IInv, DbOK
<1>3. /\ \A k \in db'.blank : \/ k \in db.blank
                              \/ k \in archive' /\ ClosedInTx(k) = {}
  <2>1. ASSUME NEW p \in Pollers, Handle(p), pl[p].next \notin archive
        PROVE  \A k \in db'.blank : k \in db.blank \/ (k \in archive' /\ ClosedInTx(k) = {})
    <3> DEFINE i == pl[p].next
    <3>1. db' = Project(db, i) /\ i \in archive' /\ NextEvent(p)
      BY <2>1 DEF Handle
    <3>2. stream[i].con \in Contracts
      BY <3>1, NextPlace
    <3> QED
      BY <1>2, <3>1, <3>2, ProjectFrame
  <2>2. CASE Replay
    <3>1. PICK i \in rx[1] : db' = Enrich(Project(db, i), i, {})
      BY <2>2 DEF Replay
    <3>2. i \in archive /\ i \in DOMAIN stream /\ archive' = archive
      BY <2>2, <3>1 DEF IInv, RebuildOK, ArchiveOK, Replay
    <3>3. stream[i].con \in Contracts
      BY <1>1, <3>2 DEF Ordered
    <3> DEFINE d == Project(db, i)
    <3>4. DOMAIN d = DbFields /\ \A k \in d.blank : k \in db.blank \/ (k = i /\ ClosedInTx(i) = {})
      BY <1>2, <3>3, ProjectFrame
    <3> HIDE DEF d
    <3>5. db'.blank = d.blank
      BY <3>1, <3>4, EnrichFrame DEF d
    <3> QED
      BY <3>2, <3>4, <3>5
  <2>3. ASSUME NEW p \in Pollers, PostCommit(p) \/ EnrichFails(p) PROVE db'.blank = db.blank
    <3>1. \E kept : db' = Enrich(db, pl[p].next, kept)
      BY <2>3 DEF PostCommit, EnrichFails
    <3> QED
      BY <1>2, <3>1, EnrichFrame
  <2>4. ASSUME NEW p \in Pollers, Boot(p) PROVE db'.blank = db.blank
    <3>1. db' = db \/ db' = SyncVaultRow(db)
      BY <2>4 DEF Boot, ReconcileAllVaults
    <3> QED
      BY <1>2, <3>1, SyncFrame
  <2>5. CASE Truncate
    <3>1. \E R : db' = [EmptyDb EXCEPT !.rows = R]
      BY <2>5 DEF Truncate
    <3>2. \A R : [EmptyDb EXCEPT !.rows = R].blank = {}
      BY DEF EmptyDb
    <3>3. db'.blank = {}
      BY <3>1, <3>2
    <3> QED
      BY <3>3
  <2>6. CASE Publish \/ Retire \/ EndReindex \/ UNCHANGED vars
    <3>1. db' = db
      BY <2>6 DEF Publish, Retire, EndReindex, vars
    <3> QED
      BY <3>1
  <2>7. ASSUME NEW p \in Pollers,
               \/ ReadCursor(p) \/ FetchEvents(p) \/ ClampToRetention(p) \/ DecodeFails(p)
               \/ FinishBatch(p) \/ Crash(p) \/ FetchFails(p) \/ HandleFails(p)
               \/ (Handle(p) /\ pl[p].next \in archive)
        PROVE  db' = db
    BY <2>7 DEF ReadCursor, FetchEvents, ClampToRetention, DecodeFails, FinishBatch, Crash,
                FetchFails, HandleFails, Handle
  <2>8. ASSUME NEW p \in Pollers, Poll(p) \/ Boot(p) \/ Crash(p) \/ FetchFails(p) \/ HandleFails(p) \/ EnrichFails(p)
        PROVE  \A k \in db'.blank : k \in db.blank \/ (k \in archive' /\ ClosedInTx(k) = {})
    BY <2>1, <2>3, <2>4, <2>7, <2>8 DEF Poll
  <2> QED
    BY <2>2, <2>5, <2>6, <2>8 DEF Next
<1>4. \A n \in archive' \ archive : \A j \in archive : j < n
  <2>1. ASSUME NEW p \in Pollers, Handle(p) \/ HandleFails(p)
        PROVE  \A n \in archive' \ archive : \A j \in archive : j < n
    <3>1. /\ NextEvent(p) /\ Decodes(stream[pl[p].next])
          /\ archive' = archive \/ (archive' = archive \union {pl[p].next} /\ pl[p].next \notin archive)
      BY <2>1 DEF Handle, HandleFails
    <3> QED
      BY <3>1, Fresh
  <2> QED
    BY <1>1, <2>1
<1>5. archive \subseteq archive' /\ \A j \in archive : j \in DOMAIN stream /\ Cover(stream, Traced, j)
  BY <1>1 DEF IInv, ArchiveOK, Handle, HandleFails
<1>6. \A j \in archive' : j \in DOMAIN stream /\ Cover(stream, Traced', j)
  BY NextOK, StutterOK, <1>1 DEF IInv, ArchiveOK
<1>7. ASSUME NEW i \in db'.blank
      PROVE  /\ i \in archive'
             /\ \A j \in 1..(i - 1) :
                    (stream[j].topic = "position_closed" /\ stream[j].tx = stream[i].tx) =>
                        j \notin archive' /\ j \in Traced'
  <2>1. i \in archive'
    BY <1>3, <1>5, <1>7 DEF BlankOK
  <2> SUFFICES ASSUME NEW j \in 1..(i - 1), stream[j].topic = "position_closed",
                      stream[j].tx = stream[i].tx
               PROVE  j \notin archive' /\ j \in Traced'
    BY <2>1
  <2>2. i \in DOMAIN stream /\ i \in Nat /\ j \in DOMAIN stream /\ j < i
    BY <1>1, <1>6, <2>1 DEF Ordered
  <2>3. j \in Traced'
    BY <1>6, <2>1, <2>2 DEF Cover
  <2>4. j \notin archive
    <3>1. CASE i \in db.blank
      BY <3>1 DEF BlankOK, PnlOfLeaderClose
    <3>2. CASE i \notin db.blank
      BY <1>3, <1>7, <3>2 DEF ClosedInTx
    <3> QED
      BY <3>1, <3>2
  <2>5. j \notin archive'
    <3>1. CASE i \in archive
      BY <1>4, <2>2, <2>4, <3>1
    <3>2. CASE i \notin archive
      <4>1. PICK p \in Pollers : Handle(p) \/ HandleFails(p)
        BY <1>1, <2>1, <3>2
      <4>2. archive' = archive \/ archive' = archive \union {pl[p].next}
        BY <4>1 DEF Handle, HandleFails
      <4>3. \A n \in archive' \ archive : n = i
        BY <2>1, <3>2, <4>2
      <4> QED
        BY <2>2, <2>4, <4>3
    <3> QED
      BY <3>1, <3>2
  <2> QED
    BY <2>3, <2>5
<1> QED
  BY <1>1, <1>7 DEF BlankOK, PnlOfLeaderClose, Traced

(* Subscribers hear of an event at most once and only after its row is durable, and a     *)
(* leader_close row is without a pnl only if the close of its transaction was lost with a *)
(* trace (router.ts emit after commit, handlers/vault.ts), under every interleaving.      *)
THEOREM IndexerReports == Spec => [](BusAtMostOnce /\ PnlOfLeaderClose)
<1>1. Init => BusOK /\ BlankOK
  <2>1. Init => BusOK
    BY DEF Init, BusOK, Off, Idle
  <2>2. Init => db.blank = {}
    BY DEF Init, EmptyDb
  <2> QED
    BY <2>1, <2>2 DEF BlankOK, PnlOfLeaderClose
<1>2. IInv /\ (BusOK /\ BlankOK) /\ [Next]_vars => (BusOK /\ BlankOK)'
  BY BusKept, BlankKept
<1>3. BusOK /\ BlankOK => BusAtMostOnce /\ PnlOfLeaderClose
  BY DEF BusOK, BlankOK, BusAtMostOnce
<1> QED
  BY <1>1, <1>2, <1>3, IndexerInvariant, PTL DEF Spec

-----------------------------------------------------------------------------
(* Induction on the length of a stream: a set of naturals has a least element. *)
LessThan == {p \in Nat \X Nat : p[1] < p[2]}

LEMMA LeastOf ==
  ASSUME NEW T \in SUBSET Nat, T # {}
  PROVE  \E x \in T : \A y \in T : ~(y < x)
<1>1. IsWellFoundedOn(LessThan, Nat)
  <2>1. OpToRel(<, Nat) = LessThan
    BY DEF OpToRel, LessThan
  <2> QED
    BY <2>1, NatLessThanWellFounded
<1>2. \E x \in T : \A y \in T : ~(<<y, x>> \in LessThan)
  BY <1>1, WFMin
<1> QED
  BY <1>2 DEF LessThan

(* A set that holds 0 and goes up one step at a time holds every index. *)
LEMMA UpFrom ==
  ASSUME NEW a \in Nat, NEW b \in Nat, NEW P, a \in P,
         \A n \in a..b : n + 1 <= b /\ n \in P => n + 1 \in P
  PROVE  \A n \in a..b : n \in P
<1> DEFINE T == {n \in a..b : n \notin P}
<1> SUFFICES ASSUME T # {} PROVE FALSE
  OBVIOUS
<1>1. T \in SUBSET Nat
  OBVIOUS
<1>2. PICK x \in T : \A y \in T : ~(y < x)
  BY <1>1, LeastOf
<1>3. x \in Nat /\ a <= x /\ x <= b /\ x \notin P /\ x # a
  BY <1>2
<1>4. x - 1 \in a..b /\ x - 1 < x /\ (x - 1) + 1 = x
  BY <1>3
<1>5. x - 1 \in P
  BY <1>2, <1>4
<1> QED
  BY <1>3, <1>4, <1>5

-----------------------------------------------------------------------------
(* The sizes on chain. *)
HeldUpTo(s, k, n, f) ==
    f = [x \in 0..n |-> f[x]] /\ f[0] = 0 /\ \A m \in 1..n : f[m] = SizeAfter(s[m], k, f[m - 1])

LEMMA HeldExists ==
  ASSUME NEW s, NEW k, NEW L \in Nat PROVE \E f : HeldUpTo(s, k, L, f)
<1> DEFINE P == {n \in 0..L : \E f : HeldUpTo(s, k, n, f)}
<1>1. 0 \in P
  <2> DEFINE f == [x \in 0..0 |-> 0]
  <2>1. HeldUpTo(s, k, 0, f)
    BY DEF HeldUpTo
  <2> QED
    BY <2>1
<1>2. ASSUME NEW n \in 0..L, n + 1 <= L, n \in P PROVE n + 1 \in P
  <2>1. PICK f : HeldUpTo(s, k, n, f)
    BY <1>2
  <2> DEFINE g == [x \in 0..(n + 1) |-> IF x = n + 1 THEN SizeAfter(s[n + 1], k, f[n]) ELSE f[x]]
  <2>2. g = [x \in 0..(n + 1) |-> g[x]] /\ g[0] = 0
    BY <2>1 DEF HeldUpTo
  <2>3. ASSUME NEW m \in 1..(n + 1) PROVE g[m] = SizeAfter(s[m], k, g[m - 1])
    <3>1. m - 1 \in 0..(n + 1) /\ m - 1 # n + 1 /\ g[m - 1] = f[m - 1]
      OBVIOUS
    <3>2. CASE m = n + 1
      <4>1. m - 1 = n /\ g[m] = SizeAfter(s[n + 1], k, f[n])
        BY <3>2
      <4> QED
        BY <3>1, <3>2, <4>1
    <3>3. CASE m # n + 1
      <4>1. m \in 1..n /\ g[m] = f[m]
        BY <3>3
      <4> QED
        BY <2>1, <3>1, <4>1 DEF HeldUpTo
    <3> QED
      BY <3>2, <3>3
  <2> HIDE DEF g
  <2>4. HeldUpTo(s, k, n + 1, g)
    BY <2>2, <2>3 DEF HeldUpTo
  <2> QED
    BY <1>2, <2>4
<1> HIDE DEF P
<1>3. L \in P
  BY <1>1, <1>2, UpFrom
<1> QED
  BY <1>3 DEF P

LEMMA HeldEquation ==
  ASSUME NEW s, NEW k, Len(s) \in Nat
  PROVE  HeldUpTo(s, k, Len(s), Held(s, k))
<1> DEFINE Body(f) == [n \in 0..Len(s) |-> IF n = 0 THEN 0 ELSE SizeAfter(s[n], k, f[n - 1])]
<1>1. PICK f : HeldUpTo(s, k, Len(s), f)
  BY HeldExists
<1>2. f = Body(f)
  <2>1. /\ f = [x \in 0..Len(s) |-> f[x]] /\ f[0] = 0
        /\ \A m \in 1..Len(s) : f[m] = SizeAfter(s[m], k, f[m - 1])
    BY <1>1 DEF HeldUpTo
  <2>2. \A n \in 0..Len(s) : n = 0 \/ n \in 1..Len(s)
    OBVIOUS
  <2>3. [x \in 0..Len(s) |-> f[x]] = Body(f)
    BY <2>1, <2>2
  <2> QED
    BY <2>1, <2>3
<1>3. Held(s, k) = CHOOSE g : g = Body(g)
  BY DEF Held
<1> HIDE DEF Body
<1>4. Held(s, k) = Body(Held(s, k))
  BY <1>2, <1>3
<1> QED
  BY <1>4 DEF Body, HeldUpTo
-----------------------------------------------------------------------------
(* What one event does to the sizes, to the typed rows and to the referral row. *)
MarketSize(e, k, size) ==
    IF k \notin e.ids THEN size
    ELSE IF e.topic = "position_opened" THEN e.amt
    ELSE IF e.topic = "position_closed" \/ size = 0 THEN 0
    ELSE IF e.topic = "position_partial_liq" THEN size - e.amt
    ELSE IF e.topic = "position_reduced" THEN e.amt
    ELSE size
SizesAfter(e, pos) ==
    IF e.con = "market" THEN [k \in Positions |-> MarketSize(e, k, pos[k])] ELSE pos

HasRow(e) ==
    \/ e.con = "market" /\ e.topic \in {"position_closed", "position_partial_liq", "bad_debt_recorded"}
    \/ e.con = "factory" /\ e.topic \in {"deposit", "withdraw", "fees_claimed", "leader_open", "leader_close"}
    \/ e.con = "lpVault" /\ e.topic # "deposit_cap_set"
    \/ e.con = "referral" /\ e.topic \in {"trade_recorded", "claimed"}
RowsAfter(e, i, rows) == IF HasRow(e) THEN rows \union {i} ELSE rows

LEMMA ProjectRows ==
  ASSUME NEW d, DOMAIN d = DbFields, NEW i, stream[i].con \in Contracts
  PROVE  /\ Project(d, i).pos = SizesAfter(stream[i], d.pos)
         /\ Project(d, i).rows = RowsAfter(stream[i], i, d.rows)
<1> DEFINE e == stream[i]
<1>1. CASE e.con = "market"
  <2>1. Project(d, i) = ApplyMarket(d, i)
    BY <1>1 DEF Project
  <2>2. Project(d, i).pos = [k \in Positions |-> MarketSize(e, k, d.pos[k])]
    BY <2>1 DEF ApplyMarket, DbFields, MarketSize
  <2>3. Project(d, i).rows = RowsAfter(e, i, d.rows)
    BY <1>1, <2>1 DEF ApplyMarket, DbFields, RowsAfter, HasRow
  <2> QED
    BY <1>1, <2>2, <2>3 DEF SizesAfter
<1>2. CASE e.con = "factory"
  <2> DEFINE u == UpsertVault(d, i)
  <2>1. DOMAIN u = DbFields /\ u.rows = d.rows /\ u.pos = d.pos
    <3>1. \A v : LET w == [d EXCEPT !.vault = v]
                 IN  DOMAIN w = DbFields /\ w.rows = d.rows /\ w.pos = d.pos
      BY DEF DbFields
    <3>2. u = d \/ \E v : u = [d EXCEPT !.vault = v]
      BY DEF UpsertVault
    <3> QED
      BY <3>1, <3>2
  <2>2. Project(d, i) = LogActivity(u, i)
    BY <1>2 DEF Project
  <2> HIDE DEF u
  <2> QED
    BY <1>2, <2>1, <2>2 DEF LogActivity, DbFields, SizesAfter, RowsAfter, HasRow
<1>3. CASE e.con = "lpVault"
  <2>1. Project(d, i) = LogTyped(d, i)
    BY <1>3 DEF Project
  <2> QED
    BY <1>3, <2>1 DEF LogTyped, DbFields, SizesAfter, RowsAfter, HasRow
<1>4. CASE e.con = "referral"
  <2>1. Project(d, i) = ApplyReferral(d, i)
    BY <1>4 DEF Project
  <2> QED
    BY <1>4, <2>1 DEF ApplyReferral, DbFields, SizesAfter, RowsAfter, HasRow
<1> QED
  BY <1>1, <1>2, <1>3, <1>4 DEF Contracts

(* The fold of the archive exists, and is the value the model computes. *)
Kept == archive \ skipped
ProjectedUpTo(n, f) ==
    /\ f = [x \in 0..n |-> f[x]] /\ f[0] = EmptyDb
    /\ \A m \in 1..n : f[m] = IF m \in Kept THEN Project(f[m - 1], m) ELSE f[m - 1]

LEMMA ProjectedExists ==
  ASSUME NEW L \in Nat PROVE \E f : ProjectedUpTo(L, f)
<1> DEFINE StepTo(n, d) == IF n \in Kept THEN Project(d, n) ELSE d
           P == {n \in 0..L : \E f : ProjectedUpTo(n, f)}
<1>1. 0 \in P
  <2> DEFINE f == [x \in 0..0 |-> EmptyDb]
  <2>1. ProjectedUpTo(0, f)
    BY DEF ProjectedUpTo
  <2> QED
    BY <2>1
<1>2. ASSUME NEW n \in 0..L, n + 1 <= L, n \in P PROVE n + 1 \in P
  <2>1. PICK f : ProjectedUpTo(n, f)
    BY <1>2
  <2> DEFINE g == [x \in 0..(n + 1) |-> IF x = n + 1 THEN StepTo(n + 1, f[n]) ELSE f[x]]
  <2> HIDE DEF StepTo
  <2>2. g = [x \in 0..(n + 1) |-> g[x]] /\ g[0] = EmptyDb
    BY <2>1 DEF ProjectedUpTo
  <2>3. ASSUME NEW m \in 1..(n + 1) PROVE g[m] = StepTo(m, g[m - 1])
    <3>1. m - 1 \in 0..(n + 1) /\ m - 1 # n + 1 /\ g[m - 1] = f[m - 1]
      OBVIOUS
    <3>2. CASE m = n + 1
      <4>1. m - 1 = n /\ g[m] = StepTo(n + 1, f[n])
        BY <3>2
      <4> QED
        BY <3>1, <3>2, <4>1
    <3>3. CASE m # n + 1
      <4>1. m \in 1..n /\ g[m] = f[m]
        BY <3>3
      <4> QED
        BY <2>1, <3>1, <4>1 DEF ProjectedUpTo, StepTo
    <3> QED
      BY <3>2, <3>3
  <2> HIDE DEF g
  <2>4. ProjectedUpTo(n + 1, g)
    BY <2>2, <2>3 DEF ProjectedUpTo, StepTo
  <2> QED
    BY <1>2, <2>4
<1> HIDE DEF P
<1>3. L \in P
  BY <1>1, <1>2, UpFrom
<1> QED
  BY <1>3 DEF P

LEMMA ProjectedEquation ==
  ASSUME Len(stream) \in Nat
  PROVE  ProjectedUpTo(Len(stream), ProjectUpTo)
<1> DEFINE L == Len(stream)
           Body(f) == [n \in 0..L |-> IF n = 0 THEN EmptyDb
                                      ELSE IF n \in archive \ skipped THEN Project(f[n - 1], n) ELSE f[n - 1]]
<1>1. PICK f : ProjectedUpTo(L, f)
  BY ProjectedExists
<1>2. f = Body(f)
  <2>1. /\ f = [x \in 0..L |-> f[x]] /\ f[0] = EmptyDb
        /\ \A m \in 1..L : f[m] = IF m \in archive \ skipped THEN Project(f[m - 1], m) ELSE f[m - 1]
    BY <1>1 DEF ProjectedUpTo, Kept
  <2>2. \A n \in 0..L : n = 0 \/ n \in 1..L
    OBVIOUS
  <2>3. [x \in 0..L |-> f[x]] = Body(f)
    BY <2>1, <2>2
  <2> QED
    BY <2>1, <2>3
<1>3. ProjectUpTo = CHOOSE g : g = Body(g)
  BY DEF ProjectUpTo
<1> HIDE DEF Body
<1>4. ProjectUpTo = Body(ProjectUpTo)
  BY <1>2, <1>3
<1> QED
  BY <1>4 DEF Body, ProjectedUpTo, Kept

(* The part of the fold the archive alone decides, for any set of events. *)
CoreEmpty == [pos |-> [k \in Positions |-> 0], rows |-> {}, ref |-> <<>>]
CoreStep(s, i, c) == [pos |-> SizesAfter(s[i], c.pos), rows |-> RowsAfter(s[i], i, c.rows),
                      ref |-> Ledgers!Credit(c.ref, s[i])]
CoreRun(s, S, f) ==
    f[0] = CoreEmpty /\ \A m \in 1..Len(s) : f[m] = IF m \in S THEN CoreStep(s, m, f[m - 1]) ELSE f[m - 1]

LEMMA CoreRows ==
  ASSUME NEW s, Len(s) \in Nat, NEW S, NEW f, CoreRun(s, S, f)
  PROVE  \A n \in 0..Len(s) : f[n].rows \subseteq {j \in S : j \in 1..n}
<1> DEFINE P == {n \in 0..Len(s) : f[n].rows \subseteq {j \in S : j \in 1..n}}
<1>1. 0 \in P
  BY DEF CoreRun, CoreEmpty
<1>2. ASSUME NEW n \in 0..Len(s), n + 1 <= Len(s), n \in P PROVE n + 1 \in P
  <2>1. n + 1 \in 1..Len(s) /\ (n + 1) - 1 = n
    BY <1>2
  <2>2. f[n + 1] = IF n + 1 \in S THEN CoreStep(s, n + 1, f[n]) ELSE f[n]
    BY <2>1 DEF CoreRun
  <2>3. f[n + 1].rows \subseteq f[n].rows \union {n + 1} /\ (n + 1 \notin S => f[n + 1].rows = f[n].rows)
    BY <2>2 DEF CoreStep, RowsAfter
  <2>4. \A j \in 1..n : j \in 1..(n + 1)
    OBVIOUS
  <2> QED
    BY <1>2, <2>1, <2>3, <2>4
<1> HIDE DEF P
<1>3. \A n \in 0..Len(s) : n \in P
  BY <1>1, <1>2, UpFrom
<1> QED
  BY <1>3 DEF P

(* Two runs over the same events agree. *)
LEMMA CoreSame ==
  ASSUME NEW s, Len(s) \in Nat, NEW S, NEW S2, NEW f, NEW g, CoreRun(s, S, f), CoreRun(s, S2, g),
         NEW a \in 0..Len(s), \A n \in 1..a : n \in S <=> n \in S2
  PROVE  f[a] = g[a]
<1> DEFINE P == {n \in 0..a : f[n] = g[n]}
<1>1. 0 \in P
  BY DEF CoreRun
<1>2. ASSUME NEW n \in 0..a, n + 1 <= a, n \in P PROVE n + 1 \in P
  <2>1. n + 1 \in 1..Len(s) /\ (n + 1) - 1 = n /\ n + 1 \in 1..a
    BY <1>2
  <2>2. f[n + 1] = IF n + 1 \in S THEN CoreStep(s, n + 1, f[n]) ELSE f[n]
    BY <2>1 DEF CoreRun
  <2>3. g[n + 1] = IF n + 1 \in S2 THEN CoreStep(s, n + 1, g[n]) ELSE g[n]
    BY <2>1 DEF CoreRun
  <2> QED
    BY <1>2, <2>1, <2>2, <2>3
<1> HIDE DEF P
<1>3. \A n \in 0..a : n \in P
  BY <1>1, <1>2, UpFrom
<1> QED
  BY <1>3 DEF P

(* Past its last event a run rests. *)
LEMMA CoreRests ==
  ASSUME NEW s, Len(s) \in Nat, NEW S, NEW f, CoreRun(s, S, f),
         NEW a \in 0..Len(s), \A n \in 1..Len(s) : n \in S => n <= a
  PROVE  f[Len(s)] = f[a]
<1> DEFINE P == {n \in a..Len(s) : f[n] = f[a]}
<1>1. a \in P
  OBVIOUS
<1>2. ASSUME NEW n \in a..Len(s), n + 1 <= Len(s), n \in P PROVE n + 1 \in P
  <2>1. n + 1 \in 1..Len(s) /\ (n + 1) - 1 = n /\ ~(n + 1 <= a) /\ n + 1 \in a..Len(s)
    BY <1>2
  <2>2. f[n + 1] = IF n + 1 \in S THEN CoreStep(s, n + 1, f[n]) ELSE f[n]
    BY <2>1 DEF CoreRun
  <2> QED
    BY <1>2, <2>1, <2>2
<1> HIDE DEF P
<1>3. \A n \in a..Len(s) : n \in P
  <2>1. a \in Nat
    OBVIOUS
  <2> QED
    BY <1>1, <1>2, <2>1, UpFrom
<1> QED
  BY <1>3 DEF P

(* One event more, after all the others, is one step more. *)
LEMMA CoreAppends ==
  ASSUME NEW s, Len(s) \in Nat, NEW S, NEW f, CoreRun(s, S, f), NEW i \in 1..Len(s),
         \A j \in 1..Len(s) : j \in S => j < i, NEW g, CoreRun(s, S \union {i}, g)
  PROVE  g[Len(s)] = CoreStep(s, i, f[Len(s)]) /\ i \notin f[Len(s)].rows
<1>1. i - 1 \in 0..Len(s) /\ i \in 0..Len(s) /\ i \in Int /\ i - 1 \in Int
  OBVIOUS
<1>2. f[Len(s)] = f[i - 1]
  <2>1. \A n \in 1..Len(s) : n \in S => n <= i - 1
    BY <1>1
  <2> QED
    BY <1>1, <2>1, CoreRests
<1>3. g[Len(s)] = g[i]
  <2>1. \A n \in 1..Len(s) : n \in S \union {i} => n <= i
    BY <1>1
  <2> QED
    BY <1>1, <2>1, CoreRests
<1>4. g[i] = CoreStep(s, i, g[i - 1])
  BY DEF CoreRun
<1>5. g[i - 1] = f[i - 1]
  <2>1. \A n \in 1..(i - 1) : n \in S \union {i} <=> n \in S
    OBVIOUS
  <2> QED
    BY <1>1, <2>1, CoreSame
<1>6. i \notin f[Len(s)].rows
  <2>1. f[Len(s)].rows \subseteq {j \in S : j \in 1..Len(s)}
    BY CoreRows
  <2>2. i \notin S
    OBVIOUS
  <2> QED
    BY <2>1, <2>2
<1> QED
  BY <1>2, <1>3, <1>4, <1>5, <1>6

(* What the model computes is such a run. *)
LEMMA CoreOfProjected ==
  ASSUME IInv
  PROVE  \E f : /\ CoreRun(stream, Kept, f)
                /\ f[Len(stream)].pos = Projected.pos /\ f[Len(stream)].rows = Projected.rows
                /\ f[Len(stream)].ref = Projected.ref
<1> DEFINE L == Len(stream)
           F == ProjectUpTo
           core(d) == [pos |-> d.pos, rows |-> d.rows, ref |-> d.ref]
           f == [n \in 0..L |-> core(F[n])]
           P == {n \in 0..L : DOMAIN F[n] = DbFields /\ F[n].rows \subseteq 1..n}
<1>1. Ordered(stream) /\ L \in Nat /\ DOMAIN stream = 1..L
  BY StreamOrdered DEF IInv, Ordered
<1>2. ProjectedUpTo(L, F)
  BY <1>1, ProjectedEquation
<1>3. \A m \in 1..L : F[m] = IF m \in Kept THEN Project(F[m - 1], m) ELSE F[m - 1]
  BY <1>2 DEF ProjectedUpTo
<1>4. F[0] = EmptyDb
  BY <1>2 DEF ProjectedUpTo
<1>5. \A m \in 1..L : stream[m].con \in Contracts /\ (m \in Kept => Decodes(stream[m]))
  BY <1>1 DEF Ordered, Kept, IInv, ArchiveOK
<1> HIDE DEF F
<1>6. \A n \in 0..L : n \in P
  <2>1. 0 \in P
    BY <1>1, <1>4 DEF EmptyDb, DbFields
  <2>2. ASSUME NEW n \in 0..L, n + 1 <= L, n \in P PROVE n + 1 \in P
    <3>1. n + 1 \in 1..L /\ (n + 1) - 1 = n
      BY <1>1, <2>2
    <3>2. F[n + 1] = F[n] \/ F[n + 1] = Project(F[n], n + 1)
      BY <1>3, <3>1
    <3>3. DOMAIN F[n] = DbFields /\ F[n].rows \subseteq 1..n
      BY <2>2
    <3>4. DOMAIN F[n + 1] = DbFields /\ F[n + 1].rows \subseteq F[n].rows \union {n + 1}
      BY <1>5, <3>1, <3>2, <3>3, ProjectFrame
    <3>5. F[n + 1].rows \subseteq 1..(n + 1)
      BY <1>1, <3>3, <3>4
    <3> QED
      BY <1>1, <3>1, <3>4, <3>5
  <2> HIDE DEF P
  <2> QED
    BY <1>1, <2>1, <2>2, UpFrom
<1>7. CoreRun(stream, Kept, f)
  <2>1. f[0] = CoreEmpty
    <3>1. f[0] = core(EmptyDb)
      BY <1>1, <1>4
    <3>2. EmptyDb.pos = [k \in Positions |-> 0] /\ EmptyDb.rows = {} /\ EmptyDb.ref = <<>>
      BY DEF EmptyDb
    <3> QED
      BY <3>1, <3>2 DEF CoreEmpty
  <2>2. ASSUME NEW m \in 1..L PROVE f[m] = IF m \in Kept THEN CoreStep(stream, m, f[m - 1]) ELSE f[m - 1]
    <3>1. m - 1 \in 0..L /\ m \in 0..L /\ m \notin 1..(m - 1)
      BY <1>1
    <3>2. f[m] = core(F[m]) /\ f[m - 1] = core(F[m - 1])
      BY <3>1
    <3>3. CASE m \notin Kept
      BY <1>3, <3>2, <3>3
    <3>4. CASE m \in Kept
      <4> DEFINE d == F[m - 1]
      <4>1. F[m] = Project(d, m)
        BY <1>3, <3>4
      <4>2. DOMAIN d = DbFields /\ m \notin d.rows
        BY <1>6, <3>1
      <4>3. /\ Project(d, m).pos = SizesAfter(stream[m], d.pos)
            /\ Project(d, m).rows = RowsAfter(stream[m], m, d.rows)
        BY <1>5, <4>2, ProjectRows
      <4>4. Project(d, m).ref = Ledgers!Credit(d.ref, stream[m])
        BY <1>5, <3>4, <4>2, ProjectCredits
      <4>5. f[m - 1].pos = d.pos /\ f[m - 1].rows = d.rows /\ f[m - 1].ref = d.ref
        BY <3>2
      <4>6. f[m] = CoreStep(stream, m, f[m - 1])
        BY <3>2, <4>1, <4>3, <4>4, <4>5 DEF CoreStep
      <4> QED
        BY <3>4, <4>6
    <3> QED
      BY <3>3, <3>4
  <2> HIDE DEF f
  <2> QED
    BY <2>1, <2>2 DEF CoreRun
<1>8. f[L] = core(F[L]) /\ Projected = F[L]
  BY <1>1 DEF Projected, F
<1> HIDE DEF f, L
<1> QED
  BY <1>7, <1>8 DEF L

-----------------------------------------------------------------------------
(* The tables follow the archive: a step leaves them alone, applies the event after all *)
(* the others, clears them, or a cleanup drops rows.                                    *)
Uncrossed == \A i \in archive : stream[i].topic # "cross_liq"
Shrunk(old, new) ==
    new = [k \in Positions |-> new[k]] /\ \A k \in Positions : new[k] = 0 \/ new[k] = old[k]

\* The rebuild reads the archive in chain order
ReplayOrder == rx # <<>> => \A j \in archive \ rx[1] : \A i \in rx[1] : j < i

Quiet ==
    /\ stream' = stream /\ archive \subseteq archive' /\ Kept' = Kept
    /\ db'.rows = db.rows /\ db'.ref = db.ref
    /\ db'.pos = db.pos \/ (~Uncrossed /\ Shrunk(db.pos, db'.pos))
Applies(i) ==
    /\ stream' = stream /\ archive \subseteq archive' /\ i \in archive' /\ i \in DOMAIN stream
    /\ Decodes(stream[i]) /\ stream[i].con \in Contracts
    /\ i \notin Kept /\ Kept' = Kept \union {i} /\ \A j \in Kept : j < i
    /\ db'.rows = RowsAfter(stream[i], i, db.rows)
    /\ db'.ref = Ledgers!Credit(db.ref, stream[i])
    /\ \/ db'.pos = SizesAfter(stream[i], db.pos)
       \/ stream[i].topic = "cross_liq" /\ Shrunk(SizesAfter(stream[i], db.pos), db'.pos)
Clears ==
    /\ stream' = stream /\ archive' = archive /\ Kept' = {}
    /\ \A i \in db'.rows : Debt(i) /\ i \in db.rows
    /\ db'.ref = <<>> /\ db'.pos = [k \in Positions |-> 0]

LEMMA SyncPos ==
  ASSUME NEW d, DOMAIN d = DbFields PROVE SyncVaultRow(d).pos = d.pos
<1>1. \A v : [d EXCEPT !.vault = v].pos = d.pos
  BY DEF DbFields
<1> QED
  BY <1>1 DEF SyncVaultRow

LEMMA EnrichPos ==
  ASSUME NEW d, DOMAIN d = DbFields, NEW i, NEW kept
  PROVE  LET u == Enrich(d, i, kept)
         IN  u.pos = d.pos \/ (stream[i].topic = "cross_liq" /\ Shrunk(d.pos, u.pos))
<1>1. CASE stream[i].topic = "cross_liq"
  <2>1. Enrich(d, i, kept) = CleanupCrossLiquidated(d, kept)
    BY <1>1 DEF Enrich, NeedsSync
  <2> DEFINE v == [k \in Positions |-> IF ChainAt(head).pos[k] = 0 /\ k \notin kept THEN 0 ELSE d.pos[k]]
  <2>2. Enrich(d, i, kept).pos = v
    BY <2>1 DEF CleanupCrossLiquidated, DbFields
  <2>3. Shrunk(d.pos, v)
    BY DEF Shrunk
  <2> QED
    BY <1>1, <2>2, <2>3
<1>2. CASE stream[i].topic # "cross_liq"
  <2>1. Enrich(d, i, kept) \in {d, SyncVaultRow(d)}
    BY <1>2 DEF Enrich, NeedsSync
  <2> QED
    BY <2>1, SyncPos
<1> QED
  BY <1>1, <1>2

LEMMA DbMoves ==
  ASSUME IInv, ReplayOrder, [Next]_vars
  PROVE  Quiet \/ Clears \/ \E i : Applies(i)
<1>1. DOMAIN db = DbFields /\ skipped \subseteq archive
  BY DEF IInv, DbOK, ArchiveOK
<1>2. ASSUME NEW p \in Pollers, Handle(p), pl[p].next \notin archive PROVE Applies(pl[p].next)
  <2> DEFINE i == pl[p].next
  <2>1. /\ stream' = stream /\ archive' = archive \union {i} /\ skipped' = skipped
        /\ db' = Project(db, i) /\ NextEvent(p) /\ Decodes(stream[i])
    BY <1>2 DEF Handle
  <2>2. i \in DOMAIN stream /\ stream[i].con \in Contracts
    BY <2>1, NextPlace
  <2>3. \A j \in archive : j < i
    BY <1>2, <2>1, Fresh
  <2>4. /\ db'.rows = RowsAfter(stream[i], i, db.rows) /\ db'.pos = SizesAfter(stream[i], db.pos)
    BY <1>1, <2>1, <2>2, ProjectRows
  <2>5. db'.ref = Ledgers!Credit(db.ref, stream[i])
    <3>1. i \notin db.rows
      BY <1>2 DEF IInv, DbOK
    <3> QED
      BY <1>1, <2>1, <2>2, <3>1, ProjectCredits
  <2>6. i \notin Kept /\ Kept' = Kept \union {i} /\ \A j \in Kept : j < i
    BY <1>1, <1>2, <2>1, <2>3 DEF Kept
  <2> QED
    BY <2>1, <2>2, <2>4, <2>5, <2>6 DEF Applies
<1>3. CASE Replay
  <2>1. PICK i \in rx[1] : /\ \A j \in rx[1] : i <= j
                           /\ db' = Enrich(Project(db, i), i, {})
                           /\ skipped' = skipped \ {i}
    BY <1>3 DEF Replay
  <2>2. /\ rx # <<>> /\ rx[1] = skipped /\ stream' = stream /\ archive' = archive
    BY <1>3 DEF Replay, IInv, RebuildOK
  <2>3. i \in skipped /\ i \in archive /\ i \in DOMAIN stream /\ Decodes(stream[i])
    BY <1>1, <2>1, <2>2 DEF IInv, ArchiveOK
  <2>4. stream[i].con \in Contracts
    BY <2>3, StreamOrdered DEF IInv, Ordered
  <2> DEFINE d == Project(db, i)
  <2>5. d.rows = RowsAfter(stream[i], i, db.rows) /\ d.pos = SizesAfter(stream[i], db.pos)
    BY <1>1, <2>4, ProjectRows
  <2>6. d.ref = Ledgers!Credit(db.ref, stream[i]) /\ DOMAIN d = DbFields
    <3>1. i \notin db.rows \/ Debt(i)
      BY <2>3 DEF IInv, DbOK
    <3> QED
      BY <1>1, <2>3, <2>4, <3>1, ProjectCredits, ProjectFrame
  <2> HIDE DEF d
  <2>7. db'.rows = d.rows /\ db'.ref = d.ref
    BY <2>1, <2>6, EnrichFrame DEF d
  <2>8. db'.pos = d.pos \/ (stream[i].topic = "cross_liq" /\ Shrunk(d.pos, db'.pos))
    BY <2>1, <2>6, EnrichPos DEF d
  <2>9. i \notin Kept /\ Kept' = Kept \union {i} /\ \A j \in Kept : j < i
    <3>1. \A j \in archive \ skipped : j < i
      BY <2>1, <2>2 DEF ReplayOrder
    <3> QED
      BY <2>1, <2>2, <2>3, <3>1 DEF Kept
  <2>10. Applies(i)
    BY <2>2, <2>3, <2>4, <2>5, <2>6, <2>7, <2>8, <2>9 DEF Applies
  <2> QED
    BY <2>10
<1>4. CASE Truncate
  <2>1. /\ stream' = stream /\ archive' = archive /\ skipped' = archive
        /\ db' = [EmptyDb EXCEPT !.rows = {i \in db.rows : Debt(i)}]
    BY <1>4 DEF Truncate, Debt
  <2>2. /\ EmptyDb.pos = [k \in Positions |-> 0] /\ EmptyDb.ref = <<>> /\ DOMAIN EmptyDb = DbFields
    BY DEF EmptyDb, DbFields
  <2>3. /\ db'.pos = [k \in Positions |-> 0] /\ db'.ref = <<>>
        /\ db'.rows = {i \in db.rows : Debt(i)}
    BY <2>1, <2>2 DEF DbFields
  <2>4. Kept' = {}
    BY <2>1 DEF Kept
  <2>5. Clears
    BY <2>1, <2>3, <2>4 DEF Clears
  <2> QED
    BY <2>5
<1>5. ASSUME NEW p \in Pollers, PostCommit(p) \/ EnrichFails(p) PROVE Quiet
  <2> DEFINE i == pl[p].next
  <2>1. /\ stream' = stream /\ archive' = archive /\ skipped' = skipped /\ pl[p].pc = "post"
        /\ \E kept : db' = Enrich(db, i, kept)
    BY <1>5 DEF PostCommit, EnrichFails
  <2>2. db'.rows = db.rows /\ db'.ref = db.ref
    BY <1>1, <2>1, EnrichFrame
  <2>3. db'.pos = db.pos \/ (stream[i].topic = "cross_liq" /\ Shrunk(db.pos, db'.pos))
    BY <1>1, <2>1, EnrichPos
  <2>4. i \in archive
    BY <2>1 DEF IInv, CursorsOK, PollerOK
  <2> QED
    BY <2>1, <2>2, <2>3, <2>4 DEF Quiet, Kept, Uncrossed
<1>6. ASSUME NEW p \in Pollers, Boot(p) PROVE Quiet
  <2>1. /\ stream' = stream /\ archive' = archive /\ skipped' = skipped
        /\ db' = db \/ db' = SyncVaultRow(db)
    BY <1>6 DEF Boot, ReconcileAllVaults
  <2>2. db'.rows = db.rows /\ db'.ref = db.ref /\ db'.pos = db.pos
    BY <1>1, <2>1, SyncFrame, SyncPos
  <2> QED
    BY <2>1, <2>2 DEF Quiet, Kept
<1>7. CASE Publish \/ Retire \/ EndReindex \/ UNCHANGED vars
  <2>1. stream' = stream /\ archive' = archive /\ skipped' = skipped /\ db' = db
    BY <1>7 DEF Publish, Retire, EndReindex, vars
  <2> QED
    BY <2>1 DEF Quiet, Kept
<1>8. ASSUME NEW p \in Pollers,
             \/ ReadCursor(p) \/ FetchEvents(p) \/ ClampToRetention(p) \/ DecodeFails(p)
             \/ FinishBatch(p) \/ Crash(p) \/ FetchFails(p)
             \/ (Handle(p) /\ pl[p].next \in archive)
      PROVE  Quiet
  <2>1. stream' = stream /\ archive' = archive /\ skipped' = skipped /\ db' = db
    BY <1>8 DEF ReadCursor, FetchEvents, ClampToRetention, DecodeFails, FinishBatch, Crash,
                FetchFails, Handle
  <2> QED
    BY <2>1 DEF Quiet, Kept
<1>9. ASSUME NEW p \in Pollers, HandleFails(p) PROVE Quiet
  <2> DEFINE i == pl[p].next
  <2>1. /\ stream' = stream /\ db' = db /\ i \notin archive
        /\ \/ archive' = archive \union {i} /\ skipped' = skipped \union {i}
           \/ archive' = archive /\ skipped' = skipped
    BY <1>9 DEF HandleFails
  <2>2. Kept' = Kept
    BY <2>1 DEF Kept
  <2> QED
    BY <2>1, <2>2 DEF Quiet
<1>10. ASSUME NEW p \in Pollers, Poll(p) \/ Boot(p) \/ Crash(p) \/ FetchFails(p) \/ HandleFails(p) \/ EnrichFails(p)
       PROVE  Quiet \/ \E i : Applies(i)
  BY <1>2, <1>5, <1>6, <1>8, <1>9, <1>10 DEF Poll
<1> QED
  BY <1>3, <1>4, <1>7, <1>10 DEF Next

LEMMA ReplayOrdered ==
  ASSUME IInv, ReplayOrder, [Next]_vars PROVE ReplayOrder'
<1>1. CASE rx' = rx
  <2>1. CASE rx = <<>>
    BY <1>1, <2>1 DEF ReplayOrder
  <2>2. CASE rx # <<>>
    <3>1. \A p \in Pollers : pl[p].pc = "off"
      BY <2>2 DEF IInv, RebuildOK
    <3>2. archive' = archive
      <4>1. \A p \in Pollers : ~Handle(p) /\ ~HandleFails(p)
        BY <3>1 DEF Handle, HandleFails, NextEvent
      <4> QED
        BY <4>1, NextTraced
    <3> QED
      BY <1>1, <3>2 DEF ReplayOrder
  <2> QED
    BY <2>1, <2>2
<1>2. CASE Truncate
  <2>1. rx' = <<archive>> /\ archive' = archive
    BY <1>2 DEF Truncate
  <2> QED
    BY <2>1 DEF ReplayOrder
<1>3. CASE EndReindex
  BY <1>3 DEF EndReindex, ReplayOrder
<1>4. CASE Replay
  <2>1. PICK i \in rx[1] : (\A j \in rx[1] : i <= j) /\ rx' = <<rx[1] \ {i}>>
    BY <1>4 DEF Replay
  <2>2. rx # <<>> /\ archive' = archive /\ rx[1] = skipped /\ skipped \subseteq archive
    BY <1>4 DEF Replay, IInv, RebuildOK, ArchiveOK
  <2>3. \A j \in archive : j \in Int
    BY StreamOrdered DEF IInv, ArchiveOK, Ordered
  <2>4. \A j \in archive \ (rx[1] \ {i}) : \A k \in rx[1] \ {i} : j < k
    <3> TAKE j \in archive \ (rx[1] \ {i})
    <3> TAKE k \in rx[1] \ {i}
    <3>1. j = i \/ j \in archive \ rx[1]
      OBVIOUS
    <3>2. i <= k /\ k # i /\ i \in Int /\ k \in Int
      BY <2>1, <2>2, <2>3
    <3> QED
      BY <2>2, <3>1, <3>2 DEF ReplayOrder
  <2> QED
    BY <2>1, <2>2, <2>4 DEF ReplayOrder
<1>5. rx' = rx \/ Truncate \/ Replay \/ EndReindex
  <2>1. CASE Publish \/ Retire \/ UNCHANGED vars
    BY <2>1 DEF Publish, Retire, vars
  <2>2. ASSUME NEW p \in Pollers, Poll(p) \/ Boot(p) \/ Crash(p) \/ FetchFails(p) \/ HandleFails(p) \/ EnrichFails(p)
        PROVE  rx' = rx
    BY <2>2 DEF Poll, ReadCursor, FetchEvents, ClampToRetention, DecodeFails, Handle, PostCommit,
                FinishBatch, Boot, Crash, FetchFails, HandleFails, EnrichFails
  <2> QED
    BY <2>1, <2>2 DEF Next
<1> QED
  BY <1>1, <1>2, <1>3, <1>4, <1>5

(* Whatever run one takes over the kept events, the tables match its end. *)
Matches(c) ==
    /\ db.ref = c.ref
    /\ NotBadDebt(db.rows) = NotBadDebt(c.rows)
    /\ Uncrossed => db.pos = c.pos
MatchInv == \A f : CoreRun(stream, Kept, f) => Matches(f[Len(stream)])

LEMMA MatchKept ==
  ASSUME IInv, ReplayOrder, MatchInv, [Next]_vars PROVE MatchInv'
<1> DEFINE L == Len(stream)
<1>1. L \in Nat /\ DOMAIN stream = 1..L
  BY StreamOrdered DEF IInv, Ordered
<1> SUFFICES ASSUME NEW g, CoreRun(stream', Kept', g) PROVE Matches(g[Len(stream)])'
  BY DEF MatchInv
<1>2. CASE Quiet
  <2>1. stream' = stream /\ Kept' = Kept /\ (Uncrossed' => Uncrossed)
    BY <1>2 DEF Quiet, Uncrossed
  <2>2. CoreRun(stream, Kept, g)
    BY <2>1
  <2>3. Matches(g[L])
    BY <2>2 DEF MatchInv
  <2> QED
    BY <1>2, <2>1, <2>3 DEF Quiet, Matches, NotBadDebt
<1>3. CASE Clears
  <2>1. stream' = stream /\ Kept' = {}
    BY <1>3 DEF Clears
  <2>2. CoreRun(stream, {}, g)
    BY <2>1
  <2>3. g[L] = g[0]
    BY <1>1, <2>2, CoreRests
  <2>4. g[L] = CoreEmpty
    BY <2>2, <2>3 DEF CoreRun
  <2>5. NotBadDebt(db'.rows) = {}
    BY <1>3 DEF Clears, NotBadDebt, Debt
  <2> QED
    BY <1>3, <2>1, <2>4, <2>5 DEF Clears, Matches, NotBadDebt, CoreEmpty
<1>4. ASSUME NEW i, Applies(i) PROVE Matches(g[Len(stream)])'
  <2> DEFINE e == stream[i]
  <2>1. /\ stream' = stream /\ Kept' = Kept \union {i} /\ (Uncrossed' => Uncrossed /\ e.topic # "cross_liq")
        /\ \A j \in Kept : j < i
        /\ i \in 1..L
    BY <1>1, <1>4 DEF Applies, Uncrossed
  <2>2. PICK f : CoreRun(stream, Kept, f)
    BY CoreOfProjected
  <2>3. Matches(f[L])
    BY <2>2 DEF MatchInv
  <2>4. CoreRun(stream, Kept \union {i}, g)
    BY <2>1
  <2>5. g[L] = CoreStep(stream, i, f[L]) /\ i \notin f[L].rows
    BY <1>1, <2>1, <2>2, <2>4, CoreAppends
  <2>6. /\ g[L].ref = Ledgers!Credit(f[L].ref, e) /\ g[L].pos = SizesAfter(e, f[L].pos)
        /\ g[L].rows = RowsAfter(e, i, f[L].rows)
    BY <2>5 DEF CoreStep
  <2>7. db'.ref = g[L].ref
    BY <1>4, <2>3, <2>6 DEF Applies, Matches
  <2>8. NotBadDebt(db'.rows) = NotBadDebt(g[L].rows)
    <3>1. NotBadDebt(db.rows) = NotBadDebt(f[L].rows) /\ db'.rows = RowsAfter(e, i, db.rows)
      BY <1>4, <2>3 DEF Applies, Matches
    <3> QED
      BY <2>6, <3>1 DEF NotBadDebt, RowsAfter
  <2>9. Uncrossed' => db'.pos = g[L].pos
    BY <1>4, <2>1, <2>3, <2>6 DEF Applies, Matches
  <2> QED
    BY <2>1, <2>7, <2>8, <2>9 DEF Matches, NotBadDebt
<1> QED
  BY <1>2, <1>3, <1>4, DbMoves

-----------------------------------------------------------------------------
(* No size is negative.  A projected size that is not zero goes back to the opening and is *)
(* never below what the chain holds, whatever events were missed in between.               *)
SizesOK(s, S, pos) ==
    \A k \in Positions :
        /\ pos[k] \in Nat
        /\ pos[k] # 0 =>
               /\ \E o \in S : Opens(s[o], k)
               /\ \A n \in 0..Len(s) : (\A j \in S : j <= n) => Held(s, k)[n] <= pos[k]

LEMMA HeldStep ==
  ASSUME NEW s \in Streams, NEW k \in Positions
  PROVE  /\ Len(s) \in Nat /\ DOMAIN s = 1..Len(s)
         /\ \A n \in 0..Len(s) : Held(s, k)[n] \in Nat
         /\ \A m \in 1..Len(s) : Held(s, k)[m] = SizeAfter(s[m], k, Held(s, k)[m - 1])
<1>1. Len(s) \in Nat /\ DOMAIN s = 1..Len(s)
  BY ChainOrder
<1>2. HeldUpTo(s, k, Len(s), Held(s, k))
  BY <1>1, HeldEquation
<1>3. \A n \in 0..Len(s) : n = 0 \/ n \in 1..Len(s)
  BY <1>1
<1>4. \A n \in DOMAIN s : Held(s, k)[n] \in Nat
  BY ChainSizes
<1> QED
  BY <1>1, <1>2, <1>3, <1>4 DEF HeldUpTo

LEMMA HeldFalls ==
  ASSUME NEW s \in Streams, NEW k \in Positions, NEW o \in DOMAIN s, Opens(s[o], k),
         NEW a \in 1..Len(s), o <= a
  PROVE  \A n \in a..Len(s) : Held(s, k)[n] <= Held(s, k)[a]
<1> DEFINE P == {n \in a..Len(s) : Held(s, k)[n] <= Held(s, k)[a]}
<1>1. Len(s) \in Nat /\ DOMAIN s = 1..Len(s) /\ \A n \in 0..Len(s) : Held(s, k)[n] \in Nat
  BY HeldStep
<1>2. a \in P
  BY <1>1
<1>3. ASSUME NEW n \in a..Len(s), n + 1 <= Len(s), n \in P PROVE n + 1 \in P
  <2>1. n + 1 \in DOMAIN s /\ n + 1 \in a..Len(s) /\ (n + 1) - 1 = n /\ n + 1 # o
    BY <1>1, <1>3
  <2>2. ~Opens(s[n + 1], k)
    BY <2>1, ChainSizes
  <2>3. Held(s, k)[n + 1] <= Held(s, k)[n]
    BY <2>1, <2>2, ChainSizes
  <2>4. /\ Held(s, k)[n + 1] \in Nat /\ Held(s, k)[n] \in Nat /\ Held(s, k)[a] \in Nat
        /\ Held(s, k)[n] <= Held(s, k)[a]
    BY <1>1, <1>3
  <2> QED
    BY <2>1, <2>3, <2>4
<1> HIDE DEF P
<1>4. \A n \in a..Len(s) : n \in P
  <2>1. a \in Nat
    BY <1>1
  <2> QED
    BY <1>1, <1>2, <1>3, <2>1, UpFrom
<1> QED
  BY <1>4 DEF P

LEMMA SizesShrink ==
  ASSUME NEW s, NEW S, NEW old, NEW new, SizesOK(s, S, old), Shrunk(old, new)
  PROVE  SizesOK(s, S, new)
BY DEF SizesOK, Shrunk

LEMMA SizesApplied ==
  ASSUME NEW s \in Streams, NEW S, NEW i \in DOMAIN s, \A j \in S : j \in DOMAIN s /\ j < i,
         NEW pos, SizesOK(s, S, pos)
  PROVE  SizesOK(s, S \union {i}, SizesAfter(s[i], pos))
<1> DEFINE e == s[i]
           L == Len(s)
           new == SizesAfter(e, pos)
<1> SUFFICES ASSUME NEW k \in Positions
             PROVE  /\ new[k] \in Nat
                    /\ new[k] # 0 =>
                           /\ \E o \in S \union {i} : Opens(s[o], k)
                           /\ \A n \in 0..L : (\A j \in S \union {i} : j <= n) => Held(s, k)[n] <= new[k]
  BY DEF SizesOK
<1> DEFINE H == Held(s, k)
           size == pos[k]
<1>1. /\ L \in Nat /\ DOMAIN s = 1..L /\ i \in 1..L /\ i - 1 \in 0..L
      /\ \A n \in 0..L : H[n] \in Nat
      /\ H[i] = SizeAfter(e, k, H[i - 1])
  BY HeldStep
<1>2. /\ size \in Nat
      /\ size # 0 => /\ \E o \in S : Opens(s[o], k)
                     /\ \A n \in 0..L : (\A j \in S : j <= n) => H[n] <= size
  BY DEF SizesOK
<1>3. e.amt \in Int
  BY ChainSizes
<1> HIDE DEF H
<1>4. size # 0 => H[i - 1] <= size
  <2>1. \A j \in S : j <= i - 1
    BY <1>1
  <2> QED
    BY <1>1, <1>2, <2>1
<1>5. ASSUME NEW o \in S \union {i}, Opens(s[o], k), NEW n \in 0..L, \A j \in S \union {i} : j <= n
      PROVE  H[n] <= H[i]
  <2>1. o \in DOMAIN s /\ o <= i /\ n \in i..L
    BY <1>1, <1>5
  <2> QED
    BY <1>1, <1>5, <2>1, HeldFalls DEF H
<1>6. CASE new[k] = size
  <2>1. ASSUME NEW n \in 0..L, \A j \in S \union {i} : j <= n PROVE \A j \in S : j <= n
    BY <2>1
  <2> HIDE DEF new, L
  <2> QED
    BY <1>2, <1>6, <2>1 DEF H
<1>7. CASE new[k] = 0
  BY <1>7
<1>8. CASE Opens(e, k)
  <2>1. new[k] = e.amt /\ H[i] = e.amt
    BY <1>1, <1>8 DEF Opens, Touches, SizesAfter, MarketSize, SizeAfter
  <2>2. i \in S \union {i} /\ H[i] \in Nat /\ Opens(s[i], k)
    BY <1>1, <1>8
  <2> HIDE DEF new, L
  <2> QED
    BY <1>5, <2>1, <2>2 DEF H
<1>9. CASE Touches(e, k) /\ size # 0 /\ e.topic \in {"position_partial_liq", "position_reduced"}
  <2>1. /\ new[k] = IF e.topic = "position_partial_liq" THEN size - e.amt ELSE e.amt
        /\ H[i] = IF e.topic = "position_partial_liq" THEN H[i - 1] - e.amt ELSE e.amt
    BY <1>1, <1>9 DEF Touches, SizesAfter, MarketSize, SizeAfter
  <2>2. new[k] \in Nat /\ H[i] <= new[k]
    <3>1. H[i] \in Nat /\ H[i - 1] \in Nat /\ H[i - 1] <= size
      BY <1>1, <1>4, <1>9
    <3> QED
      BY <1>2, <1>3, <2>1, <3>1
  <2>3. PICK o \in S : Opens(s[o], k)
    BY <1>2, <1>9
  <2>4. ASSUME NEW n \in 0..L, \A j \in S \union {i} : j <= n PROVE H[n] <= new[k]
    <3>1. H[n] <= H[i] /\ H[n] \in Nat /\ H[i] \in Nat
      BY <1>1, <1>5, <2>3, <2>4
    <3> QED
      BY <2>2, <3>1
  <2> QED
    BY <2>2, <2>3, <2>4 DEF H
<1>10. \/ new[k] = size \/ new[k] = 0 \/ Opens(e, k)
       \/ Touches(e, k) /\ size # 0 /\ e.topic \in {"position_partial_liq", "position_reduced"}
  BY DEF Opens, Touches, SizesAfter, MarketSize
<1> QED
  BY <1>6, <1>7, <1>8, <1>9, <1>10 DEF H

SizeInv == SizesOK(stream, Kept, db.pos)

LEMMA SizesKept ==
  ASSUME IInv, ReplayOrder, SizeInv, [Next]_vars PROVE SizeInv'
<1>1. stream \in Streams /\ \A j \in Kept : j \in DOMAIN stream
  BY DEF IInv, ChainOK, ArchiveOK, Kept
<1>2. CASE Quiet
  <2>1. stream' = stream /\ Kept' = Kept /\ (db'.pos = db.pos \/ Shrunk(db.pos, db'.pos))
    BY <1>2 DEF Quiet
  <2>2. SizesOK(stream, Kept, db'.pos)
    BY <2>1, SizesShrink DEF SizeInv
  <2> QED
    BY <2>1, <2>2 DEF SizeInv
<1>3. CASE Clears
  <2>1. \A k \in Positions : db'.pos[k] = 0
    BY <1>3 DEF Clears
  <2> QED
    BY <2>1 DEF SizeInv, SizesOK
<1>4. ASSUME NEW i, Applies(i) PROVE SizeInv'
  <2> DEFINE new == SizesAfter(stream[i], db.pos)
  <2>1. /\ stream' = stream /\ Kept' = Kept \union {i} /\ i \in DOMAIN stream
        /\ \A j \in Kept : j < i
        /\ db'.pos = new \/ Shrunk(new, db'.pos)
    BY <1>4 DEF Applies
  <2>2. SizesOK(stream, Kept \union {i}, new)
    BY <1>1, <2>1, SizesApplied DEF SizeInv
  <2> HIDE DEF new
  <2>3. SizesOK(stream, Kept \union {i}, db'.pos)
    BY <2>1, <2>2, SizesShrink
  <2> QED
    BY <2>1, <2>3 DEF SizeInv
<1> QED
  BY <1>2, <1>3, <1>4, DbMoves

-----------------------------------------------------------------------------
(* Nothing is read beyond the head. *)
PageOK(w, h) == InBatch(w) => w.end <= h \/ w.next > w.end
HeadInv ==
    /\ oldest <= Latest
    /\ faults \in 0..MaxFaults
    /\ \A i \in archive : i <= head
    /\ \A x \in dead : x \in (1..head) \X {"decode", "apply"}
    /\ \A p \in Pollers : PageOK(pl[p], head)

LEMMA LatestType == ASSUME IInv PROVE Latest \in Nat
<1>1. Ordered(stream) /\ head \in Nat /\ head <= Len(stream)
  BY StreamOrdered DEF IInv, ChainOK
<1>2. head = 0 \/ head \in DOMAIN stream
  BY <1>1 DEF Ordered
<1> QED
  BY <1>1, <1>2 DEF Latest, Ledger, Ordered

LEMMA NextInHead ==
  ASSUME IInv, HeadInv, NEW p \in Pollers, InBatch(pl[p]), pl[p].next <= pl[p].end
  PROVE  pl[p].next \in 1..head /\ pl[p].end <= head
<1>1. BatchOK(stream, Traced, floor, oldest, pl[p]) /\ head \in Nat
  BY DEF IInv, CursorsOK, PollerOK, ChainOK
<1>2. PageOK(pl[p], head)
  BY DEF HeadInv
<1> QED
  BY <1>1, <1>2 DEF BatchOK, PageOK

\* A step of one poller that keeps the chain, and what it does to its page
LEMMA HeadStays ==
  ASSUME IInv, HeadInv, stream' = stream, head' = head, oldest' = oldest,
         \A i \in archive' : i \in archive \/ i \in 1..head,
         \A x \in dead' : x \in dead \/ x \in (1..head) \X {"decode", "apply"},
         faults' \in 0..MaxFaults, \A p \in Pollers : PageOK(pl'[p], head)
  PROVE  HeadInv'
<1>1. Latest' = Latest
  BY DEF Latest, Ledger
<1>2. \A i \in archive' : i <= head
  BY DEF HeadInv
<1>3. \A x \in dead' : x \in (1..head) \X {"decode", "apply"}
  BY DEF HeadInv
<1> QED
  BY <1>1, <1>2, <1>3 DEF HeadInv

LEMMA HeadKept ==
  ASSUME IInv, HeadInv, [Next]_vars PROVE HeadInv'
<1>1. /\ DOMAIN pl = Pollers /\ \A p \in Pollers : DOMAIN pl[p] = PollerFields
  BY DEF IInv, CursorsOK, PollerOK
<1>2. /\ head \in Nat /\ head <= Len(stream) /\ oldest \in Nat /\ Latest \in Nat /\ Ordered(stream)
  BY LatestType, StreamOrdered DEF IInv, ChainOK
<1>3. faults \in Nat /\ MaxFaults \in Nat /\ faults <= MaxFaults /\ \A p \in Pollers : PageOK(pl[p], head)
  BY PollerConstants DEF HeadInv
<1>4. ~InBatch(Idle) /\ ~InBatch(Off) /\ ~InBatch([Idle EXCEPT !.pc = "fatal"])
  BY RestingRows DEF InBatch
<1>5. CASE Publish
  <2>1. /\ stream' = stream /\ head' = head + 1 /\ oldest' = oldest /\ archive' = archive /\ dead' = dead
        /\ pl' = pl /\ faults' = faults /\ head + 1 <= Len(stream)
    BY <1>2, <1>5 DEF Publish, Ordered
  <2>2. Latest <= Latest' /\ Latest' \in Nat
    <3>1. head + 1 \in DOMAIN stream /\ (head = 0 \/ head \in DOMAIN stream)
      BY <1>2, <2>1 DEF Ordered
    <3>2. Latest' = stream[head + 1].led
      BY <1>2, <2>1 DEF Latest, Ledger
    <3>3. head = 0 \/ stream[head].led <= stream[head + 1].led
      BY <1>2, <3>1 DEF Ordered
    <3> QED
      BY <1>2, <3>1, <3>2, <3>3 DEF Latest, Ledger, Ordered
  <2>3. oldest <= Latest'
    BY <1>2, <2>2 DEF HeadInv
  <2>4. \A i \in archive : i <= head'
    <3>1. \A i \in archive : i <= head /\ i \in Nat
      BY <1>2 DEF HeadInv, IInv, ArchiveOK, Ordered
    <3> QED
      BY <1>2, <2>1, <3>1
  <2>5. \A x \in dead : x \in (1..head') \X {"decode", "apply"}
    <3>1. \A i \in 1..head : i \in 1..head'
      BY <1>2, <2>1
    <3> QED
      BY <3>1 DEF HeadInv
  <2>6. \A p \in Pollers : PageOK(pl[p], head')
    <3>1. \A p \in Pollers : InBatch(pl[p]) => pl[p].end \in Nat
      BY DEF IInv, CursorsOK, PollerOK, BatchOK
    <3> QED
      BY <1>2, <1>3, <2>1, <3>1 DEF PageOK
  <2> QED
    BY <2>1, <2>3, <2>4, <2>5, <2>6 DEF HeadInv
<1>6. CASE Retire
  <2>1. /\ stream' = stream /\ head' = head /\ oldest' = oldest + 1 /\ oldest < Latest
        /\ archive' = archive /\ dead' = dead /\ pl' = pl /\ faults' = faults + 1 /\ faults < MaxFaults
    BY <1>6 DEF Retire, Fault
  <2>2. Latest' = Latest
    BY <2>1 DEF Latest, Ledger
  <2>3. oldest' <= Latest' /\ faults' \in 0..MaxFaults
    BY <1>2, <1>3, <2>1, <2>2
  <2> QED
    BY <2>1, <2>3 DEF HeadInv
<1>7. CASE Truncate \/ Replay \/ EndReindex \/ UNCHANGED vars
  <2>1. /\ stream' = stream /\ head' = head /\ oldest' = oldest /\ archive' = archive /\ dead' = dead
        /\ pl' = pl /\ (faults' = faults \/ (faults < MaxFaults /\ faults' = faults + 1))
    BY <1>7 DEF Truncate, Replay, EndReindex, vars, Fault
  <2>2. faults' \in 0..MaxFaults
    BY <1>3, <2>1
  <2> QED
    BY <1>3, <2>1, <2>2, HeadStays
<1>8. ASSUME NEW p \in Pollers, Poll(p) \/ Boot(p) \/ Crash(p) \/ FetchFails(p) \/ HandleFails(p) \/ EnrichFails(p)
      PROVE  HeadInv'
  <2> DEFINE w == pl[p]
             i == pl[p].next
             Chain == stream' = stream /\ head' = head /\ oldest' = oldest
             Counted == faults' = faults \/ (faults < MaxFaults /\ faults' = faults + 1)
             Others == \A q \in Pollers : q # p => pl'[q] = pl[q]
  <2>1. Chain
    BY <1>8 DEF Poll, ReadCursor, FetchEvents, ClampToRetention, DecodeFails, Handle, PostCommit,
                FinishBatch, Boot, Crash, FetchFails, HandleFails, EnrichFails
  <2>2. Counted
    BY <1>8 DEF Poll, ReadCursor, FetchEvents, ClampToRetention, DecodeFails, Handle, PostCommit,
                FinishBatch, Boot, Crash, FetchFails, HandleFails, EnrichFails, Fault
  <2>3. faults' \in 0..MaxFaults
    BY <1>3, <2>2
  <2>4. Others
    BY <1>1, <1>8 DEF Poll, ReadCursor, FetchEvents, ClampToRetention, DecodeFails, Handle, PostCommit,
                FinishBatch, Boot, Crash, FetchFails, HandleFails, EnrichFails, CommitCursor, Advance
  <2>5. \A x \in dead' : x \in dead \/ x \in (1..head) \X {"decode", "apply"}
    <3>1. CASE DecodeFails(p) \/ HandleFails(p)
      <4>1. NextEvent(p) /\ \A x \in dead' : x \in dead \/ x = <<i, "decode">> \/ x = <<i, "apply">>
        BY <3>1 DEF DecodeFails, HandleFails, DeadLetter
      <4>2. i \in 1..head
        BY <4>1, NextInHead DEF NextEvent, InBatch
      <4> QED
        BY <4>1, <4>2
    <3>2. CASE ~(DecodeFails(p) \/ HandleFails(p))
      BY <1>8, <3>2 DEF Poll, ReadCursor, FetchEvents, ClampToRetention, Handle, PostCommit,
                FinishBatch, Boot, Crash, FetchFails, EnrichFails
    <3> QED
      BY <3>1, <3>2
  <2>6. \A x \in archive' : x \in archive \/ x \in 1..head
    <3>1. CASE Handle(p) \/ HandleFails(p)
      <4>1. NextEvent(p) /\ \A x \in archive' : x \in archive \/ x = i
        BY <3>1 DEF Handle, HandleFails
      <4>2. i \in 1..head
        BY <4>1, NextInHead DEF NextEvent, InBatch
      <4> QED
        BY <4>1, <4>2
    <3>2. CASE ~(Handle(p) \/ HandleFails(p))
      BY <1>8, <3>2 DEF Poll, ReadCursor, FetchEvents, ClampToRetention, DecodeFails, PostCommit,
                FinishBatch, Boot, Crash, FetchFails, EnrichFails
    <3> QED
      BY <3>1, <3>2
  <2>7. PageOK(pl'[p], head)
    <3>1. CASE Boot(p) \/ Crash(p) \/ FetchFails(p) \/ HandleFails(p) \/ ClampToRetention(p) \/ FinishBatch(p)
      <4>1. pl'[p] \in {Idle, Off, [Idle EXCEPT !.pc = "fatal"]}
        BY <1>1, <3>1 DEF Boot, Crash, FetchFails, HandleFails, ClampToRetention, FinishBatch, CommitCursor
      <4> QED
        BY <1>4, <4>1 DEF PageOK
    <3>2. CASE ReadCursor(p)
      <4> DEFINE v(start) == [Idle EXCEPT !.pc = "fetch", !.snap = cur, !.start = start]
      <4>1. \E start : pl'[p] = v(start)
        BY <1>1, <3>2 DEF ReadCursor
      <4>2. \A start : v(start).pc = "fetch"
        BY DEF Idle
      <4> HIDE DEF v
      <4> QED
        BY <4>1, <4>2 DEF PageOK, InBatch
    <3>3. CASE FetchEvents(p)
      <4> DEFINE from == After(p)
                 to == IF from + PageLimit < head THEN from + PageLimit ELSE Max2(from, head)
                 top == IF w.snap = <<>> THEN 0 ELSE w.snap[1].led
      <4>1. pl'[p] = [w EXCEPT !.pc = "apply", !.next = from + 1, !.end = to, !.top = top] /\ w.pc = "fetch"
        BY <1>1, <3>3 DEF FetchEvents
      <4>2. from \in Nat /\ PageLimit \in Nat
        BY <4>1, RequestStart, PollerConstants
      <4> HIDE DEF from
      <4>3. to <= head \/ from + 1 > to
        BY <1>2, <4>2 DEF Max2
      <4>4. pl'[p].end = to /\ pl'[p].next = from + 1
        BY <1>1, <4>1 DEF PollerFields
      <4> HIDE DEF to
      <4> QED
        BY <4>3, <4>4 DEF PageOK
    <3>4. CASE DecodeFails(p) \/ PostCommit(p) \/ EnrichFails(p) \/ (Handle(p) /\ i \in archive)
      <4>1. InBatch(w) /\ i <= w.end /\ \E counted : Advance(p, i, counted)
        BY <3>4 DEF DecodeFails, PostCommit, EnrichFails, Handle, NextEvent, InBatch, IInv, CursorsOK, PollerOK
      <4>2. w.end <= head
        BY <4>1, NextInHead
      <4>3. pl'[p].end = w.end
        BY <1>1, <4>1 DEF Advance, PollerFields
      <4> QED
        BY <4>2, <4>3 DEF PageOK
    <3>5. CASE Handle(p) /\ i \notin archive
      <4>1. InBatch(w) /\ i <= w.end /\ pl' = [pl EXCEPT ![p].pc = "post"]
        BY <3>5 DEF Handle, NextEvent, InBatch
      <4>2. w.end <= head
        BY <4>1, NextInHead
      <4>3. pl'[p].end = w.end
        BY <1>1, <4>1 DEF PollerFields
      <4> QED
        BY <4>2, <4>3 DEF PageOK
    <3> QED
      BY <1>8, <3>1, <3>2, <3>3, <3>4, <3>5 DEF Poll
  <2>8. \A q \in Pollers : PageOK(pl'[q], head)
    BY <1>3, <2>4, <2>7
  <2> QED
    BY <2>1, <2>3, <2>5, <2>6, <2>8, HeadStays
<1> QED
  BY <1>5, <1>6, <1>7, <1>8 DEF Next

LEMMA TypesFollow ==
  ASSUME IInv, BlankOK, SizeInv, HeadInv PROVE TypeOK
<1>1. stream \in Streams /\ head \in 0..Len(stream) /\ oldest \in 1..Latest
  <2>1. Len(stream) \in Nat
    BY StreamOrdered DEF IInv, Ordered
  <2> QED
    BY <2>1, LatestType DEF IInv, ChainOK, HeadInv
<1>2. cur = <<>> \/ (Len(cur) = 1 /\ cur[1].led \in Nat /\ cur[1].tok \in -1..Len(stream))
  <2> SUFFICES ASSUME cur # <<>> PROVE Len(cur) = 1 /\ cur[1].led \in Nat /\ cur[1].tok \in -1..Len(stream)
    OBVIOUS
  <2>1. cur = <<cur[1]>> /\ CursorOK(stream, Traced, floor, cur[1]) /\ Len(stream) \in Nat
    BY StreamOrdered DEF IInv, CursorsOK, Ordered
  <2>2. Len(<<cur[1]>>) = 1
    OBVIOUS
  <2> QED
    BY <2>1, <2>2 DEF CursorOK
<1>3. archive \subseteq 1..head /\ skipped \subseteq archive
  <2>1. \A i \in archive : i \in Nat /\ i >= 1 /\ i <= head
    BY StreamOrdered DEF IInv, ArchiveOK, Ordered, HeadInv
  <2> QED
    BY <2>1 DEF IInv, ArchiveOK, ChainOK
<1>4. dead \subseteq (1..head) \X {"decode", "apply"} /\ faults \in 0..MaxFaults
  BY DEF HeadInv
<1>5. \A k \in Positions : db.pos[k] \in Nat
  BY DEF SizeInv, SizesOK
<1>6. db.rows \union db.blank \subseteq archive
  BY DEF IInv, DbOK, BlankOK
<1>7. \A p \in Pollers : pl[p].pc \in {"off", "idle", "fetch", "apply", "post", "fatal"}
  BY DEF IInv, CursorsOK, PollerOK, Pcs
<1> QED
  BY <1>1, <1>2, <1>3, <1>4, <1>5, <1>6, <1>7 DEF TypeOK

LEMMA TablesFollow ==
  ASSUME IInv, MatchInv PROVE ProjectedOnce /\ NoInventedSize
<1>1. PICK f : /\ CoreRun(stream, Kept, f)
               /\ f[Len(stream)].pos = Projected.pos /\ f[Len(stream)].rows = Projected.rows
               /\ f[Len(stream)].ref = Projected.ref
  BY CoreOfProjected
<1>2. Matches(f[Len(stream)])
  BY <1>1 DEF MatchInv
<1> QED
  BY <1>1, <1>2 DEF Matches, ProjectedOnce, NoInventedSize, Uncrossed

(* The projections are the fold of the archive and nothing else: an update is applied once and *)
(* in order, no size is invented or negative, a close finds its pnl and subscribers hear of it *)
(* once (router.ts, handlers), however pollers overlap, crash and retry, and however often the *)
(* projections are rebuilt.                                                                    *)
THEOREM ProjectionIsExact == Spec => []ProjectionExact
<1> DEFINE Inv == ReplayOrder /\ MatchInv /\ SizeInv /\ HeadInv /\ BlankOK
<1>1. Init => Inv
  <2> SUFFICES ASSUME Init PROVE Inv
    OBVIOUS
  <2>1. /\ archive = {} /\ db = EmptyDb /\ rx = <<>> /\ skipped = {} /\ head = 0 /\ oldest = 1
        /\ dead = {} /\ faults = 0 /\ stream \in Streams /\ \A p \in Pollers : pl[p] = Off
    BY DEF Init
  <2>2. /\ EmptyDb.pos = [k \in Positions |-> 0] /\ EmptyDb.ref = <<>>
        /\ EmptyDb.rows = {} /\ EmptyDb.blank = {}
    BY DEF EmptyDb
  <2>3. ReplayOrder /\ BlankOK
    BY <2>1, <2>2 DEF ReplayOrder, BlankOK, PnlOfLeaderClose
  <2>4. SizeInv
    BY <2>1, <2>2 DEF SizeInv, SizesOK
  <2>5. HeadInv
    <3>1. Latest = 1 /\ MaxFaults \in Nat
      BY <2>1, PollerConstants DEF Latest, Ledger
    <3> QED
      BY <2>1, <3>1, RestingRows DEF HeadInv, PageOK, InBatch
  <2>6. MatchInv
    <3> SUFFICES ASSUME NEW f, CoreRun(stream, Kept, f) PROVE Matches(f[Len(stream)])
      BY DEF MatchInv
    <3>1. Len(stream) \in Nat /\ Kept = {}
      BY <2>1, ChainOrder DEF Kept
    <3>2. f[Len(stream)] = f[0]
      BY <3>1, CoreRests
    <3>3. f[Len(stream)] = CoreEmpty
      BY <3>2 DEF CoreRun
    <3> QED
      BY <2>1, <2>2, <3>3 DEF Matches, CoreEmpty, NotBadDebt
  <2> QED
    BY <2>3, <2>4, <2>5, <2>6
<1>2. IInv /\ Inv /\ [Next]_vars => Inv'
  BY ReplayOrdered, MatchKept, SizesKept, HeadKept, BlankKept
<1>3. IInv /\ Inv => TypeOK /\ ProjectedOnce /\ NoInventedSize
  BY TypesFollow, TablesFollow
<1>4. TypeOK /\ ProjectedOnce /\ NoInventedSize /\ PnlOfLeaderClose /\ BusAtMostOnce => ProjectionExact
  BY DEF ProjectionExact
<1> HIDE DEF Inv
<1> QED
  BY <1>1, <1>2, <1>3, <1>4, IndexerInvariant, IndexerReports, PTL DEF Spec

-----------------------------------------------------------------------------
(* The migrations.  A process that is applying them knows of committed rows only, and *)
(* everything below the migration in hand is among them.                              *)
MigInv ==
    /\ schema \subseteq MigrationIds
    /\ DOMAIN runs = MigrationIds /\ DOMAIN runner = Runners
    /\ \A m \in MigrationIds : runs[m] = IF m \in schema THEN 1 ELSE 0
    /\ \A m \in schema : \A n \in MigrationIds : n <= m => n \in schema
    /\ \A r \in Runners : /\ DOMAIN runner[r] = {"pc", "already"}
                          /\ runner[r].already \subseteq schema
                          /\ runner[r].pc = "up" => schema = MigrationIds

\* The processes afterwards: one may have moved
RunnersOK(known) ==
    \A r \in Runners : /\ DOMAIN runner'[r] = {"pc", "already"}
                       /\ runner'[r].already \subseteq known
                       /\ runner'[r].pc = "up" => known = MigrationIds

LEMMA AppliedIdsStep ==
  ASSUME MigInv, NEW r \in Runners, AppliedIds(r) PROVE MigInv'
<1> DEFINE v == [pc |-> "apply", already |-> schema]
<1>1. schema' = schema /\ runs' = runs /\ runner' = [runner EXCEPT ![r] = v]
  BY DEF AppliedIds
<1>2. DOMAIN runner = Runners
  BY DEF MigInv
<1>3. DOMAIN v = {"pc", "already"} /\ v.pc = "apply" /\ v.already = schema
  OBVIOUS
<1> HIDE DEF v
<1>4. \A q \in Runners : runner'[q] = v \/ runner'[q] = runner[q]
  BY <1>1, <1>2
<1>5. RunnersOK(schema)
  BY <1>3, <1>4 DEF MigInv, RunnersOK
<1> QED
  BY <1>1, <1>2, <1>5 DEF MigInv, RunnersOK

LEMMA FinishMigrationsStep ==
  ASSUME MigInv, NEW r \in Runners, FinishMigrations(r) PROVE MigInv'
<1> DEFINE pc == IF Pending(r) = {} THEN "up" ELSE "off"
           v == [NotRunning EXCEPT !.pc = pc]
<1>1. schema' = schema /\ runs' = runs /\ runner' = [runner EXCEPT ![r] = v]
  BY DEF FinishMigrations
<1>2. DOMAIN runner = Runners
  BY DEF MigInv
<1>3. pc = "up" => schema = MigrationIds
  BY DEF MigInv, Pending
<1> HIDE DEF pc
<1>4. DOMAIN v = {"pc", "already"} /\ v.pc = pc /\ v.already = {}
  BY DEF NotRunning
<1> HIDE DEF v
<1>5. \A q \in Runners : runner'[q] = v \/ runner'[q] = runner[q]
  BY <1>1, <1>2
<1>6. RunnersOK(schema)
  BY <1>3, <1>4, <1>5 DEF MigInv, RunnersOK
<1> QED
  BY <1>1, <1>2, <1>6 DEF MigInv, RunnersOK

LEMMA ApplyMigrationStep ==
  ASSUME MigInv, NEW r \in Runners, ApplyMigration(r) PROVE MigInv'
<1>1. PICK m \in MigrationIds :
        /\ IsLowest(m, Pending(r))
        /\ IF m \in schema
           THEN runner' = [runner EXCEPT ![r] = NotRunning] /\ schema' = schema /\ runs' = runs
           ELSE /\ schema' = schema \union {m}
                /\ runs' = [runs EXCEPT ![m] = @ + 1]
                /\ runner' = [runner EXCEPT ![r].already = @ \union {m}]
  BY DEF ApplyMigration
<1>2. DOMAIN runner = Runners /\ DOMAIN runs = MigrationIds
  BY DEF MigInv
<1>3. CASE m \in schema
  <2>1. schema' = schema /\ runs' = runs /\ \A q \in Runners : runner'[q] = NotRunning \/ runner'[q] = runner[q]
    BY <1>1, <1>2, <1>3
  <2>2. DOMAIN runner' = Runners
    BY <1>1, <1>2, <1>3
  <2>3. DOMAIN NotRunning = {"pc", "already"} /\ NotRunning.pc = "off" /\ NotRunning.already = {}
    BY DEF NotRunning
  <2>4. RunnersOK(schema)
    BY <2>1, <2>3 DEF MigInv, RunnersOK
  <2> QED
    BY <2>1, <2>2, <2>4 DEF MigInv, RunnersOK
<1>4. CASE m \notin schema
  <2> DEFINE v == [runner[r] EXCEPT !.already = @ \union {m}]
  <2>1. /\ schema' = schema \union {m} /\ runs' = [runs EXCEPT ![m] = @ + 1]
        /\ runner' = [runner EXCEPT ![r] = v]
    BY <1>1, <1>4
  <2>2. DOMAIN v = {"pc", "already"} /\ v.pc = runner[r].pc /\ v.already = runner[r].already \union {m}
    BY DEF MigInv
  <2> HIDE DEF v
  <2>3. DOMAIN runner' = Runners /\ runner'[r] = v /\ \A q \in Runners : q # r => runner'[q] = runner[q]
    BY <1>2, <2>1
  <2>4. \A q \in Runners : runner[q].pc # "up"
    BY <1>4 DEF MigInv
  <2>5. RunnersOK(schema \union {m})
    <3> SUFFICES ASSUME NEW q \in Runners
                 PROVE  /\ DOMAIN runner'[q] = {"pc", "already"}
                        /\ runner'[q].already \subseteq schema \union {m}
                        /\ runner'[q].pc # "up"
      BY DEF RunnersOK
    <3>1. /\ DOMAIN runner[q] = {"pc", "already"} /\ runner[q].already \subseteq schema
          /\ runner[r].already \subseteq schema
      BY DEF MigInv
    <3>2. CASE q = r
      BY <2>2, <2>3, <2>4, <3>1, <3>2
    <3>3. CASE q # r
      BY <2>3, <2>4, <3>1, <3>3
    <3> QED
      BY <3>2, <3>3
  <2>6. DOMAIN runs' = MigrationIds /\ \A k \in MigrationIds : runs'[k] = IF k \in schema' THEN 1 ELSE 0
    BY <1>2, <1>4, <2>1 DEF MigInv
  <2>7. \A n \in MigrationIds : n <= m => n \in schema'
    <3> SUFFICES ASSUME NEW n \in MigrationIds, n <= m, n # m PROVE n \in schema
      BY <2>1
    <3>1. n \in Int /\ m \in Int /\ ~(m <= n)
      BY MigrationNumbers
    <3>2. n \notin Pending(r)
      BY <1>1, <3>1 DEF IsLowest
    <3> QED
      BY <3>2 DEF Pending, MigInv
  <2>8. \A k \in schema' : \A n \in MigrationIds : n <= k => n \in schema'
    BY <2>1, <2>7 DEF MigInv
  <2>9. schema' \subseteq MigrationIds
    BY <2>1 DEF MigInv
  <2> QED
    BY <2>1, <2>3, <2>5, <2>6, <2>8, <2>9 DEF MigInv, RunnersOK
<1> QED
  BY <1>3, <1>4

(* Overlapping boots never commit a migration's statements twice, never leave a hole in *)
(* the order, and whoever is up runs on the complete schema (migrations.ts).            *)
THEOREM MigrationsOnceInOrder == MigrationsSpec => []MigratedOnceInOrder
<1>1. MigrationsInit => MigInv
  BY DEF MigrationsInit, MigInv, NotRunning
<1>2. MigInv /\ [MigrationsNext]_migrationVars => MigInv'
  <2> SUFFICES ASSUME MigInv, [MigrationsNext]_migrationVars PROVE MigInv'
    OBVIOUS
  <2>1. CASE UNCHANGED migrationVars
    BY <2>1 DEF MigInv, migrationVars
  <2>2. CASE MigrationsNext
    BY <2>2, AppliedIdsStep, ApplyMigrationStep, FinishMigrationsStep DEF MigrationsNext
  <2> QED
    BY <2>1, <2>2
<1>3. MigInv => MigratedOnceInOrder
  BY DEF MigInv, MigratedOnceInOrder
<1> QED
  BY <1>1, <1>2, <1>3, PTL DEF MigrationsSpec


-----------------------------------------------------------------------------
(* The candle series: a bar is persisted only when one process saw all of   *)
(* its bucket.                                                              *)

\* Division with remainder, for a positive divisor
LEMMA Remainder ==
  ASSUME NEW a \in Int, NEW s \in Nat \ {0}
  PROVE  /\ a \div s \in Int /\ a % s \in 0..(s - 1)
         /\ a = s * (a \div s) + (a % s)
  OBVIOUS

\* Two multiples closer than the divisor are one
LEMMA SameMultiple ==
  ASSUME NEW s \in Nat \ {0}, NEW q \in Int, NEW p \in Int, s * q - s * p < s
  PROVE  q <= p
<1> SUFFICES ASSUME p + 1 <= q PROVE FALSE
  OBVIOUS
<1>1. PICK n \in Nat : q = p + 1 + n
  <2>1. q - p - 1 \in Nat /\ q = p + 1 + (q - p - 1)
    OBVIOUS
  <2> QED
    BY <2>1
<1>2. s * q = s * p + s + s * n /\ s * n \in Nat
  BY <1>1
<1>3. s * q \in Int /\ s * p \in Int
  OBVIOUS
<1> QED
  BY <1>2, <1>3

\* A remainder is the only one in range
LEMMA RemainderUnique ==
  ASSUME NEW s \in Nat \ {0}, NEW q \in Int, NEW r \in 0..(s - 1)
  PROVE  (s * q + r) % s = r
<1> DEFINE a == s * q + r
<1>1. a \in Int /\ s * q \in Int
  OBVIOUS
<1>2. a \div s \in Int /\ a % s \in 0..(s - 1) /\ a = s * (a \div s) + (a % s)
  BY <1>1, Remainder
<1> DEFINE p == a \div s
           t == a % s
<1>3. p \in Int /\ t \in 0..(s - 1) /\ a = s * p + t /\ s * p \in Int
  BY <1>2
<1>4. a = s * q + r
  OBVIOUS
<1> HIDE DEF a, p, t
<1>5. s * q - s * p < s /\ s * p - s * q < s
  BY <1>1, <1>3, <1>4
<1>6. p = q
  BY <1>3, <1>5, SameMultiple
<1>7. t = r
  BY <1>1, <1>3, <1>4, <1>6
<1> QED
  BY <1>7 DEF t, a

\* bucketStart rounds down to the grid, whatever the sign of the distance to the first bucket
LEMMA BucketRoundsDown ==
  ASSUME CandlesConstants, NEW ts \in Int
  PROVE  BucketStart(ts) = ts - ((ts - Offset) % Sec)
<1> DEFINE z == ts - Offset
           m == z % Sec
           n == (-z) % Sec
<1>1. z \in Int /\ -z \in Int /\ Sec \in Nat \ {0} /\ Sec \in Nat /\ Sec >= 1
  BY DEF CandlesConstants
<1>2. m \in 0..(Sec - 1) /\ n \in 0..(Sec - 1) /\ z \div Sec \in Int /\ z = Sec * (z \div Sec) + m
  BY <1>1, Remainder
<1>3. CASE z >= 0
  <2>1. Rem(z, Sec) = m
    BY <1>3 DEF Rem
  <2>2. m + Sec >= 0 /\ m + Sec = Sec * 1 + m
    BY <1>1, <1>2
  <2> HIDE DEF m, z
  <2>3. (Sec * 1 + m) % Sec = m
    BY <1>1, <1>2, RemainderUnique
  <2>4. Rem(m + Sec, Sec) = m
    BY <2>2, <2>3 DEF Rem
  <2>5. Rem(Rem(z, Sec) + Sec, Sec) = m
    BY <2>1, <2>4
  <2> QED
    BY <2>5 DEF BucketStart, m, z
<1>4. CASE z < 0
  <2>1. Rem(z, Sec) = -n
    BY <1>1, <1>4 DEF Rem
  <2>2. (-z) \div Sec \in Int /\ -z = Sec * ((-z) \div Sec) + n
    BY <1>1, Remainder
  <2> DEFINE p == (-z) \div Sec
             k == Sec * p
  <2>3. p \in Int /\ k \in Int /\ -z = k + n
    BY <1>1, <2>2
  <2>4. CASE n = 0
    <3>1. z = Sec * (-p) + 0
      BY <1>1, <2>3, <2>4
    <3>2. m = 0
      <4> HIDE DEF p, z, k
      <4>1. (Sec * (-p) + 0) % Sec = 0
        BY <1>1, <2>3, RemainderUnique
      <4> QED
        BY <3>1, <4>1
    <3>3. Rem(-n + Sec, Sec) = 0
      <4>1. Sec = Sec * 1 + 0 /\ (Sec * 1 + 0) % Sec = 0
        BY <1>1, RemainderUnique
      <4> QED
        BY <1>1, <2>4, <4>1 DEF Rem
    <3> QED
      BY <2>1, <3>2, <3>3 DEF BucketStart
  <2>5. CASE n # 0
    <3>1. Sec - n \in 0..(Sec - 1)
      BY <1>1, <1>2, <2>5
    <3>2. z = Sec * (-p - 1) + (Sec - n)
      <4>1. Sec * (-p - 1) = -k - Sec
        BY <1>1, <2>3
      <4> QED
        BY <1>1, <1>2, <2>3, <4>1
    <3>3. m = Sec - n
      <4> HIDE DEF p, z, k, n
      <4>1. (Sec * (-p - 1) + (Sec - n)) % Sec = Sec - n
        BY <1>1, <2>3, <3>1, RemainderUnique
      <4> QED
        BY <3>2, <4>1
    <3>4. Rem(-n + Sec, Sec) = Sec - n
      <4> HIDE DEF n
      <4>1. Sec - n = Sec * 0 + (Sec - n) /\ (Sec * 0 + (Sec - n)) % Sec = Sec - n
        BY <1>1, <3>1, RemainderUnique
      <4>2. (Sec - n) % Sec = Sec - n /\ -n + Sec = Sec - n /\ -n + Sec >= 0
        BY <1>1, <1>2, <4>1
      <4> QED
        BY <4>2 DEF Rem
    <3> QED
      BY <2>1, <3>3, <3>4 DEF BucketStart
  <2> QED
    BY <2>4, <2>5
<1> QED
  BY <1>1, <1>3, <1>4

LEMMA BucketOfInstant ==
  ASSUME CandlesConstants, NEW ts \in Int
  PROVE  /\ BucketStart(ts) \in Int /\ BucketStart(ts) <= ts /\ ts < BucketStart(ts) + Sec
         /\ (BucketStart(ts) - Offset) % Sec = 0
         /\ \E q \in Int : BucketStart(ts) = Sec * q + Offset
<1> DEFINE z == ts - Offset
           q == z \div Sec
           m == z % Sec
<1>1. z \in Int /\ Sec \in Nat \ {0} /\ Sec \in Nat /\ Offset \in Int
  BY DEF CandlesConstants
<1>2. q \in Int /\ m \in 0..(Sec - 1) /\ z = Sec * q + m
  BY <1>1, Remainder
<1>3. BucketStart(ts) = ts - m
  BY BucketRoundsDown
<1>4. ts = z + Offset
  BY <1>1
<1> HIDE DEF z, q, m
<1>5. Sec * q \in Int /\ BucketStart(ts) = Sec * q + Offset
  BY <1>1, <1>2, <1>3, <1>4
<1>6. (Sec * q + 0) % Sec = 0
  BY <1>1, <1>2, RemainderUnique
<1>7. BucketStart(ts) - Offset = Sec * q + 0
  BY <1>1, <1>5
<1>8. (BucketStart(ts) - Offset) % Sec = 0
  BY <1>6, <1>7
<1> QED
  BY <1>1, <1>2, <1>3, <1>5, <1>8

\* Time does not go back to an earlier bucket
LEMMA BucketsInOrder ==
  ASSUME CandlesConstants, NEW s \in Int, NEW t \in Int, s <= t
  PROVE  BucketStart(s) <= BucketStart(t)
<1>1. PICK p \in Int : BucketStart(s) = Sec * p + Offset
  BY BucketOfInstant
<1>2. PICK q \in Int : BucketStart(t) = Sec * q + Offset
  BY BucketOfInstant
<1>3. Sec \in Nat \ {0} /\ Sec \in Nat /\ Offset \in Int /\ Sec * p \in Int /\ Sec * q \in Int
  BY DEF CandlesConstants
<1>4. BucketStart(s) <= s /\ t < BucketStart(t) + Sec
  BY BucketOfInstant
<1>5. Sec * p - Sec * q < Sec
  BY <1>1, <1>2, <1>3, <1>4
<1>6. p <= q
  BY <1>3, <1>5, SameMultiple
<1>7. PICK n \in Nat : q = p + n
  <2>1. q - p \in Nat /\ q = p + (q - p)
    BY <1>6
  <2> QED
    BY <2>1
<1>8. Sec * q = Sec * p + Sec * n /\ Sec * n \in Nat
  BY <1>3, <1>7
<1> QED
  BY <1>1, <1>2, <1>3, <1>8

\* What a bar says of the observations of a bucket
Tells(bar, seq) ==
    /\ bar.o = seq[1] /\ bar.c = seq[Len(seq)]
    /\ \E i \in DOMAIN seq : bar.h = seq[i]
    /\ \E i \in DOMAIN seq : bar.l = seq[i]
    /\ \A i \in DOMAIN seq : bar.l <= seq[i] /\ seq[i] <= bar.h

NativeRow == [src : {"native"}, o : Nat, h : Nat, l : Nat, c : Nat]
Bucket == [bucket : Int, o : Nat, h : Nat, l : Nat, c : Nat, owned : BOOLEAN]
Now == BucketStart(tick.ts)

SeriesTyped ==
    /\ tick \in [ts : Int, price : Nat]
    /\ bucket = <<>> \/ (bucket \in Seq(Bucket) /\ Len(bucket) = 1)
    /\ \A b \in DOMAIN obs : b \in Int /\ obs[b] \in Seq(Nat) /\ Len(obs[b]) > 0

\* Nothing was seen of a later bucket than the one in memory, and that one is not later than now
SeenInOrder ==
    /\ \A b \in DOMAIN obs : b <= Now
    /\ bucket # <<>> => bucket[1].bucket <= Now /\ \A b \in DOMAIN obs : b <= bucket[1].bucket

\* A bucket this process owns tells all that was seen of it
OwnedWhole ==
    bucket # <<>> /\ bucket[1].owned =>
        bucket[1].bucket \in DOMAIN obs /\ Tells(bucket[1], obs[bucket[1].bucket])

\* A native row tells all that was seen, and its bucket is over
RowsWhole ==
    \A b \in DOMAIN candles : candles[b].src = "native" =>
        b \in DOMAIN obs /\ b < Now /\ candles[b] \in NativeRow /\ Tells(candles[b], obs[b])

SeriesInv == SeriesTyped /\ SeenInOrder /\ OwnedWhole /\ RowsWhole

LEMMA SeriesStarts == ASSUME CandlesConstants, CandlesInit PROVE SeriesInv
<1>1. tick \in [ts : Int, price : Nat]
  <2>1. PICK q \in [ts : {1}, price : Prices] : tick = q
    BY DEF CandlesInit
  <2>2. q.ts = 1 /\ q.price \in Nat /\ q = [ts |-> q.ts, price |-> q.price]
    BY DEF CandlesConstants
  <2> QED
    BY <2>1, <2>2
<1> QED
  BY <1>1 DEF CandlesInit, SeriesInv, SeriesTyped, SeenInOrder, OwnedWhole, RowsWhole

LEMMA ClockMovesSeries ==
  ASSUME CandlesConstants, SeriesInv, OracleTick
  PROVE  SeriesInv'
<1> USE DEF SeriesInv
<1>1. tick' \in [ts : Int, price : Nat] /\ tick.ts \in Int /\ tick'.ts \in Int /\ tick.ts <= tick'.ts
      /\ UNCHANGED <<bucket, candles, seeded, obs, stops>>
  BY DEF OracleTick, SeriesTyped, CandlesConstants
<1>2. Now \in Int /\ Now' \in Int /\ Now <= Now'
  BY <1>1, BucketsInOrder, BucketOfInstant DEF Now
<1>3. SeriesTyped'
  BY <1>1 DEF SeriesTyped
<1>4. SeenInOrder'
  <2>1. bucket # <<>> => bucket[1].bucket \in Int
    <3>1. bucket # <<>> => bucket[1] \in Bucket
      BY DEF SeriesTyped
    <3> QED
      BY <3>1 DEF Bucket
  <2>2. \A k \in DOMAIN obs : k \in Int
    BY DEF SeriesTyped
  <2> QED
    BY <1>1, <1>2, <2>1, <2>2 DEF SeenInOrder
<1>5. OwnedWhole'
  BY <1>1 DEF OwnedWhole
<1>6. RowsWhole'
  BY <1>1, <1>2 DEF RowsWhole, SeriesTyped
<1> QED
  BY <1>3, <1>4, <1>5, <1>6

LEMMA SeedKeepsSeries ==
  ASSUME SeriesInv, SeedFromBinance
  PROVE  SeriesInv'
<1> USE DEF SeriesInv
<1>1. UNCHANGED <<tick, bucket, obs, stops>>
  BY DEF SeedFromBinance
<1>2. SeriesTyped' /\ SeenInOrder' /\ OwnedWhole'
  BY <1>1 DEF SeriesTyped, SeenInOrder, OwnedWhole, Now
<1>3. RowsWhole'
  <2>1. CASE UNCHANGED candles
    BY <1>1, <2>1 DEF RowsWhole, Now
  <2>2. CASE \A b \in DOMAIN candles' : candles'[b].src = "seed"
    BY <2>2 DEF RowsWhole
  <2>3. UNCHANGED candles \/ \A b \in DOMAIN candles' : candles'[b].src = "seed"
    <3> SUFFICES ASSUME NEW q \in Prices,
                        candles' = [b \in {BucketStart(tick.ts) - Sec, BucketStart(tick.ts)} |->
                                       [src |-> "seed", o |-> q, h |-> q, l |-> q, c |-> q]]
                 PROVE  \A b \in DOMAIN candles' : candles'[b].src = "seed"
      BY DEF SeedFromBinance
    <3> DEFINE bar == [src |-> "seed", o |-> q, h |-> q, l |-> q, c |-> q]
    <3>1. bar.src = "seed"
      OBVIOUS
    <3>2. \A b \in DOMAIN candles' : candles'[b] = bar
      OBVIOUS
    <3> HIDE DEF bar
    <3> QED
      BY <3>1, <3>2
  <2> QED
    BY <2>1, <2>2, <2>3
<1> QED
  BY <1>2, <1>3

LEMMA RestartKeepsSeries ==
  ASSUME SeriesInv, RestartAggregator
  PROVE  SeriesInv'
<1>1. bucket' = <<>> /\ UNCHANGED <<tick, candles, obs>>
  BY DEF RestartAggregator
<1> QED
  BY <1>1 DEF SeriesInv, SeriesTyped, SeenInOrder, OwnedWhole, RowsWhole, Now

\* One more observation widens a bar that told all the earlier ones
LEMMA TellsOneMore ==
  ASSUME NEW bar, NEW seq \in Seq(Nat), Len(seq) > 0, Tells(bar, seq), NEW p \in Nat, NEW wider,
         bar.h \in Nat, bar.l \in Nat, wider.o = bar.o, wider.c = p,
         wider.h = HighOf(p, bar.h), wider.l = LowOf(p, bar.l)
  PROVE  Tells(wider, Append(seq, p))
<1> DEFINE n == Len(seq)
           more == Append(seq, p)
<1>1. n \in Nat /\ n > 0 /\ DOMAIN seq = 1..n
  OBVIOUS
<1>2. Len(more) = n + 1 /\ DOMAIN more = 1..(n + 1) /\ more[n + 1] = p /\ \A i \in 1..n : more[i] = seq[i]
  OBVIOUS
<1> HIDE DEF more, n
<1>3. \A i \in 1..n : seq[i] \in Nat
  BY <1>1
<1>4. wider.o = more[1] /\ wider.c = more[Len(more)]
  BY <1>1, <1>2 DEF Tells
<1>5. \E i \in DOMAIN more : wider.h = more[i]
  <2>1. PICK i \in 1..n : bar.h = seq[i]
    BY <1>1 DEF Tells
  <2>2. i \in DOMAIN more /\ n + 1 \in DOMAIN more /\ more[i] = bar.h /\ more[n + 1] = p
    BY <1>1, <1>2, <2>1
  <2> QED
    BY <2>2 DEF HighOf
<1>6. \E i \in DOMAIN more : wider.l = more[i]
  <2>1. PICK i \in 1..n : bar.l = seq[i]
    BY <1>1 DEF Tells
  <2>2. i \in DOMAIN more /\ n + 1 \in DOMAIN more /\ more[i] = bar.l /\ more[n + 1] = p
    BY <1>1, <1>2, <2>1
  <2> QED
    BY <2>2 DEF LowOf
<1>7. \A i \in DOMAIN more : wider.l <= more[i] /\ more[i] <= wider.h
  <2> SUFFICES ASSUME NEW i \in 1..(n + 1) PROVE wider.l <= more[i] /\ more[i] <= wider.h
    BY <1>2
  <2>1. CASE i = n + 1
    BY <1>2, <2>1 DEF HighOf, LowOf
  <2>2. CASE i \in 1..n
    <3>1. bar.l <= seq[i] /\ seq[i] <= bar.h /\ seq[i] \in Nat /\ more[i] = seq[i]
      BY <1>1, <1>2, <1>3, <2>2 DEF Tells
    <3> QED
      BY <3>1 DEF HighOf, LowOf
  <2> QED
    BY <1>1, <2>1, <2>2
<1>8. Tells(wider, more)
  BY <1>4, <1>5, <1>6, <1>7 DEF Tells
<1> QED
  BY <1>8 DEF more

LEMMA PollKeepsSeries ==
  ASSUME CandlesConstants, SeriesInv, PollLatest
  PROVE  SeriesInv'
<1> USE DEF SeriesInv
<1> DEFINE b == Now
           p == tick.price
<1>1. /\ tick.ts \in Int /\ p \in Nat /\ b \in Int /\ tick' = tick /\ Now' = b
  BY BucketOfInstant DEF SeriesTyped, Now, PollLatest
<1>2. /\ bucket' = StepBucket(bucket, b, p)
      /\ DOMAIN obs' = DOMAIN obs \union {b}
      /\ \A k \in DOMAIN obs \ {b} : obs'[k] = obs[k]
      /\ obs'[b] = IF b \in DOMAIN obs THEN Append(obs[b], p) ELSE <<p>>
      /\ \/ Closes(bucket, b) /\ candles' = Write(bucket[1].bucket, Row(bucket[1]))
         \/ UNCHANGED candles
  BY DEF PollLatest, Now
<1> HIDE DEF b, p
<1>3. \A k \in DOMAIN obs' : k \in Int /\ obs'[k] \in Seq(Nat) /\ Len(obs'[k]) > 0 /\ k <= b
  <2>1. \A k \in DOMAIN obs : k <= b
    BY DEF SeenInOrder, b
  <2>2. obs'[b] \in Seq(Nat) /\ Len(obs'[b]) > 0
    <3>1. CASE b \in DOMAIN obs
      <4>1. obs[b] \in Seq(Nat) /\ Append(obs[b], p) \in Seq(Nat) /\ Len(Append(obs[b], p)) = Len(obs[b]) + 1
        BY <1>1, <3>1 DEF SeriesTyped
      <4> QED
        BY <1>2, <3>1, <4>1
    <3>2. CASE b \notin DOMAIN obs
      BY <1>1, <1>2, <3>2
    <3> QED
      BY <3>1, <3>2
  <2>3. \A k \in DOMAIN obs \ {b} : k \in Int /\ obs'[k] \in Seq(Nat) /\ Len(obs'[k]) > 0 /\ k <= b
    <3> SUFFICES ASSUME NEW k \in DOMAIN obs \ {b}
                 PROVE  k \in Int /\ obs'[k] \in Seq(Nat) /\ Len(obs'[k]) > 0 /\ k <= b
      OBVIOUS
    <3>1. obs'[k] = obs[k] /\ k <= b
      BY <1>2, <2>1
    <3>2. k \in Int /\ obs[k] \in Seq(Nat) /\ Len(obs[k]) > 0
      BY DEF SeriesTyped
    <3> QED
      BY <3>1, <3>2
  <2>4. b \in Int /\ b <= b
    BY <1>1
  <2>5. \A k \in DOMAIN obs' : k = b \/ k \in DOMAIN obs \ {b}
    BY <1>2
  <2> QED
    BY <2>2, <2>3, <2>4, <2>5
<1>4. bucket = <<>> \/ (bucket # <<>> /\ bucket[1] \in Bucket /\ Len(bucket) = 1 /\ bucket[1].bucket <= b)
  BY DEF SeriesTyped, SeenInOrder, b
<1>5. PICK new \in Bucket : /\ bucket' = <<new>> /\ new.bucket = b
                            /\ new.owned => \/ bucket # <<>> /\ bucket[1].bucket < b /\ new.o = p /\ new.h = p /\ new.l = p /\ new.c = p
                                            \/ /\ bucket # <<>> /\ bucket[1].bucket = b /\ bucket[1].owned
                                               /\ new.o = bucket[1].o /\ new.c = p
                                               /\ new.h = HighOf(p, bucket[1].h) /\ new.l = LowOf(p, bucket[1].l)
  <2>1. CASE bucket = <<>>
    <3>1. bucket' = <<FreshBucket(b, p, FALSE)>>
      BY <1>2, <2>1 DEF StepBucket
    <3>2. FreshBucket(b, p, FALSE) \in Bucket /\ FreshBucket(b, p, FALSE).bucket = b /\ ~FreshBucket(b, p, FALSE).owned
      BY <1>1 DEF FreshBucket, Bucket
    <3> QED
      BY <3>1, <3>2
  <2>2. CASE bucket # <<>> /\ bucket[1].bucket < b
    <3> DEFINE new == FreshBucket(b, p, TRUE)
    <3>1. bucket' = <<new>>
      BY <1>1, <1>2, <1>4, <2>2 DEF StepBucket, Bucket
    <3>2. new \in Bucket /\ new.bucket = b /\ new.o = p /\ new.h = p /\ new.l = p /\ new.c = p
      BY <1>1 DEF FreshBucket, Bucket
    <3> HIDE DEF new
    <3> QED
      BY <2>2, <3>1, <3>2
  <2>3. CASE bucket # <<>> /\ bucket[1].bucket = b
    <3> DEFINE old == bucket[1]
               high == HighOf(p, old.h)
               low == LowOf(p, old.l)
               new == [old EXCEPT !.h = high, !.l = low, !.c = p]
    <3>1. bucket' = <<new>>
      BY <1>1, <1>2, <1>4, <2>3 DEF StepBucket
    <3>2. old \in Bucket /\ high \in Nat /\ low \in Nat
      BY <1>1, <1>4, <2>3 DEF Bucket, HighOf, LowOf
    <3> HIDE DEF old, high, low
    <3>3. new \in Bucket /\ new.bucket = old.bucket /\ new.o = old.o /\ new.h = high /\ new.l = low /\ new.c = p
          /\ new.owned = old.owned
      BY <1>1, <3>2 DEF Bucket
    <3> HIDE DEF new
    <3> QED
      BY <2>3, <3>1, <3>3 DEF old, high, low
  <2> QED
    BY <1>1, <1>4, <2>1, <2>2, <2>3 DEF Bucket
<1>6. SeriesTyped'
  <2>1. <<new>> \in Seq(Bucket) /\ Len(<<new>>) = 1
    OBVIOUS
  <2> QED
    BY <1>1, <1>3, <1>5, <2>1 DEF SeriesTyped
<1>7. bucket' # <<>> /\ bucket'[1] = new
  BY <1>5
<1>8. SeenInOrder'
  BY <1>1, <1>3, <1>5, <1>7 DEF SeenInOrder
<1>9. OwnedWhole'
  <2> SUFFICES ASSUME new.owned PROVE Tells(new, obs'[b])
    BY <1>2, <1>5, <1>7 DEF OwnedWhole
  <2>1. CASE bucket # <<>> /\ bucket[1].bucket < b /\ new.o = p /\ new.h = p /\ new.l = p /\ new.c = p
    <3>1. b \notin DOMAIN obs
      BY <1>1, <1>4, <2>1 DEF SeenInOrder, Bucket
    <3>2. obs'[b] = <<p>>
      BY <1>2, <3>1
    <3>3. Len(<<p>>) = 1 /\ DOMAIN <<p>> = {1} /\ <<p>>[1] = p
      OBVIOUS
    <3> QED
      BY <1>1, <2>1, <3>2, <3>3 DEF Tells
  <2>2. CASE /\ bucket # <<>> /\ bucket[1].bucket = b /\ bucket[1].owned
             /\ new.o = bucket[1].o /\ new.c = p
             /\ new.h = HighOf(p, bucket[1].h) /\ new.l = LowOf(p, bucket[1].l)
    <3>1. b \in DOMAIN obs /\ Tells(bucket[1], obs[b])
      BY <2>2 DEF OwnedWhole
    <3>2. obs[b] \in Seq(Nat) /\ Len(obs[b]) > 0 /\ bucket[1].h \in Nat /\ bucket[1].l \in Nat
      BY <1>4, <2>2, <3>1 DEF SeriesTyped, Bucket
    <3>3. Tells(new, Append(obs[b], p))
      BY <1>1, <2>2, <3>1, <3>2, TellsOneMore
    <3> QED
      BY <1>2, <3>1, <3>3
  <2> QED
    BY <1>5, <2>1, <2>2
<1>10. \A k \in DOMAIN candles : candles[k].src = "native" => k \in DOMAIN obs' /\ k < b /\ candles[k] \in NativeRow /\ Tells(candles[k], obs'[k])
  <2> SUFFICES ASSUME NEW k \in DOMAIN candles, candles[k].src = "native"
               PROVE  k \in DOMAIN obs' /\ k < b /\ candles[k] \in NativeRow /\ Tells(candles[k], obs'[k])
    OBVIOUS
  <2>1. k \in DOMAIN obs /\ k < b /\ candles[k] \in NativeRow /\ Tells(candles[k], obs[k]) /\ k \in Int
    BY DEF RowsWhole, SeriesTyped, b
  <2>2. k # b
    BY <1>1, <2>1
  <2> QED
    BY <1>2, <2>1, <2>2
<1>11. RowsWhole'
  <2>1. CASE UNCHANGED candles
    BY <1>1, <1>10, <2>1 DEF RowsWhole
  <2>2. CASE Closes(bucket, b) /\ candles' = Write(bucket[1].bucket, Row(bucket[1]))
    <3> DEFINE old == bucket[1]
               was == bucket[1].bucket
               row == Row(old)
    <3>1. bucket # <<>> /\ was < b /\ old.owned /\ old \in Bucket /\ was \in Int
      BY <1>1, <1>4, <2>2 DEF Closes, Bucket
    <3>2. was \in DOMAIN obs /\ Tells(old, obs[was])
      BY <3>1 DEF OwnedWhole
    <3>3. was # b /\ was \in DOMAIN obs' /\ obs'[was] = obs[was]
      BY <1>1, <1>2, <3>1, <3>2
    <3>4. /\ row \in NativeRow /\ row.o = old.o /\ row.h = old.h /\ row.l = old.l /\ row.c = old.c
      BY <3>1 DEF Row, NativeRow, Bucket
    <3>5. Tells(row, obs'[was])
      BY <3>2, <3>3, <3>4 DEF Tells
    <3>6. DOMAIN candles' = DOMAIN candles \union {was} /\ candles'[was] = row
          /\ \A k \in DOMAIN candles : k # was => candles'[k] = candles[k]
      BY <2>2 DEF Write
    <3> HIDE DEF was, row
    <3> QED
      BY <1>1, <1>10, <3>1, <3>3, <3>4, <3>5, <3>6 DEF RowsWhole
  <2> QED
    BY <1>2, <2>1, <2>2
<1> QED
  BY <1>6, <1>8, <1>9, <1>11

\* A set has one largest and one smallest member
LEMMA ExtremesOf ==
  ASSUME NEW S \in SUBSET Nat, NEW h \in S, NEW l \in S, \A y \in S : l <= y /\ y <= h
  PROVE  SetMax(S) = h /\ SetMin(S) = l
<1>1. \A x \in S : (\A y \in S : x >= y) => x = h
  OBVIOUS
<1>2. \A x \in S : (\A y \in S : x <= y) => x = l
  OBVIOUS
<1>3. SetMax(S) = h
  BY <1>1 DEF SetMax
<1>4. SetMin(S) = l
  BY <1>2 DEF SetMin
<1> QED
  BY <1>3, <1>4

LEMMA SeriesInvIsEnough == ASSUME CandlesConstants, SeriesInv PROVE BarsWhole
<1> USE DEF SeriesInv
<1>1. BucketContainsTick
  BY BucketOfInstant DEF BucketContainsTick, SeriesTyped
<1>2. NativeBarsWhole
  <2> SUFFICES ASSUME NEW b \in DOMAIN candles, candles[b].src = "native"
               PROVE  candles[b] = [src |-> "native", o |-> obs[b][1], c |-> obs[b][Len(obs[b])],
                                    h |-> SetMax(Seen(b)), l |-> SetMin(Seen(b))]
    BY DEF NativeBarsWhole
  <2> DEFINE seq == obs[b]
             row == candles[b]
  <2>1. row \in NativeRow /\ Tells(row, seq) /\ seq \in Seq(Nat)
    BY DEF RowsWhole, SeriesTyped
  <2>2. Seen(b) = {seq[i] : i \in DOMAIN seq}
    BY DEF Seen
  <2> HIDE DEF seq, row
  <2>3. Seen(b) \in SUBSET Nat /\ row.h \in Seen(b) /\ row.l \in Seen(b) /\ \A y \in Seen(b) : row.l <= y /\ y <= row.h
    BY <2>1, <2>2 DEF Tells
  <2>4. SetMax(Seen(b)) = row.h /\ SetMin(Seen(b)) = row.l
    BY <2>3, ExtremesOf
  <2>5. row.src = "native" /\ row.o = seq[1] /\ row.c = seq[Len(seq)]
    BY <2>1 DEF Tells, NativeRow
  <2>6. row = [src |-> "native", o |-> row.o, c |-> row.c, h |-> row.h, l |-> row.l]
    BY <2>1 DEF NativeRow
  <2> QED
    BY <2>4, <2>5, <2>6 DEF seq, row
<1> QED
  BY <1>1, <1>2 DEF BarsWhole

\* A chart bar is true to the trades of its interval, through restarts, failed writes and seeds
THEOREM CandlesWhole == CandlesInit /\ [][CandlesNext]_candleVars => []BarsWhole
<1>1. SeriesInv /\ [CandlesNext]_candleVars => SeriesInv'
  <2> SUFFICES ASSUME SeriesInv, [CandlesNext]_candleVars PROVE SeriesInv'
    OBVIOUS
  <2>1. CASE UNCHANGED candleVars
    BY <2>1 DEF candleVars, SeriesInv, SeriesTyped, SeenInOrder, OwnedWhole, RowsWhole, Now
  <2> QED
    BY <2>1, CandlesConstants, ClockMovesSeries, SeedKeepsSeries, PollKeepsSeries, RestartKeepsSeries DEF CandlesNext
<1>2. CandlesInit => SeriesInv
  BY CandlesConstants, SeriesStarts
<1>3. SeriesInv => BarsWhole
  BY CandlesConstants, SeriesInvIsEnough
<1> QED
  BY <1>1, <1>2, <1>3, PTL
=============================================================================
