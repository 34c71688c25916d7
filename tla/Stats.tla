------------------------------- MODULE Stats -------------------------------
(***************************************************************************)
(* The gateway's reads over the indexed event log (api/src/services/        *)
(* stats.ts, events.ts): leaderboard rows and their paging, headline        *)
(* totals, volume, trade feed, order feed.  The payloads of closes name a   *)
(* position only by an id that every market deployment counts from 1, so    *)
(* each read joins closes back to opens.  The log grows here by events the  *)
(* market emits; what a read should say is kept beside it, event by event.  *)
(***************************************************************************)
EXTENDS Integers, Sequences, FiniteSets, SequencesExt, FiniteSetsExt, Functions

CONSTANTS Deployments, CurrentMarket,   \* market contracts in the database; the one configured
          BoardTraders, TradeSizes,
          MaxLog, MaxLedger

ASSUME StatsConstants == CurrentMarket \in Deployments /\ TradeSizes \subseteq Nat \ {0} /\ MaxLog \in Nat

VARIABLES log,        \* events_raw, in (ledger, event_id) order
          chain,      \* live positions and orders of every deployment
          lastId,     \* ids issued, per deployment
          tally       \* per trader of CurrentMarket, what was realised event by event

statsVars == <<log, chain, lastId, tally>>

NoSize == 0                             \* payload_json ->> 'size' is null
Event(topic, m, t, id, size, pnl, led) ==
    [topic |-> topic, market |-> m, trader |-> t, id |-> id, size |-> size, pnl |-> pnl, ledger |-> led]
Zero == [pnl |-> 0, volume |-> 0, trades |-> 0, liqs |-> 0, recorded |-> 0, forced |-> 0]

StatsInit ==
    /\ log = <<>> /\ chain = {} /\ lastId = [m \in Deployments |-> 0]
    /\ tally = [t \in BoardTraders |-> Zero]

Tip == IF log = <<>> THEN 1 ELSE Last(log).ledger
Ledgers == {Tip, Tip + 1} \cap 1..MaxLedger
Record(e) == Len(log) < MaxLog /\ log' = Append(log, e)
\* `recorded` is what the market adds to its own 14-day record of the trader, `forced` the logged
\* openings of positions that were liquidated whole
Credit(m, t, d) ==
    tally' = IF m # CurrentMarket THEN tally
             ELSE [tally EXCEPT ![t] = [k \in DOMAIN Zero |-> tally[t][k] + d[k]]]
Held(kind) == {p \in chain : p.kind = kind}
New(kind, m, t, size, seen) == [kind |-> kind, market |-> m, id |-> lastId[m] + 1, trader |-> t, size |-> size, opened |-> size,
                               seen |-> seen, reduced |-> FALSE]

\* A position opens; one opened before the index began left no row
Opened ==
    \E m \in Deployments, t \in BoardTraders, s \in TradeSizes, l \in Ledgers, seen \in BOOLEAN :
        /\ seen \/ (log = <<>> /\ chain = {})
        /\ chain' = chain \cup {New("position", m, t, s, seen)} /\ lastId' = [lastId EXCEPT ![m] = @ + 1]
        /\ lastId[m] < 2
        /\ IF seen THEN Record(Event("opened", m, t, lastId[m] + 1, s, 0, l)) /\ Credit(m, t, [Zero EXCEPT !.volume = s, !.trades = 1, !.recorded = s])
           ELSE UNCHANGED <<log, tally>>

\* A close; a payload written before the contract carried sizes has none
Closed ==
    \E p \in Held("position"), l \in Ledgers, carried \in BOOLEAN :
        /\ carried \/ ~p.reduced
        /\ chain' = chain \ {p}
        /\ Record(Event("closed", p.market, p.trader, p.id, IF carried THEN p.size ELSE NoSize, 1, l))
        /\ Credit(p.market, p.trader, [Zero EXCEPT !.pnl = 1, !.volume = IF carried \/ p.seen THEN p.size ELSE 0,
                                                  !.recorded = p.size])
        /\ UNCHANGED lastId

\* A close in part is an event of another topic, which no read below asks for
Reduced ==
    \E p \in Held("position"), l \in Ledgers, s \in TradeSizes :
        /\ s < p.size
        /\ chain' = (chain \ {p}) \cup {[p EXCEPT !.size = @ - s, !.reduced = TRUE]}
        /\ Record(Event("reduced", p.market, p.trader, p.id, s, 1, l))
        /\ Credit(p.market, p.trader, [Zero EXCEPT !.recorded = s])
        /\ UNCHANGED lastId

Liquidated ==
    \E p \in Held("position"), l \in Ledgers, topic \in {"liquidated", "partial", "cross_liq"} :
        /\ chain' = IF topic = "partial" THEN chain ELSE chain \ {p}
        /\ Record(Event(topic, p.market, p.trader, IF topic = "cross_liq" THEN 0 ELSE p.id, NoSize, 0, l))
        /\ Credit(p.market, p.trader, [Zero EXCEPT !.liqs = 1, !.forced = IF topic = "liquidated" /\ p.seen THEN p.opened ELSE 0])
        /\ UNCHANGED lastId

Deleveraged ==
    \E p \in Held("position"), l \in Ledgers :
        /\ chain' = chain \ {p} /\ Record(Event("adl", p.market, p.trader, p.id, p.size, 1, l))
        /\ UNCHANGED <<lastId, tally>>

Placed ==
    \E m \in Deployments, t \in BoardTraders, l \in Ledgers :
        /\ lastId[m] < 2
        /\ chain' = chain \cup {New("order", m, t, 1, TRUE)} /\ lastId' = [lastId EXCEPT ![m] = @ + 1]
        /\ Record(Event("placed", m, t, lastId[m] + 1, NoSize, 0, l))
        /\ UNCHANGED tally

Ended ==
    \E o \in Held("order"), l \in Ledgers, topic \in {"executed", "cancelled"} :
        /\ chain' = chain \ {o} /\ Record(Event(topic, o.market, o.trader, o.id, NoSize, 0, l))
        /\ UNCHANGED <<lastId, tally>>

StatsNext == Opened \/ Closed \/ Reduced \/ Liquidated \/ Deleveraged \/ Placed \/ Ended
StatsSpec == StatsInit /\ [][StatsNext]_statsVars

----------------------------------------------------------------------------
(* The reads *)
Rows(topics, n) == {i \in 1..n : log[i].topic \in topics}
InMarkets(S, ms) == {i \in S : log[i].market \in ms}
Total(S, f(_)) == MapThenSumSet(f, S)

\* The open a realised leg belongs to
SameId(i, j) == log[j].id = log[i].id
Correlated(i, j) == log[j].market = log[i].market /\ log[j].id = log[i].id
OpensById(i, n) == {j \in Rows({"opened"}, n) : SameId(i, j)}
OpensOf(i, n) == {j \in Rows({"opened"}, n) : Correlated(i, j)}

\* The volume of a close: the joined rows each count the close's own size, or else the open's
OwnSize(i) == IF log[i].size # NoSize THEN log[i].size ELSE 0
CloseVolume(i, n) ==
    LET opens == OpensOf(i, n) IN
    IF opens = {} THEN OwnSize(i)
    ELSE Total(opens, LAMBDA j : IF log[i].size # NoSize THEN log[i].size ELSE log[j].size)

\* One row of the ranking statement, over the first n rows of the log
Entry(t, ms, n) ==
    LET of(topics) == {i \in InMarkets(Rows(topics, n), ms) : log[i].trader = t} IN
    [trader |-> t,
     pnl |-> Total(of({"closed"}), LAMBDA i : log[i].pnl),
     volume |-> Total(of({"opened"}), LAMBDA i : log[i].size) + Total(of({"closed"}), LAMBDA i : CloseVolume(i, n)),
     trades |-> Cardinality(of({"opened"})),
     liqs |-> Cardinality(of({"liquidated", "partial", "cross_liq"}))]
BoardTopics == {"opened", "closed", "liquidated", "partial", "cross_liq"}
Board(ms, n) == {Entry(t, ms, n) : t \in {log[i].trader : i \in InMarkets(Rows(BoardTopics, n), ms)}}

\* Headline totals: aggregates of their own, not sums of the board
LeaderboardTotals(ms, n) ==
    [traders |-> Cardinality({log[i].trader : i \in InMarkets(Rows(BoardTopics, n), ms)}),
     volume |-> Total(InMarkets(Rows({"opened"}, n), ms), LAMBDA i : log[i].size)
                + Total(InMarkets(Rows({"closed"}, n), ms), LAMBDA i : CloseVolume(i, n)),
     trades |-> Cardinality(InMarkets(Rows({"opened"}, n), ms))]

\* Volume since a ledger: opens by their own size, realised legs by the size of the open they join to
Joined(S) == Total(S, LAMBDA i : Total(OpensOf(i, Len(log)), LAMBDA j : log[j].size))
Since(topics, l) == {i \in InMarkets(Rows(topics, Len(log)), {CurrentMarket}) : log[i].ledger >= l}
TraderVolume(t, l) ==
    LET of(topics) == {i \in Since(topics, l) : log[i].trader = t} IN
    Total(of({"opened"}), LAMBDA i : log[i].size) + Joined(of({"closed"}))
MarketVolume(l) ==
    Total(Since({"opened"}, l), LAMBDA i : log[i].size) + Joined(Since({"closed", "liquidated"}, l))

\* recentTrades: one row per joined pair, one for a realised leg without an open
FeedTopics == {"closed", "liquidated", "adl"}
Feed(before) ==
    LET old == {i \in InMarkets(DOMAIN log, {CurrentMarket}) : log[i].ledger < before} IN
    {p \in (old \cap Rows(FeedTopics, Len(log))) \X (0..Len(log)) :
        IF OpensOf(p[1], Len(log)) = {} THEN p[2] = 0 ELSE p[2] \in OpensOf(p[1], Len(log))}
    \cup {<<i, 0>> : i \in old \cap Rows({"cross_liq", "opened"}, Len(log))}

\* listOrders: placed, and no terminal event
Terminal(i, topic) == \E j \in Rows({topic}, Len(log)) : Correlated(i, j)
OpenOrders ==
    {log[i].id : i \in {k \in InMarkets(Rows({"placed"}, Len(log)), {CurrentMarket}) :
                           ~Terminal(k, "executed") /\ ~Terminal(k, "cancelled")}}

\* A reader that pages the newest rows first, `limit` at a time, passing the oldest row's close time back
PageOf(S, limit) == {i \in S : Cardinality({k \in S : k > i}) < limit}
PagedRows(limit) ==
    LET older(b) == {i \in DOMAIN log : log[i].ledger < b}
        seen[b \in 0..(MaxLedger + 1)] ==
            LET page == PageOf(older(b), limit) IN
            IF page = {} THEN {} ELSE page \cup seen[log[Min(page)].ledger]
    IN seen[MaxLedger + 1]

----------------------------------------------------------------------------
StatsTypeOK ==
    /\ Len(log) <= MaxLog /\ \A i \in DOMAIN log : log[i].ledger \in 1..MaxLedger
    /\ \A p \in chain : p.size > 0 /\ p.id <= lastId[p.market]
    /\ \A i, j \in DOMAIN log : i <= j => log[i].ledger <= log[j].ledger

\* Whatever several deployments logged under the same position ids, a trader's leaderboard row says what was
\* realised on the configured market, event by event; a trader without a row realised nothing there
BoardExact ==
    LET board == Board({CurrentMarket}, Len(log)) IN
    \A t \in BoardTraders :
        LET mine == {r \in board : r.trader = t} IN
        IF mine = {} THEN tally[t].trades = 0 /\ tally[t].liqs = 0 /\ tally[t].volume = 0
        ELSE \A r \in mine : /\ r.pnl = tally[t].pnl /\ r.volume = tally[t].volume
                             /\ r.trades = tally[t].trades /\ r.liqs = tally[t].liqs

\* The headline totals, which are aggregated apart, always agree with the rows of the board
TotalsAgree ==
    LET board == Board({CurrentMarket}, Len(log))
        totals == LeaderboardTotals({CurrentMarket}, Len(log)) IN
    /\ totals.traders = Cardinality(board)
    /\ totals.volume = Total(board, LAMBDA r : r.volume)
    /\ totals.trades = Total(board, LAMBDA r : r.trades)

\* The volume a trader's fee tier is shown by is the one the market charges by, for a trader whose closed
\* positions were opened in the index and changed in no other way; the market's daily volume is that of its
\* traders and what was liquidated
Plain(t) ==
    \A i \in InMarkets(DOMAIN log, {CurrentMarket}) : log[i].trader = t =>
        log[i].topic \notin {"reduced", "partial"} /\ (log[i].topic = "closed" => OpensOf(i, Len(log)) # {})
VolumeAgrees ==
    /\ \A t \in BoardTraders : Plain(t) => TraderVolume(t, 1) = tally[t].recorded
    /\ MarketVolume(1) = Total(BoardTraders, LAMBDA t : TraderVolume(t, 1) + tally[t].forced)

\* The open-order feed is the market's set of live orders: no phantom of a retired deployment, no order hidden by
\* one that ended elsewhere under the same id
OpenOrdersLive == OpenOrders = {o.id : o \in {x \in Held("order") : x.market = CurrentMarket}}

\* Each realised leg shows once in the trade feed
FeedOnce == \A p, q \in Feed(MaxLedger + 1) : p[1] = q[1] => p = q

\* Paging by close time loses a row only to another one of the same ledger that ended a page
PagingLosesTies ==
    \A i \in DOMAIN log \ PagedRows(2) : \E k \in PagedRows(2) : log[k].ledger = log[i].ledger /\ k > i

\* Every public read agrees with what the configured market did (services/stats.ts, events.ts)
StatsHonest ==
    StatsTypeOK /\ BoardExact /\ TotalsAgree /\ VolumeAgrees /\ OpenOrdersLive /\ FeedOnce /\ PagingLosesTies

----------------------------------------------------------------------------
(***************************************************************************)
(* Paging the leaderboard (stats.ts, cache.ts and the page component        *)
(* web/components/leaderboard/LeaderboardContent.tsx).  A page is a slice   *)
(* of a snapshot of the ranked board.  A snapshot is computed by a request  *)
(* that finds the cache cold: it reads the indexer's cursor, awaits the     *)
(* ranking query, and keeps the result under an id made of the cursor and   *)
(* the number of rows; several requests may be computing at once.  Ranked   *)
(* rows are abstracted to how many log rows they were computed over, and a  *)
(* log row either adds a trader to the board or not.                        *)
(***************************************************************************)
CONSTANTS Visitors,         \* browsers walking the board
          HistoryDepth,     \* SNAPSHOT_HISTORY_DEPTH
          MaxBoardRows, MaxPages

ASSUME BoardConstants == {HistoryDepth, MaxBoardRows, MaxPages} \subseteq Nat \ {0}

VARIABLES ranked,       \* events_raw as the board sees it: after each row, traders on the board
          covered,      \* poll_cursor: rows when it was last advanced, and how often it was
          cache,        \* snapCache entry, or None
          history,      \* snapHistory, newest first
          request,      \* per visitor: the page request it awaits
          view          \* per visitor: pages it holds since its ranks last were said to have moved

boardVars == <<ranked, covered, cache, history, request, view>>

None == <<>>
RankOnly == <<"rank">>       \* a request for one trader's rank: no page to keep
NoRequest == [step |-> "idle"]
Id(snap) == <<snap.cursor, snap.total>>
TotalOf(n) == IF n = 0 THEN 0 ELSE ranked[n]

BoardInit ==
    /\ ranked = <<>> /\ covered = [rows |-> 0, ledger |-> 0] /\ cache = None /\ history = <<>>
    /\ request = [v \in Visitors |-> NoRequest] /\ view = [v \in Visitors |-> <<>>]

\* The indexer writes rows one by one and its cursor when a page of them is through
WriteRow ==
    /\ Len(ranked) < MaxBoardRows
    /\ \E joins \in {0, 1} : ranked' = Append(ranked, TotalOf(Len(ranked)) + joins)
    /\ UNCHANGED <<covered, cache, history, request, view>>
AdvanceCursor ==
    /\ covered.rows < Len(ranked)
    /\ covered' = [rows |-> Len(ranked), ledger |-> covered.ledger + 1]
    /\ UNCHANGED <<ranked, cache, history, request, view>>

ExpireCache == cache # None /\ cache' = None /\ UNCHANGED <<ranked, covered, history, request, view>>

----------------------------------------------------------------------------
(* One page request of a visitor; `pin` is the snapshot id it holds, None without one *)
\* snapshotFor, once currentSnapshot has answered
Served(cur, pin, held) ==
    IF pin = None \/ pin = Id(cur) THEN [snap |-> cur, changed |-> FALSE]
    ELSE IF \E k \in DOMAIN held : Id(held[k]) = pin
         THEN [snap |-> held[SelectInSeq(held, LAMBDA h : Id(h) = pin)], changed |-> FALSE]
         ELSE [snap |-> cur, changed |-> TRUE]

\* What the page component keeps; a refresh carries no pin and starts over, a flagged page too
Take(v, answer, pin) ==
    view' = [view EXCEPT ![v] = IF pin = RankOnly THEN @ ELSE IF pin = None \/ answer.changed THEN <<answer.snap>> ELSE Append(@, answer.snap)]

AskPage(v) ==
    /\ request[v].step = "idle" /\ Len(view[v]) < MaxPages
    /\ \E pin \in {None} \cup {Id(view[v][k]) : k \in DOMAIN view[v] \cap {Len(view[v])}} :
        IF cache # None
        THEN Take(v, Served(cache, pin, history), pin) /\ UNCHANGED request
        ELSE request' = [request EXCEPT ![v] = [step |-> "cursor", pin |-> pin]] /\ UNCHANGED view
    /\ UNCHANGED <<ranked, covered, cache, history>>

\* leaderboardRank: reads the current snapshot, and computes it like a page does when the cache is cold
AskRank(v) ==
    /\ request[v].step = "idle" /\ cache = None
    /\ request' = [request EXCEPT ![v] = [step |-> "cursor", pin |-> RankOnly]]
    /\ UNCHANGED <<ranked, covered, cache, history, view>>

\* computeSnapshot: the cursor first
ReadCursor(v) ==
    /\ request[v].step = "cursor"
    /\ request' = [request EXCEPT ![v] = [step |-> "query", pin |-> @.pin, at |-> covered]]
    /\ UNCHANGED <<ranked, covered, cache, history, view>>

CursorRead(v) == request[v].at
RunQuery(v) ==
    /\ request[v].step = "query"
    /\ request' = [request EXCEPT ![v] = [step |-> "done", pin |-> @.pin, at |-> @.at, n |-> Len(ranked)]]
    /\ UNCHANGED <<ranked, covered, cache, history, view>>

\* The snapshot is put on the history ring, then in the cache, and the page is served
Pushed(snap) ==
    IF history # <<>> /\ Id(history[1]) = Id(snap) THEN [history EXCEPT ![1] = snap]
    ELSE LET longer == <<snap>> \o history IN SubSeq(longer, 1, IF Len(longer) < HistoryDepth THEN Len(longer) ELSE HistoryDepth)
FinishLoad(v) ==
    LET snap == [cursor |-> CursorRead(v).ledger, least |-> CursorRead(v).rows, n |-> request[v].n, total |-> TotalOf(request[v].n)] IN
    /\ request[v].step = "done"
    /\ history' = Pushed(snap) /\ cache' = snap
    /\ Take(v, Served(snap, request[v].pin, history'), request[v].pin)
    /\ request' = [request EXCEPT ![v] = NoRequest]
    /\ UNCHANGED <<ranked, covered>>

\* A query fails: the request does, and the page keeps what it had
LoadFails(v) ==
    /\ request[v].step \in {"cursor", "query"}
    /\ request' = [request EXCEPT ![v] = NoRequest]
    /\ UNCHANGED <<ranked, covered, cache, history, view>>

BoardNext ==
    \/ WriteRow \/ AdvanceCursor \/ ExpireCache
    \/ \E v \in Visitors : AskPage(v) \/ AskRank(v) \/ ReadCursor(v) \/ RunQuery(v) \/ FinishLoad(v) \/ LoadFails(v)

BoardSpec == BoardInit /\ [][BoardNext]_boardVars

----------------------------------------------------------------------------
BoardTypeOK ==
    /\ covered.rows \in 0..Len(ranked) /\ Len(history) <= HistoryDepth
    /\ \A v \in Visitors : Len(view[v]) <= MaxPages /\ request[v].step \in {"idle", "cursor", "query", "done"}

\* A snapshot is never staler than the cursor it is labelled with: "updated" times shown for a board never
\* stand for rows the board lacks, whatever requests computed at the same time
NotOlderThanLabel == \A k \in DOMAIN history : history[k].n >= history[k].least

\* Pages of one unflagged walk come from snapshots of one id, and differ at most by rows the indexer wrote
\* above the cursor of that id: from boards computed with the cursor caught up they are slices of one board
DriftOnlyAboveCursor ==
    \A v \in Visitors : \A j, k \in DOMAIN view[v] :
        /\ Id(view[v][j]) = Id(view[v][k])
        /\ view[v][j].n = view[v][j].least /\ view[v][k].n = view[v][k].least => view[v][j] = view[v][k]

\* A walk over the board's pages is told when the board under it was replaced (stats.ts leaderboardPage)
BoardHonest == BoardTypeOK /\ NotOlderThanLabel /\ DriftOnlyAboveCursor
=============================================================================
