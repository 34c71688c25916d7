------------------------------ MODULE LiveTail ------------------------------
(***************************************************************************)
(* How indexed events reach the WebSocket channels: the indexer stamps a    *)
(* row and commits it in a transaction of its own, the tailer               *)
(* (api/src/services/liveTailer.ts) polls for rows above its cursor on a    *)
(* timer that does not wait for the previous poll, and the bus fans out.    *)
(***************************************************************************)
EXTENDS Naturals, Sequences, FiniteSets, SequencesExt, FiniteSetsExt

CONSTANTS MaxRows, MaxNow,      \* rows the indexer writes, ticks of the clock
          PageLimit,                \* rows per query
          Polls                 \* polls that may overlap

ASSUME LiveTailConstants == {MaxRows, MaxNow, PageLimit} \subseteq Nat \ {0}

VARIABLES now, committed,     \* committed rows in commit order: the stamp of each, inserted_at
          writing,       \* stamp of the transaction under way, 0 if none
          cursor,        \* cursorInsertedAt
          poll,          \* rows each poll has in hand, by index
          emitted,          \* times each row was broadcast
          up, since      \* the gateway runs; when it last started

tailVars == <<now, committed, writing, cursor, poll, emitted, up, since>>

NoPoll == [on |-> FALSE, got |-> <<>>]

TailInit ==
    /\ now = 1 /\ committed = <<>> /\ writing = 0 /\ cursor = 0 /\ up = FALSE /\ since = 0
    /\ poll = [p \in Polls |-> NoPoll] /\ emitted = [i \in 1..MaxRows |-> 0]

Clock == now < MaxNow /\ now' = now + 1 /\ UNCHANGED <<committed, writing, cursor, poll, emitted, up, since>>

\* insertEvent, and the commit of the event's transaction; one writer, one event at a time
InsertEvent ==
    /\ writing = 0 /\ Len(committed) < MaxRows /\ writing' = now
    /\ UNCHANGED <<now, committed, cursor, poll, emitted, up, since>>
CommitEvent ==
    /\ writing # 0 /\ committed' = Append(committed, writing) /\ writing' = 0
    /\ UNCHANGED <<now, cursor, poll, emitted, up, since>>
RollbackEvent == writing # 0 /\ writing' = 0 /\ UNCHANGED <<now, committed, cursor, poll, emitted, up, since>>

\* The gateway starts with its cursor at the present, so what is stamped by now is history to it
StartTailer ==
    /\ ~up /\ up' = TRUE /\ cursor' = now /\ since' = now
    /\ UNCHANGED <<now, committed, writing, poll, emitted>>
StopTailer ==
    /\ up /\ up' = FALSE /\ poll' = [p \in Polls |-> NoPoll]
    /\ UNCHANGED <<now, committed, writing, cursor, emitted, since>>

\* The query: rows above the cursor in the order of their stamps, at most Limit
Newer == {i \in DOMAIN committed : committed[i] > cursor}
InOrder(s) == \A k \in 1..(Len(s) - 1) : committed[s[k]] <= committed[s[k + 1]]
Page == {SubSeq(s, 1, Min({PageLimit, Len(s)})) : s \in {t \in SetToSeqs(Newer) : InOrder(t)}}

Poll(p) ==
    /\ up /\ ~poll[p].on /\ \E page \in Page : poll' = [poll EXCEPT ![p] = [on |-> TRUE, got |-> page]]
    /\ UNCHANGED <<now, committed, writing, cursor, emitted, up, since>>

PollFails(p) == up /\ poll[p].on /\ poll' = [poll EXCEPT ![p] = NoPoll] /\ UNCHANGED <<now, committed, writing, cursor, emitted, up, since>>

\* The rows are broadcast in one go, each raising the cursor
Cursor(got) == Max({cursor} \cup {committed[got[k]] : k \in DOMAIN got})
Emit(p) ==
    LET got == poll[p].got IN
    /\ poll[p].on /\ poll' = [poll EXCEPT ![p] = NoPoll]
    /\ cursor' = Cursor(got)
    /\ emitted' = [i \in 1..MaxRows |-> emitted[i] + Cardinality({k \in DOMAIN got : got[k] = i})]
    /\ UNCHANGED <<now, committed, writing, up, since>>

TailNext ==
    \/ Clock \/ InsertEvent \/ CommitEvent \/ RollbackEvent \/ StartTailer \/ StopTailer
    \/ \E p \in Polls : Poll(p) \/ PollFails(p) \/ Emit(p)

TailSpec == TailInit /\ [][TailNext]_tailVars

----------------------------------------------------------------------------
TailTypeOK ==
    /\ cursor \in 0..now /\ since <= now /\ writing <= now
    /\ \A p \in Polls : Len(poll[p].got) <= PageLimit

\* While it runs, the tailer passes over a committed row only when the row's stamp, to the millisecond,
\* is one it had already reached: polls that fail, overlap or stop at the limit lose nothing else
LostOnlyInTies ==
    \A i \in DOMAIN committed :
        since < committed[i] /\ committed[i] <= cursor /\ emitted[i] = 0 => \E j \in DOMAIN committed : committed[j] = committed[i] /\ emitted[j] > 0

\* The tail of the event table reaches the bus within its bounds (services/liveTailer.ts)
TailSafe == TailTypeOK /\ LostOnlyInTies
=============================================================================
