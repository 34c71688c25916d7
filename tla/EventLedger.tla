---------------------------- MODULE EventLedger ----------------------------
(***************************************************************************)
(* What the indexer promises of a projection fed by relative updates: each *)
(* event of the stream is recorded at most once and in chain order, and    *)
(* the balance counts exactly the recorded events that are not missing.    *)
(* An event may be set aside (recorded, not counted); a rebuild starts     *)
(* from nothing and restores the recorded events in order.                 *)
(***************************************************************************)
EXTENDS Integers, Sequences

VARIABLES stream, log, missing, book

Counts(e) == e.con = "referral" /\ ~e.garbled
Credit(b, e) ==
    CASE Counts(e) /\ e.topic = "code_created" -> IF b = <<>> THEN <<0>> ELSE b
      [] Counts(e) /\ e.topic = "trade_recorded" /\ b # <<>> -> <<b[1] + e.amt>>
      [] Counts(e) /\ e.topic = "claimed" /\ b # <<>> -> <<0>>
      [] OTHER -> b

Fresh(i) == i \in DOMAIN stream /\ \A j \in log : j < i

Record(i) ==
    /\ Fresh(i)
    /\ log' = log \union {i}
    /\ book' = Credit(book, stream[i])
    /\ UNCHANGED <<stream, missing>>

SetAside(i) ==
    /\ Fresh(i)
    /\ log' = log \union {i}
    /\ missing' = missing \union {i}
    /\ UNCHANGED <<stream, book>>

Reset ==
    /\ missing' = log
    /\ book' = <<>>
    /\ UNCHANGED <<stream, log>>

Restore(i) ==
    /\ i \in missing
    /\ \A j \in missing : i <= j
    /\ missing' = missing \ {i}
    /\ book' = Credit(book, stream[i])
    /\ UNCHANGED <<stream, log>>

LedgerInit == log = {} /\ missing = {} /\ book = <<>>
LedgerNext == Reset \/ \E i \in DOMAIN stream : Record(i) \/ SetAside(i) \/ Restore(i)

LedgerSpec == LedgerInit /\ [][LedgerNext]_<<stream, log, missing, book>>
=============================================================================
