------------------------------- MODULE DbPool -------------------------------
(***************************************************************************)
(* The database layer of the indexer and the gateway (packages/db): batches *)
(* and interactive transactions on clients of a bounded pool, which errors  *)
(* cost a client its place in the pool, and the rewriting of placeholders.  *)
(* PostgreSQL and the pool of node-postgres are modelled from how the       *)
(* layer uses them: a connection may die at any time, and the answer to a   *)
(* COMMIT may be lost.                                                      *)
(***************************************************************************)
EXTENDS Naturals, Sequences, FiniteSets, SequencesExt

CONSTANTS Calls,            \* callers: a batch or a transaction each
          Clients,          \* connections ever opened
          PoolMax,          \* PgDbOptions.max
          Statements,       \* statements of a call
          MaxErrors,
          MaxTokens,        \* length of a statement, in tokens
          DbScenes          \* "pool", "rewrite"

ASSUME DbConstants ==
    /\ {PoolMax, Statements, MaxErrors, MaxTokens} \subseteq Nat
    /\ "none" \notin Calls \cup Clients       \* a client without a caller, a caller without a client

VARIABLES dbScene, client, call, table, lost, errors, tokens

dbVars == <<dbScene, client, call, table, lost, errors, tokens>>

NoClient == "none"
NoCall == "none"
NewClient == [state |-> "new", holder |-> NoCall, tx |-> "none", link |-> "up", poisoned |-> FALSE]
NewCall == [pc |-> "acquire", on |-> NoClient, done |-> 0, told |-> "pending"]

\* A bare jsonb operator and the two-character ones look like placeholders to the scanner
Tokens == {"?", "json?", "json?|", "$n", "text"}

DbInit ==
    /\ dbScene \in DbScenes
    /\ client = [c \in Clients |-> NewClient] /\ call = [t \in Calls |-> NewCall]
    /\ table = {} /\ lost = {} /\ errors = 0
    /\ tokens \in IF dbScene = "rewrite" THEN SeqOf(Tokens, MaxTokens) ELSE {<<>>}

----------------------------------------------------------------------------
(***************************************************************************)
(* The pool.                                                               *)
(***************************************************************************)
RowsOf(t) == {t} \X (1..Statements)
At(t, pc) == dbScene = "pool" /\ call[t].pc = pc
Pooled == {c \in Clients : client[c].state \in {"idle", "held"}}
Available == {c \in Clients : client[c].state = "idle" \/ (client[c].state = "new" /\ Cardinality(Pooled) < PoolMax)}
Err == errors < MaxErrors /\ errors' = errors + 1

\* driver.acquire: an idle client, or a new one while there is room; the wait is bounded
Acquire(t) ==
    /\ At(t, "acquire")
    /\ \E c \in Available :
           /\ client' = [client EXCEPT ![c].state = "held", ![c].holder = t]
           /\ call' = [call EXCEPT ![t].pc = "begin", ![t].on = c]
    /\ UNCHANGED <<dbScene, table, lost, errors, tokens>>

AcquireTimesOut(t) ==
    /\ At(t, "acquire") /\ Available = {}
    /\ call' = [call EXCEPT ![t].pc = "end", ![t].told = "error"]
    /\ UNCHANGED <<dbScene, client, table, lost, errors, tokens>>

\* client.release(poisoned): a poisoned or closed client is destroyed, the others go back
Released(c) ==
    [client EXCEPT ![c] = IF client[c].poisoned \/ client[c].link = "closed" THEN [NewClient EXCEPT !.state = "gone"]
                          ELSE [@ EXCEPT !.state = "idle", !.holder = NoCall]]

\* Whether an error has no SQLSTATE, or one that says the server hung up
IsConnectionLevel(kind) == kind \in {"garbled", "closed"}

\* What a failed query leaves behind: the server refused a statement, the answer never came and the protocol
\* is in an unknown state, or the connection is closed and its transaction rolled back
Failed(c, kind) ==
    [client EXCEPT ![c].poisoned = @ \/ IsConnectionLevel(kind),
                   ![c].tx = IF kind = "closed" THEN "none" ELSE IF kind = "sql" /\ @ = "open" THEN "aborted" ELSE @,
                   ![c].link = IF kind = "sql" THEN @ ELSE kind]

Up(c) == client[c].link = "up"
\* A client that is down fails whatever it is asked
Fault(c) == IF Up(c) THEN Err ELSE UNCHANGED errors
DbFailures(c) == IF Up(c) THEN {"sql", "garbled", "closed"} ELSE {client[c].link}

NoTransaction(c) == client
DbOpened(c) == [client EXCEPT ![c].tx = "open"]

BeginFailed(t) == call' = [call EXCEPT ![t].pc = "release", ![t].told = "error"]

Begin(t) ==
    LET c == call[t].on IN
    /\ At(t, "begin")
    /\ \/ /\ Up(c) /\ client' = DbOpened(c) /\ UNCHANGED errors
          /\ call' = [call EXCEPT ![t].pc = "run"]
       \/ \E kind \in DbFailures(c) : Fault(c) /\ client' = Failed(c, kind) /\ BeginFailed(t)
    /\ UNCHANGED <<dbScene, table, lost, tokens>>

\* A statement outside a transaction is visible at once
RunOn(t) ==
    LET c == call[t].on
        row == <<t, call[t].done + 1>>
    IN
    /\ At(t, "run") /\ call[t].done < Statements
    /\ \/ /\ Up(c) /\ call' = [call EXCEPT ![t].done = @ + 1] /\ UNCHANGED <<client, errors>>
          /\ table' = IF client[c].tx = "none" THEN table \cup {row} ELSE table
       \/ \E kind \in DbFailures(c) :
              /\ Fault(c) /\ client' = Failed(c, kind) /\ call' = [call EXCEPT ![t].pc = "rollback", ![t].told = "error"]
              /\ UNCHANGED table
    /\ UNCHANGED <<dbScene, lost, tokens>>

\* COMMIT is answered, refused, or applied with its answer lost
Commit(t) ==
    LET c == call[t].on IN
    /\ At(t, "run") /\ call[t].done = Statements
    /\ \/ /\ Up(c) /\ client' = [client EXCEPT ![c].tx = "none"] /\ table' = table \cup RowsOf(t)
          /\ call' = [call EXCEPT ![t].pc = "release", ![t].told = "ok"] /\ UNCHANGED <<lost, errors>>
       \/ /\ Up(c) /\ Err /\ client' = Failed(c, "closed") /\ table' = table \cup RowsOf(t)
          /\ lost' = lost \cup {t} /\ call' = [call EXCEPT ![t].pc = "rollback", ![t].told = "error"]
       \/ \E kind \in DbFailures(c) :
              /\ Fault(c) /\ client' = Failed(c, kind) /\ call' = [call EXCEPT ![t].pc = "rollback", ![t].told = "error"]
              /\ UNCHANGED <<table, lost>>
    /\ UNCHANGED <<dbScene, tokens>>

\* Also when it fails: releasing is what matters
Rollback(t) ==
    LET c == call[t].on IN
    /\ At(t, "rollback") /\ call' = [call EXCEPT ![t].pc = "release"]
    /\ \/ Up(c) /\ client' = [client EXCEPT ![c].tx = "none"] /\ UNCHANGED errors
       \/ Up(c) /\ Err /\ client' \in {Failed(c, kind) : kind \in {"garbled", "closed"}}
       \/ ~Up(c) /\ client' = Failed(c, client[c].link) /\ UNCHANGED errors
    /\ UNCHANGED <<dbScene, table, lost, tokens>>

Release(t) ==
    /\ At(t, "release") /\ client' = Released(call[t].on)
    /\ call' = [call EXCEPT ![t].pc = "end", ![t].on = NoClient]
    /\ UNCHANGED <<dbScene, table, lost, errors, tokens>>

\* The pooler recycles a connection: the pool discards an idle client, a held one fails its next query
ConnectionDies(c) ==
    /\ dbScene = "pool" /\ client[c].state \in {"idle", "held"} /\ Up(c) /\ Err
    /\ client' = [client EXCEPT ![c] = IF @.state = "idle" THEN [NewClient EXCEPT !.state = "gone"]
                                       ELSE [@ EXCEPT !.link = "closed", !.tx = "none"]]
    /\ UNCHANGED <<dbScene, call, table, lost, tokens>>

DbNext ==
    \/ \E t \in Calls : Acquire(t) \/ AcquireTimesOut(t) \/ Begin(t) \/ RunOn(t) \/ Commit(t) \/ Rollback(t) \/ Release(t)
    \/ \E c \in Clients : ConnectionDies(c)

DbSpec == DbInit /\ [][DbNext]_dbVars

----------------------------------------------------------------------------
(***************************************************************************)
(* Placeholders.                                                           *)
(***************************************************************************)
Holders(s) == {i \in DOMAIN s : s[i] \in {"?", "json?"}}
Has(s, token) == \E i \in DOMAIN s : s[i] = token
Refused(s) == Has(s, "json?|") \/ (Has(s, "$n") /\ Holders(s) # {})

\* rewriteWithCount: the number a placeholder is given
Numbered(s, i) == Cardinality({j \in Holders(s) : j <= i})

\* toStatement: one argument per placeholder
Accepted(s, args) == ~Refused(s) /\ args = Cardinality(Holders(s))

\* What the caller means by s: the arguments it passes and the number each placeholder stands for
Meant(s) == {i \in DOMAIN s : s[i] = "?"}
MeantNumber(s, i) == Cardinality({j \in Meant(s) : j <= i})

----------------------------------------------------------------------------
\* The shape of the state; a client is held by the one call that works on it, and the pool keeps its bound
DbTypeOK ==
    /\ \A c \in Clients : client[c].state = "held" <=> client[c].holder # NoCall
    /\ \A t \in Calls : call[t].on # NoClient => client[call[t].on].holder = t
    /\ Cardinality(Pooled) <= PoolMax /\ errors \in 0..MaxErrors

\* No call ends with a client of the pool still in its hands, however it failed
NoClientLeaked == \A c \in Clients : client[c].holder # NoCall => call[client[c].holder].pc # "end"

\* A client that goes back to the pool is usable: connected, with no transaction left open or aborted
PooledIsClean == \A c \in Clients : client[c].state = "idle" => Up(c) /\ client[c].tx = "none"

\* All rows of a call or none; all of them once it was told so, none when it was told of an error,
\* unless it was the answer to the COMMIT that got lost
AllOrNothing ==
    \A t \in Calls : /\ table \cap RowsOf(t) \in {{}, RowsOf(t)}
                     /\ call[t].told = "ok" => RowsOf(t) \subseteq table
                     /\ call[t].told = "error" /\ t \notin lost => RowsOf(t) \cap table = {}

\* A statement that runs binds every argument to the placeholder the caller meant it for: operators that look
\* like placeholders and mixed numbering never get through
BoundAsMeant ==
    Accepted(tokens, Cardinality(Meant(tokens))) =>
        \A i \in Holders(tokens) : i \in Meant(tokens) /\ Numbered(tokens, i) = MeantNumber(tokens, i)

\* The database layer keeps its clients, its transactions and its arguments apart (packages/db)
StoreSafe == DbTypeOK /\ NoClientLeaked /\ PooledIsClean /\ AllOrNothing /\ BoundAsMeant
=============================================================================
