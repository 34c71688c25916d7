----------------------------- MODULE Migrations -----------------------------
(***************************************************************************)
(* The schema migration runner (indexer/src/migrations.ts): numbered files *)
(* applied in order, each with its schema_versions row in one transaction. *)
(* Several processes may boot at once against one database.                *)
(***************************************************************************)
EXTENDS Integers, FiniteSets

CONSTANTS Runners, MigrationIds, MaxBoots

\* A migration's id is the zero-padded number its file name starts with: names sort as ids do
ASSUME MigrationNumbers == MigrationIds \subseteq Nat

VARIABLES schema,    \* schema_versions
          runs,      \* history: committed executions of each migration's statements
          runner,    \* per process: off, or the ids read as applied and its progress
          boots

migrationVars == <<schema, runs, runner, boots>>

NotRunning == [pc |-> "off", already |-> {}]

MigrationsInit ==
    /\ schema = {}
    /\ runs = [m \in MigrationIds |-> 0]
    /\ runner = [r \in Runners |-> NotRunning]
    /\ boots = 0

\* runMigrations: ensure the table, read the applied ids
AppliedIds(r) ==
    /\ runner[r].pc = "off"
    /\ boots < MaxBoots
    /\ boots' = boots + 1
    /\ runner' = [runner EXCEPT ![r] = [pc |-> "apply", already |-> schema]]
    /\ UNCHANGED <<schema, runs>>

Pending(r) == MigrationIds \ runner[r].already
IsLowest(m, S) == m \in S /\ \A n \in S : m <= n

\* One migration in one transaction; the insert of a row that exists rolls everything back
ApplyMigrationUnkeyed(r) ==
    /\ runner[r].pc = "apply"
    /\ \E m \in MigrationIds :
           /\ IsLowest(m, Pending(r))
           /\ schema' = schema \union {m}
           /\ runs' = [runs EXCEPT ![m] = @ + 1]
           /\ runner' = [runner EXCEPT ![r].already = @ \union {m}]
    /\ UNCHANGED boots

ApplyMigration(r) ==
    /\ runner[r].pc = "apply"
    /\ \E m \in MigrationIds :
           /\ IsLowest(m, Pending(r))
           /\ IF m \in schema
              THEN /\ runner' = [runner EXCEPT ![r] = NotRunning]
                   /\ UNCHANGED <<schema, runs>>
              ELSE /\ schema' = schema \union {m}
                   /\ runs' = [runs EXCEPT ![m] = @ + 1]
                   /\ runner' = [runner EXCEPT ![r].already = @ \union {m}]
    /\ UNCHANGED boots

\* The boot goes on, or the process dies between two migrations
FinishMigrations(r) ==
    /\ runner[r].pc = "apply"
    /\ runner' = [runner EXCEPT ![r] = [NotRunning EXCEPT !.pc = IF Pending(r) = {} THEN "up" ELSE "off"]]
    /\ UNCHANGED <<schema, runs, boots>>

MigrationsNext == \E r \in Runners : AppliedIds(r) \/ ApplyMigration(r) \/ FinishMigrations(r)

MigrationsSpec == MigrationsInit /\ [][MigrationsNext]_migrationVars

\* Overlapping boots never commit a migration's statements twice, never leave a hole in the
\* order, and a process that is up runs on the complete schema (migrations.ts runMigrations)
MigratedOnceInOrder ==
    /\ \A m \in MigrationIds : runs[m] = IF m \in schema THEN 1 ELSE 0
    /\ \A m \in schema : \A n \in MigrationIds : n <= m => n \in schema
    /\ (\E r \in Runners : runner[r].pc = "up") => schema = MigrationIds
=============================================================================
