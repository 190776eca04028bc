------------------------------ MODULE Deployment -----------------------------
(***************************************************************************)
(* How a release reaches production: the migration runner (apply-schema),  *)
(* the start gate of the container around it (start-production) and the    *)
(* readiness probe of the server behind the gate.                          *)
(*                                                                         *)
(* A runner serialises on a PostgreSQL advisory lock, which belongs to its *)
(* session: the database frees it when it sees the session end. The SQL of *)
(* a migration and its row of schema_migrations are one transaction; what  *)
(* a migration changes is abstracted to how often it was committed.        *)
(***************************************************************************)
EXTENDS Naturals, Sequences

CONSTANTS
    Containers, Jobs,     \* instances: start-production, and apply-schema on its own
    Files,                \* release -> its migrations in the order of their names
    Accepted,             \* release -> {<<name, checksum>>}: acceptedLegacyChecksums
    Histories,            \* schema_migrations of the database the run starts from
    MaxDeploys, MaxSql, MaxKill   \* bounds: releases deployed, failing statements, deaths

Releases == DOMAIN Files
Runners == Containers \cup Jobs
FilesOf(r) == {Files[r][k] : k \in DOMAIN Files[r]}
InitSql == [name |-> "00000000_init.sql", body |-> "init", eol |-> "LF"]
Names == {InitSql.name} \cup {f.name : f \in UNION {FilesOf(r) : r \in Releases}}
NoSum == <<"none", "none">>

\* A checksum stands for the file it was taken of: its text and its line ends
Bodies == {f.body : f \in {InitSql} \cup UNION {FilesOf(r) : r \in Releases}}
          \cup {a[2][1] : a \in UNION {Accepted[r] : r \in Releases}}
Sums == {NoSum} \cup Bodies \X {"LF", "CRLF"}

ASSUME DeploymentAssumption ==
    /\ Containers \cap Jobs = {}
    /\ Runners \cap {"free", "ghost"} = {}
    /\ \A r \in Releases : Files[r] \in Seq(FilesOf(r)) /\ \A f \in FilesOf(r) : f.eol \in {"LF", "CRLF"}
    /\ Histories \subseteq [Names -> Sums]
    /\ MaxDeploys \in Nat /\ MaxSql \in Nat /\ MaxKill \in Nat

\* The files of a directory have different names
ASSUME DistinctNames ==
    \A r \in Releases : \A j, k \in DOMAIN Files[r] : Files[r][j].name = Files[r][k].name => j = k

VARIABLES
    users,      \* the table users exists
    table,      \* the table schema_migrations exists
    stored,     \* schema_migrations: name -> checksum, NoSum when there is no row
    ran,        \* name -> times a runner committed its SQL
    lock,       \* session that holds the advisory lock
    inst,       \* the runners and the servers behind them
    served,     \* history: releases that have served on this database
    left

vars == <<users, table, stored, ran, lock, inst, served, left>>

At == {"off", "lock", "ensure", "bootstrap", "check", "insert", "boot", "serving", "done", "exited"}
Why == {"none", "sql", "timeout", "checksum", "duplicate", "killed"}
Instance == [at : At, release : Releases, next : Nat, ready : BOOLEAN, why : Why]

TypeOK ==
    /\ users \in BOOLEAN /\ table \in BOOLEAN
    /\ stored \in [Names -> Sums]
    /\ ran \in [Names -> Nat]
    /\ lock \in Runners \cup {"free", "ghost"}
    /\ inst \in [Runners -> Instance]
    /\ served \subseteq Releases

\* The database is empty, or older than schema_migrations, or a runner died in
\* it before its first row, or it has a history
Init ==
    /\ stored \in Histories
    /\ users \in BOOLEAN /\ table \in BOOLEAN
    /\ (\E n \in Names : stored[n] # NoSum) => users /\ table
    /\ ran = [n \in Names |-> IF stored[n] = NoSum THEN 0 ELSE 1]
    /\ lock = "free"
    /\ \E r \in Releases :
         inst = [i \in Runners |-> [at |-> "off", release |-> r, next |-> 1, ready |-> FALSE, why |-> "none"]]
    /\ served = {}
    /\ left = [deploys |-> MaxDeploys, sql |-> MaxSql, kill |-> MaxKill]

-----------------------------------------------------------------------------
(* Checksums (migration-checksum.mjs) *)

MigrationChecksum(f) == <<f.body, "LF">>
RawChecksum(f) == <<f.body, f.eol>>
IsCompatible(f, sum) == sum \in {MigrationChecksum(f), RawChecksum(f), <<f.body, "CRLF">>}
IsAcceptedLegacy(r, f, sum) == <<f.name, sum>> \in Accepted[r]
ChecksumMatches(r, f, sum) == IsCompatible(f, sum) \/ IsAcceptedLegacy(r, f, sum)

-----------------------------------------------------------------------------
(* The runner *)

Goto(i, at) == inst' = [inst EXCEPT ![i].at = at]
Spend(what) == left[what] > 0 /\ left' = [left EXCEPT ![what] = @ - 1]
File(i) == Files[inst[i].release][inst[i].next]
Working(i) == inst[i].at \in {"ensure", "bootstrap", "check", "insert"}

\* The process ends: the gate passes no failure on to the server
Exit(i, why) ==
    inst' = [inst EXCEPT ![i] = [@ EXCEPT !.at = "exited", !.next = 1, !.ready = FALSE, !.why = why]]
\* Variant with a fault: only a runner that finished gives the lock back.
ReleaseOnSuccess(i) ==
    lock' = IF lock = i /\ inst[i].at = "check" /\ inst[i].next > Len(Files[inst[i].release]) THEN "free" ELSE lock
\* The finally block: the advisory lock is given back, the session ends
Release(i) == lock' = IF lock = i THEN "free" ELSE lock

Deploy(i, r) ==
    /\ inst[i].at \in {"off", "exited", "serving", "done"}
    /\ Spend("deploys")
    /\ inst' = [inst EXCEPT ![i] = [at |-> "lock", release |-> r, next |-> 1, ready |-> FALSE, why |-> "none"]]
    /\ UNCHANGED <<users, table, stored, ran, lock, served>>

\* The platform starts a container again; a migration job is not restarted
Restart(i) ==
    /\ inst[i].at = "exited" /\ i \in Containers
    /\ inst' = [inst EXCEPT ![i].at = "lock", ![i].why = "none"]
    /\ UNCHANGED <<users, table, stored, ran, lock, left, served>>

Lock(i) ==
    /\ inst[i].at = "lock" /\ lock = "free"
    /\ lock' = i
    /\ Goto(i, "ensure")
    /\ UNCHANGED <<users, table, stored, ran, left, served>>

\* statement_timeout while another session holds the lock
LockTimeout(i) ==
    /\ inst[i].at = "lock" /\ lock # "free"
    /\ Exit(i, "timeout")
    /\ UNCHANGED <<users, table, stored, ran, lock, left, served>>

EnsureMigrationLedger(i) ==
    /\ inst[i].at = "ensure"
    /\ table' = TRUE
    /\ Goto(i, "bootstrap")
    /\ UNCHANGED <<users, stored, ran, lock, left, served>>

\* One transaction: init.sql and its row
BootstrapSchemaIfNeeded(i) ==
    /\ inst[i].at = "bootstrap"
    /\ IF users
         THEN UNCHANGED <<users, stored, ran>>
         ELSE /\ users' = TRUE
              /\ ran' = [ran EXCEPT ![InitSql.name] = @ + 1]
              /\ stored' = [stored EXCEPT ![InitSql.name] =
                                IF @ = NoSum THEN MigrationChecksum(InitSql) ELSE @]
    /\ Goto(i, "check")
    /\ UNCHANGED <<table, lock, left, served>>

More(i) == inst[i].next <= Len(Files[inst[i].release])

\* The file has its row: skipped, with its checksum rewritten, or refused
CheckApplied(i) ==
    /\ inst[i].at = "check" /\ More(i)
    /\ stored[File(i).name] # NoSum
    /\ IF ChecksumMatches(inst[i].release, File(i), stored[File(i).name])
         THEN /\ stored' = [stored EXCEPT ![File(i).name] = MigrationChecksum(File(i))]
              /\ inst' = [inst EXCEPT ![i].next = @ + 1]
              /\ UNCHANGED lock
         ELSE Exit(i, "checksum") /\ Release(i) /\ UNCHANGED stored
    /\ UNCHANGED <<users, table, ran, left, served>>

\* The file has none: BEGIN and its SQL, not committed yet
RunSql(i) ==
    /\ inst[i].at = "check" /\ More(i)
    /\ stored[File(i).name] = NoSum
    /\ Goto(i, "insert")
    /\ UNCHANGED <<users, table, stored, ran, lock, left, served>>

\* INSERT and COMMIT; the name is the primary key
CommitMigration(i) ==
    /\ inst[i].at = "insert"
    /\ IF stored[File(i).name] = NoSum
         THEN /\ stored' = [stored EXCEPT ![File(i).name] = MigrationChecksum(File(i))]
              /\ ran' = [ran EXCEPT ![File(i).name] = @ + 1]
              /\ inst' = [inst EXCEPT ![i].at = "check", ![i].next = @ + 1]
              /\ UNCHANGED lock
         ELSE Exit(i, "duplicate") /\ Release(i) /\ UNCHANGED <<stored, ran>>
    /\ UNCHANGED <<users, table, left, served>>

\* The runner exits with code 0: a container goes on to the server
Migrated(i) ==
    /\ inst[i].at = "check" /\ ~More(i)
    /\ Goto(i, IF i \in Containers THEN "boot" ELSE "done")
    /\ Release(i)
    /\ UNCHANGED <<users, table, stored, ran, left, served>>

\* Variant with a fault: without BEGIN the SQL stays when the INSERT fails.
FailsInAutocommit(i) ==
    /\ Working(i) /\ Spend("sql")
    /\ ran' = IF inst[i].at = "insert" THEN [ran EXCEPT ![File(i).name] = @ + 1] ELSE ran
    /\ Exit(i, "sql") /\ Release(i)
    /\ UNCHANGED <<users, table, stored, served>>

\* A statement fails: ROLLBACK, and the error ends the process
StatementFails(i) ==
    /\ Working(i) /\ Spend("sql")
    /\ Exit(i, "sql") /\ Release(i)
    /\ UNCHANGED <<users, table, stored, ran, served>>

-----------------------------------------------------------------------------
(* The server, and what ends a process *)

Listen(i) ==
    /\ inst[i].at = "boot"
    /\ Goto(i, "serving")
    /\ served' = served \cup {inst[i].release}
    /\ UNCHANGED <<users, table, stored, ran, lock, left>>

\* Of the migrations the probe asks only whether their table exists
CheckMigrations == table
EvaluateReadiness(dbHealthy, redisHealthy) == dbHealthy /\ redisHealthy /\ CheckMigrations

\* GET /health/ready
Readiness(i, dbHealthy, redisHealthy) ==
    /\ inst[i].at = "serving"
    /\ inst' = [inst EXCEPT ![i].ready = EvaluateReadiness(dbHealthy, redisHealthy)]
    /\ UNCHANGED <<users, table, stored, ran, lock, left, served>>

\* The process or its host is gone. The database rolls back what the session
\* had open; it sees a lost host only later
Kill(i) ==
    /\ inst[i].at \notin {"off", "exited", "done"} /\ Spend("kill")
    /\ Exit(i, "killed")
    /\ lock' \in IF lock = i THEN {"free", "ghost"} ELSE {lock}
    /\ UNCHANGED <<users, table, stored, ran, served>>

SessionReaped ==
    /\ lock = "ghost"
    /\ lock' = "free"
    /\ UNCHANGED <<users, table, stored, ran, inst, left, served>>

Step(i) ==
    \/ Lock(i) \/ EnsureMigrationLedger(i) \/ BootstrapSchemaIfNeeded(i)
    \/ CheckApplied(i) \/ RunSql(i) \/ CommitMigration(i) \/ Migrated(i) \/ Listen(i)

Next ==
    \/ \E i \in Runners :
         \/ Step(i) \/ LockTimeout(i) \/ StatementFails(i) \/ Restart(i) \/ Kill(i)
         \/ \E r \in Releases : Deploy(i, r)
         \/ \E db, redis \in BOOLEAN : Readiness(i, db, redis)
    \/ SessionReaped

Spec == Init /\ [][Next]_vars

Fairness ==
    /\ \A i \in Runners : WF_vars(Step(i)) /\ WF_vars(LockTimeout(i)) /\ WF_vars(Restart(i))
    /\ WF_vars(SessionReaped)

FairSpec == Spec /\ Fairness

-----------------------------------------------------------------------------
(* Properties *)

\* A migration is recorded exactly when a runner committed its SQL, and that
\* happened once, whatever dies between the two (apply-schema.mjs:114-126).
LedgerIsTrue ==
    \A n \in Names : ran[n] = IF stored[n] = NoSum THEN 0 ELSE 1

\* One runner at a time works on the schema, a dead one's session that still
\* holds the lock and runners that time out included (apply-schema.mjs:35-42).
OneAtWork == \A i, j \in Runners : Working(i) /\ Working(j) => i = j

\* Runners that start together do not step on each other: none of them ever
\* fails because another one inserted the same migration (apply-schema.mjs:37).
NoneTrips == \A i \in Runners : inst[i].why # "duplicate"

\* A server that reports itself ready has every migration of its release in
\* the database (start-production.mjs:10, health.controller.ts:38).
ReadyMeansMigrated ==
    \A i \in Runners :
        inst[i].ready => users /\ \A f \in FilesOf(inst[i].release) : ran[f.name] > 0

\* The record of an applied migration only ever changes to a text this migration
\* was accepted under: its own, or one on the list of known edits of the release
\* whose runner holds the lock (apply-schema.mjs:94-112).
EditsAreCaught ==
    [][\A n \in Names : stored[n] # NoSum /\ stored'[n] # stored[n] =>
         \/ stored'[n][1] = stored[n][1]
         \/ \E i \in Runners : lock = i /\ <<n, stored[n]>> \in Accepted[inst[i].release]]_vars

\* A runner goes on to a migration only while the database records every earlier
\* one with the text of its own release: past one that was edited and is not on
\* the list it applies nothing (apply-schema.mjs:100-104).
PassedAreOwn ==
    \A i \in Runners : Working(i) =>
        \A k \in 1 .. inst[i].next - 1 :
            LET f == Files[inst[i].release][k] IN stored[f.name] = MigrationChecksum(f)

\* What makes it so: only the holder of the lock works on the schema, what it has
\* passed is recorded, and a server starts after the last migration.
InstOK(i, x) ==
    /\ x.next >= 1 /\ x.why # "duplicate" /\ (x.ready => x.at = "serving")
    /\ x.at \in {"ensure", "bootstrap", "check", "insert"} => lock = i
    /\ x.at \in {"check", "insert", "boot", "serving", "done"} => users
    /\ \A k \in 1 .. x.next - 1 : k <= Len(Files[x.release]) /\ stored[Files[x.release][k].name] # NoSum
    /\ x.at \in {"ensure", "bootstrap", "check", "insert"} =>
         \A k \in 1 .. x.next - 1 : stored[Files[x.release][k].name] = MigrationChecksum(Files[x.release][k])
    /\ x.at = "insert" => x.next <= Len(Files[x.release]) /\ stored[Files[x.release][x.next].name] = NoSum
    /\ x.at \in {"boot", "serving", "done"} => x.next > Len(Files[x.release])
    /\ x.at \in {"off", "lock", "ensure", "bootstrap", "exited"} => x.next = 1
IInv ==
    /\ TypeOK /\ LedgerIsTrue
    /\ ~users => stored[InitSql.name] = NoSum
    /\ \A i \in Runners : InstOK(i, inst[i])

\* Every container ends up serving, whatever failed or died before, unless a
\* release is refused for a migration that was edited: a container that is
\* restarted for ever may keep the others from the lock.
EveryDeployServes ==
    \A i \in Containers :
        inst[i].at = "lock" ~> inst[i].at = "serving" \/ \E j \in Runners : inst[j].why = "checksum"

\* The previous known-good release can be deployed again: no release that has
\* served on this database is later refused for a checksum.
CanRollBack == \A i \in Runners : inst[i].why = "checksum" => inst[i].release \notin served
=============================================================================
