----------------------------- MODULE Migrations -----------------------------
(***************************************************************************)
(* Opening the database: the server and pwreset both run the migrations    *)
(* they find missing.  user_version is read once, outside a transaction;   *)
(* every migration is a transaction of its own, which holds SQLite's write *)
(* lock from its first statement on and leaves nothing when it is rolled   *)
(* back or its process dies.                                               *)
(***************************************************************************)
EXTENDS Integers, FiniteSets

CONSTANTS
    Procs,      \* processes that open the database
    NoProc,     \* the holder of the write lock when there is none
    N,          \* the number of migrations
    Rebuilds    \* migrations that succeed a second time: a table is rebuilt

ASSUME ProcsAssumption == NoProc \notin Procs
\* The others fail when what they create is there already.
ASSUME MigrationsAssumption == N \in Nat /\ Rebuilds \subseteq {N}

VARIABLES
    schema,     \* the migrations whose effect the committed database shows
    version,    \* the committed user_version
    writer,     \* the process in a transaction that holds the write lock
    mig         \* mig[p]: where process p is, and its loop variable i

migVars == <<schema, version, writer, mig>>

MigPc == {"down", "read", "loop", "exec", "stamp", "commit", "open"}

MigrationsTypeOK ==
    /\ schema \subseteq 1 .. N
    /\ version \in 0 .. N
    /\ writer \in Procs \cup {NoProc}
    /\ mig \in [Procs -> [pc : MigPc, i : 1 .. N + 1]]

Down == [pc |-> "down", i |-> 1]

\* A new data directory.
MigrationsInit ==
    /\ schema = {}
    /\ version = 0
    /\ writer = NoProc
    /\ mig = [p \in Procs |-> Down]

Goto(p, pc) == mig' = [mig EXCEPT ![p].pc = pc]

AppliesAgain(i, S) == 1 .. i - 1 \subseteq S

\* Migration i runs on a database that has the ones in S.
Applies(i, S) == 1 .. i - 1 \subseteq S /\ (i \in S => i \in Rebuilds)

\* A rebuilt table has the columns of its own migration, and none that a later one added.
Migrated(i, S) == IF i \in Rebuilds THEN 1 .. i ELSE S \cup {i}

-----------------------------------------------------------------------------
StartOpening(p) ==
    /\ mig[p].pc = "down"
    /\ Goto(p, "read")
    /\ UNCHANGED <<schema, version, writer>>

ReadVersion(p) ==
    /\ mig[p].pc = "read"
    /\ mig' = [mig EXCEPT ![p] = [pc |-> "loop", i |-> version + 1]]
    /\ UNCHANGED <<schema, version, writer>>

\* BEGIN takes no lock.
BeginTx(p) ==
    /\ mig[p].pc = "loop" /\ mig[p].i <= N
    /\ Goto(p, "exec")
    /\ UNCHANGED <<schema, version, writer>>

ExecMigration(p) ==
    /\ mig[p].pc = "exec"
    /\ writer = NoProc
    /\ Applies(mig[p].i, schema)
    /\ writer' = p
    /\ Goto(p, "stamp")
    /\ UNCHANGED <<schema, version>>

StampVersion(p) ==
    /\ mig[p].pc = "stamp"
    /\ Goto(p, "commit")
    /\ UNCHANGED <<schema, version, writer>>

\* The transaction's two statements become visible together.
CommitMigration(p) ==
    /\ mig[p].pc = "commit"
    /\ schema' = Migrated(mig[p].i, schema)
    /\ version' = mig[p].i
    /\ writer' = NoProc
    /\ mig' = [mig EXCEPT ![p] = [pc |-> "loop", i |-> mig[p].i + 1]]

OpenOneShort(p) ==
    /\ mig[p].pc = "loop" /\ mig[p].i >= N
    /\ Goto(p, "open")
    /\ UNCHANGED <<schema, version, writer>>

OpenDone(p) ==
    /\ mig[p].pc = "loop" /\ mig[p].i > N
    /\ Goto(p, "open")
    /\ UNCHANGED <<schema, version, writer>>

\* The process ends: a migration that does not apply, a database that stays busy
\* or another error rolls back and exits, as does a crash, at any point.
StopProcess(p) ==
    /\ mig[p].pc # "down"
    /\ mig' = [mig EXCEPT ![p] = Down]
    /\ writer' = IF writer = p THEN NoProc ELSE writer
    /\ UNCHANGED <<schema, version>>

OpenStep(p) ==
    \/ StartOpening(p) \/ ReadVersion(p) \/ BeginTx(p) \/ ExecMigration(p)
    \/ StampVersion(p) \/ CommitMigration(p) \/ OpenDone(p)

MigrationsNext == \E p \in Procs : OpenStep(p) \/ StopProcess(p)

MigrationsSpec == MigrationsInit /\ [][MigrationsNext]_migVars

-----------------------------------------------------------------------------
(* Correctness. *)

\* user_version names what is in the database, whoever migrates it at once with
\* whom and wherever they stop: the first `version` migrations and no other.
SchemaIsItsVersion == schema = 1 .. version

\* Once a process has its database open, the schema is and stays the whole one,
\* although others that read an older version may still be migrating.
OpenDatabaseIsCurrent == \A p \in Procs : mig[p].pc = "open" => schema = 1 .. N

\* The inductive invariant: who is past its first statement holds the lock, and
\* the migration of the holder applies to what is committed.
MigrationsInv ==
    /\ MigrationsTypeOK
    /\ SchemaIsItsVersion
    /\ \A p \in Procs :
        /\ mig[p].pc \in {"stamp", "commit"} <=> writer = p
        /\ mig[p].pc \in {"exec", "stamp", "commit"} => mig[p].i <= N
        /\ mig[p].pc \in {"loop", "exec", "stamp", "commit"} => mig[p].i <= version + 1
        /\ mig[p].pc \in {"stamp", "commit"} => Applies(mig[p].i, schema)
        /\ mig[p].pc = "open" => version = N
=============================================================================
