------------------------------ MODULE M8Engine ------------------------------
(***************************************************************************)
(* The engine of m8 (internal/engine/engine.go): several invocations of    *)
(* apply, sync, baseline and plan over one target database, serialised by  *)
(* a session-level advisory lock, each walking the phases of its command.  *)
(*                                                                         *)
(* The environment edits the migrations directory, changes declared        *)
(* objects by hand between runs, makes a statement or a query fail, loses  *)
(* a history row, a session or a whole process.  Every such event spends   *)
(* from a named budget.                                                    *)
(***************************************************************************)
EXTENDS M8History, FiniteSets, FiniteSetsExt

CONSTANTS
    Proc,               \* the m8 processes
    Nobody,             \* no process holds the lock
    Absent,             \* no such file, or nothing of it in the database
    Empty,              \* a PG schema that exists and holds nothing
    Mixed,              \* what a partial run, or a hand, left behind
    NoTx,               \* files executeMigration runs outside a transaction
    Commands,           \* the subcommands that are invoked
    FailOnUnvalidated,  \* Config.FailOnUnvalidated
    InitDir,            \* the directory at first
    InitDb,             \* the declared objects at first
    MaxStatements,      \* bound: statements of one schema diff
    MaxAdoptions,       \* bound: invocations of sync and baseline
    MaxEdits,           \* bound: changes of the directory
    MaxDrifts,          \* bound: changes of the database by hand
    MaxFaults,          \* bound: failing statements and queries
    MaxLosses           \* bound: lost history rows, sessions and processes

ASSUME EngineAssumption ==
    /\ Nobody \notin Proc
    /\ Absent \notin Checksum
    /\ Commands \subseteq {"apply", "sync", "baseline", "plan"}
    /\ FailOnUnvalidated \in BOOLEAN
    /\ MaxStatements \in Nat \ {0}

Content == Checksum \cup {Absent}
DbState == Content \cup {Empty, Mixed}

ASSUME InitAssumption ==
    /\ InitDir \in [File -> Content]
    /\ InitDb \in [File -> DbState]

VARIABLES
    dir,        \* the migrations directory: the content of each file
    history,    \* _m8.history
    ready,      \* whether the _m8 schema has been bootstrapped
    holder,     \* who holds the advisory lock
    runs,       \* complete executions of each one-time file
    db,         \* what the database holds of each declarative file
    pc, cmd, phase,
    sess,       \* whether the process's database session is alive
    snap,       \* what discover() read
    todo,       \* files of the phase still to be worked on
    cur,        \* the file whose execution is to be recorded
    stmts,      \* statements of the planned diffs still to be executed
    vouched,    \* a plan found nothing to do, and no one changed anything since
    adoptions, edits, drifts, faults, losses

envVars  == <<dir, adoptions, edits, drifts>>
dbVars   == <<history, ready, runs, db>>
procVars == <<pc, cmd, phase, sess, snap, todo, cur, stmts>>
vars == <<dir, history, ready, holder, runs, db, pc, cmd, phase, sess, snap,
          todo, cur, stmts, vouched, adoptions, edits, drifts, faults, losses>>

Phases == {"all", "ops", "schema", "logic", "permissions", "reference", "data"}
Locked == {"ensuring", "discovering", "entering", "looping", "adopting",
           "executed", "broken", "diffing", "altering", "finished", "aborted"}
Control == {"idle", "locking"} \cup Locked

\* Faulty: data migrations run early, with the ops ones.
PhaseAfterDataEarly(c, ph) ==
    CASE ph = "ops"         -> "data"
      [] ph = "data"        -> "schema"
      [] ph = "schema"      -> "logic"
      [] ph = "logic"       -> "permissions"
      [] ph = "permissions" -> "reference"
      [] OTHER              -> "none"

\* Apply runs ops, schema, logic, permissions, reference, data in this order;
\* Sync adopts ops and data first, then converges the rest.
PhaseAfter(c, ph) ==
    CASE ph = "ops"         -> IF c = "sync" THEN "data" ELSE "schema"
      [] ph = "schema"      -> "logic"
      [] ph = "logic"       -> "permissions"
      [] ph = "permissions" -> "reference"
      [] ph = "reference"   -> IF c = "sync" THEN "none" ELSE "data"
      [] ph = "data"        -> IF c = "sync" THEN "schema" ELSE "none"
      [] OTHER              -> "none"

\* Faulty: a file that is gone is still listed.
PresentOrGone(d, t) == Files(t)

Present(d, t) == {f \in Files(t) : d[f] # Absent}

\* Faulty: history is not consulted.
PendingAlways(h, d, t) == Present(d, t)

\* The files a phase has to execute: those applyVersioned does not find in
\* appliedSet, and those applyIdempotent finds with another checksum.
Pending(h, d, t) ==
    IF t \in {"ops", "data"}
    THEN {f \in Present(d, t) : VersionOf(f) \notin AppliedVersions(h, t)}
    ELSE {f \in Present(d, t) : ~IsLatest(h, t, f, d[f])}

\* The declarative files that differ from what the database holds.
Differing(d, t) == {f \in Present(d, t) : db[f] # d[f]}

TypeOrder == [t \in Types |->
    CASE t = "ops"         -> 1
      [] t = "schema"      -> 2
      [] t = "logic"       -> 3
      [] t = "permissions" -> 4
      [] t = "reference"   -> 5
      [] t = "data"        -> 6]

\* Faulty: sorted by type alone.
BeforeByType(f, g) == TypeOrder[TypeOf[f]] < TypeOrder[TypeOf[g]]

\* The sort of migration.Discover; files with equal keys come in either order.
Before(f, g) ==
    \/ TypeOrder[TypeOf[f]] < TypeOrder[TypeOf[g]]
    \/ TypeOf[f] = TypeOf[g] /\ Ordinal[f] < Ordinal[g]

\* The file that a loop over the sorted listing comes to next.
IsNext(p, f) == f \in todo[p] /\ \A g \in todo[p] : ~Before(g, f)

-----------------------------------------------------------------------------
Init ==
    /\ dir = InitDir
    /\ history = <<>>
    /\ ready = FALSE
    /\ holder = Nobody
    /\ runs = [f \in OneTime |-> 0]
    /\ db = InitDb
    /\ pc = [p \in Proc |-> "idle"]
    /\ cmd = [p \in Proc |-> "none"]
    /\ phase = [p \in Proc |-> "ops"]
    /\ sess = [p \in Proc |-> FALSE]
    /\ snap = [p \in Proc |-> [f \in File |-> Absent]]
    /\ todo = [p \in Proc |-> {}]
    /\ cur = [p \in Proc |-> {}]
    /\ stmts = [p \in Proc |-> [f \in Files("schema") |-> 0]]
    /\ vouched = FALSE
    /\ adoptions = 0
    /\ edits = 0
    /\ drifts = 0
    /\ faults = 0
    /\ losses = 0

-----------------------------------------------------------------------------
(* Steps shared by the phases *)

Spend(budget, max) == budget < max /\ budget' = budget + 1

\* The phase is over: on to the next one, or the command is done.
NextPhase(p) ==
    LET n == PhaseAfter(cmd[p], phase[p]) IN
    IF n = "none"
    THEN pc' = [pc EXCEPT ![p] = "finished"] /\ UNCHANGED phase
    ELSE pc' = [pc EXCEPT ![p] = "entering"] /\ phase' = [phase EXCEPT ![p] = n]

\* Faulty: the session, and with it the lock, outlives the process.
LeaveLeakingLock(p) ==
    /\ pc' = [pc EXCEPT ![p] = "idle"]
    /\ cmd' = [cmd EXCEPT ![p] = "none"]
    /\ phase' = [phase EXCEPT ![p] = "ops"]
    /\ sess' = [sess EXCEPT ![p] = FALSE]
    /\ snap' = [snap EXCEPT ![p] = [f \in File |-> Absent]]
    /\ todo' = [todo EXCEPT ![p] = {}]
    /\ cur' = [cur EXCEPT ![p] = {}]
    /\ stmts' = [stmts EXCEPT ![p] = [f \in Files("schema") |-> 0]]
    /\ UNCHANGED <<dbVars, envVars, holder, vouched, faults>>

\* The process is gone and its session with it; the server drops its lock.
Leave(p) ==
    /\ pc' = [pc EXCEPT ![p] = "idle"]
    /\ cmd' = [cmd EXCEPT ![p] = "none"]
    /\ phase' = [phase EXCEPT ![p] = "ops"]
    /\ sess' = [sess EXCEPT ![p] = FALSE]
    /\ snap' = [snap EXCEPT ![p] = [f \in File |-> Absent]]
    /\ todo' = [todo EXCEPT ![p] = {}]
    /\ cur' = [cur EXCEPT ![p] = {}]
    /\ stmts' = [stmts EXCEPT ![p] = [f \in Files("schema") |-> 0]]
    /\ holder' = IF holder = p THEN Nobody ELSE holder
    /\ UNCHANGED <<dbVars, envVars, vouched, faults>>

-----------------------------------------------------------------------------
(* Starting, locking, discovering *)

\* A command connects to the target.
Start(p, c) ==
    /\ pc[p] = "idle"
    /\ pc' = [pc EXCEPT ![p] = "locking"]
    /\ cmd' = [cmd EXCEPT ![p] = c]
    /\ sess' = [sess EXCEPT ![p] = TRUE]
    /\ IF c \in {"sync", "baseline"} THEN Spend(adoptions, MaxAdoptions)
                                     ELSE UNCHANGED adoptions
    /\ UNCHANGED <<dbVars, dir, edits, drifts, holder, phase, snap, todo, cur,
                   stmts, vouched, faults, losses>>

\* Faulty: the lock is shared.
LockIsShared == TRUE

\* pg_try_advisory_lock
LockIsFree == holder = Nobody

AcquireLock(p) ==
    /\ pc[p] = "locking" /\ sess[p]
    /\ LockIsFree
    /\ holder' = p
    \* Plan is read-only: it does not bootstrap the state schema.
    /\ pc' = [pc EXCEPT ![p] = IF cmd[p] = "plan" THEN "discovering"
                                                  ELSE "ensuring"]
    /\ UNCHANGED <<dbVars, envVars, cmd, phase, sess, snap, todo, cur, stmts,
                   vouched, faults, losses>>

\* Faulty: pg_advisory_lock, which waits.
LockAwaited(p) ==
    /\ pc[p] = "locking" /\ ~sess[p]
    /\ Leave(p)
    /\ UNCHANGED losses

\* "another m8 instance is running against this database": the command fails.
LockRefused(p) ==
    /\ pc[p] = "locking"
    /\ sess[p] => ~LockIsFree
    /\ Leave(p)
    /\ UNCHANGED losses

EnsureSchema(p) ==
    /\ pc[p] = "ensuring" /\ sess[p]
    /\ ready' = TRUE
    /\ pc' = [pc EXCEPT ![p] = "discovering"]
    /\ UNCHANGED <<history, runs, db, envVars, holder, cmd, phase, sess, snap,
                   todo, cur, stmts, vouched, faults, losses>>

\* discover: every file is read once, here; later edits go unseen.
Discover(p) ==
    /\ pc[p] = "discovering"
    /\ snap' = [snap EXCEPT ![p] = dir]
    /\ phase' = [phase EXCEPT ![p] = IF cmd[p] = "baseline" THEN "all" ELSE "ops"]
    /\ pc' = [pc EXCEPT ![p] = "entering"]
    /\ UNCHANGED <<dbVars, envVars, holder, cmd, sess, todo, cur, stmts,
                   vouched, faults, losses>>

\* A query, a diff or the parsing of a reference file fails, and with it the
\* command.  Without a session every query does.
CallFails(p) ==
    /\ pc[p] \in {"ensuring", "discovering", "entering", "diffing"}
    /\ IF sess[p] \/ pc[p] \in {"discovering", "diffing"}
       THEN Spend(faults, MaxFaults)
       ELSE UNCHANGED faults
    /\ pc' = [pc EXCEPT ![p] = "aborted"]
    /\ UNCHANGED <<dbVars, envVars, holder, cmd, phase, sess, snap, todo, cur,
                   stmts, vouched, losses>>

\* The deferred releaseLock, then the connection is closed.
ReleaseLock(p) ==
    /\ pc[p] \in {"finished", "aborted"}
    /\ Leave(p)
    /\ UNCHANGED losses

-----------------------------------------------------------------------------
(* applyVersioned and applyIdempotent; Sync's loops over logic, permissions *)

\* appliedSet, or the latest checksums, are read once, on entering the phase.
ReadHistory(p) ==
    /\ pc[p] = "entering" /\ sess[p]
    /\ cmd[p] = "apply" /\ phase[p] \in {"ops", "logic", "permissions", "data"}
    /\ todo' = [todo EXCEPT ![p] = Pending(history, snap[p], phase[p])]
    /\ pc' = [pc EXCEPT ![p] = "looping"]
    /\ UNCHANGED <<dbVars, envVars, holder, cmd, phase, sess, snap, cur, stmts,
                   vouched, faults, losses>>

\* Sync executes every logic and permissions file, whatever history says.
SyncAll(p) ==
    /\ pc[p] = "entering"
    /\ cmd[p] = "sync" /\ phase[p] \in {"logic", "permissions"}
    /\ todo' = [todo EXCEPT ![p] = Present(snap[p], phase[p])]
    /\ pc' = [pc EXCEPT ![p] = "looping"]
    /\ UNCHANGED <<dbVars, envVars, holder, cmd, phase, sess, snap, cur, stmts,
                   vouched, faults, losses>>

\* executeMigration: every statement executed, and the transaction, if the
\* file runs in one, committed.
ExecuteMigration(p, f) ==
    /\ pc[p] = "looping" /\ sess[p] /\ IsNext(p, f)
    /\ IF IsVersioned(f)
       THEN runs' = [runs EXCEPT ![f] = @ + 1] /\ UNCHANGED db
       ELSE db' = [db EXCEPT ![f] = snap[p][f]] /\ UNCHANGED runs
    /\ cur' = [cur EXCEPT ![p] = {f}]
    /\ pc' = [pc EXCEPT ![p] = "executed"]
    /\ UNCHANGED <<history, ready, envVars, holder, cmd, phase, sess, snap,
                   todo, stmts, vouched, faults, losses>>

\* A statement fails: a transaction is rolled back, but outside one the
\* statements before it stay.
ExecuteMigrationFails(p, f) ==
    /\ pc[p] = "looping" /\ IsNext(p, f)
    /\ IF sess[p] THEN Spend(faults, MaxFaults) ELSE UNCHANGED faults
    /\ \/ UNCHANGED db
       \/ /\ sess[p] /\ f \in NoTx /\ ~IsVersioned(f)
          /\ db' = [db EXCEPT ![f] = Mixed]
    /\ cur' = [cur EXCEPT ![p] = {f}]
    /\ pc' = [pc EXCEPT ![p] = "broken"]
    /\ UNCHANGED <<history, ready, runs, envVars, holder, cmd, phase, sess,
                   snap, todo, stmts, vouched, losses>>

\* Faulty: a failure does not end the loop.
AfterRecordGoOn(p) == IF phase[p] = "schema" THEN "altering" ELSE "looping"

\* After the record: the loop goes on, or the first failure ends the command.
AfterRecord(p) ==
    IF pc[p] = "broken" THEN "aborted"
    ELSE IF phase[p] = "schema" THEN "altering" ELSE "looping"

\* _ = e.store.RecordApplied(...): its error is discarded.
RecordApplied(p, f) ==
    /\ pc[p] \in {"executed", "broken"} /\ f \in cur[p]
    /\ history' = IF sess[p]
                  THEN Insert(history, NewRow(f, snap[p][f], pc[p] = "executed"))
                  ELSE history
    /\ todo' = [todo EXCEPT ![p] = @ \ {f}]
    /\ cur' = [cur EXCEPT ![p] = {}]
    /\ pc' = [pc EXCEPT ![p] = AfterRecord(p)]
    /\ UNCHANGED <<ready, runs, db, envVars, holder, cmd, phase, sess, snap,
                   stmts, vouched, faults, losses>>

\* The INSERT alone fails, and nobody notices.
RecordLost(p, f) ==
    /\ pc[p] \in {"executed", "broken"} /\ f \in cur[p]
    /\ sess[p] /\ Spend(losses, MaxLosses)
    /\ todo' = [todo EXCEPT ![p] = @ \ {f}]
    /\ cur' = [cur EXCEPT ![p] = {}]
    /\ pc' = [pc EXCEPT ![p] = AfterRecord(p)]
    /\ UNCHANGED <<dbVars, envVars, holder, cmd, phase, sess, snap, stmts,
                   vouched, faults>>

PhaseDone(p) ==
    /\ pc[p] \in {"looping", "adopting", "altering"} /\ todo[p] = {}
    /\ NextPhase(p)
    /\ UNCHANGED <<dbVars, envVars, holder, cmd, sess, snap, todo, cur, stmts,
                   vouched, faults, losses>>

-----------------------------------------------------------------------------
(* Adoption: Baseline, and Sync's first two loops *)

\* Baseline takes everything but reference files, the one-time ones up to a
\* version; --all is the greatest version there is.
BaselineScope(d, v) ==
    {f \in File : /\ d[f] # Absent
                  /\ TypeOf[f] # "reference"
                  /\ IsVersioned(f) => Ordinal[f] <= v}

EnterAdoption(p) ==
    /\ pc[p] = "entering"
    /\ \/ /\ cmd[p] = "sync" /\ phase[p] \in {"ops", "data"}
          /\ todo' = [todo EXCEPT ![p] = Present(snap[p], phase[p])]
       \/ /\ cmd[p] = "baseline"
          /\ \E v \in {0} \cup {Ordinal[f] : f \in OneTime} :
                todo' = [todo EXCEPT ![p] = BaselineScope(snap[p], v)]
    /\ pc' = [pc EXCEPT ![p] = "adopting"]
    /\ UNCHANGED <<dbVars, envVars, holder, cmd, phase, sess, snap, cur, stmts,
                   vouched, faults, losses>>

\* RecordBaseline.  Sync discards its error; Baseline stops at the first one,
\* the refusal of a version that is recorded already included.
RecordBaseline(p, f) ==
    /\ pc[p] = "adopting" /\ IsNext(p, f)
    /\ LET row == NewRow(f, snap[p][f], TRUE)
           ok  == sess[p] /\ Admits(history, row)
       IN /\ history' = IF ok THEN Append(history, row) ELSE history
          /\ pc' = IF cmd[p] = "baseline" /\ ~ok
                   THEN [pc EXCEPT ![p] = "aborted"] ELSE pc
    /\ todo' = [todo EXCEPT ![p] = @ \ {f}]
    /\ UNCHANGED <<ready, runs, db, envVars, holder, cmd, phase, sess, snap,
                   cur, stmts, vouched, faults, losses>>

BaselineLost(p, f) ==
    /\ pc[p] = "adopting" /\ IsNext(p, f)
    /\ sess[p] /\ Spend(losses, MaxLosses)
    /\ pc' = IF cmd[p] = "baseline" THEN [pc EXCEPT ![p] = "aborted"] ELSE pc
    /\ todo' = [todo EXCEPT ![p] = @ \ {f}]
    /\ UNCHANGED <<dbVars, envVars, holder, cmd, phase, sess, snap, cur, stmts,
                   vouched, faults>>

-----------------------------------------------------------------------------
(* applySchema, with one file per schema folder *)

\* The namespaces of the folders in made exist afterwards.
WithNamespaces(made) ==
    [f \in File |-> IF f \in made /\ db[f] = Absent THEN Empty ELSE db[f]]

EnsurePGSchemas(p) ==
    /\ pc[p] = "entering" /\ phase[p] = "schema"
    /\ cmd[p] \in {"apply", "sync"}
    /\ LET folders == Present(snap[p], "schema") IN
       \/ \* every CREATE SCHEMA IF NOT EXISTS went through
          /\ sess[p] \/ folders = {}
          /\ db' = WithNamespaces(folders)
          /\ todo' = [todo EXCEPT ![p] = folders]
          /\ pc' = [pc EXCEPT ![p] = "diffing"]
          /\ UNCHANGED faults
       \/ \* one failed, after those before it
          /\ sess[p] /\ Spend(faults, MaxFaults)
          /\ \E f \in folders : db' = WithNamespaces({g \in folders : Before(g, f)})
          /\ pc' = [pc EXCEPT ![p] = "aborted"]
          /\ UNCHANGED todo
    /\ UNCHANGED <<history, ready, runs, envVars, holder, cmd, phase, sess,
                   snap, cur, stmts, vouched, losses>>

\* Pass 1: the diff of a folder, read through the pool and not the session.
DiffFolder(p, f) ==
    /\ pc[p] = "diffing" /\ IsNext(p, f)
    /\ \E n \in 0..MaxStatements :
          /\ n = 0 <=> db[f] = snap[p][f]
          /\ stmts' = [stmts EXCEPT ![p][f] = n]
    /\ todo' = [todo EXCEPT ![p] = @ \ {f}]
    /\ UNCHANGED <<dbVars, envVars, holder, pc, cmd, phase, sess, snap, cur,
                   vouched, faults, losses>>

\* A diff that proposes statements and could not be validated is refused.
RefuseUnvalidated(p, f) ==
    /\ FailOnUnvalidated
    /\ pc[p] = "diffing" /\ IsNext(p, f) /\ db[f] # snap[p][f]
    /\ Spend(faults, MaxFaults)
    /\ pc' = [pc EXCEPT ![p] = "aborted"]
    /\ UNCHANGED <<dbVars, envVars, holder, cmd, phase, sess, snap, todo, cur,
                   stmts, vouched, losses>>

\* Faulty: each folder is applied as soon as it is diffed.
BeginPass2Early(p) ==
    /\ pc[p] = "diffing"
    /\ todo' = [todo EXCEPT ![p] = {f \in Files("schema") : stmts[p][f] > 0}]
    /\ pc' = [pc EXCEPT ![p] = "altering"]
    /\ UNCHANGED <<dbVars, envVars, holder, cmd, phase, sess, snap, cur, stmts,
                   vouched, faults, losses>>

\* Pass 2 begins once every folder is diffed.
BeginPass2(p) ==
    /\ pc[p] = "diffing" /\ todo[p] = {}
    /\ todo' = [todo EXCEPT ![p] = {f \in Files("schema") : stmts[p][f] > 0}]
    /\ pc' = [pc EXCEPT ![p] = "altering"]
    /\ UNCHANGED <<dbVars, envVars, holder, cmd, phase, sess, snap, cur, stmts,
                   vouched, faults, losses>>

\* Pass 2: one statement, autocommitted.
ExecSchemaStatement(p, f) ==
    /\ pc[p] = "altering" /\ sess[p] /\ IsNext(p, f)
    /\ stmts' = [stmts EXCEPT ![p][f] = @ - 1]
    /\ IF stmts[p][f] = 1
       THEN /\ db' = [db EXCEPT ![f] = snap[p][f]]
            /\ cur' = [cur EXCEPT ![p] = {f}]
            /\ pc' = [pc EXCEPT ![p] = "executed"]
       ELSE /\ db' = [db EXCEPT ![f] = Mixed]
            /\ UNCHANGED <<cur, pc>>
    /\ UNCHANGED <<history, ready, runs, envVars, holder, cmd, phase, sess,
                   snap, todo, vouched, faults, losses>>

\* A statement fails; a concurrent index build leaves an invalid index behind.
SchemaStatementFails(p, f) ==
    /\ pc[p] = "altering" /\ IsNext(p, f)
    /\ IF sess[p] THEN Spend(faults, MaxFaults) ELSE UNCHANGED faults
    /\ \/ UNCHANGED db
       \/ sess[p] /\ db' = [db EXCEPT ![f] = Mixed]
    /\ cur' = [cur EXCEPT ![p] = {f}]
    /\ pc' = [pc EXCEPT ![p] = "broken"]
    /\ UNCHANGED <<history, ready, runs, envVars, holder, cmd, phase, sess,
                   snap, todo, stmts, vouched, losses>>

-----------------------------------------------------------------------------
(* reconcileReference: every file in one transaction *)

ReconcileReference(p) ==
    /\ pc[p] = "entering" /\ phase[p] = "reference"
    /\ cmd[p] \in {"apply", "sync"}
    /\ sess[p] \/ Present(snap[p], "reference") = {}
    /\ db' = [f \in File |-> IF f \in Present(snap[p], "reference")
                             THEN snap[p][f] ELSE db[f]]
    /\ NextPhase(p)
    /\ UNCHANGED <<history, ready, runs, envVars, holder, cmd, sess, snap,
                   todo, cur, stmts, vouched, faults, losses>>

-----------------------------------------------------------------------------
(* Plan walks Apply's phases and collects what is pending *)

\* Faulty: the reference files are not planned.
PlannedInSansReference(p, ph) ==
    IF ph = "schema" THEN Differing(snap[p], ph)
    ELSE IF ph = "reference" THEN {}
    ELSE IF ready THEN Pending(history, snap[p], ph) ELSE Present(snap[p], ph)

PlannedIn(p, ph) ==
    IF ph \in {"schema", "reference"} THEN Differing(snap[p], ph)
    ELSE IF ready THEN Pending(history, snap[p], ph) ELSE Present(snap[p], ph)

\* A plan that ends with nothing pending exits 0; any other exits 2.
PlanPhase(p) ==
    /\ pc[p] = "entering" /\ cmd[p] = "plan" /\ sess[p]
    /\ todo' = [todo EXCEPT ![p] = @ \cup PlannedIn(p, phase[p])]
    /\ NextPhase(p)
    /\ vouched' = \/ vouched
                  \/ pc'[p] = "finished" /\ todo'[p] = {} /\ snap[p] = dir
    /\ UNCHANGED <<dbVars, envVars, holder, cmd, sess, snap, cur, stmts, faults,
                   losses>>

-----------------------------------------------------------------------------
(* The environment *)

\* The server ends the session, or a cancelled context makes pgx close it; the
\* process goes on and finds out at its next query.
Disconnect(p) ==
    /\ sess[p] /\ Spend(losses, MaxLosses)
    /\ sess' = [sess EXCEPT ![p] = FALSE]
    /\ holder' = IF holder = p THEN Nobody ELSE holder
    /\ UNCHANGED <<dbVars, envVars, pc, cmd, phase, snap, todo, cur, stmts,
                   vouched, faults>>

Crash(p) ==
    /\ pc[p] # "idle" /\ Spend(losses, MaxLosses)
    /\ Leave(p)

EditFile(f, c) ==
    /\ dir[f] # c /\ Spend(edits, MaxEdits)
    /\ dir' = [dir EXCEPT ![f] = c]
    /\ vouched' = FALSE
    /\ UNCHANGED <<dbVars, adoptions, drifts, holder, procVars, faults, losses>>

\* A declared object is changed by hand, while no command runs.
Drift(f) ==
    /\ TypeOf[f] \in {"schema", "reference"} /\ db[f] \in Checksum
    /\ holder = Nobody /\ Spend(drifts, MaxDrifts)
    /\ db' = [db EXCEPT ![f] = Mixed]
    /\ vouched' = FALSE
    /\ UNCHANGED <<history, ready, runs, dir, adoptions, edits, holder, procVars,
                   faults, losses>>

-----------------------------------------------------------------------------
\* The steps a process takes by itself once it has been started.
Work(p) ==
    \/ AcquireLock(p) \/ LockRefused(p) \/ EnsureSchema(p) \/ Discover(p)
    \/ ReadHistory(p) \/ SyncAll(p) \/ EnterAdoption(p) \/ PhaseDone(p)
    \/ EnsurePGSchemas(p) \/ BeginPass2(p) \/ ReconcileReference(p)
    \/ PlanPhase(p) \/ CallFails(p) \/ ReleaseLock(p)
    \/ \E f \in File :
          \/ ExecuteMigration(p, f) \/ ExecuteMigrationFails(p, f)
          \/ RecordApplied(p, f) \/ RecordBaseline(p, f)
          \/ TypeOf[f] = "schema" /\ \/ DiffFolder(p, f)
                                     \/ RefuseUnvalidated(p, f)
                                     \/ ExecSchemaStatement(p, f)
                                     \/ SchemaStatementFails(p, f)

Lose(p) ==
    \/ Disconnect(p) \/ Crash(p)
    \/ \E f \in File : RecordLost(p, f) \/ BaselineLost(p, f)

Environment ==
    \E f \in File : Drift(f) \/ \E c \in Content : EditFile(f, c)

Next ==
    \/ \E p \in Proc : Work(p) \/ Lose(p) \/ \E c \in Commands : Start(p, c)
    \/ Environment

Spec == Init /\ [][Next]_vars

-----------------------------------------------------------------------------
(* Properties *)

\* The values the variables may take.
TypeOK ==
    /\ dir \in [File -> Content]
    /\ history \in Seq(HistoryRow)
    /\ ready \in BOOLEAN
    /\ holder \in Proc \cup {Nobody}
    /\ runs \in [OneTime -> Nat]
    /\ db \in [File -> DbState]
    /\ pc \in [Proc -> Control]
    /\ cmd \in [Proc -> {"none"} \cup Commands]
    /\ phase \in [Proc -> Phases]
    /\ sess \in [Proc -> BOOLEAN]
    /\ snap \in [Proc -> [File -> Content]]
    /\ todo \in [Proc -> SUBSET File]
    /\ cur \in [Proc -> SUBSET File]
    /\ stmts \in [Proc -> [Files("schema") -> 0..MaxStatements]]
    /\ vouched \in BOOLEAN
    /\ adoptions \in Nat /\ edits \in Nat /\ drifts \in Nat
    /\ faults \in Nat /\ losses \in Nat

\* The advisory lock is held exactly by the process that is past acquireLock
\* and still has its session.  A process whose session the server has dropped
\* may linger in the middle of a phase, but the lock is not its any more.
LockInv ==
    \A p \in Proc : holder = p <=> sess[p] /\ pc[p] \in Locked

\* At most one process with a live session is between acquireLock and
\* releaseLock, however sessions are lost and processes die.
SerialRuns ==
    \A p, q \in Proc :
        sess[p] /\ pc[p] \in Locked /\ sess[q] /\ pc[q] \in Locked => p = q

\* Whatever m8 writes to the target, the history or an object, is written in a
\* step of the process that holds the lock: a process that has lost its
\* session to the server and lingers in its loops changes nothing.
OnlyHolderWrites ==
    [][ \/ UNCHANGED <<history, runs>> /\ (db' # db => drifts' # drifts)
        \/ \E p \in Proc : holder = p /\ Work(p)
      ]_vars

\* A one-time migration is not executed once its version is in the history,
\* be it from a run, a baseline or a sync: appliedSet, read once on entering
\* the phase and never updated, is still right at every file of the loop.
NeverRerun ==
    [][ \A f \in OneTime :
            runs'[f] # runs[f] => Ordinal[f] \notin AppliedVersions(history, TypeOf[f])
      ]_vars

\* No two one-time files of a folder carry the same version.
DistinctVersions ==
    \A f, g \in OneTime :
        TypeOf[f] = TypeOf[g] /\ Ordinal[f] = Ordinal[g] => f = g

Recorded == {f \in OneTime : Ordinal[f] \in AppliedVersions(history, TypeOf[f])}

\* Executed in a session that is still there to record it.
Owed == {f \in OneTime :
            \E p \in Proc : sess[p] /\ pc[p] = "executed" /\ f \in cur[p]}

\* A one-time migration that is neither recorded nor about to be has run at
\* most once per lost row, session or process, any other at most once more.
RunsArePaidFor ==
    \A f \in OneTime :
        runs[f] <= losses + (IF f \in Recorded \cup Owed THEN 1 ELSE 0)

\* The engine keeps the promise of M8OneTime.
Promise == INSTANCE M8OneTime WITH OneTimeFile <- OneTime,
                                   done <- Recorded, owed <- Owed
KeepsPromise == Promise!Spec

\* While no row is lost, a one-time migration is executed only after every
\* one-time migration of its folder with an earlier version is in the history.
InVersionOrder ==
    [][ \A p \in Proc, f \in OneTime :
            losses = 0 /\ runs'[f] # runs[f] /\ f \in cur'[p] \ cur[p] =>
            \A g \in Present(snap[p], TypeOf[f]) :
                Ordinal[g] < Ordinal[f] =>
                    Ordinal[g] \in AppliedVersions(history, TypeOf[f])
      ]_vars

\* What a run of p declares is what the database holds, except for files that
\* run outside a transaction (see LogicFollowsFile).
Converged(p, types) ==
    \A t \in types : \A f \in Present(snap[p], t) \ NoTx : db'[f] = snap[p][f]

\* Pass 1 is over before pass 2 begins: when a schema statement is executed,
\* every folder of the run that differs from the database has been diffed, so
\* that a refusal is a refusal for the whole run.
EveryFolderDiffedFirst ==
    [][ \A p \in Proc :
            sess[p] /\ stmts'[p] # stmts[p] /\ db' # db =>
            \A g \in Differing(snap[p], "schema") : stmts[p][g] > 0
      ]_vars

\* While no row is lost, a data migration is executed only in a database where
\* the schema, the logic, the permissions and the reference rows of its release
\* are in place and every ops migration is recorded.
DataSeesRelease ==
    [][ \A p \in Proc, f \in Files("data") :
            losses = 0 /\ f \in cur'[p] \ cur[p] /\ pc'[p] = "executed" =>
            /\ Converged(p, {"schema", "logic", "permissions", "reference"})
            /\ \A g \in Present(snap[p], "ops") :
                  Ordinal[g] \in AppliedVersions(history, "ops")
      ]_vars

\* While no row is lost, an apply or a sync that succeeds leaves the database
\* as the files it read declare it and every one-time migration recorded.
SuccessConverges ==
    [][ \A p \in Proc :
            losses = 0 /\ cmd[p] \in {"apply", "sync"}
            /\ pc[p] # "finished" /\ pc'[p] = "finished" =>
            /\ Converged(p, {"schema", "logic", "permissions", "reference"})
            /\ \A t \in {"ops", "data"} : \A f \in Present(snap[p], t) :
                  Ordinal[f] \in AppliedVersions(history', t)
      ]_vars

\* "Re-run whenever file content changes": while no row is lost, an apply that
\* succeeds leaves of every logic and permissions file the content it read.
LogicFollowsFile ==
    [][ \A p \in Proc :
            losses = 0 /\ cmd[p] = "apply" /\ pc[p] # "finished" /\ pc'[p] = "finished" =>
            \A t \in {"logic", "permissions"} : \A f \in Present(snap[p], t) :
                db'[f] = snap[p][f]
      ]_vars

\* After a plan that exits 0, and until someone edits a file or touches the
\* database, an apply writes neither history rows nor objects.
CleanPlanHolds ==
    [][ vouched /\ vouched' /\ (\A p \in Proc : cmd[p] \notin {"sync", "baseline"})
        => UNCHANGED <<history, runs, db>> ]_vars

\* A file's execution failed after its newest successful row was written.
FailedSince(f) ==
    \E i \in DOMAIN history :
        /\ history[i].name = f /\ ~history[i].success
        /\ \A j \in Succeeded(history, TypeOf[f]) : history[j].name = f => j < i

\* What no apply will run again: the newest successful row of a logic or
\* permissions file already carries the directory's content, though a later
\* execution of it failed half-way outside a transaction or went unrecorded.
\* It takes a content put back by a second edit, or a sync, which executes
\* what is recorded already.
Stranded(f) ==
    /\ TypeOf[f] \in {"logic", "permissions"}
    /\ IsLatest(history, TypeOf[f], f, dir[f])
    /\ edits >= 2 \/ adoptions > 0
    /\ \/ losses > 0
       \/ f \in NoTx /\ db[f] = Mixed /\ FailedSince(f)

\* A process that can go on by itself does.  An operator, or a pipeline, keeps
\* invoking apply, whatever other commands are invoked in between.
RetrySpec ==
    Spec /\ \A p \in Proc : WF_vars(Work(p)) /\ SF_vars(Start(p, "apply"))

\* Every command that is started comes to an end: the lock is tried, never
\* waited for, and no loop waits for another process.
CommandsEnd == \A p \in Proc : pc[p] # "idle" ~> pc[p] = "idle"

\* If apply is retried for ever, and nothing is baselined, then once the
\* faults, the losses, the edits and the changes by hand are over the schema
\* and the reference rows converge and stay converged, every one-time migration
\* is recorded, and so does every logic and permissions file that is not
\* stranded.  That last exception is a limit of the code (engine.go:809), the
\* one LogicFollowsFile shows: retrying does not converge there.
RetriesConverge ==
    <>[] /\ \A t \in {"schema", "reference"} :
              \A f \in Present(dir, t) : db[f] = dir[f]
         /\ \A t \in {"logic", "permissions"} :
              \A f \in Present(dir, t) : db[f] = dir[f] \/ Stranded(f)
         /\ \A t \in {"ops", "data"} : Pending(history, dir, t) = {}

=============================================================================
