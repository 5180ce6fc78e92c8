------------------------ MODULE M8EnginePhaseProofs ------------------------
(***************************************************************************)
(* The phases of a run of M8Engine: what a process that works through      *)
(* ops, schema, logic, permissions, reference and data knows of the        *)
(* database, and why nobody takes it away from it.  Proofs for every set   *)
(* of processes, files and contents and every bound.                       *)
(***************************************************************************)
EXTENDS M8EngineProofs

-----------------------------------------------------------------------------
(* One process among the others *)

\* Inside the lock, in a session the server still knows.
Live(p) == sess[p] /\ pc[p] \in Locked

\* Nothing of p's own state changes.
Still(p) ==
    /\ pc'[p] = pc[p] /\ cmd'[p] = cmd[p] /\ phase'[p] = phase[p]
    /\ sess'[p] = sess[p] /\ snap'[p] = snap[p] /\ todo'[p] = todo[p]
    /\ cur'[p] = cur[p] /\ stmts'[p] = stmts[p]

LEMMA OthersStandStill ==
    ASSUME TypeInv, NEW p \in Proc, NEW q \in Proc \ {p},
           Work(q) \/ Lose(q) \/ \E c \in Commands : Start(q, c)
    PROVE  Still(p)
  <1> USE DEF Still, TypeInv, TypeOK
  <1>1. CASE \/ AcquireLock(q) \/ EnsureSchema(q) \/ Discover(q) \/ ReadHistory(q)
             \/ SyncAll(q) \/ EnterAdoption(q) \/ BeginPass2(q) \/ CallFails(q)
    BY <1>1 DEF AcquireLock, EnsureSchema, Discover, ReadHistory, SyncAll, EnterAdoption,
       BeginPass2, CallFails
  <1>2. CASE LockRefused(q) \/ ReleaseLock(q) \/ Crash(q)
    BY <1>2 DEF LockRefused, ReleaseLock, Crash, Leave
  <1>3. CASE PhaseDone(q) \/ ReconcileReference(q) \/ PlanPhase(q)
    BY <1>3, NextPhaseMoves DEF PhaseDone, ReconcileReference, PlanPhase
  <1>4. CASE EnsurePGSchemas(q)
    BY <1>4 DEF EnsurePGSchemas
  <1>5. ASSUME NEW f \in File,
               ExecuteMigration(q, f) \/ ExecuteMigrationFails(q, f)
        PROVE  Still(p)
    BY <1>5 DEF ExecuteMigration, ExecuteMigrationFails
  <1>6. ASSUME NEW f \in File,
               \/ RecordApplied(q, f) \/ RecordBaseline(q, f)
               \/ RecordLost(q, f) \/ BaselineLost(q, f)
        PROVE  Still(p)
    BY <1>6 DEF RecordApplied, RecordBaseline, RecordLost, BaselineLost
  <1>7. ASSUME NEW f \in File, DiffFolder(q, f) \/ RefuseUnvalidated(q, f)
        PROVE  Still(p)
    BY <1>7 DEF DiffFolder, RefuseUnvalidated
  <1>8. ASSUME NEW f \in File, ExecSchemaStatement(q, f) \/ SchemaStatementFails(q, f)
        PROVE  Still(p)
    BY <1>8 DEF ExecSchemaStatement, SchemaStatementFails
  <1>9. CASE Disconnect(q)
    BY <1>9 DEF Disconnect
  <1>10. ASSUME NEW c \in Commands, Start(q, c) PROVE Still(p)
    BY <1>10 DEF Start
  <1> QED
    BY <1>1, <1>2, <1>3, <1>4, <1>5, <1>6, <1>7, <1>8, <1>9, <1>10 DEF Work, Lose

\* The state schema is bootstrapped under the lock as well.
LEMMA BootstrapHappensLocked ==
    ASSUME NEW p \in Proc, Work(p)
    PROVE  ready' = ready \/ Live(p)
  <1>1. CASE \/ AcquireLock(p) \/ LockRefused(p) \/ Discover(p) \/ ReadHistory(p)
             \/ SyncAll(p) \/ EnterAdoption(p) \/ PhaseDone(p) \/ EnsurePGSchemas(p)
             \/ BeginPass2(p) \/ ReconcileReference(p) \/ PlanPhase(p) \/ CallFails(p)
             \/ ReleaseLock(p)
    BY <1>1 DEF AcquireLock, LockRefused, Discover, ReadHistory, SyncAll, EnterAdoption,
       PhaseDone, EnsurePGSchemas, BeginPass2, ReconcileReference, PlanPhase, CallFails,
       ReleaseLock, Leave, dbVars
  <1>2. ASSUME NEW f \in File,
               \/ ExecuteMigration(p, f) \/ ExecuteMigrationFails(p, f)
               \/ RecordApplied(p, f) \/ RecordBaseline(p, f)
               \/ DiffFolder(p, f) \/ RefuseUnvalidated(p, f)
               \/ ExecSchemaStatement(p, f) \/ SchemaStatementFails(p, f)
        PROVE  ready' = ready
    BY <1>2 DEF ExecuteMigration, ExecuteMigrationFails, RecordApplied, RecordBaseline,
       DiffFolder, RefuseUnvalidated, ExecSchemaStatement, SchemaStatementFails, dbVars
  <1>3. CASE EnsureSchema(p)
    BY <1>3 DEF EnsureSchema, Live, Locked
  <1> QED
    BY <1>1, <1>2, <1>3 DEF Work

\* While p is live, only p's own steps change the target, or p's state.
LEMMA TheHolderIsAlone ==
    ASSUME TypeInv, LockInv, NEW p \in Proc, Live(p), [Next]_vars,
           ~Work(p), ~Lose(p)
    PROVE  Still(p) /\ UNCHANGED <<history, runs, db, ready>>
  <1>1. \A q \in Proc \ {p} : ~Live(q)
    BY DEF LockInv, Live
  <1>2. holder = p /\ holder # Nobody
    BY EngineAssumption DEF LockInv, Live
  <1>3. ASSUME NEW q \in Proc \ {p}, Work(q)
        PROVE  UNCHANGED <<history, runs, db, ready>>
    BY <1>1, <1>3, WritesHappenLocked, BootstrapHappensLocked DEF Live
  <1>4. ASSUME NEW q \in Proc, q # p, Lose(q) PROVE UNCHANGED <<history, runs, db, ready>>
    BY <1>4 DEF Lose, Disconnect, Crash, RecordLost, BaselineLost, Leave, dbVars
  <1>5. ASSUME NEW q \in Proc, NEW c \in Commands, Start(q, c)
        PROVE  UNCHANGED <<history, runs, db, ready>> /\ q # p
    BY <1>5 DEF Start, dbVars, Live, Locked
  <1>6. CASE Environment
    BY <1>2, <1>6 DEF Environment, Drift, EditFile, dbVars, procVars, Still
  <1>7. CASE UNCHANGED vars
    BY <1>7 DEF vars, Still
  <1>8. ASSUME NEW q \in Proc \ {p},
               Work(q) \/ Lose(q) \/ \E c \in Commands : Start(q, c)
        PROVE  Still(p) /\ UNCHANGED <<history, runs, db, ready>>
    BY <1>3, <1>4, <1>5, <1>8, OthersStandStill
  <1> QED
    BY <1>5, <1>6, <1>7, <1>8 DEF Next

\* A process becomes live by acquiring the lock and in no other way.
LEMMA LiveByLocking ==
    ASSUME TypeInv, NEW p \in Proc, ~Live(p), Live(p)', [Next]_vars
    PROVE  AcquireLock(p)
  <1> USE DEF Live, TypeInv, TypeOK
  <1>1. ~Still(p)
    BY DEF Still
  <1>2. Work(p) \/ Lose(p) \/ \E c \in Commands : Start(p, c)
    <2>1. CASE Environment
      BY <1>1, <2>1 DEF Environment, Drift, EditFile, procVars, Still
    <2>2. CASE UNCHANGED vars
      BY <1>1, <2>2 DEF vars, Still
    <2> QED
      BY <1>1, <2>1, <2>2, OthersStandStill DEF Next
  <1>3. pc[p] \notin Locked => pc[p] \in {"idle", "locking"}
    BY DEF Control
  <1>4. sess'[p] = TRUE /\ pc'[p] \in Locked
    OBVIOUS
  <1>5. ASSUME NEW c \in Commands, Start(p, c) PROVE FALSE
    BY <1>4, <1>5 DEF Start, Locked
  <1>6. ASSUME Lose(p) PROVE FALSE
    <2>1. CASE Disconnect(p)
      BY <1>4, <2>1 DEF Disconnect
    <2>2. CASE Crash(p)
      BY <1>4, <2>2 DEF Crash, Leave
    <2>3. ASSUME NEW f \in File, RecordLost(p, f) \/ BaselineLost(p, f) PROVE FALSE
      BY <2>3 DEF RecordLost, BaselineLost, Locked
    <2> QED
      BY <1>6, <2>1, <2>2, <2>3 DEF Lose
  <1>7. ASSUME Work(p), ~AcquireLock(p) PROVE FALSE
    <2>1. CASE LockRefused(p) \/ ReleaseLock(p)
      BY <1>4, <2>1 DEF LockRefused, ReleaseLock, Leave
    <2>2. sess'[p] = sess[p] \/ LockRefused(p) \/ ReleaseLock(p)
      BY <1>7 DEF Work, AcquireLock, EnsureSchema, Discover, ReadHistory, SyncAll,
         EnterAdoption, PhaseDone, EnsurePGSchemas, BeginPass2, ReconcileReference,
         PlanPhase, CallFails, ExecuteMigration, ExecuteMigrationFails, RecordApplied,
         RecordBaseline, DiffFolder, RefuseUnvalidated, ExecSchemaStatement,
         SchemaStatementFails
    <2>3. pc[p] \in {"idle", "locking"} => LockRefused(p)
      BY <1>7 DEF Work, AcquireLock, EnsureSchema, Discover, ReadHistory, SyncAll,
         EnterAdoption, PhaseDone, EnsurePGSchemas, BeginPass2, ReconcileReference,
         PlanPhase, CallFails, ExecuteMigration, ExecuteMigrationFails, RecordApplied,
         RecordBaseline, DiffFolder, RefuseUnvalidated, ExecSchemaStatement,
         SchemaStatementFails, ReleaseLock
    <2> QED
      BY <1>3, <1>4, <2>1, <2>2, <2>3
  <1> QED
    BY <1>2, <1>5, <1>6, <1>7

-----------------------------------------------------------------------------
(* Where a command can be *)

\* In pass 2 of applySchema, or in a loop of executeMigration.
AtSchema(p) == pc[p] \in {"executed", "broken"} /\ phase[p] = "schema"
InLoop(p) ==
    pc[p] = "looping" \/ (pc[p] \in {"executed", "broken"} /\ phase[p] # "schema")

\* The control flow of the four commands: which of them gets to which loop, in
\* which phase, over the files of which folder.
Shape(p) ==
    /\ pc[p] \in {"idle", "locking", "ensuring", "discovering"} => phase[p] = "ops"
    /\ cmd[p] # "baseline" => phase[p] # "all"
    /\ pc[p] = "idle" => cmd[p] = "none"
    /\ InLoop(p) =>
          /\ todo[p] \subseteq Files(phase[p])
          /\ \/ cmd[p] = "apply" /\ phase[p] \in {"ops", "logic", "permissions", "data"}
             \/ cmd[p] = "sync" /\ phase[p] \in {"logic", "permissions"}
    /\ pc[p] = "adopting" =>
          \/ cmd[p] = "baseline"
          \/ /\ cmd[p] = "sync" /\ phase[p] \in {"ops", "data"}
             /\ todo[p] \subseteq Files(phase[p])
    /\ pc[p] \in {"diffing", "altering"} \/ AtSchema(p) => cmd[p] \in {"apply", "sync"}
    /\ cmd[p] = "plan" => \A f \in Files("schema") : stmts[p][f] = 0

ShapeInv == \A p \in Proc : Shape(p)

LEMMA NextPhaseTo ==
    ASSUME TypeOK, NEW p \in Proc, NextPhase(p)
    PROVE  \/ PhaseAfter(cmd[p], phase[p]) = "none" /\ pc'[p] = "finished" /\ phase' = phase
           \/ /\ PhaseAfter(cmd[p], phase[p]) \in Types /\ pc'[p] = "entering"
              /\ phase'[p] = PhaseAfter(cmd[p], phase[p])
  <1>1. PhaseAfter(cmd[p], phase[p]) \in Types \cup {"none"}
    BY DEF PhaseAfter, Types
  <1> QED
    BY <1>1 DEF NextPhase, TypeOK, Types

LEMMA ShapeWork ==
    ASSUME TypeInv, NEW p \in Proc, Shape(p), Work(p)
    PROVE  Shape(p)'
  <1> USE DEF Shape, InLoop, AtSchema, TypeInv, TypeOK
  <1>1. CASE AcquireLock(p) \/ EnsureSchema(p)
    BY <1>1 DEF AcquireLock, EnsureSchema
  <1>2. CASE LockRefused(p) \/ ReleaseLock(p)
    BY <1>2 DEF LockRefused, ReleaseLock, Leave
  <1>3. CASE Discover(p)
    BY <1>3 DEF Discover
  <1>4. CASE ReadHistory(p) \/ SyncAll(p)
    BY <1>4 DEF ReadHistory, SyncAll, Pending, Present
  <1>5. CASE EnterAdoption(p)
    BY <1>5 DEF EnterAdoption, Present
  <1>6. CASE PhaseDone(p) \/ ReconcileReference(p) \/ PlanPhase(p)
    <2>1. /\ pc'[p] \in {"finished", "entering"}
          /\ phase'[p] = phase[p] \/ phase'[p] \in Types
          /\ UNCHANGED <<cmd, stmts>>
      BY <1>6, NextPhaseTo DEF PhaseDone, ReconcileReference, PlanPhase
    <2> QED
      BY <2>1 DEF Types
  <1>7. CASE EnsurePGSchemas(p)
    BY <1>7 DEF EnsurePGSchemas
  <1>8. CASE BeginPass2(p) \/ CallFails(p)
    BY <1>8 DEF BeginPass2, CallFails
  <1>9. ASSUME NEW f \in File, ExecuteMigration(p, f) \/ ExecuteMigrationFails(p, f)
        PROVE  Shape(p)'
    BY <1>9 DEF ExecuteMigration, ExecuteMigrationFails, LocalInv
  <1>10. ASSUME NEW f \in File, RecordApplied(p, f) \/ RecordBaseline(p, f)
         PROVE  Shape(p)'
    <2>1. CASE RecordApplied(p, f)
      BY <2>1 DEF RecordApplied, AfterRecord
    <2>2. CASE RecordBaseline(p, f)
      <3>1. /\ pc[p] = "adopting" /\ pc'[p] \in {"adopting", "aborted"}
            /\ todo'[p] \subseteq todo[p] /\ UNCHANGED <<cmd, phase, stmts>>
        BY <2>2 DEF RecordBaseline
      <3> QED
        BY <3>1
    <2> QED
      BY <1>10, <2>1, <2>2
  <1>11. ASSUME NEW f \in File, TypeOf[f] = "schema",
                DiffFolder(p, f) \/ RefuseUnvalidated(p, f)
         PROVE  Shape(p)'
    BY <1>11 DEF DiffFolder, RefuseUnvalidated
  <1>12. ASSUME NEW f \in File, TypeOf[f] = "schema",
                ExecSchemaStatement(p, f) \/ SchemaStatementFails(p, f)
         PROVE  Shape(p)'
    BY <1>12 DEF ExecSchemaStatement, SchemaStatementFails, LocalInv
  <1> QED
    BY <1>1, <1>2, <1>3, <1>4, <1>5, <1>6, <1>7, <1>8, <1>9, <1>10, <1>11, <1>12 DEF Work

LEMMA ShapeLose ==
    ASSUME TypeInv, NEW p \in Proc, Shape(p), Lose(p)
    PROVE  Shape(p)'
  <1> USE DEF Shape, InLoop, AtSchema, TypeInv, TypeOK
  <1>1. CASE Disconnect(p)
    BY <1>1 DEF Disconnect
  <1>2. CASE Crash(p)
    BY <1>2 DEF Crash, Leave
  <1>3. ASSUME NEW f \in File, RecordLost(p, f) \/ BaselineLost(p, f) PROVE Shape(p)'
    BY <1>3 DEF RecordLost, BaselineLost, AfterRecord
  <1> QED
    BY <1>1, <1>2, <1>3 DEF Lose

LEMMA ShapeStep ==
    ASSUME TypeInv, ShapeInv, [Next]_vars
    PROVE  ShapeInv'
  <1> SUFFICES ASSUME NEW p \in Proc PROVE Shape(p)'
    BY DEF ShapeInv
  <1>1. Shape(p)
    BY DEF ShapeInv
  <1>2. Still(p) => Shape(p)'
    BY <1>1 DEF Still, Shape, InLoop, AtSchema
  <1>3. ASSUME NEW c \in Commands, Start(p, c) PROVE Shape(p)'
    BY <1>1, <1>3, EngineAssumption
       DEF Start, Shape, InLoop, AtSchema, TypeInv, TypeOK, LocalInv
  <1>4. CASE Environment
    BY <1>2, <1>4 DEF Environment, Drift, EditFile, procVars, Still
  <1>5. CASE UNCHANGED vars
    BY <1>2, <1>5 DEF vars, Still
  <1> QED
    BY <1>1, <1>2, <1>3, <1>4, <1>5, ShapeWork, ShapeLose, OthersStandStill DEF Next

\* Without losses every process that is running has its session.
CalmInv == losses = 0 => \A p \in Proc : pc[p] # "idle" => sess[p]

LEMMA CalmStep ==
    ASSUME TypeInv, CalmInv, [Next]_vars
    PROVE  CalmInv' /\ (losses' = 0 => losses = 0 /\ \A p \in Proc : ~Lose(p))
  <1> USE DEF TypeInv, TypeOK
  <1>1. ASSUME NEW p \in Proc, Lose(p) PROVE losses' # 0
    BY <1>1 DEF Lose, Disconnect, Crash, RecordLost, BaselineLost, Spend
  <1>2. ASSUME NEW p \in Proc, Work(p)
        PROVE  /\ losses' = losses
               /\ pc[p] # "idle" \/ pc'[p] = "idle"
               /\ sess'[p] = sess[p] \/ pc'[p] = "idle"
    <2>1. CASE LockRefused(p) \/ ReleaseLock(p)
      BY <2>1 DEF LockRefused, ReleaseLock, Leave
    <2>2. CASE ~(LockRefused(p) \/ ReleaseLock(p))
      BY <1>2, <2>2 DEF Work, AcquireLock, EnsureSchema, Discover, ReadHistory, SyncAll,
         EnterAdoption, PhaseDone, EnsurePGSchemas, BeginPass2, ReconcileReference,
         PlanPhase, CallFails, ExecuteMigration, ExecuteMigrationFails, RecordApplied,
         RecordBaseline, DiffFolder, RefuseUnvalidated, ExecSchemaStatement,
         SchemaStatementFails
    <2> QED
      BY <2>1, <2>2
  <1>3. ASSUME NEW p \in Proc, NEW c \in Commands, Start(p, c)
        PROVE  losses' = losses /\ sess'[p]
    BY <1>3 DEF Start
  <1>4. CASE Environment
    BY <1>1, <1>4 DEF Environment, Drift, EditFile, procVars, CalmInv
  <1>5. CASE UNCHANGED vars
    BY <1>1, <1>5 DEF vars, CalmInv
  <1>6. ASSUME NEW q \in Proc,
               Work(q) \/ Lose(q) \/ \E c \in Commands : Start(q, c)
        PROVE  CalmInv' /\ (losses' = 0 => losses = 0 /\ \A p \in Proc : ~Lose(p))
    <2>1. \A p \in Proc \ {q} : Still(p)
      BY <1>6, OthersStandStill
    <2> QED
      BY <1>1, <1>2, <1>3, <1>6, <2>1 DEF CalmInv, Still
  <1> QED
    BY <1>4, <1>5, <1>6 DEF Next

-----------------------------------------------------------------------------
(* Pass 1 and pass 2 of applySchema *)

\* A folder that differs from the database is either still to be diffed or has
\* statements to be executed; in pass 2 it is on the list.
Diffed(p) ==
    /\ \A f \in Present(snap[p], "schema") : db[f] # snap[p][f] =>
          /\ pc[p] = "diffing" => f \in todo[p] \/ stmts[p][f] > 0
          /\ pc[p] = "altering" \/ AtSchema(p) => f \in todo[p] /\ stmts[p][f] > 0
    /\ pc[p] = "executed" /\ phase[p] = "schema" => \A f \in cur[p] : db[f] = snap[p][f]

DiffedInv == \A p \in Proc : Live(p) => Diffed(p)

LEMMA DiffedWork ==
    ASSUME TypeInv, NEW p \in Proc, Shape(p), Diffed(p), Work(p)
    PROVE  Diffed(p)'
  <1> USE DEF Diffed, AtSchema, TypeInv, TypeOK
  <1>1. CASE \/ AcquireLock(p) \/ EnsureSchema(p) \/ Discover(p) \/ ReadHistory(p)
             \/ SyncAll(p) \/ EnterAdoption(p) \/ CallFails(p)
    <2>1. pc'[p] \in {"ensuring", "discovering", "entering", "looping", "adopting", "aborted"}
      BY <1>1 DEF AcquireLock, EnsureSchema, Discover, ReadHistory, SyncAll,
         EnterAdoption, CallFails
    <2> QED
      BY <2>1
  <1>2. CASE LockRefused(p) \/ ReleaseLock(p)
    BY <1>2 DEF LockRefused, ReleaseLock, Leave
  <1>3. CASE PhaseDone(p) \/ ReconcileReference(p) \/ PlanPhase(p)
    <2>1. pc'[p] \in {"finished", "entering"}
      BY <1>3, NextPhaseTo DEF PhaseDone, ReconcileReference, PlanPhase
    <2> QED
      BY <2>1
  <1>4. CASE EnsurePGSchemas(p)
    <2>1. /\ pc'[p] \in {"diffing", "aborted"} /\ UNCHANGED snap
          /\ pc'[p] = "diffing" => todo'[p] = Present(snap[p], "schema")
      BY <1>4 DEF EnsurePGSchemas
    <2> QED
      BY <2>1
  <1>5. CASE BeginPass2(p)
    BY <1>5 DEF BeginPass2, Present, dbVars
  <1>6. ASSUME NEW f \in File, ExecuteMigration(p, f) \/ ExecuteMigrationFails(p, f)
        PROVE  Diffed(p)'
    <2>1. pc'[p] \in {"executed", "broken"} /\ phase'[p] # "schema"
      BY <1>6 DEF ExecuteMigration, ExecuteMigrationFails, LocalInv
    <2> QED
      BY <2>1
  <1>7. ASSUME NEW f \in File, RecordApplied(p, f) PROVE Diffed(p)'
    <2>1. /\ pc[p] \in {"executed", "broken"} /\ f \in cur[p]
          /\ pc'[p] \in {"aborted", "altering", "looping"}
          /\ pc'[p] = "altering" => pc[p] = "executed" /\ phase[p] = "schema"
          /\ todo'[p] = todo[p] \ {f} /\ UNCHANGED <<db, snap, stmts, phase>>
      BY <1>7 DEF RecordApplied, AfterRecord
    <2> QED
      BY <2>1
  <1>8. ASSUME NEW f \in File, RecordBaseline(p, f) \/ RefuseUnvalidated(p, f)
        PROVE  Diffed(p)'
    <2>1. pc'[p] \in {"adopting", "aborted"}
      BY <1>8 DEF RecordBaseline, RefuseUnvalidated
    <2> QED
      BY <2>1
  <1>9. ASSUME NEW f \in File, TypeOf[f] = "schema", DiffFolder(p, f)
        PROVE  Diffed(p)'
    <2>1. /\ pc[p] = "diffing" /\ UNCHANGED <<db, snap, pc, phase>>
          /\ todo'[p] = todo[p] \ {f} /\ f \in Files("schema")
      BY <1>9 DEF DiffFolder, dbVars, Files
    <2>2. PICK n \in 0..MaxStatements :
             (n = 0 <=> db[f] = snap[p][f]) /\ stmts' = [stmts EXCEPT ![p][f] = n]
      BY <1>9 DEF DiffFolder
    <2>3. /\ n = 0 \/ n > 0
          /\ stmts'[p][f] = n /\ \A g \in Files("schema") \ {f} : stmts'[p][g] = stmts[p][g]
      BY <2>1, <2>2, EngineAssumption
    <2> QED
      BY <2>1, <2>2, <2>3 DEF Present
  <1>10. ASSUME NEW f \in File, TypeOf[f] = "schema", ExecSchemaStatement(p, f)
         PROVE  Diffed(p)'
    <2>1. /\ pc[p] = "altering" /\ f \in todo[p] /\ f \in Files("schema")
          /\ phase[p] = "schema" /\ cur[p] = {} /\ UNCHANGED <<snap, todo, phase>>
      BY <1>10 DEF ExecSchemaStatement, IsNext, Files, LocalInv
    <2>2. stmts[p][f] > 0 /\ stmts[p][f] \in Nat
      BY <2>1, EngineAssumption DEF LocalInv
    <2>3. /\ \A g \in Files("schema") \ {f} : stmts'[p][g] = stmts[p][g] /\ db'[g] = db[g]
          /\ stmts'[p][f] = stmts[p][f] - 1
          /\ \/ db'[f] = snap[p][f] /\ pc'[p] = "executed" /\ cur'[p] = {f}
             \/ stmts[p][f] # 1 /\ pc'[p] = "altering"
      <3>1. CASE stmts[p][f] = 1
        BY <1>10, <2>1, <3>1 DEF ExecSchemaStatement, Files
      <3>2. CASE stmts[p][f] # 1
        BY <1>10, <2>1, <3>2 DEF ExecSchemaStatement, Files
      <3> QED
        BY <3>1, <3>2
    <2> QED
      BY <2>1, <2>2, <2>3 DEF Present
  <1>11. ASSUME NEW f \in File, TypeOf[f] = "schema", SchemaStatementFails(p, f)
         PROVE  Diffed(p)'
    <2>1. /\ pc[p] = "altering" /\ f \in todo[p] /\ f \in Files("schema")
          /\ pc'[p] = "broken" /\ cur[p] = {} /\ UNCHANGED <<snap, todo, phase, stmts>>
          /\ \A g \in File \ {f} : db'[g] = db[g]
      BY <1>11 DEF SchemaStatementFails, IsNext, Files, LocalInv
    <2>2. stmts[p][f] > 0
      BY <2>1 DEF LocalInv
    <2> QED
      BY <2>1, <2>2 DEF Present, Files
  <1> QED
    BY <1>1, <1>2, <1>3, <1>4, <1>5, <1>6, <1>7, <1>8, <1>9, <1>10, <1>11 DEF Work

LEMMA DiffedLose ==
    ASSUME TypeInv, NEW p \in Proc, Diffed(p), Lose(p)
    PROVE  Diffed(p)'
  <1> USE DEF Diffed, AtSchema, TypeInv, TypeOK
  <1>1. CASE Disconnect(p)
    BY <1>1 DEF Disconnect, dbVars
  <1>2. CASE Crash(p)
    BY <1>2 DEF Crash, Leave
  <1>3. ASSUME NEW f \in File, RecordLost(p, f) PROVE Diffed(p)'
    <2>1. /\ pc[p] \in {"executed", "broken"} /\ f \in cur[p]
          /\ pc'[p] \in {"aborted", "altering", "looping"}
          /\ pc'[p] = "altering" => pc[p] = "executed" /\ phase[p] = "schema"
          /\ todo'[p] = todo[p] \ {f} /\ UNCHANGED <<db, snap, stmts, phase>>
      BY <1>3 DEF RecordLost, AfterRecord, dbVars
    <2> QED
      BY <2>1
  <1>4. ASSUME NEW f \in File, BaselineLost(p, f) PROVE Diffed(p)'
    <2>1. pc'[p] \in {"adopting", "aborted"}
      BY <1>4 DEF BaselineLost
    <2> QED
      BY <2>1
  <1> QED
    BY <1>1, <1>2, <1>3, <1>4 DEF Lose

LEMMA DiffedStep ==
    ASSUME TypeInv, LockInv, ShapeInv, DiffedInv, [Next]_vars
    PROVE  DiffedInv'
  <1> SUFFICES ASSUME NEW p \in Proc, Live(p)' PROVE Diffed(p)'
    BY DEF DiffedInv
  <1>1. CASE ~Live(p)
    <2>1. pc'[p] \in {"ensuring", "discovering"}
      BY <1>1, LiveByLocking DEF AcquireLock, TypeInv, TypeOK
    <2> QED
      BY <2>1 DEF Diffed, AtSchema
  <1>2. CASE Live(p) /\ (Work(p) \/ Lose(p))
    BY <1>2, DiffedWork, DiffedLose DEF DiffedInv, ShapeInv
  <1>3. CASE Live(p) /\ ~Work(p) /\ ~Lose(p)
    BY <1>3, TheHolderIsAlone DEF DiffedInv, Diffed, AtSchema, Still
  <1> QED
    BY <1>1, <1>2, <1>3

LEMMA FlowInit ==
    ASSUME Init
    PROVE  TypeInv /\ LockInv /\ ShapeInv /\ CalmInv /\ DiffedInv
  <1>1. LockInv
    BY EngineAssumption DEF Init, LockInv, Locked
  <1>2. ShapeInv /\ CalmInv /\ DiffedInv
    BY DEF Init, ShapeInv, Shape, InLoop, AtSchema, CalmInv, DiffedInv, Live
  <1> QED
    BY <1>1, <1>2, TypeInvInit

\* What holds of the flow of every run, whatever is lost.
FlowInv == TypeInv /\ LockInv /\ ShapeInv /\ CalmInv /\ DiffedInv

LEMMA FlowInvAlways == Spec => []FlowInv
  <1>1. FlowInv /\ [Next]_vars => FlowInv'
    BY TypeInvStep, LockInvStep, ShapeStep, CalmStep, DiffedStep DEF FlowInv
  <1>2. Init => FlowInv
    BY FlowInit DEF FlowInv
  <1> QED
    BY <1>1, <1>2, PTL DEF Spec

\* Only a statement of pass 2 both changes p's plan and the database.
LEMMA OnlyPass2Alters ==
    ASSUME TypeInv, NEW p \in Proc, Next, stmts'[p] # stmts[p], db' # db
    PROVE  pc[p] = "altering"
  <1>1. Work(p) \/ Lose(p) \/ \E c \in Commands : Start(p, c)
    <2>1. ~Still(p)
      BY DEF Still
    <2>2. ~Environment
      BY DEF Environment, Drift, EditFile, procVars
    <2> QED
      BY <2>1, <2>2, OthersStandStill DEF Next
  <1>2. ASSUME Lose(p) \/ \E c \in Commands : Start(p, c) PROVE FALSE
    BY <1>2 DEF Lose, Disconnect, Crash, RecordLost, BaselineLost, Leave, dbVars, Start
  <1>3. CASE Work(p)
    <2>1. CASE LockRefused(p) \/ ReleaseLock(p)
      BY <2>1 DEF LockRefused, ReleaseLock, Leave, dbVars
    <2>2. ASSUME NEW f \in File, DiffFolder(p, f) PROVE FALSE
      BY <2>2 DEF DiffFolder, dbVars
    <2>3. ASSUME NEW f \in File, ExecSchemaStatement(p, f) PROVE pc[p] = "altering"
      BY <2>3 DEF ExecSchemaStatement
    <2> QED
      BY <1>3, <2>1, <2>2, <2>3 DEF Work, AcquireLock, EnsureSchema, Discover, ReadHistory,
         SyncAll, EnterAdoption, PhaseDone, EnsurePGSchemas, BeginPass2,
         ReconcileReference, PlanPhase, CallFails, ExecuteMigration,
         ExecuteMigrationFails, RecordApplied, RecordBaseline, RefuseUnvalidated,
         SchemaStatementFails
  <1> QED
    BY <1>1, <1>2, <1>3

\* Pass 1 diffs every folder of the run before pass 2 executes a statement, so
\* that a refused plan is a refusal for the whole run: whoever is at work in
\* pass 2 has statements for every folder that differs from the database.
THEOREM FoldersAreDiffedFirst == Spec => EveryFolderDiffedFirst
  <1> DEFINE Rule == \A p \in Proc :
                sess[p] /\ stmts'[p] # stmts[p] /\ db' # db =>
                \A g \in Differing(snap[p], "schema") : stmts[p][g] > 0
  <1>1. ASSUME FlowInv, [Next]_vars PROVE [Rule]_vars
    <2>1. ASSUME Next, NEW p \in Proc, sess[p], stmts'[p] # stmts[p], db' # db
          PROVE  \A g \in Differing(snap[p], "schema") : stmts[p][g] > 0
      <3>1. pc[p] = "altering"
        BY <1>1, <2>1, OnlyPass2Alters DEF FlowInv
      <3>2. Diffed(p)
        BY <1>1, <2>1, <3>1 DEF FlowInv, DiffedInv, Live, Locked
      <3> QED
        BY <3>1, <3>2 DEF Diffed, Differing
    <2> QED
      BY <1>1, <2>1
  <1> QED
    BY <1>1, FlowInvAlways, PTL DEF Spec, EveryFolderDiffedFirst

-----------------------------------------------------------------------------
(* The phases a run has behind it *)

\* The phases c has been through when it gets to ph.
Passed(c, ph) ==
    LET early == IF c = "sync" THEN {"ops", "data"} ELSE {"ops"} IN
    CASE ph = "schema"      -> early
      [] ph = "logic"       -> early \cup {"schema"}
      [] ph = "permissions" -> early \cup {"schema", "logic"}
      [] ph = "reference"   -> early \cup {"schema", "logic", "permissions"}
      [] ph = "data"        -> IF c = "sync" THEN {"ops"} ELSE Types \ {"data"}
      [] OTHER              -> {}

\* PhaseAfter goes through all the phases and through each of them once.
LEMMA PassedGrows ==
    ASSUME NEW c, NEW ph \in Types
    PROVE  LET n == PhaseAfter(c, ph) IN
           Passed(c, ph) \cup {ph} = IF n = "none" THEN Types ELSE Passed(c, n)
  <1>1. CASE ph = "ops"
    BY <1>1 DEF PhaseAfter, Passed
  <1>2. CASE ph = "schema"
    BY <1>2 DEF PhaseAfter, Passed
  <1>3. CASE ph = "logic"
    BY <1>3 DEF PhaseAfter, Passed
  <1>4. CASE ph = "permissions"
    BY <1>4 DEF PhaseAfter, Passed
  <1>5. CASE ph = "reference"
    BY <1>5 DEF PhaseAfter, Passed, Types
  <1>6. CASE ph = "data"
    BY <1>6 DEF PhaseAfter, Passed, Types
  <1> QED
    BY <1>1, <1>2, <1>3, <1>4, <1>5, <1>6 DEF Types

\* What the process has behind it, and all of it once it has succeeded.
Behind(p) == Passed(cmd[p], phase[p])

Working == {"entering", "looping", "adopting", "executed", "broken", "diffing", "altering"}

Converges(p) == cmd[p] \in {"apply", "sync"} /\ pc[p] \in Working

\* On to the next phase: the one that is over is behind p, and after the last
\* one every phase is.
LEMMA NextPhaseBehind ==
    ASSUME TypeInv, NEW p \in Proc, Shape(p), cmd[p] # "baseline", NextPhase(p),
           UNCHANGED cmd
    PROVE  \/ pc'[p] = "finished" /\ Behind(p) \cup {phase[p]} = Types
           \/ pc'[p] = "entering" /\ Behind(p)' = Behind(p) \cup {phase[p]}
  <1>1. phase[p] \in Types
    BY DEF Shape, TypeInv, TypeOK, Phases, Types
  <1>2. PhaseAfter(cmd[p], phase[p]) \in Types => PhaseAfter(cmd[p], phase[p]) # "none"
    BY DEF Types
  <1> QED
    BY <1>1, <1>2, NextPhaseTo, PassedGrows DEF TypeInv, Behind

-----------------------------------------------------------------------------
(* The order of one-time migrations *)

\* The history has file f of a one-time folder.
IsRecorded(f) == Ordinal[f] \in AppliedVersions(history, TypeOf[f])

\* Every one-time file that discover() read is still on the list of its loop or
\* recorded, and those of the phases behind are all recorded.
Listed(p) ==
    /\ /\ pc[p] \in {"looping", "adopting", "executed", "broken"}
       /\ cmd[p] # "baseline" /\ phase[p] \in {"ops", "data"}
       => \A f \in Present(snap[p], phase[p]) : f \in todo[p] \/ IsRecorded(f)
    /\ Converges(p) =>
          \A t \in Behind(p) \cap {"ops", "data"} :
             \A f \in Present(snap[p], t) : IsRecorded(f)

ListedInv == losses = 0 => \A p \in Proc : Live(p) => Listed(p)

LEMMA RecordedIsOnTheList ==
    ASSUME TypeInv, NEW p \in Proc, NEW f \in File,
           RecordApplied(p, f) \/ RecordBaseline(p, f)
    PROVE  f \in todo[p] /\ snap[p][f] \in Checksum /\ todo'[p] = todo[p] \ {f}
  <1>1. f \in todo[p]
    <2>1. CASE RecordApplied(p, f)
      BY <2>1 DEF RecordApplied, TypeInv, LocalInv
    <2>2. CASE RecordBaseline(p, f)
      BY <2>2 DEF RecordBaseline, IsNext
    <2> QED
      BY <2>1, <2>2
  <1>2. snap[p][f] \in Checksum
    BY <1>1 DEF TypeInv, TypeOK, LocalInv, Content
  <1>3. todo' = [todo EXCEPT ![p] = @ \ {f}]
    BY DEF RecordApplied, RecordBaseline
  <1> QED
    BY <1>1, <1>2, <1>3 DEF TypeInv, TypeOK

\* What a step does to the history: a row more, or nothing.
LEMMA HistoryGrows ==
    ASSUME TypeInv, NEW p \in Proc, Work(p)
    PROVE  \A f \in File : IsRecorded(f) => IsRecorded(f)'
  <1>1. \/ UNCHANGED history
        \/ \E g \in File : RecordApplied(p, g) \/ RecordBaseline(p, g)
    BY DEF Work, AcquireLock, LockRefused, EnsureSchema, Discover, ReadHistory, SyncAll,
       EnterAdoption, PhaseDone, EnsurePGSchemas, BeginPass2, ReconcileReference,
       PlanPhase, CallFails, ReleaseLock, ExecuteMigration, ExecuteMigrationFails,
       DiffFolder, RefuseUnvalidated, ExecSchemaStatement, SchemaStatementFails, Leave,
       dbVars
  <1>2. ASSUME NEW g \in File, RecordApplied(p, g) \/ RecordBaseline(p, g)
        PROVE  /\ snap[p][g] \in Checksum
               /\ \/ UNCHANGED history
                  \/ \E ok \in BOOLEAN : history' = Insert(history, NewRow(g, snap[p][g], ok))
    <2>1. snap[p][g] \in Checksum
      BY <1>2, RecordedIsOnTheList
    <2>2. ASSUME RecordApplied(p, g), sess[p]
          PROVE  \E ok \in BOOLEAN : history' = Insert(history, NewRow(g, snap[p][g], ok))
      <3>1. (pc[p] = "executed") \in BOOLEAN
        OBVIOUS
      <3> QED
        BY <2>2, <3>1 DEF RecordApplied
    <2>3. ASSUME RecordBaseline(p, g), history' # history
          PROVE  history' = Insert(history, NewRow(g, snap[p][g], TRUE))
      BY <2>3 DEF RecordBaseline, Insert
    <2> QED
      BY <1>2, <2>1, <2>2, <2>3 DEF RecordApplied
  <1>3. ASSUME NEW f \in File, UNCHANGED history, IsRecorded(f) PROVE IsRecorded(f)'
    BY <1>3 DEF IsRecorded
  <1>4. ASSUME NEW f \in File, NEW g \in File, NEW ok \in BOOLEAN, snap[p][g] \in Checksum,
               history' = Insert(history, NewRow(g, snap[p][g], ok)), IsRecorded(f)
        PROVE  IsRecorded(f)'
    BY <1>4, RecordedVersions DEF IsRecorded, TypeInv, TypeOK
  <1> QED
    BY <1>1, <1>2, <1>3, <1>4

\* The record of a migration that went through, and the adoption of one, put it
\* into the history, or find it there.
LEMMA RecordingRecords ==
    ASSUME TypeInv, NEW p \in Proc, NEW f \in OneTime, sess[p],
           \/ RecordApplied(p, f) /\ pc[p] = "executed"
           \/ RecordBaseline(p, f)
    PROVE  IsRecorded(f)'
  <1>1. f \in File /\ VersionOf(f) = Ordinal[f]
    BY DEF OneTime, VersionOf
  <1>2. snap[p][f] \in Checksum /\ history \in Seq(HistoryRow)
    BY <1>1, RecordedIsOnTheList DEF TypeInv, TypeOK
  <1>3. history' = Insert(history, NewRow(f, snap[p][f], TRUE))
    <2>1. CASE RecordApplied(p, f) /\ pc[p] = "executed"
      BY <2>1 DEF RecordApplied
    <2>2. CASE RecordBaseline(p, f)
      BY <2>2 DEF RecordBaseline, Insert
    <2> QED
      BY <2>1, <2>2
  <1>4. VersionOf(f) \in AppliedVersions(Insert(history, NewRow(f, snap[p][f], TRUE)), TypeOf[f])
    BY <1>1, <1>2, RecordedVersions
  <1> QED
    BY <1>1, <1>3, <1>4 DEF IsRecorded

LEMMA ListedWork ==
    ASSUME TypeInv, NEW p \in Proc, Live(p), Shape(p), Listed(p), Work(p)
    PROVE  Listed(p)'
  <1> USE DEF TypeInv, TypeOK
  <1> DEFINE First == /\ pc[p] \in {"looping", "adopting", "executed", "broken"}
                      /\ cmd[p] # "baseline" /\ phase[p] \in {"ops", "data"}
                      => \A f \in Present(snap[p], phase[p]) : f \in todo[p] \/ IsRecorded(f)
             Second == Converges(p) =>
                          \A t \in Behind(p) \cap {"ops", "data"} :
                             \A f \in Present(snap[p], t) : IsRecorded(f)
  <1>0. First' /\ Second' => Listed(p)'
    BY DEF Listed
  <1>s. ASSUME UNCHANGED <<cmd, phase, snap>>, pc[p] \in Working PROVE Second'
    BY <1>s, HistoryGrows DEF Listed, Converges, Behind, Present, Files
  <1>1. CASE AcquireLock(p) \/ EnsureSchema(p) \/ CallFails(p)
    <2>1. pc'[p] \in {"ensuring", "discovering", "aborted"}
      BY <1>1 DEF AcquireLock, EnsureSchema, CallFails
    <2> QED
      BY <2>1 DEF Listed, Converges, Working
  <1>2. CASE LockRefused(p) \/ ReleaseLock(p)
    BY <1>2 DEF LockRefused, ReleaseLock, Leave, Listed, Converges, Working
  <1>3. CASE Discover(p)
    BY <1>3 DEF Discover, Listed, Converges, Behind, Passed
  <1>4. CASE ReadHistory(p) \/ SyncAll(p) \/ EnterAdoption(p)
    <2>1. /\ UNCHANGED <<cmd, phase, snap, history>> /\ pc[p] = "entering"
          /\ \/ todo'[p] = Pending(history, snap[p], phase[p])
             \/ todo'[p] = Present(snap[p], phase[p])
             \/ cmd[p] = "baseline"
      BY <1>4 DEF ReadHistory, SyncAll, EnterAdoption, dbVars
    <2>2. First'
      BY <2>1 DEF Pending, Present, Files, IsRecorded, VersionOf, IsVersioned
    <2> QED
      BY <1>0, <1>s, <2>1, <2>2 DEF Working
  <1>5. CASE PhaseDone(p) \/ ReconcileReference(p)
    <2>1. /\ NextPhase(p) /\ UNCHANGED <<cmd, snap, history>> /\ pc[p] \in Working
          /\ phase[p] \in {"ops", "data"} => pc[p] \in {"looping", "adopting"} /\ todo[p] = {}
      BY <1>5 DEF PhaseDone, ReconcileReference, dbVars, Working, LocalInv
    <2>2. CASE ~Converges(p)
      BY <2>1, <2>2, NextPhaseTo DEF Listed, Converges
    <2>3. CASE Converges(p)
      <3>1. \A t \in (Behind(p) \cup {phase[p]}) \cap {"ops", "data"} :
               \A f \in Present(snap[p], t) : IsRecorded(f)
        BY <2>1, <2>3 DEF Listed, Converges
      <3>2. \/ pc'[p] = "finished"
            \/ pc'[p] = "entering" /\ Behind(p)' = Behind(p) \cup {phase[p]}
        BY <2>1, <2>3, NextPhaseBehind DEF Converges
      <3> QED
        BY <2>1, <3>1, <3>2 DEF Listed, Converges, Working, IsRecorded
    <2> QED
      BY <2>2, <2>3
  <1>6. CASE PlanPhase(p)
    <2>1. cmd'[p] = "plan" /\ pc'[p] \in {"finished", "entering"}
      BY <1>6, NextPhaseTo DEF PlanPhase
    <2> QED
      BY <2>1 DEF Listed, Converges
  <1>7. CASE EnsurePGSchemas(p) \/ BeginPass2(p)
    <2>1. /\ UNCHANGED <<cmd, phase, snap>> /\ pc[p] \in Working
          /\ pc'[p] \in {"diffing", "altering", "aborted"}
      BY <1>7 DEF EnsurePGSchemas, BeginPass2, Working
    <2> QED
      BY <1>0, <1>s, <2>1
  <1>8. ASSUME NEW f \in File,
               \/ ExecuteMigration(p, f) \/ ExecuteMigrationFails(p, f)
               \/ TypeOf[f] = "schema" /\ ( \/ DiffFolder(p, f) \/ RefuseUnvalidated(p, f)
                                            \/ ExecSchemaStatement(p, f)
                                            \/ SchemaStatementFails(p, f) )
        PROVE  Listed(p)'
    <2>1. /\ UNCHANGED <<cmd, phase, snap, history>> /\ pc[p] \in Working
          /\ \/ pc[p] = "looping" /\ todo'[p] = todo[p]
             \/ pc'[p] \in {"diffing", "altering", "aborted"}
             \/ pc[p] = "altering" /\ phase[p] = "schema"
      BY <1>8 DEF ExecuteMigration, ExecuteMigrationFails, DiffFolder, RefuseUnvalidated,
         ExecSchemaStatement, SchemaStatementFails, Working, dbVars, LocalInv
    <2>2. First'
      BY <2>1 DEF Listed, IsRecorded
    <2> QED
      BY <1>0, <1>s, <2>1, <2>2
  <1>9. ASSUME NEW f \in File, RecordApplied(p, f) \/ RecordBaseline(p, f)
        PROVE  Listed(p)'
    <2>1. /\ UNCHANGED <<cmd, phase, snap>> /\ pc[p] \in Working
          /\ todo'[p] = todo[p] \ {f} /\ f \in todo[p]
          /\ pc[p] = "broken" => pc'[p] = "aborted"
      BY <1>9, RecordedIsOnTheList DEF RecordApplied, RecordBaseline, AfterRecord, Working
    <2>2. First'
      <3>1. SUFFICES ASSUME pc'[p] \in {"looping", "adopting", "executed", "broken"},
                            cmd[p] # "baseline", phase[p] \in {"ops", "data"}
                     PROVE  \A g \in Present(snap[p], phase[p]) :
                               g \in todo'[p] \/ IsRecorded(g)'
        BY <2>1
      <3>2. pc[p] \in {"executed", "adopting"}
        BY <1>9, <2>1, <3>1 DEF RecordApplied, RecordBaseline
      <3>3. f \in OneTime
        BY <2>1, <3>1, <3>2 DEF Shape, InLoop, Files, OneTime, IsVersioned
      <3>4. IsRecorded(f)'
        BY <1>9, <3>2, <3>3, RecordingRecords DEF Live, RecordApplied
      <3>5. \A g \in Present(snap[p], phase[p]) : g \in todo[p] \/ IsRecorded(g)
        BY <3>1, <3>2 DEF Listed
      <3>6. \A g \in Present(snap[p], phase[p]) : IsRecorded(g) => IsRecorded(g)'
        BY HistoryGrows DEF Present, Files
      <3> QED
        BY <2>1, <3>4, <3>5, <3>6
    <2> QED
      BY <1>0, <1>s, <2>1, <2>2
  <1> QED
    BY <1>1, <1>2, <1>3, <1>4, <1>5, <1>6, <1>7, <1>8, <1>9 DEF Work

LEMMA ListedStep ==
    ASSUME FlowInv, ListedInv, [Next]_vars
    PROVE  ListedInv'
  <1> SUFFICES ASSUME NEW p \in Proc, Live(p)', losses' = 0 PROVE Listed(p)'
    BY DEF ListedInv
  <1>0. losses = 0 /\ ~Lose(p)
    BY CalmStep DEF FlowInv
  <1>1. CASE ~Live(p)
    <2>1. pc'[p] \in {"ensuring", "discovering"}
      BY <1>1, LiveByLocking DEF AcquireLock, FlowInv, TypeInv, TypeOK
    <2> QED
      BY <2>1 DEF Listed, Converges, Working
  <1>2. CASE Live(p) /\ Work(p)
    BY <1>0, <1>2, ListedWork DEF FlowInv, ListedInv, ShapeInv
  <1>3. CASE Live(p) /\ ~Work(p)
    BY <1>0, <1>3, TheHolderIsAlone
       DEF FlowInv, ListedInv, Listed, Converges, Behind, IsRecorded, Still
  <1> QED
    BY <1>1, <1>2, <1>3

LEMMA ListedInvAlways == Spec => []ListedInv
  <1>1. Init => ListedInv
    BY DEF Init, ListedInv, Live
  <1>2. FlowInv /\ ListedInv /\ [Next]_vars => ListedInv'
    BY ListedStep
  <1> QED
    BY <1>1, <1>2, FlowInvAlways, PTL DEF Spec

\* Whose run executes a one-time migration, and how.
LEMMA WhoExecutes ==
    ASSUME TypeInv, NEW p \in Proc, NEW f \in File, Next, f \in cur'[p] \ cur[p],
           f \in OneTime, pc'[p] = "executed" \/ runs'[f] # runs[f]
    PROVE  ExecuteMigration(p, f)
  <1> USE DEF TypeInv, TypeOK
  <1>1. Work(p)
    <2>1. ~Still(p)
      BY DEF Still
    <2>2. ~Environment
      BY DEF Environment, Drift, EditFile, procVars
    <2>3. ~Lose(p) /\ \A c \in Commands : ~Start(p, c)
      BY DEF Lose, Disconnect, Crash, RecordLost, BaselineLost, Leave, Start
    <2> HIDE DEF TypeInv, TypeOK
    <2> QED
      BY <2>1, <2>2, <2>3, OthersStandStill DEF Next
  <1>2. \A g \in File : TypeOf[g] = "schema" => ~ExecSchemaStatement(p, g) /\ ~SchemaStatementFails(p, g)
    <2>1. \A g \in File : TypeOf[g] = "schema" => g # f
      BY DEF OneTime, IsVersioned
    <2> QED
      BY <2>1 DEF ExecSchemaStatement, SchemaStatementFails
  <1>3. \A g \in File : ~ExecuteMigrationFails(p, g)
    BY DEF ExecuteMigrationFails
  <1>4. \E g \in File : ExecuteMigration(p, g)
    <2>1. ~LockRefused(p) /\ ~ReleaseLock(p)
      BY DEF LockRefused, ReleaseLock, Leave
    <2> QED
      BY <1>1, <1>2, <1>3, <2>1 DEF Work, AcquireLock, EnsureSchema, Discover, ReadHistory,
         SyncAll, EnterAdoption, PhaseDone, EnsurePGSchemas, BeginPass2,
         ReconcileReference, PlanPhase, CallFails, RecordApplied, RecordBaseline,
         DiffFolder, RefuseUnvalidated
  <1>5. \A g \in File : ExecuteMigration(p, g) => g = f
    BY DEF ExecuteMigration
  <1> QED
    BY <1>4, <1>5

\* While no row is lost, a one-time migration is executed only after every
\* one-time migration of its folder with an earlier version is recorded.
THEOREM ExecutedInVersionOrder == Spec => InVersionOrder
  <1> DEFINE Rule == \A p \in Proc, f \in OneTime :
                losses = 0 /\ runs'[f] # runs[f] /\ f \in cur'[p] \ cur[p] =>
                \A g \in Present(snap[p], TypeOf[f]) :
                    Ordinal[g] < Ordinal[f] =>
                        Ordinal[g] \in AppliedVersions(history, TypeOf[f])
  <1>1. ASSUME FlowInv, ListedInv, [Next]_vars PROVE [Rule]_vars
    <2>1. ASSUME Next, NEW p \in Proc, NEW f \in OneTime,
                 losses = 0, runs'[f] # runs[f], f \in cur'[p] \ cur[p],
                 NEW g \in Present(snap[p], TypeOf[f]), Ordinal[g] < Ordinal[f]
          PROVE  Ordinal[g] \in AppliedVersions(history, TypeOf[f])
      <3>1. f \in File /\ g \in File /\ TypeOf[g] = TypeOf[f] /\ TypeOf[f] \in {"ops", "data"}
        BY DEF OneTime, Present, Files, IsVersioned
      <3>2. ExecuteMigration(p, f)
        BY <1>1, <2>1, <3>1, WhoExecutes DEF FlowInv
      <3>3. pc[p] = "looping" /\ sess[p] /\ f \in todo[p] /\ g \notin todo[p]
        BY <2>1, <3>1, <3>2 DEF ExecuteMigration, IsNext, Before
      <3>4. phase[p] = TypeOf[f] /\ cmd[p] # "baseline"
        BY <1>1, <3>3 DEF FlowInv, ShapeInv, Shape, InLoop, Files
      <3>5. Listed(p)
        BY <1>1, <2>1, <3>3 DEF ListedInv, Live, Locked
      <3> QED
        BY <2>1, <3>1, <3>3, <3>4, <3>5 DEF Listed, IsRecorded
    <2> QED
      BY <1>1, <2>1
  <1> QED
    BY <1>1, FlowInvAlways, ListedInvAlways, PTL DEF Spec, InVersionOrder

-----------------------------------------------------------------------------
(* What is in place *)

LEMMA PhaseNotBehind ==
    ASSUME NEW c, NEW ph
    PROVE  ph \notin Passed(c, ph)
  <1>1. CASE ph \in {"schema", "logic", "permissions", "reference"}
    BY <1>1 DEF Passed
  <1>2. CASE ph = "data"
    BY <1>2 DEF Passed
  <1>3. CASE ph \notin {"schema", "logic", "permissions", "reference", "data"}
    BY <1>3 DEF Passed
  <1> QED
    BY <1>1, <1>2, <1>3

\* A phase writes to the objects of its own folder only.
LEMMA WritesInPhase ==
    ASSUME TypeInv, NEW p \in Proc, Shape(p), Work(p), NEW g \in File
    PROVE  db'[g] = db[g] \/ (TypeOf[g] = phase[p] /\ pc[p] \in Working)
  <1> USE DEF TypeInv, TypeOK
  <1>1. CASE \/ AcquireLock(p) \/ LockRefused(p) \/ EnsureSchema(p) \/ Discover(p)
             \/ ReadHistory(p) \/ SyncAll(p) \/ EnterAdoption(p) \/ PhaseDone(p)
             \/ BeginPass2(p) \/ PlanPhase(p) \/ CallFails(p) \/ ReleaseLock(p)
    BY <1>1 DEF AcquireLock, LockRefused, EnsureSchema, Discover, ReadHistory, SyncAll,
       EnterAdoption, PhaseDone, BeginPass2, PlanPhase, CallFails, ReleaseLock, Leave, dbVars
  <1>2. CASE EnsurePGSchemas(p)
    <2>1. /\ phase[p] = "schema" /\ pc[p] = "entering"
          /\ db'[g] = db[g] \/ g \in Present(snap[p], "schema")
      BY <1>2 DEF EnsurePGSchemas, WithNamespaces
    <2> QED
      BY <2>1 DEF Present, Files, Working
  <1>3. CASE ReconcileReference(p)
    BY <1>3 DEF ReconcileReference, Present, Files, Working
  <1>4. ASSUME NEW f \in File, ExecuteMigration(p, f) \/ ExecuteMigrationFails(p, f)
        PROVE  db'[g] = db[g] \/ (TypeOf[g] = phase[p] /\ pc[p] \in Working)
    <2>1. pc[p] = "looping" /\ f \in todo[p] /\ (g # f => db'[g] = db[g])
      BY <1>4 DEF ExecuteMigration, ExecuteMigrationFails, IsNext
    <2> QED
      BY <2>1 DEF Shape, InLoop, Files, Working
  <1>5. ASSUME NEW f \in File,
               \/ RecordApplied(p, f) \/ RecordBaseline(p, f)
               \/ DiffFolder(p, f) \/ RefuseUnvalidated(p, f)
        PROVE  db'[g] = db[g]
    BY <1>5 DEF RecordApplied, RecordBaseline, DiffFolder, RefuseUnvalidated, dbVars
  <1>6. ASSUME NEW f \in File, TypeOf[f] = "schema",
               ExecSchemaStatement(p, f) \/ SchemaStatementFails(p, f)
        PROVE  db'[g] = db[g] \/ (TypeOf[g] = phase[p] /\ pc[p] \in Working)
    <2>1. pc[p] = "altering" /\ (g # f => db'[g] = db[g])
      BY <1>6 DEF ExecSchemaStatement, SchemaStatementFails
    <2> QED
      BY <1>6, <2>1 DEF LocalInv, Working
  <1> QED
    BY <1>1, <1>2, <1>3, <1>4, <1>5, <1>6 DEF Work

\* What a row more means for the newest checksum of a name.
LEMMA LatestAfterAppend ==
    ASSUME NEW h \in Seq(HistoryRow), NEW row \in HistoryRow, NEW t, NEW n, NEW c
    PROVE  IsLatest(Append(h, row), t, n, c) =>
              IF row.success /\ row.type = t /\ row.name = n
              THEN row.checksum = c ELSE IsLatest(h, t, n, c)
  <1> DEFINE h2 == Append(h, row)
             l  == Len(h) + 1
  <1>1. /\ DOMAIN h = 1..Len(h) /\ DOMAIN h2 = 1..l /\ Len(h) \in Nat
        /\ \A i \in 1..Len(h) : h2[i] = h[i]
        /\ h2[l] = row
    OBVIOUS
  <1> HIDE DEF h2
  <1>2. SUFFICES ASSUME IsLatest(h2, t, n, c)
                 PROVE  IF row.success /\ row.type = t /\ row.name = n
                        THEN row.checksum = c ELSE IsLatest(h, t, n, c)
    BY DEF h2
  <1>3. PICK i \in Succeeded(h2, t) :
           /\ h2[i].name = n /\ h2[i].checksum = c
           /\ \A j \in Succeeded(h2, t) : h2[j].name = n => j <= i
    BY <1>2 DEF IsLatest
  <1>4. CASE row.success /\ row.type = t /\ row.name = n
    <2>1. l \in Succeeded(h2, t)
      BY <1>1, <1>4 DEF Succeeded
    <2>2. i = l
      BY <1>1, <1>3, <1>4, <2>1 DEF Succeeded
    <2> QED
      BY <1>1, <1>3, <1>4, <2>2
  <1>5. CASE ~(row.success /\ row.type = t /\ row.name = n)
    <2>1. i # l /\ i \in 1..Len(h)
      BY <1>1, <1>3, <1>5 DEF Succeeded
    <2>2. i \in Succeeded(h, t) /\ Succeeded(h, t) \subseteq Succeeded(h2, t)
      BY <1>1, <1>3, <2>1 DEF Succeeded
    <2>3. \A j \in Succeeded(h, t) : h2[j] = h[j]
      BY <1>1 DEF Succeeded
    <2>4. IsLatest(h, t, n, c)
      BY <1>3, <2>2, <2>3 DEF IsLatest
    <2> QED
      BY <1>5, <2>4
  <1> QED
    BY <1>4, <1>5

LEMMA LatestAfterRecord ==
    ASSUME NEW h \in Seq(HistoryRow), NEW f \in File, NEW x \in Checksum, NEW ok \in BOOLEAN,
           NEW g \in File, NEW c, IsLatest(Insert(h, NewRow(f, x, ok)), TypeOf[g], g, c)
    PROVE  /\ ok /\ f = g /\ f \notin OneTime => x = c
           /\ ~(ok /\ f = g) => IsLatest(h, TypeOf[g], g, c)
  <1> DEFINE row == NewRow(f, x, ok)
  <1>1. /\ row \in HistoryRow /\ row.success = ok /\ row.type = TypeOf[f]
        /\ row.name = f /\ row.checksum = x
    BY NewRowType DEF NewRow
  <1> HIDE DEF row
  <1>2. CASE Admits(h, row)
    <2>1. IsLatest(Append(h, row), TypeOf[g], g, c)
      BY <1>2 DEF row, Insert
    <2> QED
      BY <1>1, <2>1, LatestAfterAppend
  <1>3. CASE ~Admits(h, row)
    <2>1. IsLatest(h, TypeOf[g], g, c)
      BY <1>3 DEF row, Insert
    <2>2. f \in OneTime
      BY <1>1, <1>3 DEF Admits, OneTime, IsVersioned
    <2> QED
      BY <2>1, <2>2
  <1> QED
    BY <1>2, <1>3

\* The files of a folder are in the database as the run read them, those that
\* run outside a transaction apart.
InPlace(p, f) == f \in NoTx \/ db[f] = snap[p][f]

\* Every declarative file that discover() read is still on the list of its loop
\* or in place, and those of the phases behind are all in place.
Placed(p) ==
    /\ InLoop(p) /\ phase[p] \in {"logic", "permissions"} =>
          \A f \in Present(snap[p], phase[p]) : f \in todo[p] \/ InPlace(p, f)
    /\ pc[p] = "executed" => \A f \in cur[p] \ OneTime : db[f] = snap[p][f]
    /\ Converges(p) =>
          \A t \in Behind(p) \ {"ops", "data"} :
             \A f \in Present(snap[p], t) : InPlace(p, f)

\* The newest successful row of a logic or permissions file says what the
\* database holds of it, unless the holder of the lock is about to record it.
Truthful(f) ==
    \A c \in Checksum : IsLatest(history, TypeOf[f], f, c) =>
        \/ db[f] = c
        \/ \E p \in Proc : Live(p) /\ pc[p] = "executed" /\ f \in cur[p]

Replaced == {f \in File \ NoTx : TypeOf[f] \in {"logic", "permissions"}}

ReleaseInv ==
    losses = 0 =>
        /\ \A p \in Proc : Live(p) => Placed(p)
        /\ \A f \in Replaced : Truthful(f)

LEMMA PlacedWork ==
    ASSUME TypeInv, LockInv, NEW p \in Proc, Live(p), Shape(p), Diffed(p), Placed(p),
           cmd[p] # "baseline", \A f \in Replaced : Truthful(f), Work(p)
    PROVE  Placed(p)'
  <1> USE DEF TypeInv, TypeOK
  <1> DEFINE First == InLoop(p) /\ phase[p] \in {"logic", "permissions"} =>
                         \A f \in Present(snap[p], phase[p]) : f \in todo[p] \/ InPlace(p, f)
             Second == pc[p] = "executed" => \A f \in cur[p] \ OneTime : db[f] = snap[p][f]
             Third == Converges(p) =>
                         \A t \in Behind(p) \ {"ops", "data"} :
                            \A f \in Present(snap[p], t) : InPlace(p, f)
  <1>0. First' /\ Second' /\ Third' => Placed(p)'
    BY DEF Placed
  <1>s. ASSUME UNCHANGED <<cmd, phase, snap>>, pc[p] \in Working PROVE Third'
    <2>1. SUFFICES ASSUME Converges(p)', NEW t \in Behind(p) \ {"ops", "data"},
                          NEW f \in Present(snap[p], t)
                   PROVE  InPlace(p, f)'
      BY <1>s DEF Behind
    <2>2. InPlace(p, f)
      BY <1>s, <2>1 DEF Placed, Converges
    <2>3. f \in File /\ TypeOf[f] # phase[p]
      BY <2>1, PhaseNotBehind DEF Behind, Present, Files
    <2>4. db'[f] = db[f]
      BY <2>3, WritesInPhase
    <2> QED
      BY <1>s, <2>2, <2>4 DEF InPlace
  <1>1. CASE AcquireLock(p) \/ EnsureSchema(p) \/ CallFails(p)
    <2>1. pc'[p] \in {"ensuring", "discovering", "aborted"}
      BY <1>1 DEF AcquireLock, EnsureSchema, CallFails
    <2> QED
      BY <2>1 DEF Placed, Converges, InLoop, Working
  <1>2. CASE LockRefused(p) \/ ReleaseLock(p)
    BY <1>2 DEF LockRefused, ReleaseLock, Leave, Placed, Converges, InLoop, Working
  <1>3. CASE Discover(p)
    BY <1>3 DEF Discover, Placed, Converges, InLoop, Behind, Passed
  <1>4. CASE ReadHistory(p)
    <2>1. /\ UNCHANGED <<cmd, phase, snap, history, db>> /\ pc[p] = "entering"
          /\ todo'[p] = Pending(history, snap[p], phase[p]) /\ pc'[p] = "looping"
      BY <1>4 DEF ReadHistory, dbVars
    <2>2. ASSUME NEW f \in Present(snap[p], phase[p]), phase[p] \in {"logic", "permissions"},
                 f \notin todo'[p], f \notin NoTx
          PROVE  db[f] = snap[p][f]
      <3>1. IsLatest(history, TypeOf[f], f, snap[p][f]) /\ f \in Replaced
        BY <2>1, <2>2 DEF Pending, Present, Files, Replaced
      <3>2. snap[p][f] \in Checksum
        BY <2>2 DEF Present, Files, Content
      <3>3. ~\E q \in Proc : Live(q) /\ pc[q] = "executed"
        BY <2>1 DEF LockInv, Live
      <3> QED
        BY <3>1, <3>2, <3>3 DEF Truthful
    <2>3. First'
      BY <2>1, <2>2 DEF InPlace
    <2> QED
      BY <1>0, <1>s, <2>1, <2>3 DEF Working
  <1>5. CASE SyncAll(p) \/ EnterAdoption(p)
    <2>1. /\ UNCHANGED <<cmd, phase, snap>> /\ pc[p] = "entering"
          /\ \/ todo'[p] = Present(snap[p], phase[p]) /\ pc'[p] = "looping"
             \/ pc'[p] = "adopting"
      BY <1>5 DEF SyncAll, EnterAdoption
    <2>2. First'
      BY <2>1 DEF InLoop
    <2> QED
      BY <1>0, <1>s, <2>1, <2>2 DEF Working
  <1>6. CASE PhaseDone(p) \/ ReconcileReference(p)
    <2>1. /\ NextPhase(p) /\ UNCHANGED <<cmd, snap>> /\ pc[p] \in Working
          /\ \/ PhaseDone(p) /\ todo[p] = {} /\ UNCHANGED db
                /\ pc[p] \in {"looping", "adopting", "altering"}
             \/ phase[p] = "reference"
                /\ \A f \in Present(snap[p], "reference") : db'[f] = snap[p][f]
      BY <1>6 DEF PhaseDone, ReconcileReference, Working, dbVars, Present, Files
    <2>2. CASE ~Converges(p)
      BY <2>1, <2>2, NextPhaseTo DEF Placed, Converges, InLoop
    <2>3. CASE Converges(p)
      <3>1. ASSUME NEW t \in Behind(p) \ {"ops", "data"}, NEW f \in Present(snap[p], t)
            PROVE  InPlace(p, f)'
        <4>1. InPlace(p, f) /\ f \in File /\ TypeOf[f] # phase[p]
          BY <2>3, <3>1, PhaseNotBehind DEF Placed, Behind, Present, Files
        <4>2. db'[f] = db[f]
          BY <4>1, WritesInPhase
        <4> QED
          BY <2>1, <4>1, <4>2 DEF InPlace
      <3>2. ASSUME phase[p] \notin {"ops", "data"}, NEW f \in Present(snap[p], phase[p])
            PROVE  InPlace(p, f)'
        <4>1. CASE PhaseDone(p)
          <5>1. todo[p] = {} /\ db' = db
            BY <4>1 DEF PhaseDone, dbVars
          <5>2. CASE pc[p] = "looping"
            BY <2>1, <3>2, <5>1, <5>2 DEF Placed, InLoop, Shape, InPlace
          <5>3. CASE pc[p] = "adopting"
            BY <3>2, <5>3 DEF Shape
          <5>4. CASE pc[p] = "altering"
            BY <2>1, <3>2, <5>1, <5>4 DEF Diffed, LocalInv, InPlace
          <5> QED
            BY <4>1, <5>2, <5>3, <5>4 DEF PhaseDone
        <4>2. CASE ~PhaseDone(p)
          BY <2>1, <3>2, <4>2 DEF InPlace
        <4> QED
          BY <4>1, <4>2
      <3>3. \/ pc'[p] = "finished"
            \/ pc'[p] = "entering" /\ Behind(p)' = Behind(p) \cup {phase[p]}
        BY <2>1, <2>3, NextPhaseBehind DEF Converges
      <3> QED
        BY <2>1, <3>1, <3>2, <3>3 DEF Placed, Converges, Working, InLoop
    <2> QED
      BY <2>2, <2>3
  <1>7. CASE PlanPhase(p)
    <2>1. cmd'[p] = "plan" /\ pc'[p] \in {"finished", "entering"}
      BY <1>7, NextPhaseTo DEF PlanPhase
    <2> QED
      BY <2>1 DEF Placed, Converges, InLoop
  <1>8. CASE EnsurePGSchemas(p) \/ BeginPass2(p)
    <2>1. /\ UNCHANGED <<cmd, phase, snap>> /\ pc[p] \in Working
          /\ pc'[p] \in {"diffing", "altering", "aborted"}
      BY <1>8 DEF EnsurePGSchemas, BeginPass2, Working
    <2> QED
      BY <1>0, <1>s, <2>1 DEF InLoop
  <1>9. ASSUME NEW f \in File, ExecuteMigration(p, f) PROVE Placed(p)'
    <2>1. /\ UNCHANGED <<cmd, phase, snap, todo>> /\ pc[p] = "looping"
          /\ pc'[p] = "executed" /\ cur'[p] = {f}
          /\ \A g \in File \ {f} : db'[g] = db[g]
          /\ f \notin OneTime => db'[f] = snap[p][f]
          /\ f \in OneTime => db' = db
      BY <1>9 DEF ExecuteMigration, OneTime
    <2>2. First'
      BY <2>1 DEF Placed, InLoop, InPlace, Present, Files
    <2> QED
      BY <1>0, <1>s, <2>1, <2>2 DEF Working
  <1>10. ASSUME NEW f \in File, ExecuteMigrationFails(p, f) PROVE Placed(p)'
    <2>1. /\ UNCHANGED <<cmd, phase, snap, todo>> /\ pc[p] = "looping"
          /\ pc'[p] = "broken" /\ \A g \in File \ NoTx : db'[g] = db[g]
      BY <1>10 DEF ExecuteMigrationFails
    <2>2. First'
      BY <2>1 DEF Placed, InLoop, InPlace, Present, Files
    <2> QED
      BY <1>0, <1>s, <2>1, <2>2 DEF Working
  <1>11. ASSUME NEW f \in File, RecordApplied(p, f) PROVE Placed(p)'
    <2>1. /\ UNCHANGED <<cmd, phase, snap, db>> /\ pc[p] \in {"executed", "broken"}
          /\ todo'[p] = todo[p] \ {f} /\ f \in cur[p] /\ f \in todo[p]
          /\ pc'[p] \in {"aborted", "altering", "looping"}
          /\ pc'[p] = "looping" => pc[p] = "executed" /\ phase[p] # "schema"
      BY <1>11, RecordedIsOnTheList DEF RecordApplied, AfterRecord
    <2>2. First'
      <3>1. SUFFICES ASSUME pc'[p] = "looping", phase[p] \in {"logic", "permissions"},
                            NEW g \in Present(snap[p], phase[p])
                     PROVE  g \in todo'[p] \/ InPlace(p, g)'
        BY <2>1 DEF InLoop
      <3>2. InLoop(p) /\ f \notin OneTime
        BY <2>1, <3>1 DEF InLoop, Shape, Files, OneTime, IsVersioned
      <3> QED
        BY <2>1, <3>1, <3>2 DEF Placed, InPlace
    <2> QED
      BY <1>0, <1>s, <2>1, <2>2 DEF Working
  <1>12. ASSUME NEW f \in File,
                \/ RecordBaseline(p, f) \/ DiffFolder(p, f) \/ RefuseUnvalidated(p, f)
         PROVE  Placed(p)'
    <2>1. /\ UNCHANGED <<cmd, phase, snap>> /\ pc[p] \in Working
          /\ pc'[p] \in {"adopting", "diffing", "aborted"}
      BY <1>12 DEF RecordBaseline, DiffFolder, RefuseUnvalidated, Working
    <2> QED
      BY <1>0, <1>s, <2>1 DEF InLoop
  <1>13. ASSUME NEW f \in File, TypeOf[f] = "schema",
                ExecSchemaStatement(p, f) \/ SchemaStatementFails(p, f)
         PROVE  Placed(p)'
    <2>1. /\ UNCHANGED <<cmd, phase, snap>> /\ pc[p] = "altering" /\ phase[p] = "schema"
          /\ cur[p] = {}
      BY <1>13 DEF ExecSchemaStatement, SchemaStatementFails, LocalInv
    <2>2. pc'[p] = "executed" => cur'[p] = {f} /\ db'[f] = snap[p][f]
      <3>1. CASE ExecSchemaStatement(p, f) /\ stmts[p][f] = 1
        BY <3>1 DEF ExecSchemaStatement
      <3>2. CASE ExecSchemaStatement(p, f) /\ stmts[p][f] # 1
        BY <3>2 DEF ExecSchemaStatement
      <3>3. CASE SchemaStatementFails(p, f)
        BY <3>3 DEF SchemaStatementFails
      <3> QED
        BY <1>13, <3>1, <3>2, <3>3
    <2> QED
      BY <1>0, <1>s, <2>1, <2>2 DEF Working
  <1> QED
    BY <1>1, <1>2, <1>3, <1>4, <1>5, <1>6, <1>7, <1>8, <1>9, <1>10, <1>11, <1>12, <1>13
       DEF Work

\* Adoption by sync concerns one-time files, a record nobody but its process.
LEMMA TruthfulWork ==
    ASSUME TypeInv, LockInv, ShapeInv, NEW p \in Proc, Live(p), Placed(p),
           cmd[p] # "baseline", Work(p), NEW f \in Replaced, Truthful(f),
           NEW c \in Checksum, IsLatest(history', TypeOf[f], f, c)
    PROVE  db'[f] = c \/ (Live(p)' /\ pc'[p] = "executed" /\ f \in cur'[p])
  <1> USE DEF TypeInv, TypeOK
  <1>1. /\ f \in File \ NoTx /\ f \notin OneTime /\ TypeOf[f] \in {"logic", "permissions"}
        /\ Shape(p)
    BY DEF Replaced, OneTime, IsVersioned, ShapeInv
  <1>2. ASSUME pc[p] # "executed" \/ f \notin cur[p], IsLatest(history, TypeOf[f], f, c)
        PROVE  db[f] = c
    <2>1. \A q \in Proc \ {p} : ~Live(q)
      BY DEF LockInv, Live
    <2> QED
      BY <1>2, <2>1 DEF Truthful
  <1>3. ASSUME NEW g \in File, ExecuteMigration(p, g)
        PROVE  db'[f] = c \/ (Live(p)' /\ pc'[p] = "executed" /\ f \in cur'[p])
    <2>1. /\ UNCHANGED <<history, sess>> /\ pc[p] = "looping" /\ pc'[p] = "executed"
          /\ cur'[p] = {g}
      BY <1>3 DEF ExecuteMigration
    <2>2. CASE f = g
      BY <2>1, <2>2 DEF Live, Locked
    <2>3. CASE f # g
      <3>1. db' = db \/ db' = [db EXCEPT ![g] = snap[p][g]]
        BY <1>3 DEF ExecuteMigration
      <3> QED
        BY <1>1, <1>2, <2>1, <2>3, <3>1
    <2> QED
      BY <2>2, <2>3
  <1>4. ASSUME NEW g \in File, ExecuteMigrationFails(p, g) PROVE db'[f] = c
    BY <1>1, <1>2, <1>4 DEF ExecuteMigrationFails
  <1>5. ASSUME NEW g \in File, RecordApplied(p, g) PROVE db'[f] = c
    <2>1. /\ UNCHANGED db /\ g \in cur[p] /\ snap[p][g] \in Checksum
          /\ history \in Seq(HistoryRow) /\ (pc[p] = "executed") \in BOOLEAN
          /\ history' = Insert(history, NewRow(g, snap[p][g], pc[p] = "executed"))
      BY <1>5, RecordedIsOnTheList DEF RecordApplied, Live
    <2>2. \A h \in cur[p] : h = g
      BY <2>1 DEF LocalInv
    <2> DEFINE ok == pc[p] = "executed"
    <2>3. /\ ok /\ g = f => snap[p][g] = c
          /\ ~(ok /\ g = f) => IsLatest(history, TypeOf[f], f, c)
      <3>1. /\ ok \in BOOLEAN
            /\ IsLatest(Insert(history, NewRow(g, snap[p][g], ok)), TypeOf[f], f, c)
        BY <2>1
      <3> HIDE DEF ok, TypeInv, TypeOK
      <3> QED
        BY <1>1, <2>1, <3>1, LatestAfterRecord
    <2>4. CASE ok /\ g = f
      BY <1>1, <2>1, <2>3, <2>4 DEF Placed
    <2>5. CASE ~(ok /\ g = f)
      BY <1>2, <2>1, <2>2, <2>3, <2>5
    <2> QED
      BY <2>4, <2>5
  <1>6. ASSUME NEW g \in File, RecordBaseline(p, g) PROVE db'[f] = c
    <2>1. /\ UNCHANGED db /\ pc[p] = "adopting" /\ g \in todo[p] /\ snap[p][g] \in Checksum
          /\ history \in Seq(HistoryRow)
          /\ history' = Insert(history, NewRow(g, snap[p][g], TRUE))
      BY <1>6, RecordedIsOnTheList DEF RecordBaseline, IsNext, Insert, Live
    <2>2. g # f
      BY <1>1, <2>1 DEF Shape, Files
    <2>3. IsLatest(history, TypeOf[f], f, c)
      BY <1>1, <2>1, <2>2, LatestAfterRecord
    <2> QED
      BY <1>2, <2>1, <2>3
  <1>7. ASSUME UNCHANGED history, pc[p] \notin {"executed", "looping"} PROVE db'[f] = c
    <2>1. db'[f] = db[f]
      <3>1. TypeOf[f] = phase[p] /\ pc[p] \in Working
            => pc[p] \in {"entering", "adopting", "diffing", "altering", "broken"}
        BY <1>7 DEF Working
      <3>2. CASE pc[p] = "entering"
        BY <1>1, <3>2 DEF Work, AcquireLock, LockRefused, EnsureSchema, Discover, ReadHistory,
           SyncAll, EnterAdoption, PhaseDone, EnsurePGSchemas, BeginPass2,
           ReconcileReference, PlanPhase, CallFails, ReleaseLock, ExecuteMigration,
           ExecuteMigrationFails, RecordApplied, RecordBaseline, DiffFolder,
           RefuseUnvalidated, ExecSchemaStatement, SchemaStatementFails, dbVars,
           WithNamespaces, Present, Files
      <3>3. CASE pc[p] \in {"adopting", "broken"}
        BY <3>3 DEF Work, AcquireLock, LockRefused, EnsureSchema, Discover, ReadHistory,
           SyncAll, EnterAdoption, PhaseDone, EnsurePGSchemas, BeginPass2,
           ReconcileReference, PlanPhase, CallFails, ReleaseLock, ExecuteMigration,
           ExecuteMigrationFails, RecordApplied, RecordBaseline, DiffFolder,
           RefuseUnvalidated, ExecSchemaStatement, SchemaStatementFails, dbVars
      <3>4. CASE pc[p] \in {"diffing", "altering"}
        <4>1. phase[p] = "schema"
          BY <3>4 DEF LocalInv
        <4> QED
          BY <1>1, <4>1, WritesInPhase
      <3> QED
        BY <1>1, <3>1, <3>2, <3>3, <3>4, WritesInPhase
    <2> QED
      BY <1>2, <1>7, <2>1
  <1>8. ASSUME UNCHANGED <<history, db>>, pc[p] # "executed" PROVE db'[f] = c
    BY <1>2, <1>8
  <1>9. \/ UNCHANGED history /\ pc[p] \notin {"executed", "looping"}
        \/ UNCHANGED <<history, db>> /\ pc[p] # "executed"
        \/ \E g \in File : \/ ExecuteMigration(p, g) \/ ExecuteMigrationFails(p, g)
                           \/ RecordApplied(p, g) \/ RecordBaseline(p, g)
    <2>1. CASE \/ AcquireLock(p) \/ LockRefused(p) \/ EnsureSchema(p) \/ Discover(p)
               \/ ReadHistory(p) \/ SyncAll(p) \/ EnterAdoption(p) \/ PhaseDone(p)
               \/ BeginPass2(p) \/ PlanPhase(p) \/ CallFails(p) \/ ReleaseLock(p)
      BY <2>1 DEF AcquireLock, LockRefused, EnsureSchema, Discover, ReadHistory, SyncAll,
         EnterAdoption, PhaseDone, BeginPass2, PlanPhase, CallFails, ReleaseLock, Leave, dbVars
    <2>2. CASE EnsurePGSchemas(p) \/ ReconcileReference(p)
      BY <2>2 DEF EnsurePGSchemas, ReconcileReference
    <2>3. ASSUME NEW g \in File,
                 \/ DiffFolder(p, g) \/ RefuseUnvalidated(p, g)
                 \/ ExecSchemaStatement(p, g) \/ SchemaStatementFails(p, g)
          PROVE  UNCHANGED history /\ pc[p] \notin {"executed", "looping"}
      BY <2>3 DEF DiffFolder, RefuseUnvalidated, ExecSchemaStatement, SchemaStatementFails,
         dbVars
    <2> QED
      BY <2>1, <2>2, <2>3 DEF Work
  <1> QED
    BY <1>3, <1>4, <1>5, <1>6, <1>7, <1>8, <1>9

\* A step of a process that is not live, or of the environment, neither writes
\* nor reads what a logic or permissions file is in the database.
LEMMA TruthfulStep ==
    ASSUME "baseline" \notin Commands, FlowInv, losses = 0, losses' = 0, [Next]_vars,
           \A p \in Proc : Live(p) => Placed(p), NEW f \in Replaced, Truthful(f)
    PROVE  Truthful(f)'
  <1>1. SUFFICES ASSUME NEW c \in Checksum, IsLatest(history', TypeOf[f], f, c)
                 PROVE  \/ db'[f] = c
                        \/ \E p \in Proc : Live(p)' /\ pc'[p] = "executed" /\ f \in cur'[p]
    BY DEF Truthful
  <1>2. \A p \in Proc : ~Lose(p)
    BY CalmStep DEF FlowInv
  <1>3. CASE \E p \in Proc : Live(p)
    <2>1. PICK p \in Proc : Live(p)
      BY <1>3
    <2>2. cmd[p] # "baseline"
      BY DEF FlowInv, TypeInv, TypeOK
    <2>3. CASE Work(p)
      BY <1>1, <2>1, <2>2, <2>3, TruthfulWork DEF FlowInv
    <2>4. CASE ~Work(p)
      <3>1. Still(p) /\ UNCHANGED <<history, db>>
        BY <1>2, <2>1, <2>4, TheHolderIsAlone DEF FlowInv
      <3>2. \A q \in Proc : Live(q) => q = p
        BY <2>1 DEF FlowInv, LockInv, Live
      <3> QED
        BY <1>1, <2>1, <3>1, <3>2 DEF Truthful, Still, Live
    <2> QED
      BY <2>3, <2>4
  <1>4. CASE ~\E p \in Proc : Live(p)
    <2>1. IsLatest(history, TypeOf[f], f, c) => db[f] = c
      BY <1>4 DEF Truthful
    <2>2. ASSUME NEW p \in Proc, Work(p) PROVE UNCHANGED <<history, db>>
      BY <1>4, <2>2, WritesHappenLocked DEF FlowInv, Live
    <2>3. ASSUME NEW p \in Proc, NEW c0 \in Commands, Start(p, c0) PROVE UNCHANGED <<history, db>>
      BY <2>3 DEF Start, dbVars
    <2>4. ASSUME Environment PROVE UNCHANGED history /\ db'[f] = db[f]
      BY <2>4 DEF Environment, Drift, EditFile, dbVars, Replaced, FlowInv, TypeInv, TypeOK
    <2>5. ASSUME UNCHANGED vars PROVE UNCHANGED <<history, db>>
      BY <2>5 DEF vars
    <2>6. UNCHANGED history /\ db'[f] = db[f]
      BY <1>2, <2>2, <2>3, <2>4, <2>5 DEF Next
    <2> QED
      BY <1>1, <2>1, <2>6
  <1> QED
    BY <1>3, <1>4

LEMMA ReleaseStep ==
    ASSUME "baseline" \notin Commands, FlowInv, ReleaseInv, [Next]_vars
    PROVE  ReleaseInv'
  <1> SUFFICES ASSUME losses' = 0
               PROVE  /\ \A p \in Proc : Live(p)' => Placed(p)'
                      /\ \A f \in Replaced : Truthful(f)'
    BY DEF ReleaseInv, Replaced
  <1>0. losses = 0 /\ \A p \in Proc : ~Lose(p)
    BY CalmStep DEF FlowInv
  <1>1. ASSUME NEW p \in Proc, Live(p)' PROVE Placed(p)'
    <2>1. CASE ~Live(p)
      <3>1. pc'[p] \in {"ensuring", "discovering"}
        BY <1>1, <2>1, LiveByLocking DEF AcquireLock, FlowInv, TypeInv, TypeOK
      <3> QED
        BY <3>1 DEF Placed, Converges, Working, InLoop
    <2>2. CASE Live(p) /\ Work(p)
      <3>1. cmd[p] # "baseline"
        BY DEF FlowInv, TypeInv, TypeOK
      <3> QED
        BY <1>0, <2>2, <3>1, PlacedWork DEF FlowInv, ReleaseInv, ShapeInv, DiffedInv
    <2>3. CASE Live(p) /\ ~Work(p)
      BY <1>0, <2>3, TheHolderIsAlone
         DEF FlowInv, ReleaseInv, Placed, Converges, Behind, InPlace, InLoop, Still
    <2> QED
      BY <2>1, <2>2, <2>3
  <1>2. ASSUME NEW f \in Replaced PROVE Truthful(f)'
    BY <1>0, <1>2, TruthfulStep DEF ReleaseInv
  <1> QED
    BY <1>1, <1>2

LEMMA ReleaseInvAlways ==
    ASSUME "baseline" \notin Commands
    PROVE  Spec => []ReleaseInv
  <1>1. Init => ReleaseInv
    BY DEF Init, ReleaseInv, Live, Truthful, IsLatest, Succeeded
  <1>2. FlowInv /\ ReleaseInv /\ [Next]_vars => ReleaseInv'
    BY ReleaseStep
  <1> QED
    BY <1>1, <1>2, FlowInvAlways, PTL DEF Spec

\* While no row is lost, and as long as nobody adopts by m8 baseline what has
\* not been executed, a data migration meets the schema, the logic, the
\* permissions and the reference rows of its release, and every ops migration
\* recorded.
THEOREM DataMigratesTheRelease ==
    ASSUME "baseline" \notin Commands
    PROVE  Spec => DataSeesRelease
  <1> DEFINE Rule == \A p \in Proc, f \in Files("data") :
                losses = 0 /\ f \in cur'[p] \ cur[p] /\ pc'[p] = "executed" =>
                /\ Converged(p, {"schema", "logic", "permissions", "reference"})
                /\ \A g \in Present(snap[p], "ops") :
                      Ordinal[g] \in AppliedVersions(history, "ops")
  <1>1. ASSUME FlowInv, ListedInv, ReleaseInv, [Next]_vars PROVE [Rule]_vars
    <2>1. ASSUME Next, NEW p \in Proc, NEW f \in Files("data"), losses = 0,
                 f \in cur'[p] \ cur[p], pc'[p] = "executed"
          PROVE  /\ Converged(p, {"schema", "logic", "permissions", "reference"})
                 /\ \A g \in Present(snap[p], "ops") :
                       Ordinal[g] \in AppliedVersions(history, "ops")
      <3>1. f \in File /\ f \in OneTime /\ TypeOf[f] = "data"
        BY DEF Files, OneTime, IsVersioned
      <3>2. ExecuteMigration(p, f)
        BY <1>1, <2>1, <3>1, WhoExecutes DEF FlowInv
      <3>3. pc[p] = "looping" /\ Live(p) /\ f \in todo[p] /\ db' = db
        BY <3>1, <3>2 DEF ExecuteMigration, IsNext, Live, Locked, OneTime
      <3>4. phase[p] = "data" /\ cmd[p] = "apply"
        BY <1>1, <3>1, <3>3 DEF FlowInv, ShapeInv, Shape, InLoop, Files
      <3>5. Converges(p) /\ Behind(p) = Types \ {"data"}
        BY <3>3, <3>4 DEF Converges, Working, Behind, Passed
      <3>6. Listed(p) /\ Placed(p)
        BY <1>1, <2>1, <3>3 DEF ListedInv, ReleaseInv
      <3>7. \A t \in {"schema", "logic", "permissions", "reference"} :
               \A g \in Present(snap[p], t) : InPlace(p, g)
        BY <3>5, <3>6 DEF Placed, Types
      <3>8. \A g \in Present(snap[p], "ops") : IsRecorded(g)
        BY <3>5, <3>6 DEF Listed, Types
      <3> QED
        BY <3>3, <3>7, <3>8 DEF Converged, InPlace, IsRecorded, Present, Files
    <2> QED
      BY <1>1, <2>1
  <1> QED
    BY <1>1, FlowInvAlways, ListedInvAlways, ReleaseInvAlways, PTL DEF Spec, DataSeesRelease

\* While no row is lost, and as long as nobody adopts by m8 baseline what has
\* not been executed, an apply or a sync that succeeds leaves the database as
\* the files it read declare it and every one-time migration recorded.
THEOREM SuccessMeansConverged ==
    ASSUME "baseline" \notin Commands
    PROVE  Spec => SuccessConverges
  <1> DEFINE Goal(p) ==
                /\ Converged(p, {"schema", "logic", "permissions", "reference"})
                /\ \A t \in {"ops", "data"} : \A f \in Present(snap[p], t) :
                      Ordinal[f] \in AppliedVersions(history', t)
             Rule == \A p \in Proc :
                losses = 0 /\ cmd[p] \in {"apply", "sync"}
                /\ pc[p] # "finished" /\ pc'[p] = "finished" => Goal(p)
  <1>1. ASSUME FlowInv, ListedInv, ReleaseInv, [Next]_vars PROVE [Rule]_vars
    <2>1. ASSUME Next, NEW p \in Proc, losses = 0, cmd[p] \in {"apply", "sync"},
                 pc[p] # "finished", pc'[p] = "finished"
          PROVE  Goal(p)
      <3> USE DEF FlowInv, TypeInv, TypeOK
      <3>1. PhaseDone(p) \/ ReconcileReference(p)
        <4>1. Work(p)
          <5>1. ~Still(p)
            BY <2>1 DEF Still
          <5>2. ~Environment
            BY <2>1 DEF Environment, Drift, EditFile, procVars
          <5>3. ~Lose(p) /\ \A c \in Commands : ~Start(p, c)
            BY <1>1, <2>1 DEF Lose, Disconnect, Crash, RecordLost, BaselineLost, AfterRecord, Leave, Start
          <5> HIDE DEF TypeInv, TypeOK
          <5> QED
            BY <1>1, <2>1, <5>1, <5>2, <5>3, OthersStandStill DEF Next
        <4>2. ~LockRefused(p) /\ ~ReleaseLock(p)
          BY <1>1, <2>1 DEF LockRefused, ReleaseLock, Leave
        <4>3. \A f \in File : ~RecordApplied(p, f) /\ ~RecordBaseline(p, f)
          BY <1>1, <2>1 DEF RecordApplied, RecordBaseline, AfterRecord
        <4>4. \A f \in File : ~ExecSchemaStatement(p, f) /\ ~SchemaStatementFails(p, f)
          BY <1>1, <2>1 DEF ExecSchemaStatement, SchemaStatementFails
        <4> QED
          BY <1>1, <2>1, <4>1, <4>2, <4>3, <4>4
             DEF Work, AcquireLock, EnsureSchema, Discover, ReadHistory, SyncAll,
                 EnterAdoption, EnsurePGSchemas, BeginPass2, PlanPhase, CallFails,
                 ExecuteMigration, ExecuteMigrationFails, DiffFolder, RefuseUnvalidated
      <3>2. /\ NextPhase(p) /\ UNCHANGED <<cmd, snap, history>> /\ pc[p] \in Working
            /\ pc[p] # "idle"
        BY <3>1 DEF PhaseDone, ReconcileReference, Working, dbVars
      <3>3. Live(p) /\ Converges(p) /\ Shape(p) /\ Diffed(p) /\ Listed(p) /\ Placed(p)
        <4>1. Live(p)
          BY <1>1, <2>1, <3>2 DEF CalmInv, Live, Locked, Working
        <4> QED
          BY <1>1, <2>1, <3>2, <4>1 DEF Converges, ShapeInv, DiffedInv, ListedInv, ReleaseInv
      <3>4. Behind(p) \cup {phase[p]} = Types
        BY <1>1, <2>1, <3>2, <3>3, NextPhaseBehind DEF Converges
      <3>5. ASSUME NEW f \in Present(snap[p], phase[p])
            PROVE  IF phase[p] \in {"ops", "data"} THEN IsRecorded(f)
                   ELSE f \in NoTx \/ db'[f] = snap[p][f]
        <4>1. CASE ReconcileReference(p)
          BY <3>5, <4>1 DEF ReconcileReference, Present, Files
        <4>2. CASE PhaseDone(p)
          <5>1. todo[p] = {} /\ db' = db
            BY <4>2 DEF PhaseDone, dbVars
          <5>2. CASE pc[p] = "looping"
            BY <3>3, <3>5, <5>1, <5>2 DEF Placed, Listed, InLoop, Shape, InPlace
          <5>3. CASE pc[p] = "adopting"
            BY <2>1, <3>3, <3>5, <5>1, <5>3 DEF Shape, Listed
          <5>4. CASE pc[p] = "altering"
            BY <1>1, <3>3, <3>5, <5>1, <5>4 DEF Diffed, LocalInv
          <5> QED
            BY <4>2, <5>2, <5>3, <5>4 DEF PhaseDone
        <4> QED
          BY <3>1, <4>1, <4>2
      <3>6. ASSUME NEW t \in Behind(p), NEW f \in Present(snap[p], t)
            PROVE  IF t \in {"ops", "data"} THEN IsRecorded(f)
                   ELSE f \in NoTx \/ db'[f] = snap[p][f]
        <4>1. CASE t \in {"ops", "data"}
          BY <3>3, <3>6, <4>1 DEF Listed
        <4>2. CASE t \notin {"ops", "data"}
          <5>1. InPlace(p, f) /\ f \in File /\ TypeOf[f] # phase[p]
            BY <3>3, <3>6, <4>2, PhaseNotBehind DEF Placed, Behind, Present, Files
          <5>2. Work(p)
            BY <3>1 DEF Work
          <5>3. db'[f] = db[f]
            BY <1>1, <3>3, <5>1, <5>2, WritesInPhase
          <5> QED
            BY <4>2, <5>1, <5>3 DEF InPlace
        <4> QED
          BY <4>1, <4>2
      <3>7. \A t \in Types : \A f \in Present(snap[p], t) :
               IF t \in {"ops", "data"} THEN IsRecorded(f)
               ELSE f \in NoTx \/ db'[f] = snap[p][f]
        BY <3>4, <3>5, <3>6
      <3> QED
        BY <3>2, <3>7 DEF Converged, IsRecorded, Present, Files, Types
    <2> QED
      BY <1>1, <2>1
  <1> QED
    BY <1>1, FlowInvAlways, ListedInvAlways, ReleaseInvAlways, PTL DEF Spec, SuccessConverges

-----------------------------------------------------------------------------
(* A plan that finds nothing to do *)

\* A plan has on its list whatever the phases it has been through need.
Planned(p) ==
    cmd[p] = "plan" /\ pc[p] = "entering" =>
        \A t \in Behind(p) : PlannedIn(p, t) \subseteq todo[p]

PlannedInv == \A p \in Proc : Live(p) => Planned(p)

LEMMA PlannedWork ==
    ASSUME TypeInv, NEW p \in Proc, Shape(p), Planned(p), Work(p)
    PROVE  Planned(p)'
  <1> USE DEF TypeInv, TypeOK
  <1>1. CASE PlanPhase(p)
    <2>1. /\ NextPhase(p) /\ cmd[p] = "plan" /\ pc[p] = "entering"
          /\ UNCHANGED <<cmd, db, snap, ready, history>>
          /\ todo'[p] = todo[p] \cup PlannedIn(p, phase[p])
      BY <1>1 DEF PlanPhase, dbVars
    <2>2. \A t \in Behind(p) \cup {phase[p]} : PlannedIn(p, t) \subseteq todo'[p]
      BY <2>1 DEF Planned
    <2>3. \A t : PlannedIn(p, t)' = PlannedIn(p, t)
      BY <2>1 DEF PlannedIn, Differing, Pending, Present
    <2>4. \/ pc'[p] = "finished"
          \/ pc'[p] = "entering" /\ Behind(p)' = Behind(p) \cup {phase[p]}
      BY <2>1, NextPhaseBehind
    <2> QED
      BY <2>2, <2>3, <2>4 DEF Planned
  <1>2. CASE Discover(p)
    BY <1>2 DEF Discover, Planned, Behind, Passed
  <1>3. ASSUME ~PlanPhase(p), ~Discover(p), cmd'[p] = "plan" PROVE pc'[p] # "entering"
    <2>1. CASE LockRefused(p) \/ ReleaseLock(p)
      BY <2>1 DEF LockRefused, ReleaseLock, Leave
    <2>2. CASE PhaseDone(p) \/ ReconcileReference(p)
      BY <1>3, <2>2 DEF PhaseDone, ReconcileReference, Shape, InLoop
    <2>3. CASE EnsurePGSchemas(p)
      BY <2>3 DEF EnsurePGSchemas
    <2>4. CASE \/ AcquireLock(p) \/ EnsureSchema(p) \/ ReadHistory(p) \/ SyncAll(p)
               \/ EnterAdoption(p) \/ BeginPass2(p) \/ CallFails(p)
      BY <2>4 DEF AcquireLock, EnsureSchema, ReadHistory, SyncAll, EnterAdoption,
         BeginPass2, CallFails
    <2>5. ASSUME NEW f \in File,
                 \/ ExecuteMigration(p, f) \/ ExecuteMigrationFails(p, f)
                 \/ RecordApplied(p, f) \/ RecordBaseline(p, f)
                 \/ DiffFolder(p, f) \/ RefuseUnvalidated(p, f)
                 \/ ExecSchemaStatement(p, f) \/ SchemaStatementFails(p, f)
          PROVE  pc'[p] # "entering"
      BY <2>5 DEF ExecuteMigration, ExecuteMigrationFails, RecordApplied, AfterRecord,
         RecordBaseline, DiffFolder, RefuseUnvalidated, ExecSchemaStatement,
         SchemaStatementFails
    <2> QED
      BY <1>3, <2>1, <2>2, <2>3, <2>4, <2>5 DEF Work
  <1> QED
    BY <1>1, <1>2, <1>3 DEF Planned

LEMMA PlannedStep ==
    ASSUME FlowInv, PlannedInv, [Next]_vars
    PROVE  PlannedInv'
  <1> SUFFICES ASSUME NEW p \in Proc, Live(p)' PROVE Planned(p)'
    BY DEF PlannedInv
  <1>1. CASE ~Live(p)
    <2>1. pc'[p] \in {"ensuring", "discovering"}
      BY <1>1, LiveByLocking DEF AcquireLock, FlowInv, TypeInv, TypeOK
    <2> QED
      BY <2>1 DEF Planned
  <1>2. CASE Live(p) /\ Work(p)
    BY <1>2, PlannedWork DEF FlowInv, PlannedInv, ShapeInv
  <1>3. CASE Lose(p)
    <2>1. sess'[p] = FALSE \/ pc'[p] # "entering"
      BY <1>3 DEF Lose, Disconnect, Crash, Leave, RecordLost, BaselineLost, AfterRecord,
         FlowInv, TypeInv, TypeOK
    <2> QED
      BY <2>1 DEF Planned, Live
  <1>4. CASE Live(p) /\ ~Work(p) /\ ~Lose(p)
    <2>1. Still(p) /\ UNCHANGED <<history, db, ready>>
      BY <1>4, TheHolderIsAlone DEF FlowInv
    <2>2. \A t : PlannedIn(p, t)' = PlannedIn(p, t)
      BY <2>1 DEF PlannedIn, Differing, Pending, Present, Still
    <2> QED
      BY <1>4, <2>1, <2>2 DEF PlannedInv, Planned, Behind, Still
  <1> QED
    BY <1>1, <1>2, <1>3, <1>4

\* What a plan that exits 0 has seen: no folder and no reference file differs
\* from the database, no other file is pending.
NothingToDo ==
    /\ \A t \in {"schema", "reference"} : Differing(dir, t) = {}
    /\ \A t \in {"ops", "logic", "permissions", "data"} : Pending(history, dir, t) = {}

\* Whoever works on the database afterwards has read the same directory, and
\* unless it is a sync it has nothing on its list.
Idles(p) ==
    pc[p] \notin {"ensuring", "discovering", "aborted"} =>
        /\ snap[p] = dir
        /\ \A f \in Files("schema") : stmts[p][f] = 0
        /\ cmd[p] = "apply" /\ InLoop(p) => todo[p] = {}
        /\ ~AtSchema(p)

VouchedInv == vouched => NothingToDo /\ \A p \in Proc : Live(p) => Idles(p)

LEMMA LatestKept ==
    ASSUME NEW h \in Seq(HistoryRow), NEW row \in HistoryRow, NEW t, NEW n, NEW c,
           IsLatest(h, t, n, c), row.name = n => row.checksum = c
    PROVE  IsLatest(Append(h, row), t, n, c)
  <1> DEFINE h2 == Append(h, row)
             l  == Len(h) + 1
  <1>1. /\ DOMAIN h = 1..Len(h) /\ DOMAIN h2 = 1..l /\ Len(h) \in Nat
        /\ \A i \in 1..Len(h) : h2[i] = h[i]
        /\ h2[l] = row
    OBVIOUS
  <1> HIDE DEF h2
  <1>2. PICK i \in Succeeded(h, t) :
           /\ h[i].name = n /\ h[i].checksum = c
           /\ \A j \in Succeeded(h, t) : h[j].name = n => j <= i
    BY DEF IsLatest
  <1>3. i \in 1..Len(h) /\ h2[i] = h[i] /\ i \in Succeeded(h2, t)
    BY <1>1, <1>2 DEF Succeeded
  <1>4. CASE row.success /\ row.type = t /\ row.name = n
    <2>1. l \in Succeeded(h2, t) /\ h2[l].name = n /\ h2[l].checksum = c
      BY <1>1, <1>4 DEF Succeeded
    <2>2. \A j \in Succeeded(h2, t) : j <= l
      BY <1>1 DEF Succeeded
    <2> QED
      BY <2>1, <2>2 DEF IsLatest, h2
  <1>5. CASE ~(row.success /\ row.type = t /\ row.name = n)
    <2>1. \A j \in Succeeded(h2, t) : h2[j].name = n => j \in Succeeded(h, t) /\ h[j].name = n
      BY <1>1, <1>5 DEF Succeeded
    <2> QED
      BY <1>2, <1>3, <2>1 DEF IsLatest, h2
  <1> QED
    BY <1>4, <1>5

\* Once nothing is to be done, no step makes anything of it pending again.
LEMMA NothingPendingAgain ==
    ASSUME TypeInv, NothingToDo, NEW p \in Proc, Work(p), dir' = dir, Live(p) => Idles(p)
    PROVE  \A t \in {"ops", "logic", "permissions", "data"} : Pending(history', dir, t) = {}
  <1> USE DEF TypeInv, TypeOK
  <1>1. ASSUME NEW t \in {"ops", "data"} PROVE Pending(history', dir, t) = {}
    <2>1. \A f \in Present(dir, t) : IsRecorded(f) /\ f \in File /\ VersionOf(f) = Ordinal[f]
      BY DEF NothingToDo, Pending, IsRecorded, Present, Files, VersionOf, IsVersioned
    <2>2. \A f \in Present(dir, t) : IsRecorded(f)'
      BY <2>1, HistoryGrows
    <2> QED
      BY <2>1, <2>2 DEF Pending, IsRecorded, Present, Files
  <1>2. ASSUME NEW t \in {"logic", "permissions"} PROVE Pending(history', dir, t) = {}
    <2>1. SUFFICES ASSUME NEW f \in Present(dir, t) PROVE IsLatest(history', t, f, dir[f])
      BY <1>2 DEF Pending
    <2>2. IsLatest(history, t, f, dir[f])
      BY <1>2 DEF NothingToDo, Pending
    <2>3. ASSUME NEW g \in File, RecordApplied(p, g) \/ RecordBaseline(p, g)
          PROVE  IsLatest(history', t, f, dir[f])
      <3>1. CASE history' = history
        BY <2>2, <3>1
      <3>2. CASE history' # history
        <4>1. Live(p) /\ snap[p] = dir
          <5>1. sess[p] /\ pc[p] \in {"executed", "broken", "adopting"}
            BY <2>3, <3>2 DEF RecordApplied, RecordBaseline
          <5> QED
            BY <5>1 DEF Live, Locked, Idles
        <4>2. \E ok \in BOOLEAN : history' = Append(history, NewRow(g, snap[p][g], ok))
          <5>1. CASE RecordApplied(p, g)
            BY <3>2, <5>1 DEF RecordApplied, Insert
          <5>2. CASE RecordBaseline(p, g)
            BY <3>2, <5>2 DEF RecordBaseline
          <5> QED
            BY <2>3, <5>1, <5>2
        <4>3. PICK ok \in BOOLEAN : history' = Append(history, NewRow(g, snap[p][g], ok))
          BY <4>2
        <4>4. NewRow(g, snap[p][g], ok) \in HistoryRow
          BY <2>3, RecordedIsOnTheList, NewRowType
        <4>5. /\ NewRow(g, snap[p][g], ok).name = g
              /\ NewRow(g, snap[p][g], ok).checksum = dir[g]
          BY <4>1 DEF NewRow
        <4>6. history \in Seq(HistoryRow)
          OBVIOUS
        <4> HIDE DEF TypeInv, TypeOK
        <4> QED
          BY <2>2, <4>3, <4>4, <4>5, <4>6, LatestKept
      <3> QED
        BY <3>1, <3>2
    <2>4. CASE UNCHANGED history
      BY <2>2, <2>4
    <2>5. \/ UNCHANGED history
          \/ \E g \in File : RecordApplied(p, g) \/ RecordBaseline(p, g)
      BY DEF Work, AcquireLock, LockRefused, EnsureSchema, Discover, ReadHistory, SyncAll,
         EnterAdoption, PhaseDone, EnsurePGSchemas, BeginPass2, ReconcileReference,
         PlanPhase, CallFails, ReleaseLock, ExecuteMigration, ExecuteMigrationFails,
         DiffFolder, RefuseUnvalidated, ExecSchemaStatement, SchemaStatementFails, Leave,
         dbVars
    <2> QED
      BY <2>3, <2>4, <2>5
  <1> QED
    BY <1>1, <1>2

\* Once nothing is to be done, pass 2 has nothing on its list.
LEMMA NoPass2 ==
    ASSUME TypeInv, NEW p \in Proc, Idles(p), NEW f \in File, TypeOf[f] = "schema"
    PROVE  ~ExecSchemaStatement(p, f) /\ ~SchemaStatementFails(p, f)
  <1>1. pc[p] = "altering" => \A g \in todo[p] : g \in Files("schema") /\ stmts[p][g] > 0
    BY DEF TypeInv, LocalInv
  <1> QED
    BY <1>1 DEF Idles, ExecSchemaStatement, SchemaStatementFails, IsNext, Files

\* Once nothing is to be done, the folders and the reference rows stay.
LEMMA NothingDiffersAgain ==
    ASSUME TypeInv, NothingToDo, NEW p \in Proc, Shape(p), Work(p), Live(p) => Idles(p),
           NEW g \in File, TypeOf[g] \in {"schema", "reference"}
    PROVE  db'[g] = db[g]
  <1>1. CASE ~Live(p)
    BY <1>1, WritesHappenLocked DEF Live
  <1>2. CASE Live(p) /\ db'[g] # db[g]
    <2> USE DEF TypeInv, TypeOK
    <2>1. /\ TypeOf[g] = phase[p] /\ pc[p] \in Working /\ snap[p] = dir
      BY <1>2, WritesInPhase DEF Idles, Working
    <2>2. \A f \in Present(snap[p], phase[p]) : db[f] = snap[p][f] /\ db[f] # Absent
      BY <2>1 DEF NothingToDo, Differing, Present
    <2>3. ~EnsurePGSchemas(p)
      BY <1>2, <2>1, <2>2 DEF EnsurePGSchemas, WithNamespaces
    <2>4. ~ReconcileReference(p)
      BY <1>2, <2>1, <2>2 DEF ReconcileReference
    <2>5. \A f \in File : ~ExecuteMigration(p, f) /\ ~ExecuteMigrationFails(p, f)
      BY <2>1 DEF Shape, InLoop, ExecuteMigration, ExecuteMigrationFails
    <2>6. \A f \in File : TypeOf[f] = "schema" =>
             ~ExecSchemaStatement(p, f) /\ ~SchemaStatementFails(p, f)
      BY <1>2, NoPass2
    <2> QED
      BY <1>2, <2>3, <2>4, <2>5, <2>6
         DEF Work, AcquireLock, LockRefused, EnsureSchema, Discover, ReadHistory, SyncAll,
             EnterAdoption, PhaseDone, BeginPass2, PlanPhase, CallFails, ReleaseLock,
             RecordApplied, RecordBaseline, DiffFolder, RefuseUnvalidated, Leave, dbVars
  <1> QED
    BY <1>1, <1>2

LEMMA IdlesWork ==
    ASSUME TypeInv, NothingToDo, NEW p \in Proc, Live(p), Shape(p), Idles(p), Work(p),
           dir' = dir, Live(p)'
    PROVE  Idles(p)'
  <1> USE DEF TypeInv, TypeOK
  <1>1. CASE AcquireLock(p) \/ EnsureSchema(p) \/ CallFails(p)
    <2>1. pc'[p] \in {"ensuring", "discovering", "aborted"}
      BY <1>1 DEF AcquireLock, EnsureSchema, CallFails
    <2> QED
      BY <2>1 DEF Idles
  <1>2. CASE LockRefused(p) \/ ReleaseLock(p)
    BY <1>2 DEF LockRefused, ReleaseLock, Leave, Live
  <1>3. CASE Discover(p)
    <2>1. /\ snap'[p] = dir /\ pc'[p] = "entering" /\ UNCHANGED <<stmts>>
          /\ \A f \in Files("schema") : stmts[p][f] = 0
      BY <1>3 DEF Discover, LocalInv
    <2> QED
      BY <2>1 DEF Idles, InLoop, AtSchema
  <1>4. CASE ReadHistory(p) \/ SyncAll(p) \/ EnterAdoption(p)
    <2>1. /\ UNCHANGED <<snap, stmts, cmd>> /\ pc[p] = "entering"
          /\ pc'[p] \in {"looping", "adopting"}
          /\ cmd[p] = "apply" =>
                todo'[p] = Pending(history, snap[p], phase[p])
                /\ phase[p] \in {"ops", "logic", "permissions", "data"}
      BY <1>4 DEF ReadHistory, SyncAll, EnterAdoption
    <2> QED
      BY <2>1 DEF Idles, NothingToDo, AtSchema
  <1>5. CASE PhaseDone(p) \/ ReconcileReference(p) \/ PlanPhase(p)
    <2>1. /\ pc[p] \in Working /\ pc'[p] \in {"finished", "entering"}
          /\ UNCHANGED <<snap, stmts>>
      BY <1>5, NextPhaseTo DEF PhaseDone, ReconcileReference, PlanPhase, Working
    <2> QED
      BY <2>1 DEF Idles, InLoop, AtSchema, Working
  <1>6. CASE EnsurePGSchemas(p) \/ BeginPass2(p)
    <2>1. /\ pc[p] \in {"entering", "diffing"} /\ pc'[p] \in {"diffing", "altering", "aborted"}
          /\ UNCHANGED <<snap, stmts>>
      BY <1>6 DEF EnsurePGSchemas, BeginPass2
    <2> QED
      BY <2>1 DEF Idles, InLoop, AtSchema
  <1>7. ASSUME NEW f \in File, ExecuteMigration(p, f) \/ ExecuteMigrationFails(p, f)
        PROVE  Idles(p)'
    <2>1. /\ pc[p] = "looping" /\ f \in todo[p] /\ phase[p] # "schema"
          /\ pc'[p] \in {"executed", "broken"}
          /\ UNCHANGED <<snap, stmts, cmd, phase, todo>>
      BY <1>7 DEF ExecuteMigration, ExecuteMigrationFails, IsNext, LocalInv
    <2> QED
      BY <2>1 DEF Idles, InLoop, AtSchema
  <1>8. ASSUME NEW f \in File, RecordApplied(p, f) \/ RecordBaseline(p, f)
        PROVE  Idles(p)'
    <2>1. /\ pc[p] \in {"executed", "broken", "adopting"} /\ f \in todo[p]
          /\ pc'[p] \in {"looping", "altering", "adopting", "aborted"}
          /\ pc'[p] = "looping" => pc[p] \in {"executed", "broken"} /\ phase[p] # "schema"
          /\ UNCHANGED <<snap, stmts, cmd, phase>>
      BY <1>8, RecordedIsOnTheList DEF RecordApplied, RecordBaseline, AfterRecord
    <2> QED
      BY <2>1 DEF Idles, InLoop, AtSchema
  <1>9. ASSUME NEW f \in File, TypeOf[f] = "schema", DiffFolder(p, f)
        PROVE  Idles(p)'
    <2>1. /\ pc[p] = "diffing" /\ f \in todo[p] /\ UNCHANGED <<pc, snap>>
          /\ snap[p][f] # Absent
      BY <1>9 DEF DiffFolder, IsNext, LocalInv
    <2>2. db[f] = snap[p][f]
      BY <1>9, <2>1 DEF Idles, NothingToDo, Differing, Present, Files
    <2>3. stmts' = [stmts EXCEPT ![p][f] = 0]
      BY <1>9, <2>2 DEF DiffFolder
    <2> QED
      BY <1>9, <2>1, <2>3, EngineAssumption DEF Idles, InLoop, AtSchema
  <1>10. ASSUME NEW f \in File, TypeOf[f] = "schema",
                \/ RefuseUnvalidated(p, f)
                \/ ExecSchemaStatement(p, f) \/ SchemaStatementFails(p, f)
         PROVE  Idles(p)'
    <2>1. RefuseUnvalidated(p, f)
      BY <1>10, NoPass2
    <2>2. pc'[p] = "aborted"
      BY <2>1 DEF RefuseUnvalidated
    <2> QED
      BY <2>2 DEF Idles
  <1> QED
    BY <1>1, <1>2, <1>3, <1>4, <1>5, <1>6, <1>7, <1>8, <1>9, <1>10 DEF Work

LEMMA IdlesLose ==
    ASSUME TypeInv, NEW p \in Proc, Live(p), Idles(p), Lose(p), dir' = dir, Live(p)'
    PROVE  Idles(p)'
  <1> USE DEF TypeInv, TypeOK
  <1>1. CASE Disconnect(p) \/ Crash(p)
    BY <1>1 DEF Disconnect, Crash, Leave, Live
  <1>2. ASSUME NEW f \in File, RecordLost(p, f) \/ BaselineLost(p, f) PROVE Idles(p)'
    <2>1. /\ pc[p] \in {"executed", "broken", "adopting"}
          /\ pc'[p] \in {"looping", "altering", "adopting", "aborted"}
          /\ pc'[p] = "looping" => pc[p] \in {"executed", "broken"} /\ phase[p] # "schema"
          /\ todo'[p] \subseteq todo[p] /\ UNCHANGED <<snap, stmts, cmd, phase>>
      BY <1>2 DEF RecordLost, BaselineLost, AfterRecord
    <2> QED
      BY <2>1 DEF Idles, InLoop, AtSchema
  <1> QED
    BY <1>1, <1>2 DEF Lose

\* The plan that vouches has seen every phase.
LEMMA PlanVouches ==
    ASSUME FlowInv, PlannedInv, NEW p \in Proc, PlanPhase(p), ~vouched, vouched'
    PROVE  NothingToDo' /\ \A q \in Proc : Live(q)' => Idles(q)'
  <1> USE DEF FlowInv, TypeInv, TypeOK
  <1>1. /\ NextPhase(p) /\ cmd[p] = "plan" /\ pc[p] = "entering" /\ sess[p]
        /\ UNCHANGED <<cmd, db, snap, ready, history, dir, stmts, sess>>
        /\ todo'[p] = todo[p] \cup PlannedIn(p, phase[p])
        /\ pc'[p] = "finished" /\ todo'[p] = {} /\ snap[p] = dir
    BY DEF PlanPhase, dbVars, envVars
  <1>2. Live(p) /\ Shape(p) /\ Planned(p)
    BY <1>1 DEF Live, Locked, ShapeInv, PlannedInv
  <1>3. Behind(p) \cup {phase[p]} = Types
    BY <1>1, <1>2, NextPhaseBehind
  <1>4. \A t \in Types : PlannedIn(p, t) = {}
    BY <1>1, <1>2, <1>3 DEF Planned
  <1>5. NothingToDo
    <2>1. \A t \in {"schema", "reference"} : Differing(dir, t) = {}
      <3> HIDE DEF FlowInv, TypeInv, TypeOK
      <3>1. \A t \in {"schema", "reference"} : PlannedIn(p, t) = Differing(snap[p], t)
        BY DEF PlannedIn
      <3>2. "schema" \in Types /\ "reference" \in Types /\ snap[p] = dir
        BY <1>1 DEF Types
      <3> QED
        BY <1>4, <3>1, <3>2
    <2>2. \A t \in {"ops", "logic", "permissions", "data"} : Pending(history, dir, t) = {}
      BY <1>1, <1>4 DEF PlannedIn, Types, Pending
    <2> QED
      BY <2>1, <2>2 DEF NothingToDo
  <1>6. NothingToDo'
    BY <1>1, <1>5 DEF NothingToDo, Differing, Pending, Present
  <1>7. Idles(p)'
    BY <1>1, <1>2 DEF Idles, InLoop, AtSchema, Shape
  <1>8. ASSUME NEW q \in Proc \ {p} PROVE ~Live(q)'
    <2>1. ~Live(q)
      BY <1>2 DEF LockInv, Live
    <2>2. Still(q)
      BY OthersStandStill DEF Work
    <2> QED
      BY <2>1, <2>2 DEF Live, Still
  <1> QED
    BY <1>6, <1>7, <1>8

LEMMA VouchedStep ==
    ASSUME FlowInv, PlannedInv, VouchedInv, [Next]_vars
    PROVE  VouchedInv'
  <1> SUFFICES ASSUME vouched'
               PROVE  NothingToDo' /\ \A p \in Proc : Live(p)' => Idles(p)'
    BY DEF VouchedInv
  <1>1. CASE ~vouched
    <2>1. \E p \in Proc : PlanPhase(p)
      <3>1. ASSUME NEW p \in Proc, Work(p), ~PlanPhase(p) PROVE vouched' = vouched
        BY <3>1 DEF Work, AcquireLock, LockRefused, EnsureSchema, Discover, ReadHistory,
           SyncAll, EnterAdoption, PhaseDone, EnsurePGSchemas, BeginPass2,
           ReconcileReference, CallFails, ReleaseLock, ExecuteMigration,
           ExecuteMigrationFails, RecordApplied, RecordBaseline, DiffFolder,
           RefuseUnvalidated, ExecSchemaStatement, SchemaStatementFails, Leave
      <3>2. ASSUME NEW p \in Proc, Lose(p) \/ \E c \in Commands : Start(p, c)
            PROVE  vouched' = vouched
        BY <3>2 DEF Lose, Disconnect, Crash, RecordLost, BaselineLost, Leave, Start
      <3>3. Environment \/ UNCHANGED vars => vouched' = FALSE \/ vouched' = vouched
        BY DEF Environment, Drift, EditFile, vars
      <3> QED
        BY <1>1, <3>1, <3>2, <3>3 DEF Next, FlowInv, TypeInv, TypeOK
    <2> QED
      BY <1>1, <2>1, PlanVouches
  <1>2. CASE vouched
    <2>1. NothingToDo /\ \A p \in Proc : Live(p) => Idles(p)
      BY <1>2 DEF VouchedInv
    <2>2. ~Environment
      BY DEF Environment, Drift, EditFile
    <2>3. dir' = dir
      <3>1. ASSUME NEW p \in Proc, Work(p) PROVE dir' = dir
        <4>1. CASE \E f \in File : ExecuteMigration(p, f) \/ ExecuteMigrationFails(p, f)
                                   \/ RecordApplied(p, f) \/ RecordBaseline(p, f)
          BY <4>1 DEF ExecuteMigration, ExecuteMigrationFails, RecordApplied, RecordBaseline,
                      envVars
        <4>2. CASE \E f \in File : DiffFolder(p, f) \/ RefuseUnvalidated(p, f)
                                   \/ ExecSchemaStatement(p, f) \/ SchemaStatementFails(p, f)
          BY <4>2 DEF DiffFolder, RefuseUnvalidated, ExecSchemaStatement, SchemaStatementFails,
                      envVars
        <4>3. CASE \/ AcquireLock(p) \/ LockRefused(p) \/ EnsureSchema(p) \/ Discover(p)
                   \/ ReadHistory(p) \/ SyncAll(p) \/ EnterAdoption(p) \/ PhaseDone(p)
          BY <4>3 DEF AcquireLock, LockRefused, EnsureSchema, Discover, ReadHistory, SyncAll,
                      EnterAdoption, PhaseDone, Leave, envVars
        <4>4. CASE \/ EnsurePGSchemas(p) \/ BeginPass2(p) \/ ReconcileReference(p)
                   \/ PlanPhase(p) \/ CallFails(p) \/ ReleaseLock(p)
          BY <4>4 DEF EnsurePGSchemas, BeginPass2, ReconcileReference, PlanPhase, CallFails,
                      ReleaseLock, Leave, envVars
        <4> QED
          BY <3>1, <4>1, <4>2, <4>3, <4>4 DEF Work
      <3>2. ASSUME NEW p \in Proc, Lose(p) \/ \E c \in Commands : Start(p, c)
            PROVE  dir' = dir
        BY <3>2 DEF Lose, Disconnect, Crash, RecordLost, BaselineLost, Leave, Start, envVars
      <3>3. UNCHANGED vars => dir' = dir
        BY DEF vars
      <3> QED
        BY <2>2, <3>1, <3>2, <3>3 DEF Next
    <2>4. ASSUME NEW p \in Proc, Work(p) PROVE NothingToDo'
      <3>1. \A t \in {"ops", "logic", "permissions", "data"} : Pending(history', dir, t) = {}
        BY <2>1, <2>3, <2>4, NothingPendingAgain DEF FlowInv
      <3>2. ASSUME NEW t \in {"schema", "reference"} PROVE Differing(dir, t)' = {}
        <4>1. \A g \in Present(dir, t) : db[g] = dir[g] /\ g \in File /\ TypeOf[g] = t
          BY <2>1 DEF NothingToDo, Differing, Present, Files
        <4>2. \A g \in Present(dir, t) : db'[g] = db[g]
          BY <2>1, <2>4, <4>1, NothingDiffersAgain DEF FlowInv, ShapeInv
        <4> QED
          BY <2>3, <4>1, <4>2 DEF Differing, Present
      <3> QED
        BY <2>3, <3>1, <3>2 DEF NothingToDo, Pending, Present
    <2>5. ASSUME UNCHANGED <<history, db>> PROVE NothingToDo'
      BY <2>1, <2>3, <2>5 DEF NothingToDo, Differing, Pending, Present
    <2>6. NothingToDo'
      <3>1. ASSUME NEW p \in Proc, Lose(p) \/ \E c \in Commands : Start(p, c)
            PROVE  UNCHANGED <<history, db>>
        BY <3>1 DEF Lose, Disconnect, Crash, RecordLost, BaselineLost, Leave, Start, dbVars
      <3>2. UNCHANGED vars => UNCHANGED <<history, db>>
        BY DEF vars
      <3> QED
        BY <2>2, <2>4, <2>5, <3>1, <3>2 DEF Next
    <2>7. ASSUME NEW p \in Proc, Live(p)' PROVE Idles(p)'
      <3>1. CASE ~Live(p)
        <4>1. pc'[p] \in {"ensuring", "discovering"}
          BY <2>7, <3>1, LiveByLocking DEF AcquireLock, FlowInv, TypeInv, TypeOK
        <4> QED
          BY <4>1 DEF Idles
      <3>2. CASE Live(p) /\ (Work(p) \/ Lose(p))
        BY <2>1, <2>3, <2>7, <3>2, IdlesWork, IdlesLose DEF FlowInv, ShapeInv
      <3>3. CASE Live(p) /\ ~Work(p) /\ ~Lose(p)
        <4>1. Still(p) /\ Idles(p)
          BY <2>1, <3>3, TheHolderIsAlone DEF FlowInv
        <4> QED
          BY <2>3, <4>1 DEF Idles, Still, InLoop, AtSchema
      <3> QED
        BY <3>1, <3>2, <3>3
    <2> QED
      BY <2>6, <2>7
  <1> QED
    BY <1>1, <1>2 DEF FlowInv, TypeInv, TypeOK

LEMMA VouchedInvAlways == Spec => [](PlannedInv /\ VouchedInv)
  <1>1. Init => PlannedInv /\ VouchedInv
    BY DEF Init, PlannedInv, VouchedInv, Live
  <1>2. FlowInv /\ PlannedInv /\ VouchedInv /\ [Next]_vars => (PlannedInv /\ VouchedInv)'
    BY PlannedStep, VouchedStep
  <1> QED
    BY <1>1, <1>2, FlowInvAlways, PTL DEF Spec

\* What a live process other than a sync or a baseline writes once nothing is
\* to be done: nothing.
LEMMA IdlersWriteNothing ==
    ASSUME TypeInv, NothingToDo, NEW p \in Proc, Live(p), Shape(p), Idles(p), Work(p),
           cmd[p] \notin {"sync", "baseline"}
    PROVE  UNCHANGED <<history, runs, db>>
  <1> USE DEF TypeInv, TypeOK
  <1>1. InLoop(p) => pc[p] \in Working /\ todo[p] = {}
    BY DEF Shape, Idles, InLoop, Working
  <1>2. \A f \in File : ~ExecuteMigration(p, f) /\ ~ExecuteMigrationFails(p, f)
    BY <1>1 DEF InLoop, ExecuteMigration, ExecuteMigrationFails, IsNext
  <1>3. \A f \in File : ~RecordApplied(p, f)
    <2>1. pc[p] \in {"executed", "broken"} => InLoop(p)
      BY DEF Idles, AtSchema, InLoop
    <2>2. \A f \in File : RecordApplied(p, f) => f \in todo[p] /\ pc[p] \in {"executed", "broken"}
      BY RecordedIsOnTheList DEF RecordApplied
    <2> QED
      BY <1>1, <2>1, <2>2
  <1>4. \A f \in File : ~RecordBaseline(p, f)
    BY DEF RecordBaseline, Shape
  <1>5. \A f \in File : TypeOf[f] = "schema" =>
           ~ExecSchemaStatement(p, f) /\ ~SchemaStatementFails(p, f)
    BY NoPass2
  <1>6. CASE EnsurePGSchemas(p) \/ ReconcileReference(p)
    <2>1. UNCHANGED <<history, runs>> /\ pc[p] = "entering" /\ phase[p] \in {"schema", "reference"}
      BY <1>6 DEF EnsurePGSchemas, ReconcileReference
    <2>2. \A g \in File : db'[g] = db[g]
      BY <2>1, NothingDiffersAgain, WritesInPhase
    <2>3. db' \in [File -> DbState]
      BY TypeOKWork
    <2> QED
      BY <2>1, <2>2, <2>3
  <1>7. CASE ~EnsurePGSchemas(p) /\ ~ReconcileReference(p)
    BY <1>2, <1>3, <1>4, <1>5, <1>7
       DEF Work, AcquireLock, LockRefused, EnsureSchema, Discover, ReadHistory, SyncAll,
           EnterAdoption, PhaseDone, BeginPass2, PlanPhase, CallFails, ReleaseLock,
           DiffFolder, RefuseUnvalidated, Leave, dbVars
  <1> QED
    BY <1>6, <1>7

\* After a plan that exits 0, and until someone edits a file or touches the
\* database, no apply writes a history row or an object, whatever is lost
\* meanwhile and however many processes there are.
THEOREM CleanPlanIsHonoured == Spec => CleanPlanHolds
  <1> DEFINE Rule == vouched /\ vouched' /\ (\A p \in Proc : cmd[p] \notin {"sync", "baseline"})
                        => UNCHANGED <<history, runs, db>>
  <1>1. ASSUME FlowInv, VouchedInv, [Next]_vars PROVE [Rule]_vars
    <2>1. ASSUME Next, vouched, vouched', \A p \in Proc : cmd[p] \notin {"sync", "baseline"}
          PROVE  UNCHANGED <<history, runs, db>>
      <3>1. ASSUME NEW p \in Proc, Work(p) PROVE UNCHANGED <<history, runs, db>>
        <4>1. CASE Live(p)
          <5>1. NothingToDo /\ Idles(p) /\ Shape(p)
            BY <1>1, <2>1, <4>1 DEF VouchedInv, FlowInv, ShapeInv
          <5> QED
            BY <1>1, <2>1, <3>1, <4>1, <5>1, IdlersWriteNothing DEF FlowInv
        <4>2. CASE ~Live(p)
          BY <1>1, <3>1, <4>2, WritesHappenLocked DEF FlowInv, Live
        <4> QED
          BY <4>1, <4>2
      <3>2. ASSUME NEW p \in Proc, Lose(p) \/ \E c \in Commands : Start(p, c)
            PROVE  UNCHANGED <<history, runs, db>>
        BY <3>2 DEF Lose, Disconnect, Crash, RecordLost, BaselineLost, Leave, Start, dbVars
      <3>3. ~Environment
        BY <2>1 DEF Environment, Drift, EditFile
      <3> QED
        BY <2>1, <3>1, <3>2, <3>3 DEF Next
    <2> QED
      BY <1>1, <2>1
  <1> QED
    BY <1>1, FlowInvAlways, VouchedInvAlways, PTL DEF Spec, CleanPlanHolds

=============================================================================
