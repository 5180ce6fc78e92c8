--------------------------- MODULE M8EngineProofs ---------------------------
(***************************************************************************)
(* Type correctness of M8Engine and the lemmas about its operators, its    *)
(* advisory lock and its one-time migrations: proofs for every set of      *)
(* processes, files and contents and every bound.                          *)
(***************************************************************************)
EXTENDS M8Engine, TLAPS

-----------------------------------------------------------------------------
(* The inductive invariant *)

\* What a process's local variables have to do with one another: files are
\* worked on only if discover() read them, the record that is due is that of a
\* file still on the list, and pass 2 works off the statements of pass 1.
LocalInv ==
    \A p \in Proc :
        /\ pc[p] \in {"idle", "locking", "ensuring", "discovering"} =>
              todo[p] = {} /\ \A f \in Files("schema") : stmts[p][f] = 0
        /\ cur[p] # {} => pc[p] \in {"executed", "broken"}
        /\ cur[p] \subseteq todo[p]
        /\ \A f, g \in cur[p] : f = g
        /\ \A f \in todo[p] : snap[p][f] # Absent
        /\ \A f \in Files("schema") : stmts[p][f] > 0 => snap[p][f] # Absent
        /\ pc[p] \in {"diffing", "altering"} => phase[p] = "schema"
        /\ pc[p] = "looping" => phase[p] # "schema"
        /\ pc[p] = "altering" \/ (pc[p] \in {"executed", "broken"} /\ phase[p] = "schema") =>
              \A f \in todo[p] \ cur[p] : f \in Files("schema") /\ stmts[p][f] > 0

TypeInv == TypeOK /\ LocalInv

-----------------------------------------------------------------------------
(* Lemmas about the operators *)

LEMMA BoundsAreNat ==
    ASSUME NEW f \in File
    PROVE  Ordinal[f] \in Nat /\ TypeOf[f] \in Types
  BY FilesAssumption

LEMMA NewRowType ==
    ASSUME NEW f \in File, NEW c \in Checksum, NEW ok \in BOOLEAN
    PROVE  NewRow(f, c, ok) \in HistoryRow
  BY BoundsAreNat DEF NewRow, HistoryRow, VersionOf, Types

LEMMA InsertType ==
    ASSUME NEW h \in Seq(HistoryRow), NEW row \in HistoryRow
    PROVE  Insert(h, row) \in Seq(HistoryRow) /\ Append(h, row) \in Seq(HistoryRow)
  BY DEF Insert

LEMMA PhaseAfterType ==
    ASSUME NEW c, NEW ph \in Phases
    PROVE  PhaseAfter(c, ph) = "none" \/ PhaseAfter(c, ph) \in Phases
  BY DEF PhaseAfter, Phases

\* NextPhase moves p, and p alone, to the entry of a phase or to its end.
LEMMA NextPhaseMoves ==
    ASSUME TypeOK, NEW p \in Proc, NextPhase(p)
    PROVE  /\ pc' \in [Proc -> Control] /\ phase' \in [Proc -> Phases]
           /\ pc'[p] \in {"entering", "finished"}
           /\ \A q \in Proc \ {p} : pc'[q] = pc[q] /\ phase'[q] = phase[q]
  <1> DEFINE n == PhaseAfter(cmd[p], phase[p])
  <1>1. n = "none" \/ n \in Phases
    BY PhaseAfterType DEF TypeOK
  <1> HIDE DEF n
  <1> QED
    BY <1>1 DEF NextPhase, TypeOK, Control, Locked, n

\* Leave resets p, and p alone.
LEMMA LeaveResets ==
    ASSUME TypeOK, NEW p \in Proc, Leave(p), losses' \in Nat
    PROVE  /\ TypeOK'
           /\ pc'[p] = "idle" /\ sess'[p] = FALSE /\ todo'[p] = {} /\ cur'[p] = {}
           /\ \A f \in Files("schema") : stmts'[p][f] = 0
           /\ \A q \in Proc \ {p} :
                 /\ pc'[q] = pc[q] /\ sess'[q] = sess[q] /\ todo'[q] = todo[q]
                 /\ cur'[q] = cur[q] /\ stmts'[q] = stmts[q]
                 /\ phase'[q] = phase[q] /\ snap'[q] = snap[q]
  <1>1. TypeOK'
    <2>1. snap' \in [Proc -> [File -> Content]]
      BY DEF Leave, TypeOK, Content
    <2>2. stmts' \in [Proc -> [Files("schema") -> 0..MaxStatements]]
      BY EngineAssumption DEF Leave, TypeOK
    <2>3. UNCHANGED <<dir, history, ready, runs, db, vouched, adoptions, edits,
                      drifts, faults>>
      BY DEF Leave, dbVars, envVars
    <2>4. /\ pc' \in [Proc -> Control] /\ cmd' \in [Proc -> {"none"} \cup Commands]
          /\ phase' \in [Proc -> Phases] /\ sess' \in [Proc -> BOOLEAN]
          /\ todo' \in [Proc -> SUBSET File] /\ cur' \in [Proc -> SUBSET File]
          /\ holder' \in Proc \cup {Nobody}
      BY DEF Leave, TypeOK, Control, Phases
    <2> QED
      BY <2>1, <2>2, <2>3, <2>4 DEF TypeOK
  <1> QED
    BY <1>1 DEF Leave, TypeOK

LEMMA LeaveKeepsLocal ==
    ASSUME TypeInv, NEW p \in Proc, Leave(p), losses' \in Nat
    PROVE  LocalInv'
  <1>1. /\ pc'[p] = "idle" /\ todo'[p] = {} /\ cur'[p] = {}
        /\ \A f \in Files("schema") : stmts'[p][f] = 0
    BY LeaveResets DEF TypeInv
  <1>2. \A q \in Proc \ {p} :
           /\ pc'[q] = pc[q] /\ todo'[q] = todo[q] /\ cur'[q] = cur[q]
           /\ stmts'[q] = stmts[q] /\ phase'[q] = phase[q] /\ snap'[q] = snap[q]
    BY LeaveResets DEF TypeInv
  <1> QED
    BY <1>1, <1>2 DEF TypeInv, LocalInv

-----------------------------------------------------------------------------
(* Type correctness *)

LEMMA TypeOKWork ==
    ASSUME TypeInv, NEW p \in Proc, Work(p)
    PROVE  TypeOK'
  <1>1. ASSUME AcquireLock(p) PROVE TypeOK'
    BY <1>1, EngineAssumption DEF AcquireLock, TypeInv, TypeOK, Control, Locked, envVars, dbVars
  <1>2. ASSUME LockRefused(p) PROVE TypeOK'
    BY <1>2, LeaveResets DEF LockRefused, TypeInv, TypeOK
  <1>3. ASSUME EnsureSchema(p) PROVE TypeOK'
    BY <1>3, EngineAssumption DEF EnsureSchema, TypeInv, TypeOK, Control, Locked, envVars, dbVars
  <1>4. ASSUME Discover(p) PROVE TypeOK'
    BY <1>4, EngineAssumption DEF Discover, TypeInv, TypeOK, Control, Locked, envVars, dbVars,
       Phases, Content
  <1>5. ASSUME ReadHistory(p) PROVE TypeOK'
    BY <1>5, EngineAssumption DEF ReadHistory, TypeInv, TypeOK, Control, Locked, envVars, dbVars,
       Pending, Present, Files
  <1>6. ASSUME SyncAll(p) PROVE TypeOK'
    BY <1>6, EngineAssumption DEF SyncAll, TypeInv, TypeOK, Control, Locked, envVars, dbVars,
       Present, Files
  <1>7. ASSUME EnterAdoption(p) PROVE TypeOK'
    <2>1. todo' \in [Proc -> SUBSET File]
      BY <1>7 DEF EnterAdoption, TypeInv, TypeOK, Present, Files, BaselineScope
    <2>2. /\ pc' \in [Proc -> Control]
          /\ UNCHANGED <<dbVars, envVars, holder, cmd, phase, sess, snap, cur,
                         stmts, vouched, faults, losses>>
      BY <1>7 DEF EnterAdoption, TypeInv, TypeOK, Control, Locked
    <2> QED
      BY <2>1, <2>2 DEF TypeInv, TypeOK, dbVars, envVars
  <1>8. ASSUME PhaseDone(p) PROVE TypeOK'
    <2>1. pc' \in [Proc -> Control] /\ phase' \in [Proc -> Phases]
      BY <1>8, NextPhaseMoves DEF PhaseDone, TypeInv
    <2> QED
      BY <1>8, <2>1 DEF PhaseDone, TypeInv, TypeOK, dbVars, envVars
  <1>9. ASSUME EnsurePGSchemas(p) PROVE TypeOK'
    <2>1. db' \in [File -> DbState]
      BY <1>9 DEF EnsurePGSchemas, TypeInv, TypeOK, WithNamespaces, DbState
    <2>2. todo' \in [Proc -> SUBSET File]
      <3>1. Present(snap[p], "schema") \subseteq File
        BY DEF Present, Files
      <3>2. \/ todo' = [todo EXCEPT ![p] = Present(snap[p], "schema")]
            \/ todo' = todo
        BY <1>9 DEF EnsurePGSchemas
      <3> QED
        BY <3>1, <3>2 DEF TypeInv, TypeOK
    <2>3. pc' \in [Proc -> Control] /\ faults' \in Nat
      <3>1. \/ pc' = [pc EXCEPT ![p] = "diffing"] /\ faults' = faults
            \/ pc' = [pc EXCEPT ![p] = "aborted"] /\ faults' = faults + 1
        BY <1>9 DEF EnsurePGSchemas, Spend
      <3> QED
        BY <3>1 DEF TypeInv, TypeOK, Control, Locked
    <2>4. UNCHANGED <<history, ready, runs, envVars, holder, cmd, phase, sess,
                      snap, cur, stmts, vouched, losses>>
      BY <1>9 DEF EnsurePGSchemas
    <2> QED
      BY <2>1, <2>2, <2>3, <2>4 DEF TypeInv, TypeOK, envVars
  <1>10. ASSUME BeginPass2(p) PROVE TypeOK'
    BY <1>10, EngineAssumption DEF BeginPass2, TypeInv, TypeOK, Control, Locked, envVars, dbVars,
       Files
  <1>11. ASSUME ReconcileReference(p) PROVE TypeOK'
    <2>1. pc' \in [Proc -> Control] /\ phase' \in [Proc -> Phases]
      BY <1>11, NextPhaseMoves DEF ReconcileReference, TypeInv
    <2>2. db' \in [File -> DbState]
      BY <1>11 DEF ReconcileReference, TypeInv, TypeOK, Content, DbState
    <2>3. UNCHANGED <<history, ready, runs, envVars, holder, cmd, sess, snap,
                      todo, cur, stmts, vouched, faults, losses>>
      BY <1>11 DEF ReconcileReference
    <2> QED
      BY <2>1, <2>2, <2>3 DEF TypeInv, TypeOK, envVars
  <1>12. ASSUME PlanPhase(p) PROVE TypeOK'
    <2>1. pc' \in [Proc -> Control] /\ phase' \in [Proc -> Phases]
      BY <1>12, NextPhaseMoves DEF PlanPhase, TypeInv
    <2>2. todo' \in [Proc -> SUBSET File]
      <3>1. PlannedIn(p, phase[p]) \subseteq File
        BY DEF PlannedIn, Differing, Pending, Present, Files
      <3> QED
        BY <1>12, <3>1 DEF PlanPhase, TypeInv, TypeOK
    <2>3. vouched' \in BOOLEAN
      BY <1>12 DEF PlanPhase, TypeInv, TypeOK
    <2>4. UNCHANGED <<dbVars, envVars, holder, cmd, sess, snap, cur, stmts,
                      faults, losses>>
      BY <1>12 DEF PlanPhase
    <2> QED
      BY <2>1, <2>2, <2>3, <2>4 DEF TypeInv, TypeOK, dbVars, envVars
  <1>13. ASSUME CallFails(p) PROVE TypeOK'
    BY <1>13, EngineAssumption DEF CallFails, TypeInv, TypeOK, Control, Locked, envVars, dbVars,
       Spend
  <1>14. ASSUME ReleaseLock(p) PROVE TypeOK'
    BY <1>14, LeaveResets DEF ReleaseLock, TypeInv, TypeOK
  <1>15. ASSUME NEW f \in File, ExecuteMigration(p, f) PROVE TypeOK'
    <2>1. db' \in [File -> DbState] /\ runs' \in [OneTime -> Nat]
      <3>1. CASE IsVersioned(f)
        <4>1. f \in OneTime
          BY <3>1 DEF OneTime
        <4>2. runs' = [runs EXCEPT ![f] = @ + 1] /\ db' = db
          BY <1>15, <3>1 DEF ExecuteMigration
        <4> QED
          BY <4>1, <4>2 DEF TypeInv, TypeOK
      <3>2. CASE ~IsVersioned(f)
        <4>1. db' = [db EXCEPT ![f] = snap[p][f]] /\ runs' = runs
          BY <1>15, <3>2 DEF ExecuteMigration
        <4> QED
          BY <4>1 DEF TypeInv, TypeOK, Content, DbState
      <3> QED
        BY <3>1, <3>2
    <2>2. pc' \in [Proc -> Control] /\ cur' \in [Proc -> SUBSET File]
      BY <1>15 DEF ExecuteMigration, TypeInv, TypeOK, Control, Locked
    <2>3. UNCHANGED <<history, ready, envVars, holder, cmd, phase, sess, snap,
                      todo, stmts, vouched, faults, losses>>
      BY <1>15 DEF ExecuteMigration
    <2> QED
      BY <2>1, <2>2, <2>3 DEF TypeInv, TypeOK, envVars
  <1>16. ASSUME NEW f \in File, ExecuteMigrationFails(p, f) PROVE TypeOK'
    <2>1. db' \in [File -> DbState]
      BY <1>16 DEF ExecuteMigrationFails, TypeInv, TypeOK, DbState
    <2>2. pc' \in [Proc -> Control] /\ cur' \in [Proc -> SUBSET File] /\ faults' \in Nat
      BY <1>16 DEF ExecuteMigrationFails, TypeInv, TypeOK, Control, Locked, Spend
    <2>3. UNCHANGED <<history, ready, runs, envVars, holder, cmd, phase, sess,
                      snap, todo, stmts, vouched, losses>>
      BY <1>16 DEF ExecuteMigrationFails
    <2> QED
      BY <2>1, <2>2, <2>3 DEF TypeInv, TypeOK, envVars
  <1>17. ASSUME NEW f \in File, RecordApplied(p, f) PROVE TypeOK'
    <2>1. snap[p][f] \in Checksum
      BY <1>17 DEF RecordApplied, TypeInv, TypeOK, LocalInv, Content
    <2>2. history' \in Seq(HistoryRow)
      <3>1. NewRow(f, snap[p][f], pc[p] = "executed") \in HistoryRow
        BY <2>1, NewRowType
      <3> QED
        BY <1>17, <3>1, InsertType DEF RecordApplied, TypeInv, TypeOK
    <2>3. /\ pc' \in [Proc -> Control] /\ cur' \in [Proc -> SUBSET File]
          /\ todo' \in [Proc -> SUBSET File]
      BY <1>17 DEF RecordApplied, AfterRecord, TypeInv, TypeOK, Control, Locked
    <2>4. UNCHANGED <<ready, runs, db, envVars, holder, cmd, phase, sess, snap,
                      stmts, vouched, faults, losses>>
      BY <1>17 DEF RecordApplied
    <2> QED
      BY <2>2, <2>3, <2>4 DEF TypeInv, TypeOK, envVars
  <1>18. ASSUME NEW f \in File, RecordBaseline(p, f) PROVE TypeOK'
    <2>1. snap[p][f] \in Checksum
      BY <1>18 DEF RecordBaseline, IsNext, TypeInv, TypeOK, LocalInv, Content
    <2>2. history' \in Seq(HistoryRow)
      <3>1. NewRow(f, snap[p][f], TRUE) \in HistoryRow
        BY <2>1, NewRowType
      <3> QED
        BY <1>18, <3>1, InsertType DEF RecordBaseline, TypeInv, TypeOK
    <2>3. pc' \in [Proc -> Control] /\ todo' \in [Proc -> SUBSET File]
      BY <1>18 DEF RecordBaseline, TypeInv, TypeOK, Control, Locked
    <2>4. UNCHANGED <<ready, runs, db, envVars, holder, cmd, phase, sess, snap,
                      cur, stmts, vouched, faults, losses>>
      BY <1>18 DEF RecordBaseline
    <2> QED
      BY <2>2, <2>3, <2>4 DEF TypeInv, TypeOK, envVars
  <1>19. ASSUME NEW f \in File, DiffFolder(p, f), TypeOf[f] = "schema" PROVE TypeOK'
    <2>1. stmts' \in [Proc -> [Files("schema") -> 0..MaxStatements]]
      <3>1. PICK n \in 0..MaxStatements : stmts' = [stmts EXCEPT ![p][f] = n]
        BY <1>19 DEF DiffFolder
      <3> QED
        BY <3>1 DEF TypeInv, TypeOK
    <2>2. /\ todo' \in [Proc -> SUBSET File]
          /\ UNCHANGED <<dbVars, envVars, holder, pc, cmd, phase, sess, snap, cur,
                         vouched, faults, losses>>
      BY <1>19 DEF DiffFolder, TypeInv, TypeOK
    <2> QED
      BY <2>1, <2>2 DEF TypeInv, TypeOK, dbVars, envVars
  <1>20. ASSUME NEW f \in File, RefuseUnvalidated(p, f), TypeOf[f] = "schema" PROVE TypeOK'
    BY <1>20, EngineAssumption DEF RefuseUnvalidated, TypeInv, TypeOK, Control, Locked, envVars,
       dbVars, Spend
  <1>21. ASSUME NEW f \in File, ExecSchemaStatement(p, f), TypeOf[f] = "schema" PROVE TypeOK'
    <2>1. stmts[p][f] \in 1..MaxStatements /\ f \in Files("schema")
      <3>1. cur[p] = {} /\ f \in todo[p] /\ pc[p] = "altering"
        BY <1>21 DEF ExecSchemaStatement, IsNext, TypeInv, LocalInv
      <3>2. f \in Files("schema") /\ stmts[p][f] > 0
        BY <3>1 DEF TypeInv, LocalInv
      <3> QED
        BY <3>2, EngineAssumption DEF TypeInv, TypeOK
    <2>2. stmts' \in [Proc -> [Files("schema") -> 0..MaxStatements]]
      BY <1>21, <2>1, EngineAssumption DEF ExecSchemaStatement, TypeInv, TypeOK
    <2>3. db' \in [File -> DbState]
      <3>1. snap[p][f] \in DbState /\ Mixed \in DbState
        BY DEF TypeInv, TypeOK, Content, DbState
      <3>2. db' = [db EXCEPT ![f] = snap[p][f]] \/ db' = [db EXCEPT ![f] = Mixed]
        BY <1>21 DEF ExecSchemaStatement
      <3> QED
        BY <3>1, <3>2 DEF TypeInv, TypeOK
    <2>4. pc' \in [Proc -> Control] /\ cur' \in [Proc -> SUBSET File]
      <3>1. CASE stmts[p][f] = 1
        <4>1. /\ pc' = [pc EXCEPT ![p] = "executed"]
              /\ cur' = [cur EXCEPT ![p] = {f}]
          BY <1>21, <3>1 DEF ExecSchemaStatement
        <4> QED
          BY <4>1 DEF TypeInv, TypeOK, Control, Locked
      <3>2. CASE stmts[p][f] # 1
        BY <1>21, <3>2 DEF ExecSchemaStatement, TypeInv, TypeOK
      <3> QED
        BY <3>1, <3>2
    <2>5. UNCHANGED <<history, ready, runs, envVars, holder, cmd, phase, sess,
                      snap, todo, vouched, faults, losses>>
      BY <1>21 DEF ExecSchemaStatement
    <2> QED
      BY <2>2, <2>3, <2>4, <2>5 DEF TypeInv, TypeOK, envVars
  <1>22. ASSUME NEW f \in File, SchemaStatementFails(p, f), TypeOf[f] = "schema" PROVE TypeOK'
    <2>1. db' \in [File -> DbState]
      BY <1>22 DEF SchemaStatementFails, TypeInv, TypeOK, DbState
    <2>2. pc' \in [Proc -> Control] /\ cur' \in [Proc -> SUBSET File] /\ faults' \in Nat
      BY <1>22 DEF SchemaStatementFails, TypeInv, TypeOK, Control, Locked, Spend
    <2>3. UNCHANGED <<history, ready, runs, envVars, holder, cmd, phase, sess,
                      snap, todo, stmts, vouched, losses>>
      BY <1>22 DEF SchemaStatementFails
    <2> QED
      BY <2>1, <2>2, <2>3 DEF TypeInv, TypeOK, envVars
  <1> QED
    BY <1>1, <1>2, <1>3, <1>4, <1>5, <1>6, <1>7, <1>8, <1>9, <1>10, <1>11, <1>12, <1>13, <1>14,
       <1>15, <1>16, <1>17, <1>18, <1>19, <1>20, <1>21, <1>22 DEF Work

LEMMA TypeOKLose ==
    ASSUME TypeInv, NEW p \in Proc, Lose(p)
    PROVE  TypeOK'
  <1>1. ASSUME Disconnect(p) PROVE TypeOK'
    BY <1>1, EngineAssumption DEF Disconnect, TypeInv, TypeOK, Control, Locked, envVars, dbVars,
       Spend
  <1>2. ASSUME Crash(p) PROVE TypeOK'
    <2>1. losses' \in Nat
      BY <1>2 DEF Crash, Spend, TypeInv, TypeOK
    <2> QED
      BY <1>2, <2>1, LeaveResets DEF Crash, TypeInv
  <1>3. ASSUME NEW f \in File, RecordLost(p, f) PROVE TypeOK'
    BY <1>3, EngineAssumption DEF RecordLost, TypeInv, TypeOK, Control, Locked, envVars, dbVars,
       AfterRecord, Spend
  <1>4. ASSUME NEW f \in File, BaselineLost(p, f) PROVE TypeOK'
    BY <1>4, EngineAssumption DEF BaselineLost, TypeInv, TypeOK, Control, Locked, envVars, dbVars,
       IsNext, Spend
  <1> QED
    BY <1>1, <1>2, <1>3, <1>4 DEF Lose

LEMMA LocalInvWork ==
    ASSUME TypeInv, NEW p \in Proc, Work(p)
    PROVE  LocalInv'
  <1>1. ASSUME AcquireLock(p) PROVE LocalInv'
    BY <1>1, EngineAssumption DEF AcquireLock, TypeInv, TypeOK, LocalInv, Control, Locked
  <1>2. ASSUME LockRefused(p) PROVE LocalInv'
    BY <1>2, LeaveKeepsLocal DEF LockRefused, TypeInv, TypeOK
  <1>3. ASSUME EnsureSchema(p) PROVE LocalInv'
    BY <1>3, EngineAssumption DEF EnsureSchema, TypeInv, TypeOK, LocalInv, Control, Locked
  <1>4. ASSUME Discover(p) PROVE LocalInv'
    BY <1>4, EngineAssumption DEF Discover, TypeInv, TypeOK, LocalInv, Control, Locked, Phases,
       Content
  <1>5. ASSUME ReadHistory(p) PROVE LocalInv'
    BY <1>5, EngineAssumption DEF ReadHistory, TypeInv, TypeOK, LocalInv, Control, Locked, Pending,
       Present, Files
  <1>6. ASSUME SyncAll(p) PROVE LocalInv'
    BY <1>6, EngineAssumption DEF SyncAll, TypeInv, TypeOK, LocalInv, Control, Locked, Present,
       Files
  <1>7. ASSUME EnterAdoption(p) PROVE LocalInv'
    BY <1>7, EngineAssumption DEF EnterAdoption, TypeInv, TypeOK, LocalInv, Control, Locked,
       Present, Files, BaselineScope
  <1>8. ASSUME PhaseDone(p) PROVE LocalInv'
    <2>1. /\ pc'[p] \in {"entering", "finished"}
          /\ \A q \in Proc \ {p} : pc'[q] = pc[q] /\ phase'[q] = phase[q]
      BY <1>8, NextPhaseMoves DEF PhaseDone, TypeInv
    <2>2. cur[p] = {}
      BY <1>8 DEF PhaseDone, TypeInv, LocalInv
    <2>3. UNCHANGED <<todo, cur, snap, stmts>>
      BY <1>8 DEF PhaseDone
    <2> QED
      BY <2>1, <2>2, <2>3 DEF TypeInv, LocalInv
  <1>9. ASSUME EnsurePGSchemas(p) PROVE LocalInv'
    <2>1. /\ pc[p] = "entering" /\ phase[p] = "schema"
          /\ UNCHANGED <<phase, cur, snap, stmts>>
      BY <1>9 DEF EnsurePGSchemas
    <2>2. \/ /\ todo' = [todo EXCEPT ![p] = Present(snap[p], "schema")]
             /\ pc' = [pc EXCEPT ![p] = "diffing"]
          \/ todo' = todo /\ pc' = [pc EXCEPT ![p] = "aborted"]
      BY <1>9 DEF EnsurePGSchemas
    <2>3. \A f \in todo'[p] : snap[p][f] # Absent
      BY <2>2 DEF Present, TypeInv, TypeOK, LocalInv
    <2>4. /\ cur[p] = {} /\ pc'[p] \in {"diffing", "aborted"}
          /\ \A q \in Proc \ {p} : pc'[q] = pc[q] /\ todo'[q] = todo[q]
      BY <2>1, <2>2 DEF TypeInv, TypeOK, LocalInv
    <2> QED
      BY <2>1, <2>2, <2>3, <2>4 DEF TypeInv, TypeOK, LocalInv
  <1>10. ASSUME BeginPass2(p) PROVE LocalInv'
    BY <1>10, EngineAssumption DEF BeginPass2, TypeInv, TypeOK, LocalInv, Control, Locked, Files
  <1>11. ASSUME ReconcileReference(p) PROVE LocalInv'
    <2>1. /\ pc'[p] \in {"entering", "finished"}
          /\ \A q \in Proc \ {p} : pc'[q] = pc[q] /\ phase'[q] = phase[q]
      BY <1>11, NextPhaseMoves DEF ReconcileReference, TypeInv
    <2>2. cur[p] = {}
      BY <1>11 DEF ReconcileReference, TypeInv, LocalInv
    <2>3. UNCHANGED <<todo, cur, snap, stmts>>
      BY <1>11 DEF ReconcileReference
    <2> QED
      BY <2>1, <2>2, <2>3 DEF TypeInv, LocalInv
  <1>12. ASSUME PlanPhase(p) PROVE LocalInv'
    <2>1. /\ pc'[p] \in {"entering", "finished"}
          /\ \A q \in Proc \ {p} : pc'[q] = pc[q] /\ phase'[q] = phase[q]
      BY <1>12, NextPhaseMoves DEF PlanPhase, TypeInv
    <2>2. cur[p] = {}
      BY <1>12 DEF PlanPhase, TypeInv, LocalInv
    <2>3. \A f \in PlannedIn(p, phase[p]) : snap[p][f] # Absent
      BY DEF PlannedIn, Differing, Pending, Present
    <2>4. /\ UNCHANGED <<cur, snap, stmts>>
          /\ todo' = [todo EXCEPT ![p] = @ \cup PlannedIn(p, phase[p])]
      BY <1>12 DEF PlanPhase
    <2> QED
      BY <2>1, <2>2, <2>3, <2>4 DEF TypeInv, TypeOK, LocalInv
  <1>13. ASSUME CallFails(p) PROVE LocalInv'
    BY <1>13, EngineAssumption DEF CallFails, TypeInv, TypeOK, LocalInv, Control, Locked, Spend
  <1>14. ASSUME ReleaseLock(p) PROVE LocalInv'
    BY <1>14, LeaveKeepsLocal DEF ReleaseLock, TypeInv, TypeOK
  <1>15. ASSUME NEW f \in File, ExecuteMigration(p, f) PROVE LocalInv'
    BY <1>15, EngineAssumption DEF ExecuteMigration, TypeInv, TypeOK, LocalInv, Control, Locked,
       IsNext
  <1>16. ASSUME NEW f \in File, ExecuteMigrationFails(p, f) PROVE LocalInv'
    BY <1>16, EngineAssumption DEF ExecuteMigrationFails, TypeInv, TypeOK, LocalInv, Control,
       Locked, IsNext, Spend
  <1>17. ASSUME NEW f \in File, RecordApplied(p, f) PROVE LocalInv'
    <2>1. /\ pc[p] \in {"executed", "broken"} /\ f \in cur[p]
          /\ todo' = [todo EXCEPT ![p] = @ \ {f}]
          /\ cur' = [cur EXCEPT ![p] = {}]
          /\ pc' = [pc EXCEPT ![p] = AfterRecord(p)]
          /\ UNCHANGED <<phase, snap, stmts>>
      BY <1>17 DEF RecordApplied
    <2>2. cur[p] = {f}
      BY <2>1 DEF TypeInv, LocalInv
    <2>3. /\ AfterRecord(p) \in {"aborted", "altering", "looping"}
          /\ AfterRecord(p) = "altering" => phase[p] = "schema"
          /\ AfterRecord(p) = "looping" => phase[p] # "schema"
      BY DEF AfterRecord
    <2> HIDE DEF AfterRecord
    <2> QED
      BY <2>1, <2>2, <2>3 DEF TypeInv, TypeOK, LocalInv
  <1>18. ASSUME NEW f \in File, RecordBaseline(p, f) PROVE LocalInv'
    <2>1. /\ pc[p] = "adopting"
          /\ todo' = [todo EXCEPT ![p] = @ \ {f}]
          /\ pc' = pc \/ pc' = [pc EXCEPT ![p] = "aborted"]
          /\ UNCHANGED <<phase, cur, snap, stmts>>
      BY <1>18 DEF RecordBaseline
    <2>2. cur[p] = {}
      BY <2>1 DEF TypeInv, LocalInv
    <2> QED
      BY <2>1, <2>2 DEF TypeInv, TypeOK, LocalInv
  <1>19. ASSUME NEW f \in File, DiffFolder(p, f), TypeOf[f] = "schema" PROVE LocalInv'
    BY <1>19, EngineAssumption DEF DiffFolder, TypeInv, TypeOK, LocalInv, Control, Locked, IsNext
  <1>20. ASSUME NEW f \in File, RefuseUnvalidated(p, f), TypeOf[f] = "schema" PROVE LocalInv'
    BY <1>20, EngineAssumption DEF RefuseUnvalidated, TypeInv, TypeOK, LocalInv, Control, Locked,
       Spend
  <1>21. ASSUME NEW f \in File, ExecSchemaStatement(p, f), TypeOf[f] = "schema" PROVE LocalInv'
    <2>1. /\ pc[p] = "altering" /\ f \in todo[p]
          /\ stmts' = [stmts EXCEPT ![p][f] = @ - 1]
          /\ UNCHANGED <<phase, snap, todo>>
      BY <1>21 DEF ExecSchemaStatement, IsNext
    <2>2. cur[p] = {} /\ phase[p] = "schema"
      BY <2>1 DEF TypeInv, LocalInv
    <2>3. f \in Files("schema") /\ stmts[p][f] \in 1..MaxStatements
      BY <2>1, <2>2, EngineAssumption DEF TypeInv, TypeOK, LocalInv
    <2>4. /\ \A g \in Files("schema") \ {f} : stmts'[p][g] = stmts[p][g]
          /\ stmts'[p][f] = stmts[p][f] - 1
          /\ \A q \in Proc \ {p} : stmts'[q] = stmts[q]
      BY <2>1, <2>3 DEF TypeInv, TypeOK
    <2>5. CASE stmts[p][f] = 1
      <3>1. /\ cur' = [cur EXCEPT ![p] = {f}]
            /\ pc' = [pc EXCEPT ![p] = "executed"]
        BY <1>21, <2>5 DEF ExecSchemaStatement
      <3> QED
        BY <2>1, <2>2, <2>3, <2>4, <2>5, <3>1, EngineAssumption DEF TypeInv, TypeOK, LocalInv
    <2>6. CASE stmts[p][f] # 1
      <3>1. cur' = cur /\ pc' = pc
        BY <1>21, <2>6 DEF ExecSchemaStatement
      <3> QED
        BY <2>1, <2>2, <2>3, <2>4, <2>6, <3>1, EngineAssumption DEF TypeInv, TypeOK, LocalInv
    <2> QED
      BY <2>5, <2>6
  <1>22. ASSUME NEW f \in File, SchemaStatementFails(p, f), TypeOf[f] = "schema" PROVE LocalInv'
    BY <1>22, EngineAssumption DEF SchemaStatementFails, TypeInv, TypeOK, LocalInv, Control,
       Locked, IsNext, Spend
  <1> QED
    BY <1>1, <1>2, <1>3, <1>4, <1>5, <1>6, <1>7, <1>8, <1>9, <1>10, <1>11, <1>12, <1>13, <1>14,
       <1>15, <1>16, <1>17, <1>18, <1>19, <1>20, <1>21, <1>22 DEF Work

LEMMA LocalInvLose ==
    ASSUME TypeInv, NEW p \in Proc, Lose(p)
    PROVE  LocalInv'
  <1>1. ASSUME Disconnect(p) PROVE LocalInv'
    BY <1>1, EngineAssumption DEF Disconnect, TypeInv, TypeOK, LocalInv, Control, Locked, Spend
  <1>2. ASSUME Crash(p) PROVE LocalInv'
    <2>1. losses' \in Nat
      BY <1>2 DEF Crash, Spend, TypeInv, TypeOK
    <2> QED
      BY <1>2, <2>1, LeaveKeepsLocal DEF Crash
  <1>3. ASSUME NEW f \in File, RecordLost(p, f) PROVE LocalInv'
    <2>1. /\ pc[p] \in {"executed", "broken"} /\ f \in cur[p]
          /\ todo' = [todo EXCEPT ![p] = @ \ {f}]
          /\ cur' = [cur EXCEPT ![p] = {}]
          /\ pc' = [pc EXCEPT ![p] = AfterRecord(p)]
          /\ UNCHANGED <<phase, snap, stmts>>
      BY <1>3 DEF RecordLost
    <2>2. cur[p] = {f}
      BY <2>1 DEF TypeInv, LocalInv
    <2>3. /\ AfterRecord(p) \in {"aborted", "altering", "looping"}
          /\ AfterRecord(p) = "altering" => phase[p] = "schema"
          /\ AfterRecord(p) = "looping" => phase[p] # "schema"
      BY DEF AfterRecord
    <2> HIDE DEF AfterRecord
    <2> QED
      BY <2>1, <2>2, <2>3 DEF TypeInv, TypeOK, LocalInv
  <1>4. ASSUME NEW f \in File, BaselineLost(p, f) PROVE LocalInv'
    BY <1>4, EngineAssumption DEF BaselineLost, TypeInv, TypeOK, LocalInv, Control, Locked, IsNext,
       Spend
  <1> QED
    BY <1>1, <1>2, <1>3, <1>4 DEF Lose

LEMMA TypeInvEnvironment ==
    ASSUME TypeInv, Environment
    PROVE  TypeInv'
  <1>1. ASSUME NEW f \in File, Drift(f) PROVE TypeInv'
    <2>1. TypeOK'
      <3>1. db' \in [File -> DbState]
        BY <1>1 DEF Drift, TypeInv, TypeOK, DbState
      <3>2. drifts' \in Nat
        BY <1>1 DEF Drift, Spend, TypeInv, TypeOK
      <3>4. vouched' \in BOOLEAN
        BY <1>1 DEF Drift
      <3>3. UNCHANGED <<history, ready, runs, dir, adoptions, edits, holder, pc,
                        cmd, phase, sess, snap, todo, cur, stmts, faults, losses>>
        BY <1>1 DEF Drift, procVars
      <3> QED
        BY <3>1, <3>2, <3>3, <3>4 DEF TypeInv, TypeOK
    <2>2. LocalInv'
      BY <1>1 DEF Drift, TypeInv, LocalInv, procVars
    <2> QED
      BY <2>1, <2>2 DEF TypeInv
  <1>2. ASSUME NEW f \in File, NEW c \in Content, EditFile(f, c) PROVE TypeInv'
    <2>1. TypeOK'
      <3>1. dir' \in [File -> Content]
        BY <1>2 DEF EditFile, TypeInv, TypeOK
      <3>2. edits' \in Nat
        BY <1>2 DEF EditFile, Spend, TypeInv, TypeOK
      <3>4. vouched' \in BOOLEAN
        BY <1>2 DEF EditFile
      <3>3. UNCHANGED <<history, ready, runs, db, adoptions, drifts, holder, pc,
                        cmd, phase, sess, snap, todo, cur, stmts, faults, losses>>
        BY <1>2 DEF EditFile, dbVars, procVars
      <3> QED
        BY <3>1, <3>2, <3>3, <3>4 DEF TypeInv, TypeOK
    <2>2. LocalInv'
      BY <1>2 DEF EditFile, TypeInv, LocalInv, procVars
    <2> QED
      BY <2>1, <2>2 DEF TypeInv
  <1> QED
    BY <1>1, <1>2 DEF Environment

LEMMA TypeInvStart ==
    ASSUME TypeInv, NEW p \in Proc, NEW c \in Commands, Start(p, c)
    PROVE  TypeInv'
  <1>1. TypeOK'
    BY DEF Start, Spend, TypeInv, TypeOK, Control, Locked, dbVars
  <1>2. LocalInv'
    BY DEF Start, TypeInv, TypeOK, LocalInv
  <1> QED
    BY <1>1, <1>2 DEF TypeInv

\* The type invariant, with what it rests on, is inductive.
LEMMA TypeInvStep ==
    ASSUME TypeInv, [Next]_vars
    PROVE  TypeInv'
  <1>1. CASE Next
    BY <1>1, TypeOKWork, TypeOKLose, LocalInvWork, LocalInvLose, TypeInvStart,
       TypeInvEnvironment DEF Next, TypeInv
  <1>2. CASE UNCHANGED vars
    BY <1>2 DEF vars, TypeInv, TypeOK, LocalInv
  <1> QED
    BY <1>1, <1>2

LEMMA TypeInvInit ==
    ASSUME Init
    PROVE  TypeInv
  <1>1. TypeOK
    <2>1. snap \in [Proc -> [File -> Content]]
      BY DEF Init, Content
    <2>2. stmts \in [Proc -> [Files("schema") -> 0..MaxStatements]]
      BY EngineAssumption DEF Init
    <2>3. history \in Seq(HistoryRow)
      BY DEF Init
    <2>4. /\ pc \in [Proc -> Control] /\ phase \in [Proc -> Phases]
          /\ cmd \in [Proc -> {"none"} \cup Commands]
      BY DEF Init, Control, Phases
    <2> QED
      BY <2>1, <2>2, <2>3, <2>4, InitAssumption DEF Init, TypeOK
  <1>2. LocalInv
    BY DEF Init, LocalInv
  <1> QED
    BY <1>1, <1>2 DEF TypeInv

LEMMA TypeInvAlways == Spec => []TypeInv
  BY TypeInvInit, TypeInvStep, PTL DEF Spec

\* In every reachable state every variable of the engine has its type: among
\* others, no row is recorded for a file that discover() did not read.
THEOREM TypeCorrect == Spec => []TypeOK
  <1>1. TypeInv => TypeOK
    BY DEF TypeInv
  <1> QED
    BY <1>1, TypeInvAlways, PTL

-----------------------------------------------------------------------------
(* The advisory lock *)

LEMMA LockInvWork ==
    ASSUME TypeInv, LockInv, NEW p \in Proc, Work(p)
    PROVE  LockInv'
  <1>1. ASSUME AcquireLock(p) PROVE LockInv'
    BY <1>1, EngineAssumption DEF AcquireLock, LockIsFree, TypeInv, TypeOK, LockInv,
       Locked
  <1>2. ASSUME LockRefused(p) PROVE LockInv'
    BY <1>2, EngineAssumption DEF LockRefused, Leave, TypeInv, TypeOK, LockInv, Locked
  <1>3. ASSUME EnsureSchema(p) PROVE LockInv'
    BY <1>3 DEF EnsureSchema, TypeInv, TypeOK, LockInv, Locked
  <1>4. ASSUME Discover(p) PROVE LockInv'
    BY <1>4 DEF Discover, TypeInv, TypeOK, LockInv, Locked
  <1>5. ASSUME ReadHistory(p) PROVE LockInv'
    BY <1>5 DEF ReadHistory, TypeInv, TypeOK, LockInv, Locked
  <1>6. ASSUME SyncAll(p) PROVE LockInv'
    BY <1>6 DEF SyncAll, TypeInv, TypeOK, LockInv, Locked
  <1>7. ASSUME EnterAdoption(p) PROVE LockInv'
    BY <1>7 DEF EnterAdoption, TypeInv, TypeOK, LockInv, Locked
  <1>8. ASSUME PhaseDone(p) PROVE LockInv'
    <2>1. /\ pc'[p] \in Locked /\ \A q \in Proc \ {p} : pc'[q] = pc[q]
      BY <1>8, NextPhaseMoves DEF PhaseDone, TypeInv, Locked
    <2> QED
      BY <1>8, <2>1 DEF PhaseDone, LockInv, Locked
  <1>9. ASSUME EnsurePGSchemas(p) PROVE LockInv'
    BY <1>9 DEF EnsurePGSchemas, TypeInv, TypeOK, LockInv, Locked
  <1>10. ASSUME BeginPass2(p) PROVE LockInv'
    BY <1>10 DEF BeginPass2, TypeInv, TypeOK, LockInv, Locked
  <1>11. ASSUME ReconcileReference(p) PROVE LockInv'
    <2>1. /\ pc'[p] \in Locked /\ \A q \in Proc \ {p} : pc'[q] = pc[q]
      BY <1>11, NextPhaseMoves DEF ReconcileReference, TypeInv, Locked
    <2> QED
      BY <1>11, <2>1 DEF ReconcileReference, LockInv, Locked
  <1>12. ASSUME PlanPhase(p) PROVE LockInv'
    <2>1. /\ pc'[p] \in Locked /\ \A q \in Proc \ {p} : pc'[q] = pc[q]
      BY <1>12, NextPhaseMoves DEF PlanPhase, TypeInv, Locked
    <2> QED
      BY <1>12, <2>1 DEF PlanPhase, LockInv, Locked
  <1>13. ASSUME CallFails(p) PROVE LockInv'
    BY <1>13 DEF CallFails, TypeInv, TypeOK, LockInv, Locked
  <1>14. ASSUME ReleaseLock(p) PROVE LockInv'
    BY <1>14, EngineAssumption DEF ReleaseLock, Leave, TypeInv, TypeOK, LockInv, Locked
  <1>15. ASSUME NEW f \in File, ExecuteMigration(p, f) PROVE LockInv'
    BY <1>15 DEF ExecuteMigration, TypeInv, TypeOK, LockInv, Locked
  <1>16. ASSUME NEW f \in File, ExecuteMigrationFails(p, f) PROVE LockInv'
    BY <1>16 DEF ExecuteMigrationFails, TypeInv, TypeOK, LockInv, Locked
  <1>17. ASSUME NEW f \in File, RecordApplied(p, f) PROVE LockInv'
    BY <1>17 DEF RecordApplied, TypeInv, TypeOK, LockInv, Locked, AfterRecord
  <1>18. ASSUME NEW f \in File, RecordBaseline(p, f) PROVE LockInv'
    BY <1>18 DEF RecordBaseline, TypeInv, TypeOK, LockInv, Locked
  <1>19. ASSUME NEW f \in File, DiffFolder(p, f) PROVE LockInv'
    BY <1>19 DEF DiffFolder, TypeInv, TypeOK, LockInv, Locked
  <1>20. ASSUME NEW f \in File, RefuseUnvalidated(p, f) PROVE LockInv'
    BY <1>20 DEF RefuseUnvalidated, TypeInv, TypeOK, LockInv, Locked
  <1>21. ASSUME NEW f \in File, ExecSchemaStatement(p, f) PROVE LockInv'
    BY <1>21 DEF ExecSchemaStatement, TypeInv, TypeOK, LockInv, Locked
  <1>22. ASSUME NEW f \in File, SchemaStatementFails(p, f) PROVE LockInv'
    BY <1>22 DEF SchemaStatementFails, TypeInv, TypeOK, LockInv, Locked
  <1> QED
    BY <1>1, <1>2, <1>3, <1>4, <1>5, <1>6, <1>7, <1>8, <1>9, <1>10, <1>11, <1>12,
       <1>13, <1>14, <1>15, <1>16, <1>17, <1>18, <1>19, <1>20, <1>21, <1>22 DEF Work

LEMMA LockInvLose ==
    ASSUME TypeInv, LockInv, NEW p \in Proc, Lose(p)
    PROVE  LockInv'
  <1>1. ASSUME Disconnect(p) PROVE LockInv'
    BY <1>1, EngineAssumption DEF Disconnect, TypeInv, TypeOK, LockInv, Locked
  <1>2. ASSUME Crash(p) PROVE LockInv'
    BY <1>2, EngineAssumption DEF Crash, Leave, TypeInv, TypeOK, LockInv, Locked
  <1>3. ASSUME NEW f \in File, RecordLost(p, f) PROVE LockInv'
    BY <1>3 DEF RecordLost, TypeInv, TypeOK, LockInv, Locked, AfterRecord
  <1>4. ASSUME NEW f \in File, BaselineLost(p, f) PROVE LockInv'
    BY <1>4 DEF BaselineLost, TypeInv, TypeOK, LockInv, Locked
  <1> QED
    BY <1>1, <1>2, <1>3, <1>4 DEF Lose

LEMMA LockInvStep ==
    ASSUME TypeInv, LockInv, [Next]_vars
    PROVE  LockInv'
  <1>1. CASE Environment
    BY <1>1 DEF Environment, Drift, EditFile, procVars, LockInv
  <1>2. ASSUME NEW p \in Proc, NEW c \in Commands, Start(p, c)
        PROVE  LockInv'
    BY <1>2 DEF Start, TypeInv, TypeOK, LockInv, Locked
  <1>3. CASE UNCHANGED vars
    BY <1>3 DEF vars, LockInv
  <1> QED
    BY <1>1, <1>2, <1>3, LockInvWork, LockInvLose DEF Next

\* The lock is held exactly by the process that is past acquireLock and still
\* has its session.
THEOREM LockHeldInside == Spec => []LockInv
  <1>1. Init => LockInv
    BY EngineAssumption DEF Init, LockInv, Locked
  <1>2. TypeInv /\ LockInv /\ [Next]_vars => LockInv'
    BY LockInvStep
  <1> QED
    BY <1>1, <1>2, TypeInvAlways, PTL DEF Spec

\* Two processes are never both at work on the target in live sessions.
THEOREM RunsAreSerial == Spec => []SerialRuns
  <1>1. LockInv => SerialRuns
    BY DEF LockInv, SerialRuns
  <1> QED
    BY <1>1, LockHeldInside, PTL

\* The steps that write to the target, each in a live session under the lock.
LEMMA WritesHappenLocked ==
    ASSUME TypeInv, NEW p \in Proc, Work(p)
    PROVE  UNCHANGED <<history, runs, db>> \/ (sess[p] /\ pc[p] \in Locked)
  <1> DEFINE Rule == UNCHANGED <<history, runs, db>> \/ (sess[p] /\ pc[p] \in Locked)
  <1>1. CASE \/ AcquireLock(p) \/ LockRefused(p) \/ EnsureSchema(p) \/ Discover(p)
             \/ ReadHistory(p) \/ SyncAll(p) \/ EnterAdoption(p)
    BY <1>1 DEF AcquireLock, LockRefused, EnsureSchema, Discover, ReadHistory, SyncAll,
       EnterAdoption, Leave, dbVars
  <1>2. CASE \/ PhaseDone(p) \/ BeginPass2(p) \/ PlanPhase(p) \/ CallFails(p)
             \/ ReleaseLock(p)
    BY <1>2 DEF PhaseDone, BeginPass2, PlanPhase, CallFails, ReleaseLock, Leave, dbVars
  <1>3. CASE EnsurePGSchemas(p)
    <2>1. CASE sess[p]
      BY <1>3, <2>1 DEF EnsurePGSchemas, Locked
    <2>2. CASE ~sess[p]
      BY <1>3, <2>2 DEF EnsurePGSchemas, WithNamespaces, TypeInv, TypeOK
    <2> QED
      BY <2>1, <2>2
  <1>4. CASE ReconcileReference(p)
    <2>1. CASE sess[p]
      BY <1>4, <2>1 DEF ReconcileReference, Locked
    <2>2. CASE ~sess[p]
      BY <1>4, <2>2 DEF ReconcileReference, TypeInv, TypeOK
    <2> QED
      BY <2>1, <2>2
  <1>5. ASSUME NEW f \in File, ExecuteMigration(p, f) PROVE Rule
    BY <1>5 DEF ExecuteMigration, Locked
  <1>6. ASSUME NEW f \in File, ExecuteMigrationFails(p, f) PROVE Rule
    BY <1>6 DEF ExecuteMigrationFails, Locked
  <1>7. ASSUME NEW f \in File, RecordApplied(p, f) PROVE Rule
    BY <1>7 DEF RecordApplied, Locked
  <1>8. ASSUME NEW f \in File, RecordBaseline(p, f) PROVE Rule
    BY <1>8 DEF RecordBaseline, Locked
  <1>9. ASSUME NEW f \in File, DiffFolder(p, f) \/ RefuseUnvalidated(p, f) PROVE Rule
    BY <1>9 DEF DiffFolder, RefuseUnvalidated, dbVars
  <1>10. ASSUME NEW f \in File, ExecSchemaStatement(p, f) PROVE Rule
    BY <1>10 DEF ExecSchemaStatement, Locked
  <1>11. ASSUME NEW f \in File, SchemaStatementFails(p, f) PROVE Rule
    BY <1>11 DEF SchemaStatementFails, Locked
  <1> QED
    BY <1>1, <1>2, <1>3, <1>4, <1>5, <1>6, <1>7, <1>8, <1>9, <1>10, <1>11 DEF Work

\* A process that has lost its session, and the lock with it, changes nothing
\* in the target any more, wherever in its loops it lingers.
THEOREM OnlyTheHolderWrites == Spec => OnlyHolderWrites
  <1> DEFINE Rule == \/ UNCHANGED <<history, runs>> /\ (db' # db => drifts' # drifts)
                     \/ \E p \in Proc : holder = p /\ Work(p)
  <1>1. ASSUME TypeInv, LockInv, Next PROVE Rule
    <2>1. ASSUME NEW p \in Proc, Work(p) PROVE Rule
      BY <1>1, <2>1, WritesHappenLocked DEF LockInv
    <2>2. ASSUME NEW p \in Proc, Lose(p) PROVE Rule
      BY <2>2 DEF Lose, Disconnect, Crash, RecordLost, BaselineLost, Leave, dbVars
    <2>3. ASSUME NEW p \in Proc, NEW c \in Commands, Start(p, c) PROVE Rule
      BY <2>3 DEF Start, dbVars
    <2>4. ASSUME NEW f \in File, Drift(f) PROVE Rule
      BY <1>1, <2>4 DEF Drift, Spend, TypeInv, TypeOK
    <2>5. ASSUME NEW f \in File, NEW c \in Content, EditFile(f, c) PROVE Rule
      BY <2>5 DEF EditFile, dbVars
    <2> QED
      BY <1>1, <2>1, <2>2, <2>3, <2>4, <2>5 DEF Next, Environment
  <1>2. ASSUME TypeInv, LockInv, [Next]_vars PROVE [Rule]_vars
    BY <1>1, <1>2
  <1> QED
    BY <1>2, TypeInvAlways, LockHeldInside, PTL DEF Spec, OnlyHolderWrites

-----------------------------------------------------------------------------
(* One-time migrations *)

\* appliedSet stays right: no file on the list of a loop has a version that the
\* history of the loop's session records.
FreshInv ==
    \A p \in Proc :
        sess[p] /\ pc[p] \in {"looping", "executed", "broken", "altering"} =>
        \A f \in todo[p] : f \in OneTime =>
            Ordinal[f] \notin AppliedVersions(history, TypeOf[f])

LEMMA AppendApplied ==
    ASSUME NEW h \in Seq(HistoryRow), NEW row \in HistoryRow, NEW t
    PROVE  AppliedVersions(Append(h, row), t) =
              AppliedVersions(h, t) \cup
              (IF row.success /\ row.type = t THEN {row.version} ELSE {})
  <1> DEFINE h2 == Append(h, row)
  <1>1. /\ DOMAIN h = 1..Len(h) /\ DOMAIN h2 = 1..Len(h) + 1 /\ Len(h) \in Nat
        /\ \A i \in 1..Len(h) : h2[i] = h[i]
        /\ h2[Len(h) + 1] = row
    OBVIOUS
  <1> HIDE DEF h2
  <1>2. CASE row.success /\ row.type = t
    <2>1. Succeeded(h2, t) = Succeeded(h, t) \cup {Len(h) + 1}
      BY <1>1, <1>2 DEF Succeeded
    <2>2. Succeeded(h, t) \subseteq 1..Len(h)
      BY <1>1 DEF Succeeded
    <2> QED
      BY <1>1, <1>2, <2>1, <2>2 DEF AppliedVersions, h2
  <1>3. CASE ~(row.success /\ row.type = t)
    <2>1. Succeeded(h2, t) = Succeeded(h, t)
      BY <1>1, <1>3 DEF Succeeded
    <2>2. Succeeded(h, t) \subseteq 1..Len(h)
      BY <1>1 DEF Succeeded
    <2> QED
      BY <1>1, <1>3, <2>1, <2>2 DEF AppliedVersions, h2
  <1> QED
    BY <1>2, <1>3

\* What recording a file adds to the versions recorded as applied: at most the
\* version of that file, in the history of its folder.
LEMMA RecordedVersions ==
    ASSUME NEW h \in Seq(HistoryRow), NEW f \in File, NEW c \in Checksum,
           NEW ok \in BOOLEAN, NEW t
    PROVE  /\ AppliedVersions(h, t) \subseteq AppliedVersions(Insert(h, NewRow(f, c, ok)), t)
           /\ AppliedVersions(Insert(h, NewRow(f, c, ok)), t) \subseteq
                 AppliedVersions(h, t) \cup
                 (IF ok /\ TypeOf[f] = t THEN {VersionOf(f)} ELSE {})
           /\ ok /\ f \in OneTime => VersionOf(f) \in
                 AppliedVersions(Insert(h, NewRow(f, c, ok)), TypeOf[f])
  <1> DEFINE row == NewRow(f, c, ok)
  <1>1. row \in HistoryRow
    BY NewRowType
  <1>2. row.success = ok /\ row.type = TypeOf[f] /\ row.version = VersionOf(f)
    BY DEF NewRow
  <1> HIDE DEF row
  <1>3. CASE Admits(h, row)
    <2>1. Insert(h, row) = Append(h, row)
      BY <1>3 DEF Insert
    <2>2. \A u : AppliedVersions(Append(h, row), u) =
                    AppliedVersions(h, u) \cup
                    (IF ok /\ TypeOf[f] = u THEN {VersionOf(f)} ELSE {})
      BY <1>1, <1>2, AppendApplied
    <2> QED
      BY <2>1, <2>2 DEF row
  <1>4. CASE ~Admits(h, row)
    <2>1. Insert(h, row) = h
      BY <1>4 DEF Insert
    <2>2. ok /\ VersionOf(f) \in AppliedVersions(h, TypeOf[f])
      BY <1>2, <1>4 DEF Admits
    <2> QED
      BY <2>1, <2>2 DEF row
  <1> QED
    BY <1>3, <1>4

LEMMA FreshInvWork ==
    ASSUME DistinctVersions, TypeInv, LockInv, FreshInv, NEW p \in Proc, Work(p)
    PROVE  FreshInv'
  <1>1. ASSUME AcquireLock(p) PROVE FreshInv'
    BY <1>1 DEF AcquireLock, TypeInv, TypeOK, LockInv, FreshInv, Locked, dbVars
  <1>2. ASSUME LockRefused(p) PROVE FreshInv'
    <2>1. /\ sess'[p] = FALSE /\ UNCHANGED history
          /\ \A q \in Proc \ {p} : /\ pc'[q] = pc[q] /\ todo'[q] = todo[q]
                                   /\ sess'[q] = sess[q]
      BY <1>2 DEF LockRefused, Leave, dbVars, TypeInv, TypeOK
    <2> QED
      BY <2>1 DEF FreshInv
  <1>3. ASSUME EnsureSchema(p) PROVE FreshInv'
    BY <1>3 DEF EnsureSchema, TypeInv, TypeOK, LockInv, FreshInv, Locked, dbVars
  <1>4. ASSUME Discover(p) PROVE FreshInv'
    BY <1>4 DEF Discover, TypeInv, TypeOK, LockInv, FreshInv, Locked, dbVars
  <1>5. ASSUME ReadHistory(p) PROVE FreshInv'
    <2>1. \A f \in Pending(history, snap[p], phase[p]) : f \in OneTime =>
              Ordinal[f] \notin AppliedVersions(history, TypeOf[f])
      BY DEF Pending, Present, Files, OneTime, IsVersioned, VersionOf
    <2>2. /\ todo'[p] = Pending(history, snap[p], phase[p])
          /\ UNCHANGED <<history, sess>>
          /\ \A q \in Proc \ {p} : pc'[q] = pc[q] /\ todo'[q] = todo[q]
      BY <1>5 DEF ReadHistory, dbVars, TypeInv, TypeOK
    <2> QED
      BY <2>1, <2>2 DEF FreshInv
  <1>6. ASSUME SyncAll(p) PROVE FreshInv'
    <2>1. \A f \in todo'[p] : f \notin OneTime
      BY <1>6 DEF SyncAll, Present, Files, OneTime, IsVersioned, TypeInv, TypeOK
    <2>2. /\ UNCHANGED <<history, sess>>
          /\ \A q \in Proc \ {p} : pc'[q] = pc[q] /\ todo'[q] = todo[q]
      BY <1>6 DEF SyncAll, dbVars, TypeInv, TypeOK
    <2> QED
      BY <2>1, <2>2 DEF FreshInv
  <1>7. ASSUME EnterAdoption(p) PROVE FreshInv'
    BY <1>7 DEF EnterAdoption, TypeInv, TypeOK, LockInv, FreshInv, Locked, dbVars
  <1>8. ASSUME PhaseDone(p) PROVE FreshInv'
    <2>1. /\ pc'[p] \in {"entering", "finished"} /\ UNCHANGED <<history, sess>>
          /\ \A q \in Proc \ {p} : pc'[q] = pc[q] /\ todo'[q] = todo[q]
      BY <1>8, NextPhaseMoves DEF PhaseDone, TypeInv, TypeOK, dbVars
    <2> QED
      BY <2>1 DEF FreshInv
  <1>9. ASSUME EnsurePGSchemas(p) PROVE FreshInv'
    BY <1>9 DEF EnsurePGSchemas, TypeInv, TypeOK, LockInv, FreshInv, Locked, dbVars
  <1>10. ASSUME BeginPass2(p) PROVE FreshInv'
    <2>1. \A f \in todo'[p] : f \notin OneTime
      BY <1>10 DEF BeginPass2, Present, Files, OneTime, IsVersioned, TypeInv, TypeOK
    <2>2. /\ UNCHANGED <<history, sess>>
          /\ \A q \in Proc \ {p} : pc'[q] = pc[q] /\ todo'[q] = todo[q]
      BY <1>10 DEF BeginPass2, dbVars, TypeInv, TypeOK
    <2> QED
      BY <2>1, <2>2 DEF FreshInv
  <1>11. ASSUME ReconcileReference(p) PROVE FreshInv'
    <2>1. /\ pc'[p] \in {"entering", "finished"} /\ UNCHANGED <<history, sess>>
          /\ \A q \in Proc \ {p} : pc'[q] = pc[q] /\ todo'[q] = todo[q]
      BY <1>11, NextPhaseMoves DEF ReconcileReference, TypeInv, TypeOK, dbVars
    <2> QED
      BY <2>1 DEF FreshInv
  <1>12. ASSUME PlanPhase(p) PROVE FreshInv'
    <2>1. /\ pc'[p] \in {"entering", "finished"} /\ UNCHANGED <<history, sess>>
          /\ \A q \in Proc \ {p} : pc'[q] = pc[q] /\ todo'[q] = todo[q]
      BY <1>12, NextPhaseMoves DEF PlanPhase, TypeInv, TypeOK, dbVars
    <2> QED
      BY <2>1 DEF FreshInv
  <1>13. ASSUME CallFails(p) PROVE FreshInv'
    BY <1>13 DEF CallFails, TypeInv, TypeOK, LockInv, FreshInv, Locked, dbVars
  <1>14. ASSUME ReleaseLock(p) PROVE FreshInv'
    <2>1. /\ sess'[p] = FALSE /\ UNCHANGED history
          /\ \A q \in Proc \ {p} : /\ pc'[q] = pc[q] /\ todo'[q] = todo[q]
                                   /\ sess'[q] = sess[q]
      BY <1>14 DEF ReleaseLock, Leave, dbVars, TypeInv, TypeOK
    <2> QED
      BY <2>1 DEF FreshInv
  <1>15. ASSUME NEW f \in File, ExecuteMigration(p, f) PROVE FreshInv'
    BY <1>15 DEF ExecuteMigration, TypeInv, TypeOK, LockInv, FreshInv, Locked, dbVars
  <1>16. ASSUME NEW f \in File, ExecuteMigrationFails(p, f) PROVE FreshInv'
    BY <1>16 DEF ExecuteMigrationFails, TypeInv, TypeOK, LockInv, FreshInv, Locked,
       dbVars
  <1>17. ASSUME NEW f \in File, RecordApplied(p, f) PROVE FreshInv'
    <2>1. CASE ~sess[p]
      BY <1>17, <2>1 DEF RecordApplied, TypeInv, TypeOK, FreshInv
    <2>2. CASE sess[p]
      <3>1. \A q \in Proc \ {p} : ~(sess[q] /\ pc[q] \in Locked)
        BY <1>17, <2>2 DEF RecordApplied, LockInv, Locked
      <3>2. /\ \A q \in Proc \ {p} : pc'[q] = pc[q] /\ sess'[q] = sess[q]
            /\ todo'[p] = todo[p] \ {f} /\ f \in todo[p]
        BY <1>17 DEF RecordApplied, TypeInv, TypeOK, LocalInv
      <3>3. ASSUME NEW g \in todo[p] \ {f}, g \in OneTime
            PROVE  Ordinal[g] \notin AppliedVersions(history', TypeOf[g])
        <4>1. Ordinal[g] \notin AppliedVersions(history, TypeOf[g])
          BY <1>17, <2>2, <3>3 DEF RecordApplied, FreshInv
        <4>2. snap[p][f] \in Checksum
          BY <3>2 DEF TypeInv, TypeOK, LocalInv, Content
        <4>3. AppliedVersions(history', TypeOf[g]) \subseteq
                AppliedVersions(history, TypeOf[g]) \cup
                (IF TypeOf[f] = TypeOf[g] THEN {VersionOf(f)} ELSE {})
          <5> DEFINE ok == pc[p] = "executed"
          <5>1. /\ history' = Insert(history, NewRow(f, snap[p][f], ok))
                /\ history \in Seq(HistoryRow) /\ ok \in BOOLEAN
            BY <1>17, <2>2 DEF RecordApplied, TypeInv, TypeOK
          <5> HIDE DEF ok
          <5> QED
            BY <4>2, <5>1, RecordedVersions
        <4>4. TypeOf[f] = TypeOf[g] => VersionOf(f) # Ordinal[g]
          BY <3>3 DEF DistinctVersions, OneTime, IsVersioned, VersionOf
        <4> QED
          BY <4>1, <4>3, <4>4
      <3> QED
        BY <3>1, <3>2, <3>3 DEF FreshInv, Locked
    <2> QED
      BY <2>1, <2>2
  <1>18. ASSUME NEW f \in File, RecordBaseline(p, f) PROVE FreshInv'
    <2>1. /\ pc'[p] \in {"adopting", "aborted"} /\ pc[p] = "adopting"
          /\ \A q \in Proc \ {p} : /\ pc'[q] = pc[q] /\ sess'[q] = sess[q]
                                   /\ todo'[q] = todo[q]
      BY <1>18 DEF RecordBaseline, TypeInv, TypeOK
    <2>2. CASE ~sess[p]
      BY <1>18, <2>1, <2>2 DEF RecordBaseline, FreshInv
    <2>3. CASE sess[p]
      BY <2>1, <2>3 DEF LockInv, FreshInv, Locked
    <2> QED
      BY <2>2, <2>3
  <1>19. ASSUME NEW f \in File, DiffFolder(p, f) PROVE FreshInv'
    BY <1>19 DEF DiffFolder, TypeInv, TypeOK, LockInv, FreshInv, Locked, dbVars
  <1>20. ASSUME NEW f \in File, RefuseUnvalidated(p, f) PROVE FreshInv'
    BY <1>20 DEF RefuseUnvalidated, TypeInv, TypeOK, LockInv, FreshInv, Locked, dbVars
  <1>21. ASSUME NEW f \in File, ExecSchemaStatement(p, f) PROVE FreshInv'
    BY <1>21 DEF ExecSchemaStatement, TypeInv, TypeOK, LockInv, FreshInv, Locked, IsNext
  <1>22. ASSUME NEW f \in File, SchemaStatementFails(p, f) PROVE FreshInv'
    BY <1>22 DEF SchemaStatementFails, TypeInv, TypeOK, LockInv, FreshInv, Locked,
       dbVars
  <1> QED
    BY <1>1, <1>2, <1>3, <1>4, <1>5, <1>6, <1>7, <1>8, <1>9, <1>10, <1>11, <1>12,
       <1>13, <1>14, <1>15, <1>16, <1>17, <1>18, <1>19, <1>20, <1>21, <1>22 DEF Work

LEMMA FreshInvLose ==
    ASSUME TypeInv, LockInv, FreshInv, NEW p \in Proc, Lose(p)
    PROVE  FreshInv'
  <1>1. ASSUME Disconnect(p) PROVE FreshInv'
    BY <1>1 DEF Disconnect, TypeInv, TypeOK, LockInv, FreshInv, Locked, dbVars
  <1>2. ASSUME Crash(p) PROVE FreshInv'
    <2>1. /\ sess'[p] = FALSE /\ UNCHANGED history
          /\ \A q \in Proc \ {p} : /\ pc'[q] = pc[q] /\ todo'[q] = todo[q]
                                   /\ sess'[q] = sess[q]
      BY <1>2 DEF Crash, Leave, dbVars, TypeInv, TypeOK
    <2> QED
      BY <2>1 DEF FreshInv
  <1>3. ASSUME NEW f \in File, RecordLost(p, f) PROVE FreshInv'
    BY <1>3 DEF RecordLost, TypeInv, TypeOK, LockInv, FreshInv, Locked, AfterRecord,
       LocalInv, dbVars
  <1>4. ASSUME NEW f \in File, BaselineLost(p, f) PROVE FreshInv'
    BY <1>4 DEF BaselineLost, TypeInv, TypeOK, LockInv, FreshInv, Locked, dbVars
  <1> QED
    BY <1>1, <1>2, <1>3, <1>4 DEF Lose

LEMMA FreshInvStep ==
    ASSUME DistinctVersions, TypeInv, LockInv, FreshInv, [Next]_vars
    PROVE  FreshInv'
  <1>1. CASE Environment
    BY <1>1 DEF Environment, Drift, EditFile, dbVars, procVars, FreshInv
  <1>2. ASSUME NEW p \in Proc, NEW c \in Commands, Start(p, c)
        PROVE  FreshInv'
    BY <1>2 DEF Start, TypeInv, TypeOK, FreshInv, dbVars
  <1>3. CASE UNCHANGED vars
    BY <1>3 DEF vars, FreshInv
  <1> QED
    BY <1>1, <1>2, <1>3, FreshInvWork, FreshInvLose DEF Next

\* The inductive invariant of the engine.
EngineInv == TypeInv /\ LockInv /\ FreshInv

LEMMA EngineInvAlways ==
    ASSUME DistinctVersions
    PROVE  Spec => []EngineInv
  <1>1. Init => EngineInv
    <2>1. ASSUME Init PROVE LockInv /\ FreshInv
      BY <2>1, EngineAssumption DEF Init, LockInv, FreshInv, Locked
    <2> QED
      BY <2>1, TypeInvInit DEF EngineInv
  <1>2. EngineInv /\ [Next]_vars => EngineInv'
    BY TypeInvStep, LockInvStep, FreshInvStep DEF EngineInv
  <1> QED
    BY <1>1, <1>2, PTL DEF Spec

\* Only executeMigration executes a one-time migration.
LEMMA RunsOnlyByExecution ==
    ASSUME Next
    PROVE  \/ runs' = runs
           \/ \E p \in Proc : \E f \in File : ExecuteMigration(p, f)
  <1>1. ASSUME NEW p \in Proc, Work(p), \A f \in File : ~ExecuteMigration(p, f)
        PROVE  runs' = runs
    <2>1. CASE AcquireLock(p) \/ LockRefused(p) \/ EnsureSchema(p) \/ Discover(p)
            \/ ReadHistory(p) \/ SyncAll(p) \/ EnterAdoption(p)
      BY <2>1 DEF AcquireLock, LockRefused, EnsureSchema, Discover, ReadHistory,
         SyncAll, EnterAdoption, Leave, dbVars
    <2>2. CASE PhaseDone(p) \/ EnsurePGSchemas(p) \/ BeginPass2(p) \/ ReconcileReference(p)
            \/ PlanPhase(p) \/ CallFails(p) \/ ReleaseLock(p)
      BY <2>2 DEF PhaseDone, EnsurePGSchemas, BeginPass2, ReconcileReference,
         PlanPhase, CallFails, ReleaseLock, Leave, dbVars
    <2>3. ASSUME NEW f \in File,
                 ExecuteMigrationFails(p, f) \/ RecordApplied(p, f) \/ RecordBaseline(p, f)
          PROVE  runs' = runs
      BY <2>3 DEF ExecuteMigrationFails, RecordApplied, RecordBaseline, dbVars
    <2>4. ASSUME NEW f \in File,
                 DiffFolder(p, f) \/ RefuseUnvalidated(p, f)
                 \/ ExecSchemaStatement(p, f) \/ SchemaStatementFails(p, f)
          PROVE  runs' = runs
      BY <2>4 DEF DiffFolder, RefuseUnvalidated, ExecSchemaStatement,
         SchemaStatementFails, dbVars
    <2> QED
      BY <1>1, <2>1, <2>2, <2>3, <2>4 DEF Work
  <1>2. ASSUME NEW p \in Proc, Lose(p) PROVE runs' = runs
    BY <1>2 DEF Lose, Disconnect, Crash, RecordLost, BaselineLost, Leave, dbVars
  <1>3. ASSUME NEW p \in Proc, NEW c \in Commands, Start(p, c) PROVE runs' = runs
    BY <1>3 DEF Start, dbVars
  <1>4. CASE Environment
    BY <1>4 DEF Environment, Drift, EditFile, dbVars
  <1> QED
    BY <1>1, <1>2, <1>3, <1>4 DEF Next

\* A one-time migration whose version the history records is not executed.
THEOREM RecordedIsNeverRerun ==
    ASSUME DistinctVersions
    PROVE  Spec => NeverRerun
  <1> DEFINE Rule == \A f \in OneTime :
                runs'[f] # runs[f] => Ordinal[f] \notin AppliedVersions(history, TypeOf[f])
  <1>1. ASSUME EngineInv, Next PROVE Rule
    <2>1. ASSUME NEW p \in Proc, NEW f \in File, ExecuteMigration(p, f)
          PROVE  Rule
      BY <1>1, <2>1 DEF ExecuteMigration, IsNext, EngineInv, TypeInv, TypeOK, FreshInv
    <2> QED
      BY <1>1, <2>1, RunsOnlyByExecution
  <1>2. ASSUME EngineInv, [Next]_vars PROVE [Rule]_vars
    BY <1>1, <1>2
  <1> QED
    BY <1>2, EngineInvAlways, PTL DEF Spec, NeverRerun

-----------------------------------------------------------------------------
(* The engine implements M8OneTime *)

\* A step of p that neither begins nor ends in an owed record leaves Owed alone.
LEMMA OwedKept ==
    ASSUME NEW p \in Proc,
           ~(sess[p] /\ pc[p] = "executed" /\ cur[p] \cap OneTime # {}),
           ~(sess'[p] /\ pc'[p] = "executed" /\ cur'[p] \cap OneTime # {}),
           \A q \in Proc \ {p} :
               sess'[q] = sess[q] /\ pc'[q] = pc[q] /\ cur'[q] = cur[q]
    PROVE  Owed' = Owed
  BY DEF Owed

\* While p is at work in a live session, no one else owes a record.
LEMMA OwedByHolder ==
    ASSUME LockInv, NEW p \in Proc, sess[p], pc[p] \in Locked
    PROVE  Owed = {f \in OneTime : pc[p] = "executed" /\ f \in cur[p]}
  BY DEF LockInv, Owed, Locked

\* The effect of recording a file on the set of recorded one-time migrations.
LEMMA RecordedGrows ==
    ASSUME DistinctVersions, TypeInv, NEW f \in File, NEW c \in Checksum,
           NEW ok \in BOOLEAN, history' = Insert(history, NewRow(f, c, ok))
    PROVE  Recorded' = Recorded \cup (IF ok /\ f \in OneTime THEN {f} ELSE {})
  <1>1. history \in Seq(HistoryRow)
    BY DEF TypeInv, TypeOK
  <1>2. ASSUME NEW g \in OneTime
        PROVE  /\ g \in Recorded => g \in Recorded'
               /\ g \in Recorded' => g \in Recorded \/ (ok /\ g = f)
    <2>1. AppliedVersions(history, TypeOf[g]) \subseteq AppliedVersions(history', TypeOf[g])
      BY <1>1, RecordedVersions
    <2>2. AppliedVersions(history', TypeOf[g]) \subseteq
             AppliedVersions(history, TypeOf[g]) \cup
             (IF ok /\ TypeOf[f] = TypeOf[g] THEN {VersionOf(f)} ELSE {})
      BY <1>1, RecordedVersions
    <2>3. TypeOf[f] = TypeOf[g] /\ VersionOf(f) = Ordinal[g] => f = g
      BY DEF DistinctVersions, OneTime, IsVersioned, VersionOf
    <2> QED
      BY <2>1, <2>2, <2>3 DEF Recorded
  <1>3. ok /\ f \in OneTime => f \in Recorded'
    <2>1. ok /\ f \in OneTime => VersionOf(f) \in AppliedVersions(history', TypeOf[f])
      BY <1>1, RecordedVersions
    <2> QED
      BY <2>1 DEF Recorded, VersionOf, OneTime
  <1>4. Recorded \subseteq OneTime /\ Recorded' \subseteq OneTime
    BY DEF Recorded
  <1> QED
    BY <1>2, <1>3, <1>4

\* Steps that are none of the promise's business.
Quiet == UNCHANGED <<runs, history, losses>> /\ Owed' = Owed

LEMMA WorkIsQuiet ==
    ASSUME EngineInv, NEW p \in Proc, Work(p),
           \A f \in File : /\ ~ExecuteMigration(p, f)
                           /\ ~RecordApplied(p, f)
                           /\ ~RecordBaseline(p, f)
    PROVE  Quiet
  <1> DEFINE Aside ==
                /\ UNCHANGED <<runs, history, losses>>
                /\ pc[p] # "executed" /\ pc'[p] # "executed"
                /\ \A q \in Proc \ {p} :
                      sess'[q] = sess[q] /\ pc'[q] = pc[q] /\ cur'[q] = cur[q]
  <1>0. Aside => Quiet
    BY OwedKept DEF Quiet
  <1> USE DEF EngineInv, TypeInv, TypeOK, dbVars
  <1>1. ASSUME AcquireLock(p) PROVE Aside
    BY <1>1 DEF AcquireLock
  <1>2. ASSUME LockRefused(p) PROVE Aside
    BY <1>2 DEF LockRefused, Leave
  <1>3. ASSUME EnsureSchema(p) PROVE Aside
    BY <1>3 DEF EnsureSchema
  <1>4. ASSUME Discover(p) PROVE Aside
    BY <1>4 DEF Discover
  <1>5. ASSUME ReadHistory(p) PROVE Aside
    BY <1>5 DEF ReadHistory
  <1>6. ASSUME SyncAll(p) PROVE Aside
    BY <1>6 DEF SyncAll
  <1>7. ASSUME EnterAdoption(p) PROVE Aside
    BY <1>7 DEF EnterAdoption
  <1>8. ASSUME PhaseDone(p) PROVE Aside
    BY <1>8, NextPhaseMoves DEF PhaseDone
  <1>9. ASSUME EnsurePGSchemas(p) PROVE Aside
    BY <1>9 DEF EnsurePGSchemas
  <1>10. ASSUME BeginPass2(p) PROVE Aside
    BY <1>10 DEF BeginPass2
  <1>11. ASSUME ReconcileReference(p) PROVE Aside
    BY <1>11, NextPhaseMoves DEF ReconcileReference
  <1>12. ASSUME PlanPhase(p) PROVE Aside
    BY <1>12, NextPhaseMoves DEF PlanPhase
  <1>13. ASSUME CallFails(p) PROVE Aside
    BY <1>13 DEF CallFails
  <1>14. ASSUME ReleaseLock(p) PROVE Aside
    BY <1>14 DEF ReleaseLock, Leave
  <1>15. ASSUME NEW f \in File, ExecuteMigrationFails(p, f) PROVE Aside
    BY <1>15 DEF ExecuteMigrationFails
  <1>16. ASSUME NEW f \in File, DiffFolder(p, f) PROVE Aside
    BY <1>16 DEF DiffFolder
  <1>17. ASSUME NEW f \in File, RefuseUnvalidated(p, f) PROVE Aside
    BY <1>17 DEF RefuseUnvalidated
  <1>18. ASSUME NEW f \in File, SchemaStatementFails(p, f) PROVE Aside
    BY <1>18 DEF SchemaStatementFails
  <1>19. ASSUME NEW f \in File, ExecSchemaStatement(p, f) PROVE Quiet
    <2>1. f \notin OneTime
      BY <1>19 DEF ExecSchemaStatement, IsNext, LocalInv, Files, OneTime, IsVersioned
    <2>2. /\ UNCHANGED <<runs, history, losses, sess>>
          /\ pc[p] = "altering"
          /\ pc'[p] = "executed" => cur'[p] = {f}
          /\ \A q \in Proc \ {p} : pc'[q] = pc[q] /\ cur'[q] = cur[q]
      <3>1. CASE stmts[p][f] = 1
        BY <1>19, <3>1 DEF ExecSchemaStatement
      <3>2. CASE stmts[p][f] # 1
        BY <1>19, <3>2 DEF ExecSchemaStatement
      <3> QED
        BY <3>1, <3>2
    <2> HIDE DEF EngineInv, TypeInv, TypeOK, dbVars, Aside
    <2> QED
      BY <2>1, <2>2, OwedKept DEF Quiet
  <1> HIDE DEF EngineInv, TypeInv, TypeOK, dbVars, Aside
  <1> QED
    BY <1>0, <1>1, <1>2, <1>3, <1>4, <1>5, <1>6, <1>7, <1>8, <1>9, <1>10, <1>11, <1>12,
       <1>13, <1>14, <1>15, <1>16, <1>17, <1>18, <1>19 DEF Work

\* Executing a migration: Promise!Execute for a one-time one.
LEMMA ExecuteKeepsPromise ==
    ASSUME EngineInv, NEW p \in Proc, NEW f \in File, ExecuteMigration(p, f)
    PROVE  [Promise!Next]_Promise!vars
  <1>1. /\ sess[p] /\ pc[p] = "looping" /\ f \in todo[p]
        /\ sess'[p] /\ pc'[p] = "executed" /\ cur'[p] = {f}
        /\ UNCHANGED <<history, sess, losses>>
        /\ \A q \in Proc \ {p} : pc'[q] = pc[q] /\ cur'[q] = cur[q]
    BY DEF ExecuteMigration, IsNext, EngineInv, TypeInv, TypeOK
  <1>2. Recorded' = Recorded
    BY <1>1 DEF Recorded
  <1>3. CASE f \in OneTime
    <2>1. Owed = {}
      BY <1>1, OwedByHolder DEF EngineInv, Locked
    <2>2. Owed' = {f}
      <3>1. \A q \in Proc \ {p} : ~(sess[q] /\ pc[q] \in Locked)
        BY <1>1 DEF EngineInv, LockInv, Locked
      <3> QED
        BY <1>1, <1>3, <3>1 DEF Owed, Locked
    <2>3. f \notin Recorded
      BY <1>1, <1>3 DEF EngineInv, FreshInv, Recorded
    <2>4. runs' = [runs EXCEPT ![f] = @ + 1]
      BY <1>3 DEF ExecuteMigration, OneTime
    <2>5. Promise!Execute(f)
      BY <1>1, <1>2, <2>1, <2>2, <2>3, <2>4 DEF Promise!Execute
    <2> QED
      BY <1>3, <2>5 DEF Promise!Next
  <1>4. CASE f \notin OneTime
    <2>1. Owed' = Owed
      BY <1>1, <1>4, OwedKept
    <2>2. runs' = runs
      BY <1>4 DEF ExecuteMigration, OneTime
    <2> QED
      BY <1>1, <1>2, <2>1, <2>2 DEF Promise!vars
  <1> QED
    BY <1>3, <1>4

\* Recording a migration: Promise!Record for a one-time one that succeeded.
LEMMA RecordKeepsPromise ==
    ASSUME DistinctVersions, EngineInv,
           NEW p \in Proc, NEW f \in File, RecordApplied(p, f)
    PROVE  [Promise!Next]_Promise!vars
  <1> DEFINE ok == pc[p] = "executed"
  <1>1. /\ pc[p] \in {"executed", "broken"} /\ cur[p] = {f} /\ snap[p][f] \in Checksum
        /\ cur'[p] = {} /\ UNCHANGED <<runs, sess, losses>>
        /\ \A q \in Proc \ {p} : pc'[q] = pc[q] /\ cur'[q] = cur[q]
    BY DEF RecordApplied, EngineInv, TypeInv, TypeOK, LocalInv, Content
  <1>2. CASE ~sess[p]
    <2>1. Owed' = Owed
      BY <1>1, <1>2, OwedKept
    <2>2. Recorded' = Recorded
      BY <1>2 DEF RecordApplied, Recorded
    <2> QED
      BY <1>1, <2>1, <2>2 DEF Promise!vars
  <1>3. CASE sess[p]
    <2>1. Recorded' = Recorded \cup (IF ok /\ f \in OneTime THEN {f} ELSE {})
      <3>1. history' = Insert(history, NewRow(f, snap[p][f], ok)) /\ ok \in BOOLEAN
        BY <1>3 DEF RecordApplied
      <3> HIDE DEF ok
      <3> QED
        BY <1>1, <3>1, RecordedGrows DEF EngineInv
    <2>2. Owed = IF ok /\ f \in OneTime THEN {f} ELSE {}
      BY <1>1, <1>3, OwedByHolder DEF EngineInv, Locked
    <2>3. Owed' = {}
      <3>1. \A q \in Proc \ {p} : ~(sess[q] /\ pc[q] \in Locked)
        BY <1>1, <1>3 DEF EngineInv, LockInv, Locked
      <3> QED
        BY <1>1, <3>1 DEF Owed, Locked
    <2> HIDE DEF ok
    <2>4. CASE ok /\ f \in OneTime
      <3>1. Promise!Record(f)
        BY <1>1, <2>1, <2>2, <2>3, <2>4 DEF Promise!Record
      <3> QED
        BY <2>4, <3>1 DEF Promise!Next
    <2>5. CASE ~(ok /\ f \in OneTime)
      BY <1>1, <2>1, <2>2, <2>3, <2>5 DEF Promise!vars
    <2> QED
      BY <2>4, <2>5
  <1> QED
    BY <1>2, <1>3

\* Adopting a migration that has run elsewhere: Promise!Adopt.
LEMMA BaselineKeepsPromise ==
    ASSUME DistinctVersions, EngineInv,
           NEW p \in Proc, NEW f \in File, RecordBaseline(p, f)
    PROVE  [Promise!Next]_Promise!vars
  <1>1. /\ pc[p] = "adopting" /\ pc'[p] \in {"adopting", "aborted"}
        /\ f \in todo[p] /\ snap[p][f] \in Checksum
        /\ UNCHANGED <<runs, sess, cur, losses>>
        /\ \A q \in Proc \ {p} : pc'[q] = pc[q]
    BY DEF RecordBaseline, IsNext, EngineInv, TypeInv, TypeOK, LocalInv, Content
  <1>2. Owed' = Owed
    BY <1>1, OwedKept
  <1>3. CASE history' = history
    BY <1>1, <1>2, <1>3 DEF Promise!vars, Recorded
  <1>4. CASE history' # history
    <2>1. sess[p] /\ Admits(history, NewRow(f, snap[p][f], TRUE))
      BY <1>4 DEF RecordBaseline
    <2>2. history' = Insert(history, NewRow(f, snap[p][f], TRUE))
      BY <2>1 DEF RecordBaseline, Insert
    <2>3. Recorded' = Recorded \cup (IF f \in OneTime THEN {f} ELSE {})
      BY <1>1, <2>2, RecordedGrows DEF EngineInv
    <2>4. Owed = {}
      BY <1>1, <2>1, OwedByHolder DEF EngineInv, Locked
    <2>5. CASE f \in OneTime
      <3>1. Promise!Adopt(f)
        BY <1>1, <1>2, <2>3, <2>4, <2>5 DEF Promise!Adopt
      <3> QED
        BY <2>5, <3>1 DEF Promise!Next
    <2>6. CASE f \notin OneTime
      BY <1>1, <1>2, <2>3, <2>6 DEF Promise!vars
    <2> QED
      BY <2>5, <2>6
  <1> QED
    BY <1>3, <1>4

\* Losing a row, a session or a process: Promise!Interrupt.
LEMMA LoseKeepsPromise ==
    ASSUME EngineInv, NEW p \in Proc, Lose(p)
    PROVE  [Promise!Next]_Promise!vars
  <1>1. losses' = losses + 1 /\ UNCHANGED <<runs, history>>
    BY DEF Lose, Disconnect, Crash, RecordLost, BaselineLost, Leave, Spend, dbVars
  <1>2. Recorded' = Recorded
    BY <1>1 DEF Recorded
  <1>3. /\ \A q \in Proc \ {p} : sess'[q] = sess[q] /\ pc'[q] = pc[q] /\ cur'[q] = cur[q]
        /\ sess'[p] => sess[p]
        /\ pc'[p] = "executed" => pc[p] = "executed" /\ cur'[p] = cur[p]
        /\ cur'[p] \subseteq cur[p]
    <2> USE DEF EngineInv, TypeInv, TypeOK
    <2>1. CASE Disconnect(p)
      BY <2>1 DEF Disconnect
    <2>2. CASE Crash(p)
      BY <2>2 DEF Crash, Leave
    <2>3. ASSUME NEW f \in File, RecordLost(p, f) \/ BaselineLost(p, f)
          PROVE <1>3!1 /\ <1>3!2 /\ <1>3!3 /\ <1>3!4
      BY <2>3 DEF RecordLost, BaselineLost, AfterRecord, Spend
    <2> QED
      BY <2>1, <2>2, <2>3 DEF Lose
  <1>4. Owed' \in {Owed, {}}
    <2>1. CASE sess[p] /\ pc[p] = "executed"
      <3>1. \A q \in Proc \ {p} : ~(sess[q] /\ pc[q] \in Locked)
        BY <2>1 DEF EngineInv, LockInv, Locked
      <3>2. CASE sess'[p] /\ pc'[p] = "executed"
        BY <1>3, <2>1, <3>2 DEF Owed
      <3>3. CASE ~(sess'[p] /\ pc'[p] = "executed")
        BY <1>3, <3>1, <3>3 DEF Owed, Locked
      <3> QED
        BY <3>2, <3>3
    <2>2. CASE ~(sess[p] /\ pc[p] = "executed")
      BY <1>3, <2>2, OwedKept
    <2> QED
      BY <2>1, <2>2
  <1>5. Promise!Interrupt
    BY <1>1, <1>2, <1>4 DEF Promise!Interrupt
  <1> QED
    BY <1>5 DEF Promise!Next

LEMMA StepKeepsPromise ==
    ASSUME DistinctVersions, EngineInv, [Next]_vars
    PROVE  [Promise!Next]_Promise!vars
  <1>1. ASSUME Quiet PROVE UNCHANGED Promise!vars
    BY <1>1 DEF Quiet, Promise!vars, Recorded
  <1>2. ASSUME NEW p \in Proc, Work(p) PROVE [Promise!Next]_Promise!vars
    BY <1>1, <1>2, WorkIsQuiet, ExecuteKeepsPromise, RecordKeepsPromise,
       BaselineKeepsPromise
  <1>3. ASSUME NEW p \in Proc, NEW c \in Commands, Start(p, c) PROVE Quiet
    <2>1. /\ UNCHANGED <<runs, history, losses, cur>>
          /\ pc[p] # "executed" /\ pc'[p] # "executed"
          /\ \A q \in Proc \ {p} : sess'[q] = sess[q] /\ pc'[q] = pc[q]
      BY <1>3 DEF Start, dbVars, EngineInv, TypeInv, TypeOK
    <2> QED
      BY <2>1, OwedKept DEF Quiet
  <1>4. CASE Environment
    <2>1. Quiet
      BY <1>4 DEF Environment, Drift, EditFile, dbVars, procVars, Quiet, Owed
    <2> QED
      BY <1>1, <2>1
  <1>5. CASE UNCHANGED vars
    <2>1. Quiet
      BY <1>5 DEF vars, Quiet, Owed
    <2> QED
      BY <1>1, <2>1
  <1> QED
    BY <1>1, <1>2, <1>3, <1>4, <1>5, LoseKeepsPromise DEF Next

\* The engine executes and records one-time migrations as M8OneTime says:
\* executeMigration, RecordApplied, RecordBaseline and every interruption are
\* steps of the promise, and nothing else the engine does concerns it.
THEOREM EngineKeepsPromise ==
    ASSUME DistinctVersions
    PROVE  Spec => KeepsPromise
  <1>1. Init => Promise!Init
    BY DEF Init, Promise!Init, Recorded, Owed, AppliedVersions, Succeeded
  <1>2. EngineInv /\ [Next]_vars => [Promise!Next]_Promise!vars
    BY StepKeepsPromise
  <1> QED
    BY <1>1, <1>2, EngineInvAlways, PTL DEF Spec, KeepsPromise, Promise!Spec

\* Only the holder of the lock can owe a record, and of one migration.
LEMMA OwedIsOne ==
    ASSUME EngineInv, NEW f \in Owed, NEW g \in Owed
    PROVE  f = g
  <1>1. PICK p \in Proc : sess[p] /\ pc[p] = "executed" /\ f \in cur[p]
    BY DEF Owed
  <1>2. g \in cur[p]
    BY <1>1, OwedByHolder DEF EngineInv, Locked
  <1> QED
    BY <1>1, <1>2 DEF EngineInv, TypeInv, LocalInv

\* A one-time migration whose record is not in the history, nor about to be,
\* has run at most once per lost row, session or process: the code repeats a
\* migration for no other reason.
THEOREM ReexecutionsArePaidFor ==
    ASSUME DistinctVersions
    PROVE  Spec => []RunsArePaidFor
  <1>1. Init => RunsArePaidFor
    BY DEF Init, RunsArePaidFor, Recorded, Owed
  <1>2. ASSUME EngineInv, RunsArePaidFor, [Next]_vars PROVE RunsArePaidFor'
    <2> USE DEF RunsArePaidFor
    <2>1. runs \in [OneTime -> Nat] /\ losses \in Nat
      BY <1>2 DEF EngineInv, TypeInv, TypeOK
    <2>2. ASSUME NEW f \in OneTime, Promise!Execute(f) PROVE RunsArePaidFor'
      BY <1>2, <2>1, <2>2 DEF Promise!Execute
    <2>3. ASSUME NEW f \in OneTime, Promise!Record(f) PROVE RunsArePaidFor'
      <3>1. Owed = {f}
        BY <1>2, <2>3, OwedIsOne DEF Promise!Record
      <3> QED
        BY <1>2, <2>1, <2>3, <3>1 DEF Promise!Record
    <2>4. ASSUME NEW f \in OneTime, Promise!Adopt(f) PROVE RunsArePaidFor'
      BY <1>2, <2>1, <2>4 DEF Promise!Adopt
    <2>5. CASE Promise!Interrupt
      BY <1>2, <2>1, <2>5 DEF Promise!Interrupt
    <2>6. CASE UNCHANGED Promise!vars
      BY <1>2, <2>6 DEF Promise!vars
    <2> QED
      BY <1>2, <2>2, <2>3, <2>4, <2>5, <2>6, StepKeepsPromise DEF Promise!Next
  <1> QED
    BY <1>1, <1>2, EngineInvAlways, PTL DEF Spec

=============================================================================
