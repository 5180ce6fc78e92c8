-------------------------- MODULE M8ValidateProofs --------------------------
(***************************************************************************)
(* What m8 says of a plan's validation is true of the plan: for any        *)
(* schemas, objects, dependencies between them, caps and failures.         *)
(***************************************************************************)
EXTENDS M8Validate, FiniteSetTheorems, TLAPS

-----------------------------------------------------------------------------
(* The inductive invariant *)

Recovering == {"discovering", "counting", "harvesting", "retrying", "degrading"}

\* The types the other parts need.
WellTyped ==
    /\ pc \in Control /\ todo \subseteq Folder /\ at \in Folder
    /\ outcome \in [Folder -> Outcomes] /\ note \in [Folder -> SUBSET Obj]
    /\ proposing \subseteq Folder

\* The factory is armed in a retry and at no other time, with the objects of
\* the schemas that this folder reaches into, and only a retry leaves skipped
\* objects, for its own folder, until the diff ends.
SeedInv ==
    /\ pc # "retrying" => seedDDL = {}
    /\ pc \in {"counting", "harvesting", "retrying"} => deps = DependencySchemas(at)
    /\ pc = "retrying" => seedDDL = ObjectsOf(deps)
    /\ pc # "degrading" => seedSkipped = {}

\* Only a folder that cannot be rebuilt by itself is recovered.
RecoveryInv == pc \in Recovering => ~Rebuilds(at, {})

\* Folders are settled one by one.
ProgressInv ==
    /\ at \in todo => pc = "next" /\ todo = Folder
    /\ \A f \in todo : ~Settled(f)
    /\ pc \in {"generating"} \cup Recovering => ~Settled(at)
    /\ pc \in {"applying", "done"} => todo = {}

\* An apply that goes on has refused nothing, and runs nothing before the end
\* of pass 1.
GateInv ==
    /\ cmd = "apply" /\ pc \in {"generating"} \cup Recovering =>
          \A f \in Folder \ (todo \cup {at}) :
              outcome[f] \in {"validated", "seeded", "unvalidated"}
    /\ cmd = "apply" /\ pc \in {"next", "applying", "done"} =>
          \A f \in Folder \ todo : outcome[f] \in {"validated", "seeded", "unvalidated"}
    /\ pc = "applying" => cmd = "apply"
    /\ failOnUnvalidated => \A f \in proposing : outcome[f] # "unvalidated"
    /\ executed # {} => pc \in {"applying", "done", "stopped"}
    /\ executed \subseteq proposing

ValidateInv ==
    /\ WellTyped /\ SeedInv /\ RecoveryInv /\ ProgressInv /\ GateInv
    /\ SeedCannotFlatter /\ SaysWhatItImported /\ NotesAreOwn /\ RefusalIsWhole

-----------------------------------------------------------------------------
(* Every step keeps the invariant *)

\* What the live catalog says does not change while a command runs.
LEMMA WorldIsKept ==
    ASSUME UNCHANGED world
    PROVE  /\ \A f \in Folder : Rebuilds(f, {})' <=> Rebuilds(f, {})
           /\ \A f \in Folder : DependencySchemas(f)' = DependencySchemas(f)
           /\ \A objs : Built(objs)' = Built(objs)
           /\ UNCHANGED <<uses, good, proposing, failOnUnvalidated, cmd>>
  BY DEF world, Rebuilds, Built, DependencySchemas

\* The parts of the invariant that speak of what has been settled survive a
\* step that settles nothing and executes nothing.
LEMMA NothingSettled ==
    ASSUME ValidateInv, UNCHANGED <<world, outcome, note, executed>>
    PROVE  SeedCannotFlatter' /\ SaysWhatItImported' /\ NotesAreOwn' /\ RefusalIsWhole'
<1>1. SeedCannotFlatter' /\ RefusalIsWhole'
  BY WorldIsKept DEF ValidateInv, SeedCannotFlatter, RefusalIsWhole
<1>2. SaysWhatItImported'
  BY WorldIsKept DEF ValidateInv, SaysWhatItImported
<1>3. NotesAreOwn'
  <2> SUFFICES ASSUME NEW f \in Folder
      PROVE  LET imported == ObjectsOf(DependencySchemas(f)) IN
             note'[f] \subseteq imported \ Built(imported)
    BY WorldIsKept DEF NotesAreOwn, ObjectsOf
  <2> QED
    BY DEF ValidateInv, NotesAreOwn
<1> QED
  BY <1>1, <1>2, <1>3

\* Settling the folder at hand, while nothing has been executed: the statement
\* of each property for that folder is enough.
LEMMA OneSettled ==
    ASSUME ValidateInv, NEW r \in Outcomes, NEW n \in SUBSET Obj,
           pc \in {"generating"} \cup Recovering, Settle(r),
           UNCHANGED <<world, executed>>,
           note' = [note EXCEPT ![at] = n] \/ (UNCHANGED note /\ n = note[at]),
           r \in {"validated", "seeded"} => at \in good,
           r = "validated" => Rebuilds(at, {}),
           r = "seeded" => ~Rebuilds(at, {}),
           LET imported == ObjectsOf(DependencySchemas(at)) IN
               n \subseteq imported \ Built(imported)
    PROVE  SeedCannotFlatter' /\ SaysWhatItImported' /\ NotesAreOwn' /\ RefusalIsWhole'
<1>1. \A f \in Folder : /\ outcome'[f] = IF f = at THEN r ELSE outcome[f]
                        /\ note'[f] = IF f = at THEN n ELSE note[f]
  BY DEF ValidateInv, WellTyped, Settle
<1>2. at \in Folder
  BY DEF ValidateInv, WellTyped
<1>3. SeedCannotFlatter'
  BY <1>1, <1>2, WorldIsKept DEF ValidateInv, SeedCannotFlatter
<1>4. SaysWhatItImported'
  BY <1>1, <1>2, WorldIsKept DEF ValidateInv, SaysWhatItImported
<1>5. NotesAreOwn'
  <2> SUFFICES ASSUME NEW f \in Folder
      PROVE  LET imported == ObjectsOf(DependencySchemas(f)) IN
             note'[f] \subseteq imported \ Built(imported)
    BY WorldIsKept DEF NotesAreOwn, ObjectsOf
  <2> QED
    BY <1>1, <1>2 DEF ValidateInv, NotesAreOwn
<1>6. RefusalIsWhole'
  BY DEF ValidateInv, GateInv, RefusalIsWhole, Recovering
<1> QED
  BY <1>3, <1>4, <1>5, <1>6

\* A folder that cannot be diffed, or is refused, is settled so, and an apply
\* stops there.
LEMMA FolderStopsKeeps ==
    ASSUME ValidateInv, NEW r \in {"failed", "refused"}, FolderStops(r), pc \in {"generating"} \cup Recovering,
           UNCHANGED <<world, todo, at, note, executed>>,
           seedDDL' = {}, seedSkipped' = {}
    PROVE  ValidateInv'
<1>1. \A f \in Folder : outcome'[f] = IF f = at THEN r ELSE outcome[f]
  BY DEF ValidateInv, WellTyped, FolderStops, Settle
<1>2. pc' \in {"next", "stopped"} /\ (cmd = "apply" => pc' = "stopped")
  BY DEF FolderStops
<1>3. at \in Folder /\ at \notin todo
  BY DEF ValidateInv, WellTyped, ProgressInv, Recovering
<1>4. WellTyped'
  BY <1>2, WorldIsKept DEF ValidateInv, WellTyped, FolderStops, Settle, Control, Outcomes
<1>5. SeedInv' /\ RecoveryInv'
  BY <1>2 DEF SeedInv, RecoveryInv, Recovering
<1>6. ProgressInv'
  BY <1>1, <1>2, <1>3 DEF ValidateInv, WellTyped, ProgressInv, Settled, Recovering
<1>7. executed = {}
  BY DEF ValidateInv, GateInv, Recovering
<1>8. GateInv'
  BY <1>1, <1>2, <1>7, WorldIsKept DEF ValidateInv, WellTyped, GateInv, Recovering
<1>9. note[at] \in SUBSET Obj /\ r \in Outcomes /\ Settle(r)
  BY <1>3 DEF ValidateInv, WellTyped, Outcomes, FolderStops
<1>10. SeedCannotFlatter' /\ SaysWhatItImported' /\ NotesAreOwn' /\ RefusalIsWhole'
  BY <1>3, <1>9, OneSettled DEF ValidateInv, NotesAreOwn
<1> QED
  BY <1>4, <1>5, <1>6, <1>8, <1>10 DEF ValidateInv

\* A folder whose diff is had, in whatever way, is settled with it.
LEMMA FolderDiffedKeeps ==
    ASSUME ValidateInv, pc \in {"generating"} \cup Recovering,
           NEW r \in {"validated", "seeded", "unvalidated"}, NEW n \in SUBSET Obj,
           Settle(r), pc' = "next",
           UNCHANGED <<world, todo, at, executed>>,
           seedDDL' = {}, seedSkipped' = {},
           note' = [note EXCEPT ![at] = n] \/ (UNCHANGED note /\ n = note[at]),
           r \in {"validated", "seeded"} => at \in good,
           r = "validated" => Rebuilds(at, {}),
           r = "seeded" => ~Rebuilds(at, {}),
           r = "unvalidated" => ~ (failOnUnvalidated /\ at \in proposing),
           LET imported == ObjectsOf(DependencySchemas(at)) IN
               n \subseteq imported \ Built(imported)
    PROVE  ValidateInv'
<1>1. \A f \in Folder : outcome'[f] = IF f = at THEN r ELSE outcome[f]
  BY DEF ValidateInv, WellTyped, Settle
<1>2. at \in Folder /\ at \notin todo
  BY DEF ValidateInv, WellTyped, ProgressInv, Recovering
<1>3. WellTyped'
  BY WorldIsKept DEF ValidateInv, WellTyped, Settle, Control, Outcomes
<1>4. SeedInv' /\ RecoveryInv'
  BY DEF SeedInv, RecoveryInv, Recovering
<1>5. ProgressInv'
  BY <1>1, <1>2 DEF ValidateInv, WellTyped, ProgressInv, Settled, Recovering
<1>6. executed = {}
  BY DEF ValidateInv, GateInv, Recovering
<1>7. GateInv'
  BY <1>1, <1>6, WorldIsKept DEF ValidateInv, WellTyped, GateInv, Recovering
<1>8. r \in Outcomes
  BY DEF Outcomes
<1>9. SeedCannotFlatter' /\ SaysWhatItImported' /\ NotesAreOwn' /\ RefusalIsWhole'
  BY <1>8, OneSettled
<1> QED
  BY <1>3, <1>4, <1>5, <1>7, <1>9 DEF ValidateInv

\* A step of the recovery that only decides how to go on.
LEMMA RecoveryGoesOn ==
    ASSUME ValidateInv, pc \in {"generating"} \cup Recovering,
           pc' \in Recovering, ~Rebuilds(at, {}), SeedInv',
           UNCHANGED <<world, todo, at, outcome, note, executed>>
    PROVE  ValidateInv'
<1>1. at \in Folder
  BY DEF ValidateInv, WellTyped
<1>2. WellTyped'
  BY WorldIsKept DEF ValidateInv, WellTyped, Recovering, Control
<1>3. RecoveryInv'
  BY <1>1, WorldIsKept DEF RecoveryInv
<1>4. ProgressInv'
  BY DEF ValidateInv, ProgressInv, Settled, Recovering
<1>5. GateInv'
  BY WorldIsKept DEF ValidateInv, GateInv, Recovering
<1> QED
  BY <1>2, <1>3, <1>4, <1>5, NothingSettled DEF ValidateInv

LEMMA ValidateStep == ValidateInv /\ [Next]_vars => ValidateInv'
<1> SUFFICES ASSUME ValidateInv, [Next]_vars PROVE ValidateInv'
  OBVIOUS
<1>0. at \in Folder /\ \A f \in Folder : note[f] \in SUBSET Obj
  BY DEF ValidateInv, WellTyped
<1>a. LET imported == ObjectsOf(DependencySchemas(at)) IN
      note[at] \subseteq imported \ Built(imported)
  BY <1>0 DEF ValidateInv, NotesAreOwn
<1>1. ASSUME NextFolder PROVE ValidateInv'
  <2>1. PICK f \in todo : at' = f /\ todo' = todo \ {f}
    BY <1>1 DEF NextFolder
  <2>2. pc = "next" /\ pc' = "generating" /\ UNCHANGED <<world, outcome, note, executed>>
    BY <1>1 DEF NextFolder
  <2>3. WellTyped'
    BY <2>1, <2>2, WorldIsKept DEF ValidateInv, WellTyped, Control
  <2>4. SeedInv' /\ RecoveryInv'
    BY <1>1, <2>2 DEF NextFolder, ValidateInv, SeedInv, RecoveryInv, Recovering
  <2>5. ProgressInv'
    BY <2>1, <2>2 DEF ValidateInv, WellTyped, ProgressInv, Settled, Recovering
  <2>6. GateInv'
    BY <2>1, <2>2, WorldIsKept DEF ValidateInv, GateInv, Recovering
  <2> QED
    BY <2>2, <2>3, <2>4, <2>5, <2>6, NothingSettled DEF ValidateInv
<1>2. ASSUME Generate PROVE ValidateInv'
  <2>1. /\ pc = "generating" /\ seedDDL = {} /\ seedDDL' = {} /\ seedSkipped' = {}
        /\ UNCHANGED <<world, todo, at, note, executed>>
    BY <1>2 DEF Generate, ValidateInv, SeedInv
  <2>2. CASE ~Rebuilds(at, {}) /\ pc' = "discovering" /\ UNCHANGED outcome
    <3>1. SeedInv'
      BY <2>1, <2>2 DEF SeedInv
    <3> QED
      BY <2>1, <2>2, <3>1, RecoveryGoesOn DEF Recovering
  <2>3. CASE FolderStops("failed")
    BY <2>1, <2>3, FolderStopsKeeps
  <2>4. CASE Rebuilds(at, {}) /\ at \in good /\ Settle("validated") /\ pc' = "next"
    BY <1>0, <1>a, <2>1, <2>4, FolderDiffedKeeps
  <2> QED
    BY <1>2, <2>1, <2>2, <2>3, <2>4 DEF Generate
<1>3. ASSUME GenerateFails PROVE ValidateInv'
  <2>1. pc = "generating" /\ seedDDL' = {} /\ seedSkipped' = {}
    BY <1>3 DEF GenerateFails, ValidateInv, SeedInv
  <2> QED
    BY <1>3, <2>1, FolderStopsKeeps DEF GenerateFails
<1>4. ASSUME FindDependencies PROVE ValidateInv'
  <2>1. pc' \in {"degrading", "counting"} /\ pc = "discovering"
    BY <1>4 DEF FindDependencies
  <2>2. SeedInv'
    BY <1>0, <1>4, <2>1, WorldIsKept DEF FindDependencies, ValidateInv, SeedInv
  <2> QED
    BY <1>4, <2>1, <2>2, RecoveryGoesOn
       DEF FindDependencies, ValidateInv, RecoveryInv, Recovering
<1>5. ASSUME CountRelations PROVE ValidateInv'
  <2>1. pc' \in {"degrading", "harvesting"} /\ pc = "counting"
    BY <1>5 DEF CountRelations
  <2>2. SeedInv'
    BY <1>0, <1>5, <2>1, WorldIsKept DEF CountRelations, ValidateInv, SeedInv
  <2> QED
    BY <1>5, <2>1, <2>2, RecoveryGoesOn
       DEF CountRelations, ValidateInv, RecoveryInv, Recovering
<1>6. ASSUME Harvest PROVE ValidateInv'
  <2>1. pc' \in {"degrading", "retrying"} /\ pc = "harvesting"
    BY <1>6 DEF Harvest
  <2>2. SeedInv'
    BY <1>0, <1>6, <2>1, WorldIsKept DEF Harvest, ValidateInv, SeedInv, ObjectsOf
  <2> QED
    BY <1>6, <2>1, <2>2, RecoveryGoesOn DEF Harvest, ValidateInv, RecoveryInv, Recovering
<1>7. ASSUME RecoveryFails PROVE ValidateInv'
  <2>1. pc' = "degrading" /\ pc \in {"discovering", "counting", "harvesting"}
    BY <1>7 DEF RecoveryFails
  <2>2. SeedInv'
    BY <1>7, <2>1 DEF RecoveryFails, ValidateInv, SeedInv
  <2> QED
    BY <1>7, <2>1, <2>2, RecoveryGoesOn
       DEF RecoveryFails, ValidateInv, RecoveryInv, Recovering
<1>8. ASSUME Retry PROVE ValidateInv'
  <2>1. /\ pc = "retrying" /\ seedDDL' = {} /\ seedSkipped = {}
        /\ UNCHANGED <<world, todo, at, executed>>
    BY <1>8 DEF Retry, ValidateInv, SeedInv
  <2>2. ~Rebuilds(at, {})
    BY <2>1 DEF ValidateInv, RecoveryInv, Recovering
  <2>3. CASE Rebuilds(at, seedDDL) /\ at \in good
    <3>1. /\ Settle("seeded") /\ pc' = "next" /\ seedSkipped' = {}
          /\ note' = [note EXCEPT ![at] = Skips]
      BY <1>8, <2>1, <2>3 DEF Retry
    <3>2. LET imported == ObjectsOf(DependencySchemas(at)) IN
          Skips \subseteq imported \ Built(imported) /\ Skips \in SUBSET Obj
      BY <2>1 DEF Skips, ValidateInv, SeedInv, ObjectsOf
    <3> QED
      BY <2>1, <2>2, <2>3, <3>1, <3>2, FolderDiffedKeeps DEF Recovering
  <2>4. CASE ~ (Rebuilds(at, seedDDL) /\ at \in good)
    <3>1. pc' = "degrading" /\ UNCHANGED <<outcome, note>>
      BY <1>8, <2>4 DEF Retry
    <3>2. SeedInv'
      BY <2>1, <3>1 DEF SeedInv
    <3> QED
      BY <2>1, <2>2, <3>1, <3>2, RecoveryGoesOn DEF Recovering
  <2> QED
    BY <2>3, <2>4
<1>9. ASSUME RetryFails PROVE ValidateInv'
  <2>1. pc = "retrying" /\ seedDDL' = {} /\ pc' = "degrading"
    BY <1>9 DEF RetryFails
  <2>2. SeedInv'
    BY <2>1 DEF SeedInv
  <2> QED
    BY <1>9, <2>1, <2>2, RecoveryGoesOn DEF RetryFails, ValidateInv, RecoveryInv, Recovering
<1>10. ASSUME Degrade PROVE ValidateInv'
  <2>1. /\ pc = "degrading" /\ seedDDL' = {} /\ seedSkipped' = {}
        /\ UNCHANGED <<world, todo, at, note, executed>>
    BY <1>10 DEF Degrade, ValidateInv, SeedInv
  <2>2. CASE FolderStops("failed")
    BY <2>1, <2>2, FolderStopsKeeps DEF Recovering
  <2>4. CASE FolderStops("refused")
    BY <2>1, <2>4, FolderStopsKeeps DEF Recovering
  <2>3. CASE Settle("unvalidated") /\ pc' = "next" /\ ~ (failOnUnvalidated /\ at \in proposing)
    BY <1>0, <1>a, <2>1, <2>3, FolderDiffedKeeps DEF Recovering
  <2> QED
    BY <1>10, <2>2, <2>3, <2>4 DEF Degrade, Accept
<1>11. ASSUME AllDiffed PROVE ValidateInv'
  <2>1. /\ pc = "next" /\ todo = {} /\ pc' = IF cmd = "apply" THEN "applying" ELSE "done"
        /\ UNCHANGED <<world, todo, at, outcome, note, executed, seedDDL, seedSkipped>>
    BY <1>11 DEF AllDiffed
  <2>2. WellTyped' /\ SeedInv' /\ RecoveryInv'
    BY <2>1, WorldIsKept
       DEF ValidateInv, WellTyped, Control, SeedInv, RecoveryInv, Recovering
  <2>3. ProgressInv' /\ GateInv'
    BY <2>1, WorldIsKept DEF ValidateInv, ProgressInv, GateInv, Settled, Recovering
  <2> QED
    BY <2>1, <2>2, <2>3, NothingSettled DEF ValidateInv
<1>12. ASSUME ApplyFolder PROVE ValidateInv'
  <2>1. /\ pc = "applying" /\ pc' \in {"applying", "stopped"}
        /\ UNCHANGED <<world, todo, at, outcome, note, seedDDL, seedSkipped>>
    BY <1>12 DEF ApplyFolder, DiffedAll
  <2>2. PICK f \in proposing \ executed : executed' = executed \cup {f}
    BY <1>12 DEF ApplyFolder
  <2>3. cmd = "apply" /\ todo = {}
    BY <2>1 DEF ValidateInv, GateInv, ProgressInv
  <2>4. WellTyped' /\ SeedInv' /\ RecoveryInv'
    BY <2>1, WorldIsKept
       DEF ValidateInv, WellTyped, Control, SeedInv, RecoveryInv, Recovering
  <2>5. ProgressInv' /\ GateInv'
    BY <2>1, <2>2, <2>3, WorldIsKept
       DEF ValidateInv, ProgressInv, GateInv, Settled, Recovering
  <2>6. SeedCannotFlatter' /\ SaysWhatItImported'
    BY <2>1, WorldIsKept DEF ValidateInv, SeedCannotFlatter, SaysWhatItImported
  <2>7. NotesAreOwn'
    <3> SUFFICES ASSUME NEW g \in Folder
        PROVE  LET imported == ObjectsOf(DependencySchemas(g)) IN
               note'[g] \subseteq imported \ Built(imported)
      BY <2>1, WorldIsKept DEF NotesAreOwn, ObjectsOf
    <3> QED
      BY <2>1 DEF ValidateInv, NotesAreOwn
  <2>8. RefusalIsWhole'
    BY <2>1, <2>2, <2>3, WorldIsKept DEF ValidateInv, WellTyped, GateInv, RefusalIsWhole
  <2> QED
    BY <2>4, <2>5, <2>6, <2>7, <2>8 DEF ValidateInv
<1>13. ASSUME Applied PROVE ValidateInv'
  <2>1. /\ pc = "applying" /\ pc' = "done"
        /\ UNCHANGED <<world, todo, at, outcome, note, executed, seedDDL, seedSkipped>>
    BY <1>13 DEF Applied
  <2>2. WellTyped' /\ SeedInv' /\ RecoveryInv'
    BY <2>1, WorldIsKept
       DEF ValidateInv, WellTyped, Control, SeedInv, RecoveryInv, Recovering
  <2>3. ProgressInv' /\ GateInv'
    BY <2>1, WorldIsKept DEF ValidateInv, ProgressInv, GateInv, Settled, Recovering
  <2> QED
    BY <2>1, <2>2, <2>3, NothingSettled DEF ValidateInv
<1>14. ASSUME UNCHANGED vars PROVE ValidateInv'
  <2>1. UNCHANGED <<world, outcome, note, executed>>
    BY <1>14 DEF vars, world
  <2>2. WellTyped' /\ ProgressInv' /\ GateInv'
    BY <1>14 DEF vars, ValidateInv, WellTyped, ProgressInv, GateInv, Settled
  <2>3. SeedInv' /\ RecoveryInv'
    BY <1>0, <1>14, <2>1, WorldIsKept
       DEF vars, ValidateInv, SeedInv, RecoveryInv, ObjectsOf
  <2> QED
    BY <2>1, <2>2, <2>3, NothingSettled DEF ValidateInv
<1> QED
  BY <1>1, <1>2, <1>3, <1>4, <1>5, <1>6, <1>7, <1>8, <1>9, <1>10, <1>11,
     <1>12, <1>13, <1>14 DEF Next

-----------------------------------------------------------------------------
(* Types *)

\* What the catalog names are schemas.
LEMMA DependenciesType ==
    ASSUME TypeOK, NEW f \in Folder
    PROVE  DependencySchemas(f) \subseteq Folder \cup Outside
<1>1. \A o \in Obj : uses[o] \subseteq Obj
  BY DEF TypeOK
<1>2. \A u \in Obj : HomeOf[u] \in Folder \cup Outside
  BY ValidateAssumption
<1>3. \A u \in UNION {uses[o] : o \in ObjectsOf({f})} : u \in Obj
  BY <1>1 DEF ObjectsOf
<1> QED
  BY <1>2, <1>3 DEF DependencySchemas

\* A folder that is settled, or stops the command, leaves the types as they are.
LEMMA SettleTypes ==
    ASSUME TypeOK, NEW result \in Outcomes
    PROVE  /\ Settle(result) => outcome' \in [Folder -> Outcomes]
           /\ FolderStops(result) => outcome' \in [Folder -> Outcomes] /\ pc' \in Control
BY DEF TypeOK, Settle, FolderStops, Control

LEMMA TypeStep == TypeOK /\ [Next]_vars => TypeOK'
<1> SUFFICES ASSUME TypeOK, [Next]_vars PROVE TypeOK'
  OBVIOUS
<1>0. UNCHANGED world => /\ uses' \in [Obj -> SUBSET Obj] /\ good' \subseteq Folder
                         /\ proposing' \subseteq Folder
                         /\ failOnUnvalidated' \in BOOLEAN /\ cmd' \in {"plan", "apply"}
  BY DEF TypeOK, world
<1>1. CASE NextFolder
  BY <1>0, <1>1 DEF NextFolder, TypeOK, Control
<1>2. CASE Generate
  <2>1. pc' \in Control /\ outcome' \in [Folder -> Outcomes] /\ caught' \subseteq Folder
    BY <1>2, SettleTypes DEF Generate, TypeOK, Control, Outcomes
  <2> QED
    BY <1>0, <1>2, <2>1 DEF Generate, TypeOK
<1>3. CASE GenerateFails
  <2>1. pc' \in Control /\ outcome' \in [Folder -> Outcomes]
    BY <1>3, SettleTypes DEF GenerateFails, Outcomes
  <2> QED
    BY <1>0, <1>3, <2>1 DEF GenerateFails, Fault, TypeOK
<1>4. CASE FindDependencies
  <2>1. deps' \subseteq Folder \cup Outside
    BY <1>4, DependenciesType DEF FindDependencies, TypeOK
  <2> QED
    BY <1>0, <1>4, <2>1 DEF FindDependencies, TypeOK, Control
<1>5. CASE CountRelations
  BY <1>0, <1>5 DEF CountRelations, TypeOK, Control
<1>6. CASE Harvest
  <2>1. seedDDL' \subseteq Obj /\ pc' \in Control
    BY <1>6 DEF Harvest, TypeOK, Control, ObjectsOf
  <2> QED
    BY <1>0, <1>6, <2>1 DEF Harvest, TypeOK
<1>7. CASE RecoveryFails
  BY <1>0, <1>7 DEF RecoveryFails, Fault, TypeOK, Control
<1>8. CASE Retry
  <2>1. seedSkipped \cup Skips \subseteq Obj
    BY DEF Skips, TypeOK
  <2>2. /\ pc' \in Control /\ outcome' \in [Folder -> Outcomes] /\ caught' \subseteq Folder
        /\ note' \in [Folder -> SUBSET Obj] /\ seedSkipped' \subseteq Obj
    BY <1>8, <2>1, SettleTypes DEF Retry, TypeOK, Control, Outcomes
  <2> QED
    BY <1>0, <1>8, <2>2 DEF Retry, TypeOK
<1>9. CASE RetryFails
  <2>1. seedSkipped' \subseteq Obj
    BY <1>9 DEF RetryFails, Skips, TypeOK
  <2> QED
    BY <1>0, <1>9, <2>1 DEF RetryFails, Fault, TypeOK, Control
<1>10. CASE Degrade
  <2>1. pc' \in Control /\ outcome' \in [Folder -> Outcomes]
    BY <1>10, SettleTypes DEF Degrade, Accept, Outcomes, Control
  <2> QED
    BY <1>0, <1>10, <2>1 DEF Degrade, Fault, TypeOK
<1>11. CASE AllDiffed
  BY <1>0, <1>11 DEF AllDiffed, TypeOK, Control
<1>12. CASE ApplyFolder
  BY <1>0, <1>12 DEF ApplyFolder, Fault, TypeOK, Control
<1>13. CASE Applied
  BY <1>0, <1>13 DEF Applied, TypeOK, Control
<1>14. CASE UNCHANGED vars
  BY <1>14 DEF vars, TypeOK
<1> QED
  BY <1>1, <1>2, <1>3, <1>4, <1>5, <1>6, <1>7, <1>8, <1>9, <1>10, <1>11, <1>12, <1>13, <1>14
     DEF Next

-----------------------------------------------------------------------------
(* The recovery keeps its promise *)

\* What the documentation allows a good plan to be refused for.
Hopeless(f) ==
    LET imported == ObjectsOf(DependencySchemas(f)) IN
    \/ ~Rebuilds(f, imported)
    \/ ~(Cardinality(imported \ Routine) <= MaxRelations)
    \/ ~(Cardinality(imported) <= MaxStatements)

\* The recovery of a good plan ends without validation only for such a reason,
\* as long as nothing has failed.
PromiseInv == pc = "degrading" /\ faults = 0 /\ at \in good => Hopeless(at)

LEMMA EmptyImportIsHopeless ==
    ASSUME NEW f \in Folder, ~Rebuilds(f, {}), ObjectsOf(DependencySchemas(f)) = {}
    PROVE  Hopeless(f)
BY DEF Hopeless

LEMMA HopelessStays ==
    ASSUME UNCHANGED world
    PROVE  \A f : Hopeless(f)' <=> Hopeless(f)
BY DEF world, Hopeless, Rebuilds, Built, DependencySchemas

\* RecoversWhatItPromises, by the folder.
KeepsPromise(f) ==
    f \in good /\ Settled(f) /\ faults = 0 => Hopeless(f) \/ outcome[f] \in {"validated", "seeded"}

LEMMA PromiseIsKept ==
    ASSUME TypeOK, \A f \in Folder : KeepsPromise(f) PROVE RecoversWhatItPromises
<1> SUFFICES ASSUME NEW f \in good, Settled(f), faults = 0, ~Hopeless(f)
             PROVE  outcome[f] \in {"validated", "seeded"}
  BY DEF RecoversWhatItPromises, Hopeless
<1> QED
  BY DEF KeepsPromise, TypeOK

\* A schema has finitely many objects.
LEMMA ImportsAreCounted ==
    ASSUME NEW schemas
    PROVE  /\ Cardinality(ObjectsOf(schemas)) \in Nat
           /\ Cardinality(ObjectsOf(schemas) \ Routine) \in Nat
<1>1. ObjectsOf(schemas) \in SUBSET Obj /\ ObjectsOf(schemas) \ Routine \in SUBSET Obj
  BY DEF ObjectsOf
<1> QED
  BY <1>1, ValidateAssumption, FS_Subset, FS_CardinalityType

LEMMA PromiseStep ==
    ASSUME ValidateInv, TypeOK, PromiseInv, \A f \in Folder : KeepsPromise(f), [Next]_vars
    PROVE  PromiseInv' /\ \A f \in Folder : KeepsPromise(f)'
<1> DEFINE Kept == PromiseInv' /\ \A f \in Folder : KeepsPromise(f)'
<1> SUFFICES Kept
  OBVIOUS
<1>0. /\ at \in Folder /\ faults \in Nat /\ outcome \in [Folder -> Outcomes]
      /\ good \subseteq Folder
  BY DEF TypeOK
<1>1. ASSUME UNCHANGED <<world, outcome, faults>>, pc' # "degrading" PROVE Kept
  BY <1>1, HopelessStays DEF KeepsPromise, PromiseInv, Settled, world
<1>2. ASSUME UNCHANGED <<world, outcome, faults, at>>, at \in good /\ faults = 0 => Hopeless(at)
      PROVE  Kept
  BY <1>2, HopelessStays DEF KeepsPromise, PromiseInv, Settled, world
<1>3. ASSUME faults' = faults + 1 PROVE Kept
  BY <1>0, <1>3 DEF KeepsPromise, PromiseInv
<1>4. ASSUME UNCHANGED <<world, faults>>, pc' # "degrading",
             NEW result \in Outcomes, Settle(result),
             result \in {"validated", "seeded"} \/ at \notin good \/ (faults = 0 => Hopeless(at))
      PROVE  Kept
  <2>1. \A f \in Folder : outcome'[f] = IF f = at THEN result ELSE outcome[f]
    BY <1>0, <1>4 DEF Settle
  <2> QED
    BY <1>4, <2>1, HopelessStays DEF KeepsPromise, PromiseInv, Settled, world
<1>5. CASE NextFolder \/ AllDiffed \/ Applied
  BY <1>1, <1>5 DEF NextFolder, AllDiffed, Applied
<1>6. CASE Generate
  <2>1. UNCHANGED <<world, faults>> /\ pc' # "degrading"
    BY <1>6 DEF Generate, FolderStops
  <2>2. UNCHANGED outcome \/ (at \notin good /\ Settle("failed")) \/ Settle("validated")
    BY <1>6 DEF Generate, FolderStops
  <2> QED
    BY <1>1, <1>4, <2>1, <2>2 DEF Outcomes
<1>7. CASE GenerateFails \/ RecoveryFails \/ RetryFails
  BY <1>3, <1>7 DEF GenerateFails, RecoveryFails, RetryFails, Fault
<1>8. CASE FindDependencies
  <2>1. UNCHANGED <<world, outcome, faults, at>>
    BY <1>8 DEF FindDependencies
  <2>2. CASE DependencySchemas(at) = {}
    <3>1. ~Rebuilds(at, {})
      BY <1>8 DEF FindDependencies, ValidateInv, RecoveryInv, Recovering
    <3>2. ObjectsOf(DependencySchemas(at)) = {}
      BY <2>2 DEF ObjectsOf
    <3> QED
      BY <1>0, <1>2, <2>1, <3>1, <3>2, EmptyImportIsHopeless
  <2>3. CASE DependencySchemas(at) # {}
    BY <1>1, <1>8, <2>1, <2>3 DEF FindDependencies
  <2> QED
    BY <2>2, <2>3
<1>9. CASE CountRelations
  <2>1. UNCHANGED <<world, outcome, faults, at>> /\ deps = DependencySchemas(at)
    BY <1>9 DEF CountRelations, ValidateInv, SeedInv
  <2>2. CASE TooMany(Cardinality(ObjectsOf(deps) \ Routine), MaxRelations)
    <3> DEFINE n == Cardinality(ObjectsOf(deps) \ Routine)
    <3>1. n > MaxRelations
      BY <2>2 DEF TooMany
    <3>2. ~(n <= MaxRelations)
      BY <3>1, ValidateAssumption, ImportsAreCounted
    <3>3. Hopeless(at)
      BY <2>1, <3>2 DEF Hopeless
    <3> QED
      BY <1>2, <2>1, <3>3
  <2>3. CASE ~TooMany(Cardinality(ObjectsOf(deps) \ Routine), MaxRelations)
    BY <1>1, <1>9, <2>1, <2>3 DEF CountRelations
  <2> QED
    BY <2>2, <2>3
<1>10. CASE Harvest
  <2>1. UNCHANGED <<world, outcome, faults, at>> /\ deps = DependencySchemas(at) /\ ~Rebuilds(at, {})
    BY <1>10 DEF Harvest, ValidateInv, SeedInv, RecoveryInv, Recovering
  <2>2. CASE ObjectsOf(deps) = {}
    BY <1>0, <1>2, <2>1, <2>2, EmptyImportIsHopeless
  <2>3. CASE TooMany(Cardinality(ObjectsOf(deps)), MaxStatements)
    <3> DEFINE n == Cardinality(ObjectsOf(deps))
    <3>1. n > MaxStatements /\ n \in Nat /\ MaxStatements \in Nat
      BY <2>3, ValidateAssumption, ImportsAreCounted DEF TooMany
    <3> HIDE DEF n
    <3>2. ~(n <= MaxStatements)
      BY <3>1
    <3>3. Hopeless(at)
      BY <2>1, <3>2 DEF Hopeless, n
    <3> QED
      BY <1>2, <2>1, <3>3
  <2>4. CASE ~(ObjectsOf(deps) = {} \/ TooMany(Cardinality(ObjectsOf(deps)), MaxStatements))
    BY <1>1, <1>10, <2>1, <2>4 DEF Harvest
  <2> QED
    BY <2>2, <2>3, <2>4
<1>11. CASE Retry
  <2>1. UNCHANGED <<world, faults, at>> /\ seedDDL = ObjectsOf(DependencySchemas(at))
    BY <1>11 DEF Retry, ValidateInv, SeedInv
  <2>2. CASE Rebuilds(at, seedDDL) /\ at \in good
    BY <1>4, <1>11, <2>1, <2>2 DEF Retry, Outcomes
  <2>3. CASE ~(Rebuilds(at, seedDDL) /\ at \in good)
    BY <1>2, <1>11, <2>1, <2>3 DEF Retry, Hopeless
  <2> QED
    BY <2>2, <2>3
<1>12. CASE Degrade
  <2>1. CASE Accept /\ UNCHANGED faults
    <3>1. UNCHANGED world /\ pc' # "degrading" /\ (at \in good /\ faults = 0 => Hopeless(at))
      BY <1>12, <2>1 DEF Degrade, Accept, FolderStops, PromiseInv
    <3>2. Settle("refused") \/ Settle("unvalidated")
      BY <2>1 DEF Accept, FolderStops
    <3> QED
      BY <1>4, <2>1, <3>1, <3>2 DEF Outcomes
  <2>2. CASE Fault
    BY <1>3, <2>2 DEF Fault
  <2> QED
    BY <1>12, <2>1, <2>2 DEF Degrade
<1>13. CASE ApplyFolder
  <2>1. CASE UNCHANGED faults
    BY <1>1, <1>13, <2>1 DEF ApplyFolder, DiffedAll
  <2>2. CASE Fault
    BY <1>3, <2>2 DEF Fault
  <2> QED
    BY <1>13, <2>1, <2>2 DEF ApplyFolder
<1>14. CASE UNCHANGED vars
  <2>1. UNCHANGED world /\ UNCHANGED <<pc, at, outcome, faults>>
    BY <1>14 DEF vars, world
  <2> QED
    BY <2>1, HopelessStays DEF KeepsPromise, PromiseInv, Settled, world
<1> QED
  BY <1>5, <1>6, <1>7, <1>8, <1>9, <1>10, <1>11, <1>12, <1>13, <1>14 DEF Next

-----------------------------------------------------------------------------
(* The theorems *)

LEMMA ValidateInvariance == Spec => []ValidateInv
<1>1. Init => ValidateInv
  BY DEF Init, ValidateInv, WellTyped, Control, Outcomes, SeedInv, RecoveryInv,
         Recovering, ProgressInv, GateInv, Settled, SeedCannotFlatter,
         SaysWhatItImported, NotesAreOwn, RefusalIsWhole
<1> QED
  BY <1>1, ValidateStep, PTL DEF Spec

\* Importing other schemas, whole or with objects skipped, never lets a bad
\* plan pass for validated (applySeed, validateWithDependencies).
THEOREM SeedNeverFlatters == Spec => []SeedCannotFlatter
<1>1. ValidateInv => SeedCannotFlatter
  BY DEF ValidateInv
<1> QED
  BY <1>1, ValidateInvariance, PTL

\* A plan is reported as plainly validated exactly when nothing was imported
\* (DiffResult.SeededSchemas, seedTempDatabases).
THEOREM ImportsAreReported == Spec => []SaysWhatItImported
<1>1. ValidateInv => SaysWhatItImported
  BY DEF ValidateInv
<1> QED
  BY <1>1, ValidateInvariance, PTL

\* The skipped objects reported with a diff are its own (takeSkipped).
THEOREM NotesAreNotMixed == Spec => []NotesAreOwn
<1>1. ValidateInv => NotesAreOwn
  BY DEF ValidateInv
<1> QED
  BY <1>1, ValidateInvariance, PTL

\* A refusal of one folder keeps every folder's statements from running
\* (applySchema, unvalidatedRefusal).
THEOREM RefusalCoversAll == Spec => []RefusalIsWhole
<1>1. ValidateInv => RefusalIsWhole
  BY DEF ValidateInv
<1> QED
  BY <1>1, ValidateInvariance, PTL

\* The variables keep their types.
THEOREM ValidateTypes == Spec => []TypeOK
<1>1. Init => TypeOK
  BY ValidateAssumption DEF Init, TypeOK, Control, Outcomes
<1> QED
  BY <1>1, TypeStep, PTL DEF Spec

\* While nothing fails, a good plan is left without validation only for one of
\* the reasons the documentation gives (README.md:598).
THEOREM PromiseOfRecovery == Spec => []RecoversWhatItPromises
<1> DEFINE Promise == PromiseInv /\ \A f \in Folder : KeepsPromise(f)
<1>1. Init => Promise
  BY DEF Init, PromiseInv, KeepsPromise, Settled
<1>2. ValidateInv /\ TypeOK /\ Promise /\ [Next]_vars => Promise'
  BY PromiseStep
<1>3. TypeOK /\ Promise => RecoversWhatItPromises
  BY PromiseIsKept
<1> QED
  BY <1>1, <1>2, <1>3, ValidateInvariance, ValidateTypes, PTL DEF Spec
=============================================================================
