----------------------------- MODULE M8Validate -----------------------------
(***************************************************************************)
(* Plan validation in m8 (Diff and its recovery in internal/schema, the    *)
(* two passes of the schema phase and the refusal in internal/engine, the  *)
(* verdict of cmd/plan.go): one command diffs its schema folders one after *)
(* the other with one Differ.                                              *)
(*                                                                         *)
(* pg-schema-diff validates a plan by rebuilding the current schema alone  *)
(* in a throwaway database and running the plan there.  An object defined  *)
(* in terms of another schema cannot be rebuilt; m8 then imports the       *)
(* schemas it reaches into and tries again, and if that does not help      *)
(* takes the plan without validation.                                      *)
(***************************************************************************)
EXTENDS Naturals, FiniteSets

CONSTANTS
    Folder,             \* the schemas that have a folder under schema/
    Outside,            \* the other schemas of the target database
    Obj,                \* the objects of the target database
    HomeOf,             \* the schema of each object
    Routine,            \* the objects that are functions, not relations
    Catalogs,           \* what the objects may be defined in terms of
    Rank,               \* the order of the folders
    MaxRelations,       \* maxSeededRelations
    MaxStatements,      \* maxSeededStatements
    MaxFaults           \* bound: queries and statements that fail

ASSUME ValidateAssumption ==
    /\ Folder \cap Outside = {}
    /\ HomeOf \in [Obj -> Folder \cup Outside]
    /\ IsFiniteSet(Obj) /\ Routine \subseteq Obj
    /\ Catalogs \subseteq [Obj -> SUBSET Obj]
    /\ Rank \in [Folder -> Nat]
    /\ MaxRelations \in Nat /\ MaxStatements \in Nat

VARIABLES
    uses,       \* what each live object is defined in terms of
    good,       \* the folders whose plan executes and converges
    proposing,  \* the folders whose plan has statements
    failOnUnvalidated,  \* Config.FailOnUnvalidated
    cmd, pc, todo, at,
    deps,       \* the schemas found to be reached into
    seedDDL,    \* what the factory puts into every temporary database
    seedSkipped,\* what it could not put there
    outcome,    \* of each folder's diff
    note,       \* the skipped objects reported with it
    caught,     \* the folders whose plan a validation has run and rejected
    executed,   \* the folders whose statements have been started
    faults

world == <<uses, good, proposing, failOnUnvalidated, cmd>>
vars == <<uses, good, proposing, failOnUnvalidated, cmd, pc, todo, at, deps,
          seedDDL, seedSkipped, outcome, note, caught, executed, faults>>

Control == {"next", "generating", "discovering", "counting", "harvesting",
            "retrying", "degrading", "applying", "stopped", "done"}
Outcomes == {"pending", "validated", "seeded", "unvalidated", "failed", "refused"}

ObjectsOf(schemas) == {o \in Obj : HomeOf[o] \in schemas}

-----------------------------------------------------------------------------
(* Rebuilding *)

\* What can be created, in some order, of a set of objects in a database that
\* holds nothing else: applySeed skips the rest.
Built(objs) ==
    UNION {B \in SUBSET objs : \A o \in B : uses[o] \subseteq B}

\* Whether schema f can be rebuilt beside what the seed could create.
Rebuilds(f, seed) ==
    \A o \in ObjectsOf({f}) : uses[o] \subseteq ObjectsOf({f}) \cup Built(seed)

\* pg_depend and pg_constraint: the schemas of the relations that the objects
\* of f are defined in terms of.  A function is recorded against pg_proc.
DependencySchemas(f) ==
    {HomeOf[u] : u \in (UNION {uses[o] : o \in ObjectsOf({f})}) \ Routine} \ {f}

\* Faulty: a harvest as large as the cap is refused.
TooManyOrFull(n, cap) == n >= cap

TooMany(n, cap) == n > cap

Init ==
    /\ uses \in Catalogs
    /\ good \in SUBSET Folder
    /\ proposing \in SUBSET Folder
    /\ failOnUnvalidated \in BOOLEAN /\ cmd \in {"plan", "apply"}
    /\ pc = "next" /\ todo = Folder /\ at \in Folder
    /\ deps = {} /\ seedDDL = {} /\ seedSkipped = {}
    /\ outcome = [f \in Folder |-> "pending"]
    /\ note = [f \in Folder |-> {}]
    /\ caught = {} /\ executed = {} /\ faults = 0

Fault == faults < MaxFaults /\ faults' = faults + 1

-----------------------------------------------------------------------------
(* One folder's diff *)

Settle(result) == outcome' = [outcome EXCEPT ![at] = result]

\* A diff that cannot be computed, or is refused, stops an apply; a plan reports
\* it and goes on.
FolderStops(result) ==
    /\ Settle(result)
    /\ pc' = IF cmd = "apply" THEN "stopped" ELSE "next"

NextFolder ==
    /\ pc = "next"
    /\ \E f \in todo :
        /\ \A g \in todo : Rank[f] <= Rank[g]
        /\ at' = f /\ todo' = todo \ {f}
    /\ pc' = "generating"
    /\ UNCHANGED <<world, deps, seedDDL, seedSkipped, outcome, note, caught, executed, faults>>

\* diff.Generate with validation; the declared DDL builds by itself.  Of its
\* failures only the rebuild of the current schema leads on to the recovery
\* (isValidationFailure).
Generate ==
    /\ pc = "generating"
    /\ \/ /\ ~Rebuilds(at, seedDDL)
          /\ pc' = "discovering"
          /\ UNCHANGED <<outcome, caught>>
       \/ /\ Rebuilds(at, seedDDL) /\ at \notin good
          /\ caught' = caught \cup {at}
          /\ FolderStops("failed")
       \/ /\ Rebuilds(at, seedDDL) /\ at \in good
          /\ Settle("validated") /\ pc' = "next"
          /\ UNCHANGED caught
    /\ UNCHANGED <<world, todo, at, deps, seedDDL, seedSkipped, note, executed, faults>>

GenerateFails ==
    /\ pc = "generating" /\ Fault
    /\ FolderStops("failed")
    /\ UNCHANGED <<world, todo, at, deps, seedDDL, seedSkipped, note, caught, executed>>

\* dependencySchemas: without a dependency there is nothing to import.
FindDependencies ==
    /\ pc = "discovering"
    /\ deps' = DependencySchemas(at)
    /\ pc' = IF deps' = {} THEN "degrading" ELSE "counting"
    /\ UNCHANGED <<world, todo, at, seedDDL, seedSkipped, outcome, note, caught, executed, faults>>

\* countRelations, the cheap filter.
CountRelations ==
    /\ pc = "counting"
    /\ pc' = IF TooMany(Cardinality(ObjectsOf(deps) \ Routine), MaxRelations)
             THEN "degrading" ELSE "harvesting"
    /\ UNCHANGED <<world, todo, at, deps, seedDDL, seedSkipped, outcome, note, caught, executed, faults>>

\* harvestSchemaDDL, in a temporary database of its own that nothing seeds;
\* then the factory is armed.
Harvest ==
    /\ pc = "harvesting"
    /\ IF ObjectsOf(deps) = {} \/ TooMany(Cardinality(ObjectsOf(deps)), MaxStatements)
       THEN pc' = "degrading" /\ UNCHANGED seedDDL
       ELSE pc' = "retrying" /\ seedDDL' = ObjectsOf(deps)
    /\ UNCHANGED <<world, todo, at, deps, seedSkipped, outcome, note, caught, executed, faults>>

\* A query of the recovery fails: the plan stays unvalidated, nothing more.
RecoveryFails ==
    /\ pc \in {"discovering", "counting", "harvesting"} /\ Fault
    /\ pc' = "degrading"
    /\ UNCHANGED <<world, todo, at, deps, seedDDL, seedSkipped, outcome, note, caught, executed>>

Skips == seedDDL \ Built(seedDDL)

\* Faulty: nobody disarms the factory after a retry.
RetryLeavingSeed ==
    /\ pc = "retrying"
    /\ LET skipped == seedSkipped \cup Skips IN
        IF Rebuilds(at, seedDDL) /\ at \in good
        THEN /\ Settle("seeded") /\ pc' = "next"
             /\ note' = [note EXCEPT ![at] = skipped]
             /\ seedSkipped' = {}
             /\ UNCHANGED caught
        ELSE /\ pc' = "degrading"
             /\ seedSkipped' = skipped
             /\ caught' = IF Rebuilds(at, seedDDL) THEN caught \cup {at} ELSE caught
             /\ UNCHANGED <<outcome, note>>
    /\ UNCHANGED <<world, todo, at, deps, seedDDL, executed, faults>>

\* Faulty: a retry that rebuilds is a retry that helps.
RetryUnvalidated ==
    /\ pc = "retrying"
    /\ seedDDL' = {}
    /\ LET skipped == seedSkipped \cup Skips IN
        IF Rebuilds(at, seedDDL)
        THEN /\ Settle("seeded") /\ pc' = "next"
             /\ note' = [note EXCEPT ![at] = skipped]
             /\ seedSkipped' = {}
        ELSE /\ pc' = "degrading"
             /\ seedSkipped' = skipped
             /\ UNCHANGED <<outcome, note>>
    /\ UNCHANGED <<world, todo, at, deps, caught, executed, faults>>

\* The retry: every temporary database is seeded, what cannot be created is
\* noted, and the plan is validated again.  Whichever way it fails, the error
\* is advisory.  The factory is disarmed in any case; a success takes the
\* skipped objects into its note.
Retry ==
    /\ pc = "retrying"
    /\ seedDDL' = {}
    /\ LET skipped == seedSkipped \cup Skips IN
        IF Rebuilds(at, seedDDL) /\ at \in good
        THEN /\ Settle("seeded") /\ pc' = "next"
             /\ note' = [note EXCEPT ![at] = skipped]
             /\ seedSkipped' = {}
             /\ UNCHANGED caught
        ELSE /\ pc' = "degrading"
             /\ seedSkipped' = skipped
             /\ caught' = IF Rebuilds(at, seedDDL) THEN caught \cup {at} ELSE caught
             /\ UNCHANGED <<outcome, note>>
    /\ UNCHANGED <<world, todo, at, deps, executed, faults>>

\* The retry fails on its way, after it has seeded some database or none.
RetryFails ==
    /\ pc = "retrying" /\ Fault
    /\ seedDDL' = {}
    /\ \E some \in {{}, Skips} : seedSkipped' = seedSkipped \cup some
    /\ pc' = "degrading"
    /\ UNCHANGED <<world, todo, at, deps, outcome, note, caught, executed>>

\* A plan that has statements and was not validated is refused by an apply at
\* once, before pass 2; a plan refuses when it has seen every folder.
Accept ==
    IF failOnUnvalidated /\ at \in proposing
    THEN FolderStops("refused")
    ELSE Settle("unvalidated") /\ pc' = "next"

\* Faulty: what was skipped in vain stays on the list.
DegradeKeepingSkips ==
    /\ pc = "degrading"
    /\ \/ Accept /\ UNCHANGED faults
       \/ Fault /\ FolderStops("failed")
    /\ UNCHANGED <<world, todo, at, deps, seedDDL, seedSkipped, note, caught, executed>>

\* The skipped objects are dropped, and the plan generated without validation.
Degrade ==
    /\ pc = "degrading"
    /\ seedSkipped' = {}
    /\ \/ Accept /\ UNCHANGED faults
       \/ Fault /\ FolderStops("failed")
    /\ UNCHANGED <<world, todo, at, deps, seedDDL, note, caught, executed>>

-----------------------------------------------------------------------------
(* After the last folder *)

\* Faulty: statements run as soon as their folder is diffed.
DiffedSome == pc \in {"applying", "next"} /\ cmd = "apply"

\* Pass 2 begins when pass 1 has come through every folder.
DiffedAll == pc = "applying"

AllDiffed ==
    /\ pc = "next" /\ todo = {}
    /\ pc' = IF cmd = "apply" THEN "applying" ELSE "done"
    /\ UNCHANGED <<world, todo, at, deps, seedDDL, seedSkipped, outcome, note, caught, executed, faults>>

\* Pass 2: folder by folder, in order.  A plan that is not good may stop it, or
\* may run and not converge; a statement may fail for a reason of its own.
ApplyFolder ==
    /\ DiffedAll
    /\ \E f \in proposing \ executed :
        /\ outcome[f] # "pending"
        /\ \A g \in proposing \ executed : Rank[f] <= Rank[g]
        /\ executed' = executed \cup {f}
        /\ \/ UNCHANGED <<pc, faults>>
           \/ f \notin good /\ pc' = "stopped" /\ UNCHANGED faults
           \/ Fault /\ pc' = "stopped"
    /\ UNCHANGED <<world, todo, at, deps, seedDDL, seedSkipped, outcome, note, caught>>

Applied ==
    /\ pc = "applying" /\ proposing \subseteq executed
    /\ pc' = "done"
    /\ UNCHANGED <<world, todo, at, deps, seedDDL, seedSkipped, outcome, note, caught, executed, faults>>

Next ==
    \/ NextFolder \/ Generate \/ GenerateFails
    \/ FindDependencies \/ CountRelations \/ Harvest \/ RecoveryFails
    \/ Retry \/ RetryFails \/ Degrade
    \/ AllDiffed \/ ApplyFolder \/ Applied

Spec == Init /\ [][Next]_vars

-----------------------------------------------------------------------------
(* Properties *)

\* Every variable has its type.
TypeOK ==
    /\ uses \in [Obj -> SUBSET Obj] /\ good \subseteq Folder /\ proposing \subseteq Folder
    /\ failOnUnvalidated \in BOOLEAN /\ cmd \in {"plan", "apply"}
    /\ pc \in Control /\ todo \subseteq Folder /\ at \in Folder
    /\ deps \subseteq Folder \cup Outside
    /\ seedDDL \subseteq Obj /\ seedSkipped \subseteq Obj
    /\ outcome \in [Folder -> Outcomes]
    /\ note \in [Folder -> SUBSET Obj]
    /\ caught \subseteq Folder /\ executed \subseteq Folder
    /\ faults \in Nat

\* "A skipped object cannot make a bad plan look good": whatever was imported
\* and whatever was left out, a plan that passes for validated executes and
\* converges (applySeed, validation_deps.go:241).
SeedCannotFlatter ==
    \A f \in Folder : outcome[f] \in {"validated", "seeded"} => f \in good

\* "A validated plan that needed an import should say so": one that is reported
\* as plainly validated was not checked against a copy of another schema, its
\* own retry's or an earlier folder's (SeededSchemas, differ.go:32).
SaysWhatItImported ==
    \A f \in Folder :
        /\ outcome[f] = "validated" => Rebuilds(f, {})
        /\ outcome[f] = "seeded" => ~Rebuilds(f, {})

\* What is reported as skipped is of the schemas this folder reaches into, and
\* none of an earlier folder's vain attempt (takeSkipped).
NotesAreOwn ==
    \A f \in Folder :
        LET imported == ObjectsOf(DependencySchemas(f)) IN
        note[f] \subseteq imported \ Built(imported)

Settled(f) == outcome[f] # "pending"

\* A good plan is refused for want of validation only where the documentation
\* says so: the dependency is too large, some object reaches out by a function
\* alone, or into a third schema (README.md:598).
RecoversWhatItPromises ==
    \A f \in good :
        LET imported == ObjectsOf(DependencySchemas(f)) IN
        /\ Settled(f) /\ faults = 0
        /\ Rebuilds(f, imported)
        /\ Cardinality(imported \ Routine) <= MaxRelations
        /\ Cardinality(imported) <= MaxStatements
        => outcome[f] \in {"validated", "seeded"}

\* "A refusal has to be a refusal for the whole run": no statement has run when
\* some folder is refused, has failed or has not been diffed, and none of a
\* plan that should have been refused (engine.go:635, :660).
RefusalIsWhole ==
    executed # {} =>
        /\ \A f \in Folder : outcome[f] \in {"validated", "seeded", "unvalidated"}
        /\ failOnUnvalidated => \A f \in executed : outcome[f] # "unvalidated"

\* "Only that one phase degrades.  'The generated DDL does not execute' and
\* 'the plan does not converge to the desired state' always abort, in plan and
\* apply alike" (README.md:618): no statement runs of a plan that a validation
\* has run and rejected.
RealFailuresAbort == caught \cap executed = {}
=============================================================================
