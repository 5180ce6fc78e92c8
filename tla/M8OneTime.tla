------------------------------ MODULE M8OneTime ------------------------------
(***************************************************************************)
(* What m8 promises of ops/ and data/ migrations: "run once" (README.md),  *)
(* down to what an interruption between a migration and its history row    *)
(* can do to it.  One migration at a time is executed and then recorded;   *)
(* what is recorded, by a run or by an adoption, is never executed again.  *)
(***************************************************************************)
EXTENDS Naturals

CONSTANT OneTimeFile

VARIABLES
    runs,   \* how often each migration has been executed
    done,   \* the migrations that are recorded
    owed,   \* the migration that has been executed and awaits its record
    losses  \* interruptions so far

vars == <<runs, done, owed, losses>>

Init ==
    /\ runs = [f \in OneTimeFile |-> 0]
    /\ done = {}
    /\ owed = {}
    /\ losses = 0

Execute(f) ==
    /\ owed = {} /\ f \notin done
    /\ runs' = [runs EXCEPT ![f] = @ + 1]
    /\ owed' = {f}
    /\ UNCHANGED <<done, losses>>

Record(f) ==
    /\ f \in owed
    /\ done' = done \cup {f}
    /\ owed' = {}
    /\ UNCHANGED <<runs, losses>>

Adopt(f) ==
    /\ owed = {}
    /\ done' = done \cup {f}
    /\ UNCHANGED <<runs, owed, losses>>

\* A session, a process or a row is lost, perhaps with the record it owed.
Interrupt ==
    /\ losses' = losses + 1
    /\ owed' \in {owed, {}}
    /\ UNCHANGED <<runs, done>>

Next ==
    \/ \E f \in OneTimeFile : Execute(f) \/ Record(f) \/ Adopt(f)
    \/ Interrupt

Spec == Init /\ [][Next]_vars

\* A migration that is neither recorded nor about to be has run no more often
\* than there were interruptions, any other at most once more.
RunsArePaidFor ==
    \A f \in OneTimeFile :
        runs[f] <= losses + (IF f \in done \cup owed THEN 1 ELSE 0)

==============================================================================
