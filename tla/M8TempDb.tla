------------------------------ MODULE M8TempDb ------------------------------
(***************************************************************************)
(* The temporary databases of m8 (internal/schema/differ.go and the        *)
(* startup and teardown of cmd/root.go): several invocations of plan,      *)
(* apply and sync create and drop databases on one shadow instance, and    *)
(* sweep it when they start and when they end - by invalidity, by age, and *)
(* by the names of their own.                                              *)
(*                                                                         *)
(* A database is born when pg-schema-diff has sent CREATE DATABASE, gets   *)
(* tracked when the library calls m8 back for a connection, and gets its   *)
(* creation time when the library writes its metadata table.  Signals,     *)
(* kills, lost answers and failing statements may come at any step.        *)
(***************************************************************************)
EXTENDS Naturals, FiniteSets

CONSTANTS
    Proc,       \* the m8 processes
    TempDb,     \* names pgschemadiff_tmp_*; a name is fresh when nobody knows it
    Foreign,    \* databases of another role, left invalid; we may not drop them
    Dedicated,  \* whether a shadow instance is configured
    MaxTemps,   \* bound: temporary databases one run creates
    MaxSignals, \* bound: interruptions of a command
    MaxKills,   \* bound: processes killed
    MaxFaults   \* bound: statements that fail on the shadow

ASSUME TempDbAssumption == Foreign \subseteq TempDb /\ Dedicated \in BOOLEAN

VARIABLES
    state,      \* pg_database: absent, valid, or invalid (datconnlimit = -2)
    stamp,      \* the metadata inside: no row yet, younger than the TTL, or older
    conns,      \* which processes have backends in it
    pc,
    cancelled,  \* the command's context is cancelled
    inUse,      \* databases a process's diff works with at the moment
    asked,      \* databases created for the run, as the server confirmed
    created,    \* tempDBTracker: the names of the run that m8 knows
    listed,     \* what the sweep in progress still has before it
    vetted,     \* the one it has found old, and drops next
    signals, kills, faults

vars == <<state, stamp, conns, pc, cancelled, inUse, asked, created, listed,
          vetted, signals, kills, faults>>

shadowVars == <<state, stamp, conns>>
budgets    == <<signals, kills, faults>>

Startup  == {"listInvalid", "dropInvalid", "listStale", "dropStale"}
Listing  == {"listInvalid", "listStale", "listOwn", "listTail"}
Dropping == {"dropInvalid", "dropStale", "dropOwn", "dropTail"}
Control  == {"idle", "working"} \cup Listing \cup Dropping

Present == {d \in TempDb : state[d] # "absent"}
Invalid == {d \in TempDb : state[d] = "invalid"}

\* The databases SweepStaleTempDBs considers: valid, and without a backend.
Quiet == {d \in TempDb : state[d] = "valid" /\ conns[d] = {}}

\* What each sweep lists.
Listed(p) ==
    CASE pc[p] \in {"listInvalid", "listTail"} -> Invalid
      [] pc[p] = "listStale" -> Quiet
      [] pc[p] = "listOwn"   -> created[p] \cap Present

\* Faulty: only the sweep by age goes on to drop what it listed.
DropsByAge(step) == IF step = "listStale" THEN "dropStale" ELSE "none"

\* The drops that follow a listing.
DropsOf(step) ==
    CASE step = "listInvalid" -> "dropInvalid"
      [] step = "listStale"   -> "dropStale"
      [] step = "listOwn"     -> "dropOwn"
      [] step = "listTail"    -> "dropTail"

\* What comes after a sweep, whether it succeeded or was logged as a failure.
\* Valid databases are swept only from a dedicated shadow.
After(step) ==
    CASE step \in {"listInvalid", "dropInvalid"} ->
             IF Dedicated THEN "listStale" ELSE "working"
      [] step \in {"listStale", "dropStale"} -> "working"
      [] step \in {"listOwn", "dropOwn"}     -> "listTail"
      [] step \in {"listTail", "dropTail"}   -> "idle"

\* DROP DATABASE ... WITH (FORCE) ends the backends of the database with it.
DropOnServer(d) ==
    /\ state' = [state EXCEPT ![d] = "absent"]
    /\ stamp' = [stamp EXCEPT ![d] = "none"]
    /\ conns' = [conns EXCEPT ![d] = {}]

Forget(p) ==
    /\ inUse' = [inUse EXCEPT ![p] = {}]
    /\ asked' = [asked EXCEPT ![p] = {}]
    /\ created' = [created EXCEPT ![p] = {}]
    /\ listed' = [listed EXCEPT ![p] = {}]
    /\ vetted' = [vetted EXCEPT ![p] = {}]
    /\ cancelled' = [cancelled EXCEPT ![p] = FALSE]

Init ==
    /\ state = [d \in TempDb |-> IF d \in Foreign THEN "invalid" ELSE "absent"]
    /\ stamp = [d \in TempDb |-> "none"]
    /\ conns = [d \in TempDb |-> {}]
    /\ pc = [p \in Proc |-> "idle"]
    /\ cancelled = [p \in Proc |-> FALSE]
    /\ inUse = [p \in Proc |-> {}]
    /\ asked = [p \in Proc |-> {}]
    /\ created = [p \in Proc |-> {}]
    /\ listed = [p \in Proc |-> {}]
    /\ vetted = [p \in Proc |-> {}]
    /\ signals = 0 /\ kills = 0 /\ faults = 0

-----------------------------------------------------------------------------
(* Startup and the sweeps *)

\* A plan, apply or sync begins: NewDiffer, and the sweep of invalid databases.
Start(p) ==
    /\ pc[p] = "idle"
    /\ pc' = [pc EXCEPT ![p] = "listInvalid"]
    /\ UNCHANGED <<shadowVars, cancelled, inUse, asked, created, listed, vetted, budgets>>

\* Startup sweeps run on the command's context, those of the teardown on a
\* context detached from it.
MayQuery(p) == pc[p] \in Startup \cup {"working"} => ~cancelled[p]

\* A sweep reads pg_database.
List(p) ==
    /\ pc[p] \in Listing
    /\ MayQuery(p)
    /\ listed' = [listed EXCEPT ![p] = Listed(p)]
    /\ pc' = [pc EXCEPT ![p] = DropsOf(pc[p])]
    /\ UNCHANGED <<shadowVars, cancelled, inUse, asked, created, vetted, budgets>>

\* Faulty: age is not asked for.
VetSansAge(p) ==
    /\ pc[p] = "dropStale" /\ vetted[p] = {}
    /\ MayQuery(p)
    /\ \E d \in listed[p] : vetted' = [vetted EXCEPT ![p] = {d}]
    /\ UNCHANGED <<shadowVars, pc, cancelled, inUse, asked, created, listed, budgets>>

\* Faulty: the first database that cannot be inspected ends the sweep.
VetOrQuit(p) ==
    /\ pc[p] = "dropStale" /\ vetted[p] = {}
    /\ MayQuery(p)
    /\ \E d \in listed[p] :
        IF state[d] = "valid" /\ stamp[d] = "old"
        THEN vetted' = [vetted EXCEPT ![p] = {d}] /\ UNCHANGED listed
        ELSE listed' = [listed EXCEPT ![p] = {}] /\ UNCHANGED vetted
    /\ UNCHANGED <<shadowVars, pc, cancelled, inUse, asked, created, budgets>>

\* tempDBOlderThan: only a database whose metadata can be read and says that it
\* is older than the TTL is dropped; any other is passed over, and so is one
\* whose query fails.
Vet(p) ==
    /\ pc[p] = "dropStale" /\ vetted[p] = {}
    /\ MayQuery(p)
    /\ \E d \in listed[p] :
        \/ /\ state[d] = "valid" /\ stamp[d] = "old"
           /\ vetted' = [vetted EXCEPT ![p] = {d}]
           /\ UNCHANGED <<listed, faults>>
        \/ /\ IF state[d] = "valid" /\ stamp[d] = "old"
              THEN faults < MaxFaults /\ faults' = faults + 1
              ELSE UNCHANGED faults
           /\ listed' = [listed EXCEPT ![p] = @ \ {d}]
           /\ UNCHANGED vetted
    /\ UNCHANGED <<shadowVars, pc, cancelled, inUse, asked, created, signals, kills>>

\* What the sweep drops next: anything it listed, or what it has vetted.
Doomed(p) == IF pc[p] = "dropStale" THEN vetted[p] ELSE listed[p]

\* DROP DATABASE IF EXISTS: a database someone else has dropped is no error.
Drop(p) ==
    /\ pc[p] \in Dropping
    /\ MayQuery(p)
    /\ \E d \in Doomed(p) \ Foreign :
        /\ DropOnServer(d)
        /\ listed' = [listed EXCEPT ![p] = @ \ {d}]
    /\ vetted' = [vetted EXCEPT ![p] = {}]
    /\ UNCHANGED <<pc, cancelled, inUse, asked, created, budgets>>

\* A sweep comes to the end of its list.  The teardown's last sweep ends the
\* process.
SweepDone(p) ==
    /\ pc[p] \in Dropping /\ listed[p] = {}
    /\ pc' = [pc EXCEPT ![p] = After(pc[p])]
    /\ IF pc[p] = "dropTail"
       THEN Forget(p)
       ELSE UNCHANGED <<cancelled, inUse, asked, created, listed, vetted>>
    /\ UNCHANGED <<shadowVars, budgets>>

\* The sweep returns at its first error, and the error is only logged: its
\* context was cancelled, the database is not ours to drop, or a statement
\* failed - and a DROP that is cut off may have made the database invalid.
SweepFails(p) ==
    /\ pc[p] \in Listing \cup Dropping
    /\ \/ ~MayQuery(p) /\ UNCHANGED <<state, faults>>
       \/ pc[p] \in Dropping /\ Doomed(p) \cap Foreign # {} /\ UNCHANGED <<state, faults>>
       \/ /\ faults < MaxFaults /\ faults' = faults + 1
          /\ \/ UNCHANGED state
             \/ /\ pc[p] \in Dropping
                /\ \E d \in Doomed(p) \cap Present : state' = [state EXCEPT ![d] = "invalid"]
    /\ pc' = [pc EXCEPT ![p] = After(pc[p])]
    /\ IF After(pc[p]) = "idle"
       THEN Forget(p)
       ELSE /\ listed' = [listed EXCEPT ![p] = {}]
            /\ vetted' = [vetted EXCEPT ![p] = {}]
            /\ UNCHANGED <<cancelled, inUse, asked, created>>
    /\ UNCHANGED <<stamp, conns, signals, kills>>

-----------------------------------------------------------------------------
(* A diff at work: what pg-schema-diff does with its factory *)

\* Names are UUIDs: a new one is that of no database and in nobody's hands.
Fresh(d) ==
    /\ state[d] = "absent" /\ d \notin Foreign
    /\ \A q \in Proc : d \notin asked[q] \cup created[q] \cup listed[q]

\* CREATE DATABASE, answered by the server.
CreateTemp(p) ==
    /\ pc[p] = "working" /\ MayQuery(p)
    /\ Cardinality(asked[p]) < MaxTemps
    /\ \E d \in TempDb :
        /\ Fresh(d)
        /\ state' = [state EXCEPT ![d] = "valid"]
        /\ inUse' = [inUse EXCEPT ![p] = @ \cup {d}]
        /\ asked' = [asked EXCEPT ![p] = @ \cup {d}]
    /\ UNCHANGED <<stamp, conns, pc, cancelled, created, listed, vetted, budgets>>

\* The command is interrupted while the server executes a CREATE DATABASE: the
\* database comes to be, and nobody has been told.
CreateUnanswered(p) ==
    /\ pc[p] = "working" /\ MayQuery(p)
    /\ Cardinality(asked[p]) < MaxTemps
    /\ signals < MaxSignals /\ signals' = signals + 1
    /\ \E d \in TempDb : Fresh(d) /\ state' = [state EXCEPT ![d] = "valid"]
    /\ cancelled' = [cancelled EXCEPT ![p] = TRUE]
    /\ UNCHANGED <<stamp, conns, pc, inUse, asked, created, listed, vetted, kills, faults>>

\* Faulty: an interrupted command does not track what it created.
RegisterUnlessCancelled(p) ==
    /\ pc[p] = "working"
    /\ \E d \in inUse[p] \ created[p] :
        IF cancelled[p]
        THEN /\ inUse' = [inUse EXCEPT ![p] = @ \ {d}]
             /\ UNCHANGED created
        ELSE /\ created' = [created EXCEPT ![p] = @ \cup {d}]
             /\ UNCHANGED inUse
    /\ UNCHANGED <<shadowVars, pc, cancelled, asked, listed, vetted, budgets>>

\* The factory's callback: the name is tracked before anything is tried with
\* it.  sql.Open is lazy, so there is no backend yet.
Register(p) ==
    /\ pc[p] = "working"
    /\ \E d \in inUse[p] \ created[p] : created' = [created EXCEPT ![p] = @ \cup {d}]
    /\ UNCHANGED <<shadowVars, pc, cancelled, inUse, asked, listed, vetted, budgets>>

\* The library connects and writes the creation time.
Stamp(p) ==
    /\ pc[p] = "working" /\ MayQuery(p)
    /\ \E d \in inUse[p] \cap created[p] :
        /\ stamp[d] = "none"
        /\ stamp' = [stamp EXCEPT ![d] = "young"]
        /\ conns' = [conns EXCEPT ![d] = @ \cup {p}]
    /\ UNCHANGED <<state, pc, cancelled, inUse, asked, created, listed, vetted, budgets>>

\* The library is done with a database: it closes its pool and drops it.
DropTemp(p) ==
    /\ pc[p] = "working" /\ MayQuery(p)
    /\ \E d \in inUse[p] \cap created[p] :
        /\ DropOnServer(d)
        /\ inUse' = [inUse EXCEPT ![p] = @ \ {d}]
    /\ UNCHANGED <<pc, cancelled, asked, created, listed, vetted, budgets>>

\* The library's DROP is not sent, or is cut off: by tempDropTimeout, or
\* because it runs on the command's cancelled context.
DropTempFails(p) ==
    /\ pc[p] = "working"
    /\ IF cancelled[p] THEN UNCHANGED faults
       ELSE faults < MaxFaults /\ faults' = faults + 1
    /\ \E d \in inUse[p] \cap created[p] :
        /\ inUse' = [inUse EXCEPT ![p] = @ \ {d}]
        /\ conns' = [conns EXCEPT ![d] = @ \ {p}]
        /\ \E s \in {"valid", "invalid"} : state' = [state EXCEPT ![d] = s]
    /\ UNCHANGED <<stamp, pc, cancelled, asked, created, listed, vetted, signals, kills>>

-----------------------------------------------------------------------------
(* The end of a command *)

\* RunE returns, with or without an error, and the deferred cleanup begins.
Finish(p) ==
    /\ pc[p] = "working" /\ inUse[p] = {}
    /\ pc' = [pc EXCEPT ![p] = "listOwn"]
    /\ UNCHANGED <<shadowVars, cancelled, inUse, asked, created, listed, vetted, budgets>>

\* A plan that found changes leaves by os.Exit(2): nothing deferred runs.
ExitWithChanges(p) ==
    /\ pc[p] = "working" /\ inUse[p] = {} /\ ~cancelled[p]
    /\ pc' = [pc EXCEPT ![p] = "idle"]
    /\ Forget(p)
    /\ UNCHANGED <<shadowVars, budgets>>

\* SIGINT or SIGTERM cancels the command's context.
Signal(p) ==
    /\ pc[p] \in Startup \cup {"working"} /\ ~cancelled[p]
    /\ signals < MaxSignals /\ signals' = signals + 1
    /\ cancelled' = [cancelled EXCEPT ![p] = TRUE]
    /\ UNCHANGED <<shadowVars, pc, inUse, asked, created, listed, vetted, kills, faults>>

\* The process dies where it stands, and the server ends its backends.
Kill(p) ==
    /\ pc[p] # "idle"
    /\ kills < MaxKills /\ kills' = kills + 1
    /\ pc' = [pc EXCEPT ![p] = "idle"]
    /\ conns' = [d \in TempDb |-> conns[d] \ {p}]
    /\ Forget(p)
    /\ UNCHANGED <<state, stamp, signals, faults>>

\* An hour passes over a database.  The one assumption about time: it does not
\* pass between a sweep's listing and its drop of a database in use.
Age(d) ==
    /\ stamp[d] = "young"
    /\ \A p, q \in Proc : ~ (d \in inUse[p] /\ d \in listed[q])
    /\ stamp' = [stamp EXCEPT ![d] = "old"]
    /\ UNCHANGED <<state, conns, pc, cancelled, inUse, asked, created, listed, vetted, budgets>>

\* The role that left a database on the shadow drops it.
ForeignCleaned(d) ==
    /\ d \in Foreign /\ state[d] = "invalid"
    /\ DropOnServer(d)
    /\ UNCHANGED <<pc, cancelled, inUse, asked, created, listed, vetted, budgets>>

-----------------------------------------------------------------------------
(* The specification *)

Work(p) ==
    \/ Start(p) \/ List(p) \/ Vet(p) \/ Drop(p) \/ SweepDone(p)
    \/ CreateTemp(p) \/ Register(p) \/ Stamp(p) \/ DropTemp(p)
    \/ SweepFails(p) \/ DropTempFails(p)
    \/ Finish(p) \/ ExitWithChanges(p)

Environment ==
    \/ \E p \in Proc : CreateUnanswered(p) \/ Signal(p) \/ Kill(p)
    \/ \E d \in TempDb : Age(d) \/ ForeignCleaned(d)

Next == (\E p \in Proc : Work(p)) \/ Environment

Spec == Init /\ [][Next]_vars

\* m8 keeps being invoked on this shadow, processes take their steps, and
\* time passes.
LiveSpec ==
    /\ Spec
    /\ \A p \in Proc : WF_vars(Work(p))
    /\ \A d \in TempDb : WF_vars(Age(d))

-----------------------------------------------------------------------------
(* Properties *)

\* Every variable has its type.
TypeOK ==
    /\ state \in [TempDb -> {"absent", "valid", "invalid"}]
    /\ stamp \in [TempDb -> {"none", "young", "old"}]
    /\ conns \in [TempDb -> SUBSET Proc]
    /\ pc \in [Proc -> Control]
    /\ cancelled \in [Proc -> BOOLEAN]
    /\ inUse \in [Proc -> SUBSET TempDb]
    /\ asked \in [Proc -> SUBSET TempDb]
    /\ created \in [Proc -> SUBSET TempDb]
    /\ listed \in [Proc -> SUBSET TempDb]
    /\ vetted \in [Proc -> SUBSET TempDb]
    /\ signals \in Nat /\ kills \in Nat /\ faults \in Nat

\* "it can never reach a database another process owns": whatever sweeps run
\* beside it, a database that a diff works with is there, and can be connected
\* to (differ.go:193, :243, StaleTempDBTTL).
InUseKept == \A p \in Proc : \A d \in inUse[p] : state[d] = "valid"

\* A teardown whose drops all went through leaves none of the databases of its
\* run, however the run was interrupted (DropCreatedTempDBs).
TeardownReclaims ==
    [][\A p \in Proc :
         pc[p] = "dropOwn" /\ SweepDone(p) => asked[p] \cap Present = {}]_vars

\* A database nobody works with that a sweep can tell to be an orphan.
Orphan(d) ==
    /\ d \notin Foreign
    /\ \A p \in Proc : d \notin inUse[p]
    /\ state[d] = "invalid" \/ (state[d] = "valid" /\ stamp[d] # "none")

\* No database is left on the shadow that this role may not drop.
ForeignGone == \A d \in Foreign : state[d] = "absent"

\* On a dedicated shadow every recognisable orphan goes in the end, whatever
\* kill, signal or failure made it one, unless a database that this role may not
\* drop stays there: a sweep returns at its first failing DROP (differ.go:277),
\* and so does every later one.  README.md:625 knows no such exception.
OrphansGo ==
    <>[]ForeignGone => \A d \in TempDb : Orphan(d) ~> state[d] = "absent"
=============================================================================
