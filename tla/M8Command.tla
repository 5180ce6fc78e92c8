----------------------------- MODULE M8Command -----------------------------
(***************************************************************************)
(* A command from what it is given to what it does: the settings of        *)
(* cmd/root.go, the files that internal/migration finds, the statements    *)
(* that the filter of internal/schema/differ.go keeps, and the files that  *)
(* cmd/dump.go writes.  One command at a time, as M8Engine shows; losses,  *)
(* and the phases left out here, are in M8Engine.                          *)
(***************************************************************************)
EXTENDS M8Settings, M8Discover, M8Filter, M8FileNames

CONSTANTS
    Scenarios,       \* where a behaviour may start
    MaxFaults        \* bound: one-time migrations and writes that fail

\* A catalog has what its objects need; so does what is declared, which is built
\* in a database of its own.
ASSUME CommandAssumption ==
    \A s \in Scenarios :
        /\ s.given \in Givens /\ s.routines \subseteq Routine
        /\ s.dir \cup s.toAdd \subseteq DirEntry /\ IsFiniteSet(s.dir)
        /\ s.live \cup s.files.declared \cup s.files.commented \subseteq Object
        /\ \A o \in s.live : Needs[o] \cup {On[o]} \subseteq s.live
        /\ \A o \in s.files.declared : Needs[o] \cup {On[o]} \subseteq s.files.declared

\* No two one-time files share both version and name, and none is added twice.
ASSUME TwinsAssumption ==
    \A s \in Scenarios :
        /\ s.dir \cap s.toAdd = {}
        /\ \A e, f \in s.dir \cup s.toAdd :
              OneTimeFile(e) /\ OneTimeFile(f) /\ e.stamp = f.stamp /\ e.name = f.name => e = f

VARIABLES
    given,           \* what flags, environment and .m8.yaml say, in Givens
    dir,             \* the entries of the migrations directory
    toAdd,           \* entries that its authors will still add
    files,           \* what the files of its schema folder say
    live,            \* the objects in that schema
    routines,        \* the functions, procedures and views of the database
    written,         \* what is in logic/, by path
    names,           \* the names of the files still to write, by routine
    dumped,          \* the routines when all were last written
    step, command,
    settings,
    temps,           \* where temporary databases are: "none", "shadow" or "target"
    listing,         \* what is left of the migrations found
    applied,         \* appliedSet of the phase
    plan,            \* the statements left of the schema folder's
    recorded,        \* <<type, version>> of the rows in the history
    ran,             \* the one-time migrations executed, in order
    faults

vars == <<given, dir, toAdd, files, live, routines, written, names, dumped, step,
          command, settings, temps, listing, applied, plan, recorded, ran, faults>>
world    == <<given, dir, toAdd, files, routines, written, names, dumped>>
progress == <<listing, applied, plan, recorded, ran, faults>>

Phases == {"ops", "schema", "data"}
Unset == Settings([flag |-> [strict |-> FALSE, fail |-> FALSE, shadow |-> FALSE, url |-> FALSE,
                             database |-> FALSE, timeout |-> "unset"],
                   env |-> [require |-> "unset", fail |-> "unset", shadow |-> FALSE,
                            url |-> FALSE, database |-> FALSE],
                   file |-> [broken |-> FALSE, strict |-> FALSE, require |-> FALSE,
                             fail |-> FALSE, shadow |-> FALSE, url |-> FALSE,
                             database |-> FALSE, timeout |-> "unset"]])

Init ==
    /\ \E s \in Scenarios :
          /\ given = s.given /\ dir = s.dir /\ toAdd = s.toAdd
          /\ files = s.files /\ live = s.live /\ routines = s.routines
    /\ written = <<>> /\ names = <<>> /\ dumped = {}
    /\ step = "idle" /\ command = "apply" /\ settings = Unset /\ temps = "none"
    /\ listing = <<>> /\ applied = {} /\ plan = {} /\ recorded = {} /\ ran = <<>>
    /\ faults = 0

Invoke(c) ==
    /\ step = "idle"
    /\ step' = "resolve" /\ command' = c
    /\ UNCHANGED <<live, settings, temps>> /\ UNCHANGED world /\ UNCHANGED progress

\* The command is over, and its temporary databases are gone.
Leave == step' = "idle" /\ temps' = "none"

\* Whatever is given that makes no sense ends the command.
ResolveSettings ==
    /\ step = "resolve"
    /\ \/ Unresolvable(given) /\ Leave /\ UNCHANGED settings
       \/ /\ ~Unresolvable(given)
          /\ step' = "connect" /\ settings' = Settings(given) /\ UNCHANGED temps
    /\ UNCHANGED <<command, live>> /\ UNCHANGED world /\ UNCHANGED progress

\* connectAndBuildEngine; status needs no differ, and dump no engine.
Connect ==
    /\ step = "connect"
    /\ \/ command = "apply" /\ RefusesToStart(settings) /\ Leave
       \/ /\ command = "apply" /\ ~RefusesToStart(settings)
          /\ temps' = IF settings.shadow THEN "shadow" ELSE "target"
          /\ step' = "discover"
       \/ command = "dump" /\ step' = "dump" /\ UNCHANGED temps
       \/ command = "status" /\ Leave
    /\ UNCHANGED <<command, live, settings>> /\ UNCHANGED world /\ UNCHANGED progress

\* Faulty: the versions of ops and data are one namespace.
AppliedOfAny(type) == {r[2] : r \in recorded}

\* GetAppliedVersioned.
AppliedVersioned(type) == {r[2] : r \in {r \in recorded : r[1] = type}}

DiscoverMigrations ==
    /\ step = "discover"
    /\ listing' \in Discover(dir)
    /\ step' = "ops" /\ applied' = AppliedVersioned("ops")
    /\ UNCHANGED <<command, live, settings, temps, plan, recorded, ran, faults>>
    /\ UNCHANGED world

IsNext(i) == listing[i].type = step /\ \A j \in 1..(i - 1) : listing[j].type # step

\* What is remembered of an execution.
Identity(m) == [type |-> m.type, version |-> m.version, name |-> m.name]

\* A step of applyVersioned: skipped, executed and recorded, or failed.  A second
\* row of a version is refused by the history's index, which nobody is told.
RunOneTime ==
    /\ step \in {"ops", "data"}
    /\ \E i \in DOMAIN listing :
          /\ IsNext(i)
          /\ listing' = RemoveAt(listing, i)
          /\ LET m == listing[i] IN
             \/ /\ m.version \in applied
                /\ UNCHANGED <<step, temps, ran, recorded, faults>>
             \/ /\ m.version \notin applied
                /\ ran' = Append(ran, Identity(m))
                /\ recorded' = recorded \cup {<<m.type, m.version>>}
                /\ UNCHANGED <<step, temps, faults>>
             \/ /\ m.version \notin applied /\ faults < MaxFaults
                /\ faults' = faults + 1 /\ Leave
                /\ UNCHANGED <<ran, recorded>>
    /\ UNCHANGED <<command, live, settings, applied, plan>> /\ UNCHANGED world

\* After ops comes the schema folder, diffed as a whole; data is the last.
OneTimeDone ==
    /\ step \in {"ops", "data"} /\ ~ \E i \in DOMAIN listing : IsNext(i)
    /\ \/ /\ step = "ops" /\ step' = "schema" /\ UNCHANGED temps
          /\ plan' = {s \in Difference(files, live) : Kept(s, files, live, settings.strict)}
       \/ step = "data" /\ Leave /\ UNCHANGED plan
    /\ UNCHANGED <<command, live, settings, listing, applied, recorded, ran, faults>>
    /\ UNCHANGED world

\* Statements are executed in the order of the plan they come from; one that
\* would drop what another object needs fails, and ends the command.
ExecStatement ==
    /\ step = "schema"
    /\ \E s \in plan :
          /\ \A t \in plan : ~Earlier(t, s)
          /\ IF Blockers(s, live) = {}
             THEN /\ live' = Executed(s, files, live) /\ plan' = plan \ {s}
                  /\ UNCHANGED <<step, temps>>
             ELSE Leave /\ UNCHANGED <<live, plan>>
    /\ UNCHANGED <<command, settings, listing, applied, recorded, ran, faults>>
    /\ UNCHANGED world

SchemaDone ==
    /\ step = "schema" /\ plan = {}
    /\ step' = "data" /\ applied' = AppliedVersioned("data")
    /\ UNCHANGED <<command, live, settings, temps, listing, plan, recorded, ran, faults>>
    /\ UNCHANGED world

\* The names are chosen for all routines at once; then the files are written one
\* by one, over what is there under the same path, and the first that cannot be
\* written ends the command.
ResolveNames ==
    /\ step = "dump" /\ step' = "write"
    /\ names' = ResolveLogicFileNames(routines)
    /\ UNCHANGED <<given, dir, toAdd, files, live, routines, written, dumped, command,
                   settings, temps>>
    /\ UNCHANGED progress

Replaced(path, o) == [p \in DOMAIN written \cup {path} |-> IF p = path THEN o ELSE written[p]]
WriteFile ==
    /\ step = "write"
    /\ \E o \in DOMAIN names :
          \/ /\ written' = Replaced(Fold(names[o]), o)
             /\ names' = Restrict(names, DOMAIN names \ {o})
             /\ UNCHANGED <<step, temps, faults>>
          \/ /\ faults < MaxFaults /\ faults' = faults + 1
             /\ Leave /\ names' = <<>>
             /\ UNCHANGED written
    /\ UNCHANGED <<given, dir, toAdd, files, live, routines, dumped, command, settings,
                   listing, applied, plan, recorded, ran>>

DumpDone ==
    /\ step = "write" /\ names = <<>> /\ Leave
    /\ dumped' = routines
    /\ UNCHANGED <<given, dir, toAdd, files, live, routines, written, names, command,
                   settings>>
    /\ UNCHANGED progress

\* The author of the directory merges a file, at any place in the order.
AddFile ==
    /\ step = "idle"
    /\ \E e \in toAdd : dir' = dir \cup {e} /\ toAdd' = toAdd \ {e}
    /\ UNCHANGED <<given, files, live, routines, written, names, dumped, step, command,
                   settings, temps>>
    /\ UNCHANGED progress

\* The flat files are moved into the folders of their types, without prefixes.
FolderFor(prefix) == CASE prefix = "V" -> "ops" [] prefix = "S" -> "schema" [] prefix = "R" -> "logic"
ConvertLayout ==
    /\ step = "idle" /\ ~FolderBased(dir) /\ dir # {}
    /\ dir' = {IF Legacy(e) THEN [e EXCEPT !.folder = FolderFor(e.prefix), !.prefix = "none"]
             ELSE e : e \in dir}
    /\ UNCHANGED <<given, toAdd, files, live, routines, written, names, dumped, step,
                   command, settings, temps>>
    /\ UNCHANGED progress

\* One routine less than when it was last dumped.
DropRoutine ==
    /\ step = "idle" /\ dumped = routines
    /\ \E o \in routines : routines' = routines \ {o}
    /\ UNCHANGED <<given, dir, toAdd, files, live, written, names, dumped, step, command,
                   settings, temps>>
    /\ UNCHANGED progress

Next ==
    \/ \E c \in {"apply", "status", "dump"} : Invoke(c)
    \/ ResolveSettings \/ Connect \/ DiscoverMigrations \/ RunOneTime \/ OneTimeDone
    \/ ExecStatement \/ SchemaDone \/ ResolveNames \/ WriteFile \/ DumpDone
    \/ AddFile \/ ConvertLayout \/ DropRoutine

Spec == Init /\ [][Next]_vars

-----------------------------------------------------------------------------
\* Some source asks for a safeguard.
Demanded(inFlag, inEnv, inFile) == inFlag \/ inEnv = "true" \/ inFile

\* The one source that can take back what the file asks for: a "false" in the
\* environment, which no flag outweighs (envBool, root.go:205).  The program's
\* README says at 469-471 that the safety booleans are "OR-ed across sources"
\* and that a higher-priority source "cannot turn it back off".
TakenBack(inFlag, inEnv) == inEnv = "false" /\ ~inFlag

\* What cannot be read, or makes no sense, is not worked with.
MakesSense ==
    /\ ~given.file.broken /\ "junk" \notin {given.env.require, given.env.fail}
    /\ given.flag.timeout # "negative"
    /\ given.file.timeout \in {"junk", "negative"} => given.flag.timeout = "positive"

\* A required shadow is there, and no unvalidated plan is taken with it, even if
\* M8_FAIL_ON_UNVALIDATED=false.
SafeguardsInForce ==
    /\ Demanded(given.flag.strict, "unset", given.file.strict) => settings.strict
    /\ Demanded(FALSE, given.env.require, given.file.require) =>
          \/ TakenBack(FALSE, given.env.require)
          \/ temps = "shadow" /\ settings.require /\ settings.fail
    /\ Demanded(given.flag.fail, given.env.fail, given.file.fail) =>
          TakenBack(given.flag.fail, given.env.fail) \/ settings.fail

\* A URL from elsewhere comes before a database named by a flag (resolveConnStr,
\* root.go:223), against "CLI flags > environment variables" (README.md:467).
FlagNamesTarget ==
    given.flag.url \/ given.flag.database =>
        \/ settings.target = "flag"
        \/ ~given.flag.url /\ (given.env.url \/ given.file.url)

\* A command gets to work only if all that it was given makes sense.  Then every
\* safeguard that any source asks for is in force, as README.md:469 promises,
\* except that M8_REQUIRE_SHADOW=false and M8_FAIL_ON_UNVALIDATED=false switch
\* off what .m8.yaml switched on, against that promise; and a target that a flag
\* names is worked on unless a URL comes before it (resolveSettings and
\* connectAndBuildEngine of cmd/root.go).
SafetyIsHonoured ==
    step \in {"discover"} \cup Phases =>
        MakesSense /\ SafeguardsInForce /\ FlagNamesTarget

\* No file is executed twice, also when the flat layout is given up for folders or
\* an apply that failed is repeated, as long as every row gets written
\* (applyVersioned with Discover; TwinsAssumption).
NeverTwice ==
    \A i, j \in DOMAIN ran :
        i # j => <<ran[i].version, ran[i].name>> # <<ran[j].version, ran[j].name>>

\* An apply that succeeds has executed every one-time migration it found, or, of
\* those that share the version and the folder, another one.
SkippedForTwinOnly ==
    [][ step = "data" /\ step' = "idle" /\ faults' = faults =>
        \A m \in Found(dir) : IsVersioned(m.type) =>
            \E i \in DOMAIN ran : ran[i].type = m.type /\ ran[i].version = m.version
      ]_vars

\* Two timestamps of one width, as numbers.
Number(v) ==
    LET n[i \in 0..Len(v)] == IF i = 0 THEN 0 ELSE 10 * n[i - 1] + v[i]
    IN  n[Len(v)]
Older(v, w) ==
    Len(v) = Len(w) /\ Underscore \notin Range(v) \cup Range(w) /\ Number(v) < Number(w)

\* Versions compare as strings, but with timestamps of one width an older file
\* that is there is executed before a newer one (the order of Discover).
OlderFirst ==
    [][ ran' # ran =>
        \A m \in Found(dir) :
            m.type = Last(ran').type /\ Older(m.version, Last(ran').version) =>
            <<m.type, m.version>> \in recorded
      ]_vars

\* What a folder's files are about: what they declare, tables with their indexes
\* that they name in a comment, the columns and sequences of those tables, and
\* what else is attached to them if the files declare something of that class.
Ours(o) ==
    \/ o \in files.declared
    \/ /\ On[o] \in Named(files)
       /\ \/ o \in Named(files) \/ Kind[o] \in {"column", "sequence"}
          \/ Kind[o] \in Attached /\ \E q \in files.declared \cup files.commented : Kind[q] = Kind[o]

\* Its statements hold, by chance, the name of a table or an index of the files,
\* or of a sequence that hangs off such a table.
NamedByChance(o) ==
    LET ours == Named(files) \cup {q \in Object : Kind[q] = "sequence" /\ On[q] \in Named(files)}
    IN  \E q \in ours : NameOf[q] \in {files.schema, NameOf[o]} \cup Mentions[o]

\* Without --strict nothing is dropped that the files are not about, unless it is
\* named by chance or goes with something of either kind, and no privilege is ever
\* revoked (Diff, statementTargetsDefinedObject, ownedSequences).
UndeclaredSpared ==
    [][ ~settings.strict =>
        \A o \in live \ live' :
            \/ Ours(o) /\ Kind[o] # "grant"
            \/ NamedByChance(o)
            \/ \E q \in live \ live' : q # o /\ o \in Dropped(q) /\ (Ours(q) \/ NamedByChance(q))
      ]_live

\* "Never dropped": README.md:311, whatever things are named.
NeverDropped ==
    [][ ~settings.strict =>
        \A o \in live \ live' :
            Kind[o] = "table" => o \in files.declared \cup files.commented ]_live

\* All that is declared is there, and nothing else of the kinds that belong to a
\* declared table.
DeclaredIsThere ==
    /\ {o \in files.declared : Kind[o] # "grant"} \subseteq live
    /\ \A o \in live : Ours(o) /\ On[o] \in files.declared /\ Kind[o] # "grant" => o \in files.declared

\* Something here is taken for m8's own, by its name (Internal).
TakenForInternal ==
    \/ files.schema \in InternalLike
    \/ \E o \in Object : "_m8" \in {files.schema, NameOf[o]} \cup Mentions[o]

\* An apply gets through the schema and has reached what is declared; or an
\* object that the filter spared is in the way of a statement that it kept.
DeclaredReached ==
    [][ step = "schema" /\ step' # "schema" /\ ~TakenForInternal =>
        \/ DeclaredIsThere
        \/ /\ step' = "idle" /\ ~settings.strict
           /\ \E s \in plan : \E o \in Blockers(s, live) : ~Ours(o)
      ]_vars

\* After a dump every routine is in a file of its own, also where file names
\* differ in case only (filenames.go, "the exact silent loss").
DumpIsWhole ==
    [][ DumpDone =>
        \A o \in routines : \E p \in DOMAIN written : written[p] = o ]_vars

\* When one routine is dropped and the rest is dumped again, no file of the dump
\* before turns into that of another routine ("a removal can shorten a surviving
\* name, never re-point an existing one": filenames.go:118).
PathsKeepTheirRoutine ==
    [][ step = "dump" /\ step' = "write" =>
        LET before == ResolveLogicFileNames(dumped)
        IN  \A o \in dumped, q \in routines : Fold(before[o]) = Fold(names'[q]) => o = q
      ]_vars
=============================================================================
