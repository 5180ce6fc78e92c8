# m8, verified

TLA+ models, model-checking runs and machine-checked proofs for m8, a
PostgreSQL migration tool written in Go. Every definition is translated from
the source under `src/`; `PROJECT.json` maps each one to its lines.

## The system

m8 converges one target database to a directory of migration files. A command
is one process with one dedicated session on the target; what outlives it is
the target itself, the table `_m8.history` in it, and temporary databases on a
shadow instance.

| component | source | state it keeps | operations |
|---|---|---|---|
| engine | `internal/engine` | none of its own: the session's advisory lock, the database | apply, plan, status, baseline, sync |
| state store | `internal/state` | `_m8.history`, its unique indexes | bootstrap and upgrade, record, query |
| discovery | `internal/migration` | the directory listing read by one command | discover, sort, checksum |
| schema differ | `internal/schema` | temporary databases, the names of its own | diff, validate, recover, filter, sweep |
| reference rows | `internal/reference` | one transaction | parse, plan, write, advance sequences |
| parser | `internal/parser` | a lexer's position and state | split statements, read directives, detect no-transaction files |
| settings | `cmd`, `internal/config` | flags, environment, file | resolve, refuse, exit codes |
| dump | `internal/dump` | none | read the catalog, render files |

How they interact: a command resolves its settings, connects, sweeps temporary
databases, and calls one method of the engine. The engine takes the advisory
lock, bootstraps the store, discovers the files, and walks its phases: ops,
schema, logic, permissions, reference, data. It reads history on entering a
phase, executes files on its one session, and records each in `_m8.history`
with an INSERT of its own. The schema phase asks the differ for statements; the
differ reads the target through a separate pool and builds temporary databases
on the shadow. Two commands share nothing but the lock and the database.

What is hard: the lock belongs to a session and goes with it, not with the
process; the history row of a migration is not in the migration's transaction
and its error is discarded; schema statements are autocommitted; files and
history change between the runs of one command and the next; anything may fail
or die at any step.

What makes each component correct:

- engine: one writer at a time; a one-time migration is executed once, but for
  what an interruption costs; phases in order; nothing altered before
  everything is diffed; success means convergence; a clean plan means a quiet
  apply; every command ends; retrying converges, as far as history can
  tell what is there.
- store: a version is recorded as applied once per folder; the newest
  successful row decides whether a file is run again; the upgrade of the table
  is safe against a concurrent `status`.
- discovery: versions order files as their authors mean them to; none is lost.
- differ: a plan that is not validated is never taken for one that is; a
  statement of an undeclared object never passes the filter; every temporary
  database is dropped in the end, and never one that another process uses.
- reference rows: after an apply the tables hold the declared rows; sequences
  are past them; all files or none.
- parser: no statement boundary inside a literal, a comment or a body; what
  cannot run in a transaction does not.
- settings: a safeguard that some source asks for is in force. README.md:469
  promises it without exception; the code makes one, see Findings.
- dump: distinct objects get distinct files.

## Modules

| module | what it models |
|---|---|
| `M8History` | rows of `_m8.history`, the queries `GetAppliedVersioned` and `GetLatestByType`, inserts and the partial unique indexes |
| `M8Engine` | the commands apply, sync, baseline and plan of several processes, as one action per step of their phases; the environment |
| `M8OneTime` | the abstract promise of ops/ and data/ migrations |
| `M8Parser` | the lexer that cuts a file into statements, state by state; directives and transaction control; how a text is meant |
| `M8File` | the files of an apply in one session, statement by statement: transactions, failures, history rows; uses `M8Parser` |
| `M8Reference` | plan and apply of reference/ files, statement by statement, beside applications that write the same tables |
| `M8TempDb` | temporary databases of several processes on one shadow instance, and every sweep of them |
| `M8Validate` | the diffs of one command: validation, its recovery with imported schemas, the refusal, the order of the two passes |
| `M8Settings` | flags, environment and `.m8.yaml` collapsed into settings; refusals |
| `M8Discover` | which files of a directory are migrations, of which type, in which order |
| `M8Filter` | the text filter of a plan without `--strict` |
| `M8FileNames` | the file that each function, procedure and view is dumped to |
| `M8Command` | apply, status and dump over what the four modules before it compute: a command from what it is given to what it does |
| `M8EngineProofs`, `M8EnginePhaseProofs`, `M8ParserProofs`, `M8FileProofs`, `M8ReferenceProofs`, `M8TempDbProofs`, `M8ValidateProofs`, `M8CommandProofs` | the theorems |
| `MCEngine`, `MCFile`, `MCReference`, `MCTempDb`, `MCValidate`, `MCInputs`, `MC*.cfg` | the runs |

The modules look at one code at several grains. `M8Engine` sees the execution of
a file as one step and a diff as a number of statements. `M8File` opens up the
execution, `M8Reference` the reference phase, `M8Validate` the diffs of one
command and `M8TempDb` what they leave on the server for many. `M8Command` asks
what the inputs of a command - settings, directory, catalog - make of it. What
holds them together: one command writes at a time (`SerialRuns`), so `M8File`,
`M8Reference` and `M8Command` have one command and let everybody else be
applications, authors and faults.

### M8Engine

State outside the processes: `dir` (the directory), `history`, `ready` (the
bootstrap), `holder` (the advisory lock), `runs` (how often each one-time file
has been executed to its end), `db` (what the database holds of each
declarative file: a content, nothing, an empty namespace, or `Mixed`, the
residue of a partial run or a hand). Per process: `pc`, `cmd` and `phase`, where
it is; `sess`, whether its session lives; `snap`, what `discover` read; `todo`,
the files its loop has left; `cur`, the file whose record is due; `stmts`, the
statements of the diffs of pass 1. `vouched` remembers a plan that exited 0.

| actions | code |
|---|---|
| `Start`, `AcquireLock`, `LockRefused`, `EnsureSchema`, `Discover`, `CallFails`, `ReleaseLock` | the opening and the end of `Apply`, `Sync`, `Baseline` and `Plan`, `cmd/root.go` |
| `ReadHistory`, `SyncAll`, `ExecuteMigration`, `ExecuteMigrationFails`, `RecordApplied`, `PhaseDone` | `applyVersioned`, `applyIdempotent`, the loops of `Sync`, `executeMigration` |
| `EnterAdoption`, `RecordBaseline` | `Baseline`, the first two loops of `Sync` |
| `EnsurePGSchemas`, `DiffFolder`, `RefuseUnvalidated`, `BeginPass2`, `ExecSchemaStatement`, `SchemaStatementFails` | `ensurePGSchemas`, `applySchema`, `execSchemaStatement` |
| `ReconcileReference` | `reconcileReference` |
| `PlanPhase` | `Plan` |
| `RecordLost`, `BaselineLost`, `Disconnect`, `Crash` | the errors the code discards, and what happens to sessions and processes |
| `EditFile`, `Drift` | authors of files, hands in the database |

Abstractions. A file's content is its checksum; SHA-256 is taken to be
injective. A schema folder holds one file. An execution of a migration either
completes or fails; a failing one leaves nothing behind in a transaction, and
possibly something (`Mixed`) outside one (`NoTx`). A diff is a number of
statements, zero exactly when the folder already is as declared, and the last
one makes it so. A change by hand happens while no command holds the lock. The
server drops a session's lock at the moment the session ends. `status` writes
nothing but the bootstrap and is not among the commands.

A budget bounds each kind of event of the environment: `MaxEdits`, `MaxDrifts`,
`MaxFaults`, `MaxLosses`, `MaxAdoptions`. The theorems hold for every value of
them.

Definitions whose comment begins with "Faulty" are not part of the model: each
is a plausible bug in one definition, and substituting it makes the property
that `PROJECT.json` names fail.

### M8TempDb

State on the server: `state` (pg_database), `stamp` (the metadata row and its
age), `conns` (the backends). Per process: `pc`, the sweep it is in; `inUse`,
what its diff works with; `created`, the names `tempDBTracker` holds; `listed`
and `vetted`, what a sweep has read and has yet to drop. `asked` remembers the
databases the server has confirmed for the run.

| actions | code |
|---|---|
| `Start`, `List`, `Vet`, `Drop`, `SweepDone`, `SweepFails` | `connectAndBuildEngine` (the startup), `SweepInvalidTempDBs`, `SweepStaleTempDBs`, `tempDBOlderThan`, `DropCreatedTempDBs`, `cleanup` |
| `CreateTemp`, `Register`, `Stamp`, `DropTemp`, `DropTempFails` | what pg-schema-diff does with the factory that `NewDiffer` gives it |
| `Finish`, `ExitWithChanges`, `Signal`, `Kill`, `CreateUnanswered` | the ends of a command: return, `os.Exit(2)`, a signal, death, an answer that never came |
| `Age` | an hour passes |

The library is not in the repository; it is modelled as the factory's callback,
its timeout option and the comments on its drops require: `CREATE DATABASE`
comes before the callback, for `applySeed` executes statements in it
(differ.go:148); then metadata; in the end a drop on the caller's context.

Abstractions. Names are UUIDs: a new one is nobody's. A drop takes effect at
once or is cut off. A database whose metadata is written has a backend of the
process that uses it. An hour does not pass between a sweep's listing and its
drop of a database in use, which is the comment's own argument for the TTL
("a schema diff uses its temp database for only seconds", differ.go:60); that a
diff itself lasts longer than an hour is allowed.

### M8Validate

One command over the folders of `schema/`. The world, chosen at the start and
fixed: `uses`, what each live object is defined in terms of; `good`, the plans
that execute and converge; `proposing`, those with statements. The Differ:
`seedDDL` and `seedSkipped`, which all folders share. The verdicts: `outcome`
and `note` of each folder, `caught` (a validation ran the plan and rejected it),
`executed`.

| actions | code |
|---|---|
| `NextFolder`, `AllDiffed`, `ApplyFolder`, `Applied` | the two passes of `applySchema`, the loop of `Plan` and the gate of `cmd/plan.go` |
| `Generate`, `GenerateFails` | the first `diff.Generate` of `Diff`, `isValidationFailure` |
| `FindDependencies`, `CountRelations`, `Harvest`, `RecoveryFails`, `Retry`, `RetryFails` | `validateWithDependencies`, `dependencySchemas`, `countRelations`, `harvestSchemaDDL`, `seedTempDatabases`, `applySeed` |
| `Degrade` | the second `diff.Generate`, `takeSkipped`, the refusal |

Abstractions. An object is one statement; what `applySeed` can create of a set
is what supports itself (`Built`). The declared DDL always builds by itself.
Validation is of the whole plan, before the non-strict filter. A plan for a
folder is good or not whatever was imported, which is what "scaffolding, not
the thing under test" claims; that validation notices is the model of
pg-schema-diff, that m8 draws the right conclusion is what is checked.

### M8Parser and M8File

A file is a sequence of lexemes: the signs that change the scanner's state, the
words that begin transaction control or `CREATE INDEX CONCURRENTLY`, and runs of
ordinary text, each one word. `M8Parser` has the lexer's state: `pos`, `state`,
`dollarStack`, `blockDepth`, `lineStart`, the statement being read and those
read.

| actions | code |
|---|---|
| `ScanPsqlMetaCommand`, `ScanText`, `ScanSingleLineComment`, `ScanBlockComment`, `ScanStringLiteral`, `ScanIdentifierQuote`, `ScanDollarQuote`, `EndOfFile` (together `Parse`) | `lexer.parse` and its scan functions, `emitStatement` |
| `NoTransaction`, `DetectConcurrently`, `DetectExplicitTxControl` | the directives and detections that decide how a file runs |

The second half of the module says how a text is *meant*: `AsWritten` reads it as
psql does, `AsSent` as the server does. It shares the lexemes with the scanner and
nothing else.

`M8File` executes a batch of files in one session: `session` is idle, open,
aborted or lost, `pending` what its transaction has written, `committed` what
everybody sees.

| actions | code |
|---|---|
| `Scan`, `ParseFails` | the parse at the start of `executeMigration` |
| `NoTx`, `Begin`, `BeginFails`, `TimeoutsFail` | the choice of a transaction, its BEGIN and the timeouts set in it |
| `Exec`, `ExecFails`, `Commit`, `CommitFails`, `Rollback` | the loop over statements, the commit, the deferred rollback |
| `Record`, `Close` | the row that `applyVersioned` writes, with its error discarded; the end |
| `LoseSession`, `AnswerLost` | a backend that dies; a commit whose answer never comes |

A statement's effect is its place in the file; what the server does with `BEGIN`,
`COMMIT` and `ROLLBACK`, with an aborted transaction and with `CONCURRENTLY`
inside one is `Perform`. Left out: `E''` strings, tags that follow a word
without a blank (`a$$b`), and line numbers.

### M8Reference

State: `committed`, what every other session sees of the declared tables; `work`,
what m8's READ COMMITTED transaction sees; `held`, the rows it has locked; `seq`,
the sequences; the diff (`order`, `temp`, `inserts`, `updates`, `deletes`) and the
statements to come. `meddled` and `drawn` remember what applications did in
between.

| actions | code |
|---|---|
| `Start`, `Refuse`, `Resolve` | `reconcileReference`, `resolve`, `pruneIsContained`, `readsNoDeclaredTable`, `fkOrder` |
| `Load`, `LoadFails`, `Compute`, `PlanDone` | `load` into temporary tables, the SELECTs of `compute`, the rollback of a plan |
| `BeginWrites`, `Delete`, `Update`, `InsertScan`, `InsertRows`, `SecondOrder`, `BothOrdersFail` | `Apply`: the savepoint, `write` in the order deletes-first, then in the other |
| `BeginAdvance`, `AdvanceScan`, `AdvanceSet`, `Commit` | `advanceSequences`: the comparison and the `setval()` of one statement; the commit |
| `Fail`, `AppPut`, `AppDelete`, `AppDefault` | a failing statement; the one-row transactions of applications |

One step is one statement, except where PostgreSQL itself reads before it writes:
an INSERT scans for missing rows before it inserts them, and `setval()` is called
after its argument was computed. A statement that meets a unique value half-way
may succeed or fail by the order it scans rows in (`Scans`). What `resolve`
checks about columns is one verdict per file (`suits`). What a query names is
`reads`; what it reaches `through` a view or a function, which the dependencies of
its temporary view do not show, joins its rows but is not refused. Left out: composite keys,
partitions, several unique indexes on a table, and the rendering of the diff.

### M8Settings, M8Discover, M8Filter, M8FileNames and M8Command

The first four are functions, not machines. `M8Settings`: `given` is what the
three sources say, `Settings` what `resolveSettings` makes of it. `M8Discover`:
an entry is a folder or a prefix, a stamp of digits and underscores, and a name;
`Discover` is the set of listings that `sort.Slice`, which is not stable, may
return. `M8Filter`: a statement is a verb and an object, and the filter sees the
identifiers in its text (`Words`); `Difference`, `Earlier`, `Dropped`, `Executed` and
`Blockers` are what pg-schema-diff proposes and what PostgreSQL does with it.
`M8FileNames`: a name is a sequence of parts, and a hash is of its own object and
round; `Deduplicate` is the loop of four rounds.

`M8Command` runs them:

| actions | code |
|---|---|
| `ResolveSettings`, `Connect` | `resolveSettings`, `connectAndBuildEngine` |
| `DiscoverMigrations`, `RunOneTime`, `OneTimeDone` | `Discover`, `applyVersioned` |
| `ExecStatement`, `SchemaDone` | the filtered plan of one schema folder, one statement at a time |
| `ResolveNames`, `WriteFile`, `DumpDone` | `ResolveLogicFileNames`, the writing of files in `cmd/dump.go` |
| `AddFile`, `ConvertLayout`, `DropRoutine` | authors of the directory, and of the database |

Abstractions. Of the target's separate settings one stands for all, of the two
timeouts one. There is one schema folder. The filter's classes are told by
the object a statement acts on, where the code searches its text: a statement of
another kind that holds "ROW LEVEL SECURITY" or "REPLICA IDENTITY" anywhere, in a
comment for one, is filtered as well (differ.go:820, 825). A hash collides with nothing. A dump
writes over what is there and deletes nothing.

## Runs

| run | instance | shows |
|---|---|---|
| `lock` | 2 processes that apply, sync and baseline; 2 ops files, 1 logic file; 2 losses, 1 fault, 1 adoption | the lock excludes (`SerialRuns`, `OnlyHolderWrites`); a recorded migration is not run (`NeverRerun`); repetitions are paid for by losses (`RunsArePaidFor`); `M8OneTime` is refined (`KeepsPromise`) |
| `phases` | 1 process that applies, plans and syncs; a file of each type, two ops files, two schema folders; 1 edit, 1 drift, 1 fault, 1 adoption | `TypeOK`; versions in order (`InVersionOrder`), every folder diffed before one is altered (`EveryFolderDiffedFirst`), data last (`DataSeesRelease`); success means convergence, after a sync too (`SuccessConverges`); an apply after a plan that exits 0 writes nothing (`CleanPlanHolds`); the target converges if apply is retried (`RetriesConverge`) |
| `retry` | 2 processes that apply for ever; a logic file outside a transaction; 2 edits, 1 fault, 1 loss | every command ends (`CommandsEnd`); the target converges unless the file is `Stranded` (`RetriesConverge`) |
| `file` | every text of 4 lexemes, longer files of transaction commands and quotes, pairs of files in one session; 1 fault | files are split as they are meant (`SplitIsFaithful`); history rows are true (`RowsAreTrue`) and there (`ReportsAreRecorded`) |
| `reference` | a parent and a child table, 2 keys, 3 foreign-key catalogs, 16 releases; 2 writes of applications, 1 fault | what an apply leaves in tables and sequences, what it reports, what a failure leaves, and that drift is repaired |
| `shadow` | 2 processes invoked for ever; 2 names and a database of another role; 2 databases a run; 1 signal, 1 kill, 1 fault | no database in use is dropped (`InUseKept`); a teardown leaves nothing of its run (`TeardownReclaims`); every recognisable orphan goes in the end (`OrphansGo`) |
| `validate` | 2 folders, 2 more schemas, 5 objects, every acyclic pattern of use; gate on and off; 1 fault | verdicts and notes are true (`SeedCannotFlatter`, `SaysWhatItImported`, `NotesAreOwn`); what can be recovered is (`RecoversWhatItPromises`); a refusal is whole (`RefusalIsWhole`) |
| `inputs` | every mixture of safety settings; 4 directories of both layouts; every small catalog in 3 schemas; every subset of 6 routines; 1 fault | refusals are honoured; no file runs twice or is passed over; undeclared objects are spared and declared ones reached; a dump is whole and keeps its paths |
| `advisory` | the world of `validate`, no fault | finding: a rejected plan is executed |
| `revert` | 1 process; 1 logic file outside a transaction; 2 edits, 1 fault | finding: a changed file is not re-run |
| `filter` | the catalogs of `inputs`, a schema named as one of its tables among them | finding: an undeclared table is dropped |
| `views` | the release of `reference` whose query reads a declared table through a view; no writes of applications, no fault | finding: the read is not refused, and a declared row is deleted |

`M8Reference` and `M8Command` have no type invariant among the runs; what their
variables range over is part of the invariants of their proofs. For `M8File`,
`M8Validate` and `M8TempDb`, `TypeOK` is a theorem.

Why the bounds are enough. Two processes are all that exclusion needs, for a
third adds no new pair; two losses give a re-execution of a re-execution and a
loss in each of two processes; two files of a folder give an order, and two
folders a pass 1 that is half done. One edit gives a new content, two a content
that was recorded before: in `retry` the logic file may be put back after a run
that failed half-way or lost its row, which is where retrying stops converging.
`phases` has only one edit, but its sync executes again what is recorded. What
the runs show of the lock and of one-time
migrations the theorems show without bounds.

On the shadow, two processes give every meeting of a sweep with a diff, and two
databases a run give one that is dropped while the other lives. One signal, one
kill and one failing statement meet at every step, so a drop may be cut off in a
run that is interrupted too; each kind of orphan needs one of them. In
`validate`, two folders give a first one that may leave something behind for a
second, and the two schemas beside them give an import that succeeds, one that
skips, one that needs a third schema and one over each cap (two relations,
two statements); the first folder's object uses any others, a function among
them.

In `file`, four lexemes are enough for a quote within a quote, a doubled quote
and a comment in a quote; nested comments, two tags and pairs of commands come
as longer files, put together from pieces. Two files give a session that the
first leaves aborted, open or lost. In `reference`, two keys give a swap, a
re-keyed row and a deleted row beside a kept one; two tables a chain, a cascade
and a cycle; two writes an application that undoes, or draws twice. In `inputs`
the respects - settings, directory, catalog, routines - vary one at a time,
since none of the steps of `M8Command` combines two of them but `--strict` and
the catalog, which vary together.

Fairness. `RetrySpec` assumes `WF(Work(p))`: a process that can take a step of
its own takes one, which the operating system's scheduler and the timeouts of
the server justify (a statement that hangs is one that fails). No fairness is
assumed of losses, faults, edits or drift. It further assumes that each operator
keeps invoking apply, which is what "retry" means: `SF(Start(p, "apply"))`, since
a sync or a plan may be what an idle process starts instead, again and again.
Under it `CommandsEnd` rests on the lock being tried and never waited for.

What `RetriesConverge` claims is limited by what the code can know. Schema and
reference files are compared with the database, and one-time files with their
versions, so these converge always, as long as nobody baselines. A logic or
permissions file is compared with its newest successful row (engine.go:809).
`Stranded` names the state in which that row is right and the database is not:
the directory's content is recorded, but a later execution - of another content,
since put back, or by sync - has failed half-way outside a transaction, or has
succeeded and lost its row. No apply runs such a file again, however often it is
retried; `revert` shows how an apply gets there and succeeds. TLC reaches both
cases in `retry`, and the one by sync in `phases`; without the exception
`RetriesConverge` is false in either run. Logic and permissions objects that a
hand changes are not noticed at all, by the same comparison, so `Drift` is about
schema and reference files only.

`LiveSpec` of `M8TempDb` assumes the same of a process on the shadow,
`WF(Work(p))`, and `WF(Age(d))`, that time passes. A process that is idle is
invoked again: the sweeps are run by later commands and by nothing else, so an
orphan on a shadow nobody uses any more stays. So does one whose process died
between `CREATE DATABASE` and the metadata, by design (differ.go:290): `Orphan`
says which a sweep can recognise. And `OrphansGo` claims nothing while
a database of another role stays there, see below. No fairness is
assumed of one choice over another, of signals, kills or faults.

`LiveSpec` of `M8Reference` assumes `WF(Step)`, that a run goes on, and
`SF(Start("apply"))`, that m8 is asked to apply again and again, also when it is
asked to plan in between. Under it `DriftIsRepaired` rests on there being two
orders of writes, and it claims nothing of declarations that no fixed order can
reach (`Entangled`, the comment at reference.go:196).

### Findings

- `RealFailuresAbort` (README.md:618, "always abort, in `plan` and `apply`
  alike"): a rejection by the retry's validation is taken for a recovery that
  did not help, and the plan runs without validation (differ.go:484).
- `LogicFollowsFile` (README.md:148, "Re-run whenever file content changes"):
  the code compares with the newest successful row, which says what was last
  recorded, not what was last executed (engine.go:809).
- `NeverDropped` (README.md:311, "never touched -- never dropped, never
  altered"): the name test looks for a declared table's name anywhere in a
  statement, its schema included (differ.go:771).
- `MatchesWhateverItReads` (README.md:236, "m8 refuses ... when the query reads a
  table a `reference/` file declares"): `readsNoDeclaredTable` asks `pg_depend`
  what its temporary view depends on, and that is what the query names
  (reference.go:511). A declared table read behind a view, an SQL function or a
  partitioned parent is not seen. The query is then loaded before that table is
  written: a child row joined to a parent that the same release adds is missing,
  and `prune` deletes it. The next apply puts it back (`DriftIsRepaired`), unless
  files read one another, or themselves, in this way (`Circular`).

Met while modelling, and built into the models and the wording of their
properties rather than shown by a run of their own:

- The history row of a migration is written after the commit, and its error is
  discarded (engine.go:599), so "Run once" (README.md:151) holds up to the rows
  lost: `RunsArePaidFor` says exactly how far. A file that leaves a transaction
  open takes the row of the next files with it (`ReportsAreRecorded`).
- A plan with changes ends in `os.Exit(2)`, which runs nothing deferred
  (cmd/plan.go:63; README.md:631 says databases are reclaimed "as a command
  exits"). The next command's sweep takes them.
- The sweep of invalid databases returns at the first drop that fails
  (differ.go:277), so one that belongs to another role stops every later sweep
  too (README.md:625).
- A row that an application writes between the diff and the write keeps the
  application's value until the next apply (reference.go:287). `setval()` may
  move a sequence back when it is drawn from in between: `RetreatsOnlyInRace`.
- README.md:469-471 says of the safety booleans that they "are OR-ed across
  sources, so a lower-priority source can turn one on and a higher-priority one
  cannot turn it back off". The code contradicts it: `envBool` (cmd/root.go:205)
  returns the environment's value whenever it is set, so `M8_REQUIRE_SHADOW=false`
  and `M8_FAIL_ON_UNVALIDATED=false` take back `require_shadow: true` and
  `fail_on_unvalidated: true` of `.m8.yaml` (root.go:147, 151); the comment there
  calls the variable an override. `SafetyIsHonoured` holds of the code because it
  exempts exactly this, `TakenBack`; without the exemption it is false. Flags
  take nothing back, and an environment's false does not outweigh the flag
  `--fail-on-unvalidated`, nor what a required shadow brings with it.
- README.md:467 says "CLI flags > environment variables > `.m8.yaml`", but a URL
  from anywhere comes before the flags `--database`, `--host` and their like
  (cmd/root.go:223): `FlagNamesTarget`, a part of `SafetyIsHonoured`, exempts it.
- V__ files in the top directory are ignored as soon as any folder of the new
  layout exists; versions compare as strings, so timestamps of different widths
  are out of order (`OlderFirst` is about one width).
- A comment that quotes a CREATE TABLE feeds the filter's names; an index that
  is not declared is kept unless `--strict`, but goes with a column that is
  dropped; a statement with `_m8.` in it is
  taken for m8's own, also where a schema's name ends so, and so is one with
  "_m8" in quotes, whatever is called that (`DeclaredReached` leaves both out:
  `TakenForInternal`).
- The parser nests dollar quotes of different tags, which PostgreSQL does not:
  `SplitIsFaithful` is about files whose inner tags come in pairs, and so are
  `RowsAreTrue` and `ReportsAreRecorded` (`Told`): of another file one statement may
  hold several commands, which `M8File` does not tell apart. A leading
  comment hides `CREATE INDEX CONCURRENTLY` from the detection (parser.go:479).
- When two of a routine's overloads are dropped between dumps, the path of one
  may pass to another; `PathsKeepTheirRoutine` is about one removal, which is
  what filenames.go:118 speaks of.

## Proofs

The engine, in `M8EngineProofs`, for every set of processes,
files and contents and every bound, from `EngineAssumption`, `FilesAssumption`
and `InitAssumption`:

- `TypeCorrect`: `TypeOK`. Not inductive by itself: that a recorded checksum is
  never `Absent` needs `LocalInv`, which says that only files `discover` read
  are worked on, that the due record is of a file still listed, and that pass 2
  lists only folders with statements left.
- `LockHeldInside`: `holder = p` exactly when `p` is past `acquireLock` and its
  session lives. Inductive given the types. `RunsAreSerial` follows.
- `OnlyTheHolderWrites`: every step that writes does so in a live session past
  the lock (`WritesHappenLocked`), which the lock invariant turns into
  `holder = p`.
- `RecordedIsNeverRerun`, under `DistinctVersions`: the strengthening is
  `FreshInv`, that no file left in the loop of a live session has a recorded
  version. It survives another process's INSERT because there is no other
  process with a live session, and the loop's own INSERT because versions are
  distinct.
- `EngineKeepsPromise`, under `DistinctVersions`: the refinement mapping takes
  `done` to the recorded files and `owed` to the file some live session has
  executed and not yet recorded. `ExecuteMigration` maps to `Execute`,
  `RecordApplied` to `Record`, `RecordBaseline` to `Adopt`, every loss to
  `Interrupt`, and every other step stutters (`WorkIsQuiet`).
- `ReexecutionsArePaidFor`: by the same mapping.

`DistinctVersions` is a premise and not a fact: nothing in the code refuses two
files with one version (see the hazards).

The phases of a run, in `M8EnginePhaseProofs`, from the same assumptions:

- `FoldersAreDiffedFirst`: `EveryFolderDiffedFirst`. The strengthening `FlowInv`
  says of every step of a run which files its loop has gone through, what the
  diffs of pass 1 still owe, and where the folders are that pass 2 has left.
- `ExecutedInVersionOrder`: `InVersionOrder`. Besides `FlowInv` it takes
  `ListedInv`: while no row is lost, what a loop has gone through of ops/ and
  data/ is recorded, however long ago it was listed. That history only grows, and
  that nobody else removes from the directory what is listed, carry it.
- `DataMigratesTheRelease` and `SuccessMeansConverged`: `DataSeesRelease` and
  `SuccessConverges`. `ReleaseInv` collects, phase by phase, what a run has
  reached: the schema as declared, repeatable files as read, reference rows, rows
  of history. Both have the premise that no operator runs `m8 baseline`, for
  baseline records files as applied without executing them: after it neither is
  true, nor meant to be. The runs that check the two have the same commands.
- `CleanPlanIsHonoured`: `CleanPlanHolds`, of every command. `PlannedInv` says
  what a plan has seen in the phases behind it, `VouchedInv` that the target
  stays so while nobody edits or meddles, and that every apply that reads it then
  lists nothing.

The temporary databases, in `M8TempDbProofs`, for any number of processes,
names and disturbances, from `TempDbAssumption`:

- `TempDbTypes`: `TypeOK`.
- `InUseIsKept`: `InUseKept`. The strengthening is `UseInv`: the names of one
  process are in no other's hands (`NamesApart`); a database with metadata in
  use has its process's backend (`Connected`); a sweep by invalidity lists no
  database in use, one by age none that is old, and a teardown only its own
  (`SweepsSpare`). The last part carries a sweep over the time between its
  listing and its drop, while others create, connect and drop.
- `TeardownLeavesNone`: `TeardownReclaims`. The strengthening `ReclaimInv` says
  that a database the server confirmed to a run is gone, or in its tracker, and,
  once the last sweep has listed, still on its list; it needs `UseInv`, that
  nobody else hands its names out again.

Validation, in `M8ValidateProofs`, for any folders, objects, catalogs and caps,
from `ValidateAssumption`:

- `SeedNeverFlatters`, `ImportsAreReported`, `NotesAreNotMixed`,
  `RefusalCoversAll`: `SeedCannotFlatter`, `SaysWhatItImported`, `NotesAreOwn`,
  `RefusalIsWhole`. The strengthening is `ValidateInv`: the factory is armed in a
  retry only, and with what this folder reaches into; skipped objects are only
  ever those of the recovery in progress; folders are settled in order, and
  none is unsettled, refused or failed once pass 2 begins.

Further, that a good plan is recovered (`PromiseOfRecovery`,
`RecoversWhatItPromises`): the strengthening `PromiseInv` says that a recovery on its
way to degrade, of a good plan and without a failure, is hopeless: the schemas
it reaches into do not suffice for a rebuild, or exceed a cap (`Hopeless`). It
needs `ValidateInv` for what the retry imports, and that there are finitely many
objects, which `ValidateAssumption` states. `ValidateTypes` is `TypeOK`.

The files of an apply, in `M8FileProofs`, for any files, tags and words, any
failures and losses, from `ParserAssumption` (a dollar quote's tag is no other
lexeme) and `FileAssumption`:

- `FileTypes`: `TypeOK`. Inductive with `ScanInv`: the scanner's stack is
  nonempty, and its depth positive, just in the mode that goes with it, although
  the code keeps the three apart (`PosInv`, `StackInv`, `DepthInv`).
- `SplitsFaithfully`: `SplitIsFaithful`. What a text means is a fold over it, one
  for the file as written (`AsWritten`) and one for each statement as sent
  (`AsSent`). The strengthening `SplitInv`, in `M8ParserProofs`, keeps the two
  folds in step with the scanner: over the text read so far, the reading as
  written is where the scanner is, in its mode, tag and depth (`Synced`,
  `Tracks`), the reading as sent of the statement in progress is there too, and
  what the finished statements and the one in progress say together is what was
  written (`Split`). Induction over data is out of the prover's reach as a rule
  of the library, so the lemmas about the folds go by the least counterexample,
  which the well-foundedness of the numbers gives for a set. That the inner tags
  of a dollar quote come in pairs is a premise of the property and needed: m8
  nests such quotes.
- `VerdictsAgree`: no file has both a success and a failure row, a success row
  only if apply calls it applied, a failure row only if it has failed. The
  strengthening `VerdictInv` is about `pending` and `committed` together, since a
  file that leaves a transaction open moves rows from one to the other later,
  or loses them.
- `HistoryIsTrue`: `RowsAreTrue`. While a file runs, its effects, kept back or
  committed, are those of the statements it has done (`CountInv`); `InOrder`
  gives as many of them as the file has commands, for by `SplitInv` each
  statement with a command stands for one command of the file. Once the row is
  written the two are kept or lost together (`RowsInv`): what is kept back with
  the row is lost with it, and a row that is committed leaves nothing of its file
  behind in the transaction. For a failure row, `PlainInv` says that a file
  which asks for nothing special runs in m8's transaction to its end; that m8
  overlooks no such wish takes `FirstWord`: what a statement's text begins with is
  what its command begins with.
- `ReportsReachHistory`: `ReportsAreRecorded`. `OpenInv` says that a transaction
  open in the session, outside one of m8's, was begun by the file that runs and
  is not ended by what it has done, or is left by a file before it.

The reference rows, in `M8ReferenceProofs`, for any tables, foreign keys, files
and contents, from `ReferenceAssumption`, which says what a file and a row are
and that a set of keys has a highest one:

- `NoTraceIsLeft`: `LeavesNoTrace`. The strengthening `PlanInv` says that a plan
  never leaves the reading half of the run, although `Start` is its only
  difference from an apply there.
- `OnlyARaceRetreats`: `RetreatsOnlyInRace`. The strengthening `AimInv` says that
  while a `setval()` is due its number is ahead of the sequence, or the sequence
  was drawn from since (`DrawAdvances`: drawing only moves it forward).
- `AppliesMatch`, `OnlyReportedIsWritten`, `OnlyPrunedIsDeleted` and
  `SequencesCoverInserts`: `MatchesOnApply`, `WritesWhatItReports`,
  `DeletesOnlyPruned` and `SequenceCoversInserts`. A run is a list of statements,
  and the strengthening `ApplyInv` says of each table what is true once the
  statements about it are no longer on the list (`Pends`). In the reading half
  (`ReadInv`): the declared rows are loaded, and what is missing, different or
  superfluous has been found; a load comes before the reads of its table, or
  what they found would not count (`Follows`). In the writing half (`WriteInv`):
  nothing is left to write; what is locked was reported, and a row that is
  locked and gone is of a table that prunes it (`Accounted`, for which
  `pruneIsContained` is needed: no foreign key drags rows along). Then
  (`AdvanceInv`) the sequences are ahead. Rows applications have written since the
  reading began are exempt (`Meddled`), and an application's step carries all this
  over since it leaves alone what is locked and marks what it changes
  (`AppsSpare`). The second order of writes begins again with what is committed
  by then, so it needs no argument of its own (`WritingBegins`). That a list has
  the statements it should is a fact of `FlattenSeq` and of `fkOrder`'s passes,
  recursive functions both; the lemmas under "Sequences" show it by the least
  counterexample (`FlatHas`, `OrderIsOfFiles`).

`AppliesMatch` needs that what a query's rows were joined to when they were
loaded is what they are joined to at the commit. Of the tables that a query
names the refusal sees to that, and it is proved to; that no declared table is
read behind a view or a function (`ReadsUnseen`) is a premise, since nothing in
the code sees to it: the run `views` shows the theorem false without it. In the
world of `MCReference` TLC has found `ApplyInv` kept at every step, and the safety
properties to hold with a third write of applications, too.

A command's inputs, in `M8CommandProofs`:

- `SafetyAlwaysHonoured`: `SafetyIsHonoured`, for every combination of what may
  be given, from `CommandAssumption`: every safeguard that one source asks for
  is in force, but for the environment's "false" (see Findings). The strengthening
  `SettingsInv` carries what was resolved, and where the temporary databases are,
  to the steps that rely on it.
- `DumpIsAlwaysWhole`: `DumpIsWhole`, for any routines, from
  `FileNamesAssumption`: nothing in the catalog is named as a hash. The lemma
  `FirstRoundTellsApart` shows that one round of `Deduplicate` is enough, as two
  names that collided end in different hashes and a name that did not collide
  ends in none of another routine; `PathsAreDistinct` that the other rounds then
  change nothing; `WriteInv` carries distinct paths over the writes.
- `NothingRunsTwice` and `OnlyTwinsAreSkipped`: `NeverTwice` and
  `SkippedForTwinOnly`, for any directories in either layout, any files added and
  any failures, from `CommandAssumption` and `TwinsAssumption`: no two one-time
  files share stamp and name, for the property speaks of a file by its version and
  name. The strengthening `OneTimeInv` says that a file only ever turns from the
  flat layout to folders (`DirInv`), that what ran is recorded under type and
  version (`HistoryInv`), and that the listing is sorted and complete and the set
  read on entering a phase holds what ran in it (`ListingInv`). It shows
  what the conversion rests on: V__ files of the flat layout are of type ops, the
  type under which a folder ops/ finds them recorded.
- `OlderRunsFirst`: `OlderFirst`, for any directory. Discover compares versions as
  strings and the property speaks of them as numbers; `OlderIsLess` shows that
  for timestamps of one width these agree, by a sum over the digits (`Digits`).
  `OneTimeInv` does the rest: what comes before a file in the sorted listing, and
  is no longer on it, is recorded.
- `NoPathIsRepointed`: `PathsKeepTheirRoutine`, for any routines, from
  `FileNamesAssumption`. One round of `Deduplicate` is all that ever takes effect
  (`NamesAre`), and a name with a hash is that of no other routine
  (`HashesTell`), so only names without one could pass on: the base, or the base
  and the arguments, whose routines are alone with them (`UnhashedNames`). That
  one routine goes between two dumps, and no more (`DumpInv`), is a premise of
  the property and needed: if more go, a path may be re-pointed (see Findings).
- `OthersAreSpared`: `UndeclaredSpared`, for any catalog and schema folder, from
  `CommandAssumption` and `FilterAssumption`. The strengthening `FilteredInv`
  says that the plan is of a difference that passed the filter, and that whatever
  something hangs off or needs is there or declared; `DropIsMeant` goes through
  the names that a DROP can hold and says whose they are.
- `DeclaredIsReached`: `DeclaredReached`, for any catalog and schema folder, from
  the same. The strengthening `ReachInv` says that there was a catalog at the
  start of the phase whose difference is either still in the plan, or done and
  not undone (`Underway`). The filter lets through whatever makes a declared
  object (`CreatesAreKept`) or removes what the files are about
  (`DropsOfOursAreKept`), so an empty plan leaves what is declared
  (`ExecutedPlanReaches`). And a statement whose turn it is meets nothing in its
  way that would have been removed before it, had the filter not spared it
  (`BlockersWereSpared`); with `--strict` it meets nothing at all.

`FilterAssumption` says of the catalog that a column hangs off a table and that
relations of a schema have different names, as PostgreSQL has it;
`CommandAssumption` that a catalog has what its objects need, and so has a
declaration, which pg-schema-diff builds in an empty database. That a plan
removes an object after what needs it (`Earlier`) is what the model takes from
pg-schema-diff; what is left of that order by the filter is what is proved about.

Only model-checked is liveness - `CommandsEnd`, `RetriesConverge`, `OrphansGo`,
`DriftIsRepaired` - which is out of the prover's reach.

## Plan

1. Done: history, engine, one-time promise; `M8TempDb` and `M8Validate`;
   `M8Parser`, `M8File`, `M8Reference`; `M8Settings`, `M8Discover`, `M8Filter`,
   `M8FileNames` and `M8Command`; theorems about each.
2. Done: a theorem for every safety property of the runs.
3. Models to come: the statements of schema.sql that upgrade `_m8.history` beside
   a `status` that runs them without the lock (engine.go:341).

## Not modelled

The rendering of plans, results and diffs; the catalog queries of the dump and
the SQL it writes, which keep no state; the templates of `new`; identifier
quoting, a function on characters that its tests cover; the test harness.
pg-schema-diff and PostgreSQL are outside the repository and are modelled by
what m8 relies on.
