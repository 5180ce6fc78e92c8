----------------------------- MODULE M8Reference -----------------------------
(***************************************************************************)
(* The reconciliation of reference/ files (internal/reference/reference.go *)
(* and engine/reference.go): plans and applies of m8 - one at a time, the  *)
(* advisory lock sees to that - beside applications that write the same    *)
(* tables.                                                                 *)
(*                                                                         *)
(* One step is one statement.  The transaction is READ COMMITTED: each     *)
(* statement sees what has been committed before it, so what an            *)
(* application does between two statements of m8 comes between what m8 has *)
(* read and what it writes.  A row that m8 has written is locked until the *)
(* transaction ends; an application that wants it waits.                   *)
(***************************************************************************)
EXTENDS Naturals, FiniteSets, SequencesExt

CONSTANTS
    Table,
    Key,          \* keys, and what a row declares besides: numbers from 1 up
    Catalogs,     \* sets of foreign keys [from, to, on]: a row's value is a key
                  \* of another table
    UniqueVal,    \* tables whose value carries a unique index
    Serial,       \* tables with a sequence behind the key's default
    Releases,     \* the directories a behaviour may begin with: lists of files
    Contents,     \* and the contents of the tables
    MaxWrites,    \* bound: writes of applications
    MaxFaults     \* bound: statements that fail, connections lost

Absent == 0

Rows == [Key -> Key \cup {Absent}]

\* A file: the table it declares, its rows, whether it prunes, the tables its
\* query names, the tables it reads through what it names - a view, a function,
\* the parent of a partition -, whether the query calls nextval(), and whether
\* it suits the table: "shape" fails in resolve, "rows" in load.
Declaration == [table : Table, rows : Rows, prune : BOOLEAN, reads : SUBSET Table,
                through : SUBSET Table, draws : BOOLEAN, suits : {"yes", "shape", "rows"}]

\* The tables whose rows decide what the query of f returns.
Sources(f) == f.reads \cup f.through

ASSUME ReferenceAssumption ==
    /\ Key \subseteq Nat \ {0}
    /\ \A S \in (SUBSET Key) \ {{}} : \E k \in S : \A j \in S : j <= k  \* finitely many
    /\ UniqueVal \subseteq Table /\ Serial \subseteq Table
    /\ \A fks \in Catalogs : \A fk \in fks : fk.from \in Table /\ fk.to \in Table
    /\ \A fs \in Releases : fs \in Seq(Declaration)
    /\ Contents \subseteq [Table -> Rows]

VARIABLES
    ForeignKeys,  \* the catalog, fixed
    files,        \* the reference/ files, sorted by name, fixed
    committed,    \* what every other session sees
    work,         \* what m8's transaction sees
    held,         \* the rows it has written, and holds locks on
    seq,          \* the last number a sequence has given out
    pc, command,
    changing,     \* plan only: the tables this release's schema/ changes
    order,        \* Plan's result: the files in the order of their writes
    temp,         \* the declared rows, as loaded
    inserts, updates, deletes,  \* the diffs
    todo,         \* statements to come
    deletesFirst, \* which order of writes is being tried
    missing,      \* the rows the INSERT in progress has found missing
    aim,          \* the number setval() is about to be called with
    verdict,      \* how the last apply ended
    meddled,      \* rows applications wrote since m8 began to read the table
    drawn,        \* whether the sequence being set was drawn from meanwhile
    writes, faults

tables == <<committed, work, held, seq>>
diff   == <<order, temp, inserts, updates, deletes>>
write  == <<todo, deletesFirst, missing, aim>>
ghosts == <<meddled, drawn>>
vars   == <<ForeignKeys, files, tables, pc, command, changing, diff, write, verdict, ghosts, writes, faults>>

NoRows == [k \in Key |-> Absent]
None   == [t \in Table |-> {}]

TablesOf(fs) == {f.table : f \in ToSet(fs)}
FileOf(t) == CHOOSE f \in ToSet(order) : f.table = t

\* A Diff that is not pending: an apply knows of no changes.
Diffed == IF command = "apply" THEN files ELSE SelectSeq(files, LAMBDA f : f.table \notin changing)

\* What a query returns: a row that is resolved through a join is there when
\* the row it joins to is.
RowsOf(f, now) ==
    [k \in Key |-> IF f.rows[k] # Absent /\ \A s \in Sources(f) : now[s][f.rows[k]] # Absent
                   THEN f.rows[k] ELSE Absent]

\* What PostgreSQL holds of a table's constraints.
Sound(now) ==
    /\ \A t \in UniqueVal : \A j, k \in Key : now[t][j] = now[t][k] => j = k \/ now[t][j] = Absent
    /\ \A fk \in ForeignKeys : \A k \in Key :
        now[fk.from][k] # Absent => now[fk.to][now[fk.from][k]] # Absent

Init ==
    /\ ForeignKeys \in Catalogs /\ files \in Releases
    /\ committed \in Contents /\ Sound(committed) /\ work = committed /\ held = {}
    /\ seq = [t \in Table |-> 0]
    /\ pc = "idle" /\ command = "none" /\ changing = {} /\ verdict = "none"
    /\ order = <<>> /\ temp = [t \in Table |-> NoRows]
    /\ inserts = None /\ updates = None /\ deletes = None
    /\ todo = <<>> /\ deletesFirst = TRUE /\ missing = {} /\ aim = 0
    /\ meddled = {} /\ drawn = FALSE
    /\ writes = 0 /\ faults = 0

-----------------------------------------------------------------------------
(* resolve and the order of the files *)

\* Faulty: prune is allowed on any table.
ContainedAlways(f) == TRUE

\* pruneIsContained.
Contained(f) == \A fk \in ForeignKeys : fk.to = f.table => fk.on = "restrict"

\* resolve refuses a file by itself.
Misfit(f) == f.suits = "shape" \/ (f.prune /\ ~Contained(f))

\* readsNoDeclaredTable: a table of this run, also the file's own.  pg_depend
\* lists what the temporary view names, and nothing behind it: a declared table
\* that is read through a view or a function is not seen.
ReadsDeclared(f) == f.reads \cap TablesOf(Diffed) # {}

DeclaredTwice == \E i, j \in DOMAIN Diffed : i # j /\ Diffed[i].table = Diffed[j].table

\* Faulty: the files are written in the order of their names.
NameOrder(fs) == fs

\* A file that is not placed is, once its parents among the declared tables are.
Place(fs, placed, f) ==
    IF \/ f \in ToSet(placed)
       \/ \E fk \in ForeignKeys : /\ fk.from = f.table /\ fk.to # f.table
                                  /\ fk.to \in TablesOf(fs) \ TablesOf(placed)
    THEN placed ELSE Append(placed, f)

\* fkOrder: passes over the files, as many as there are files.
FkOrder(fs) ==
    LET n == Len(fs)
        after[i \in 0..(n * n)] ==
            IF i = 0 THEN <<>> ELSE Place(fs, after[i - 1], fs[((i - 1) % n) + 1])
    IN  after[n * n]

\* What is left after them is a cycle.
Cyclic(fs) == ToSet(FkOrder(fs)) # ToSet(fs)

\* Faulty: a query may read what another file is about to write.
RefusedButReads == DeclaredTwice \/ Cyclic(Diffed) \/ \E f \in ToSet(Diffed) : Misfit(f)

\* What stops a run before the first query has been loaded.
Refused ==
    \/ DeclaredTwice
    \/ Cyclic(Diffed)
    \/ \E f \in ToSet(Diffed) : Misfit(f) \/ ReadsDeclared(f)

-----------------------------------------------------------------------------
(* A run: Plan *)

\* reconcileReference begins a transaction.  The tables a plan is told of are
\* those the schema phase of the same plan proposes to change.
Start(cmd) ==
    /\ pc = "idle" /\ pc' = "resolve"
    /\ command' = cmd
    /\ \E c \in SUBSET TablesOf(files) : changing' = c /\ (cmd = "apply" => c = {})
    /\ UNCHANGED <<ForeignKeys, files, tables, diff, write, verdict, ghosts, writes, faults>>

\* The transaction ends, and with it the run.  Only an apply's end counts.
Close(v) ==
    /\ pc' = "idle" /\ held' = {}
    /\ verdict' = IF command = "apply" THEN v ELSE verdict
    /\ command' = "none" /\ changing' = {}
    /\ order' = <<>> /\ temp' = [t \in Table |-> NoRows]
    /\ inserts' = None /\ updates' = None /\ deletes' = None
    /\ todo' = <<>> /\ deletesFirst' = TRUE /\ missing' = {} /\ aim' = 0
    /\ meddled' = {} /\ drawn' = FALSE

Abort(v) == Close(v) /\ work' = committed

Refuse ==
    /\ pc = "resolve" /\ Refused
    /\ Abort("refused")
    /\ UNCHANGED <<ForeignKeys, files, committed, seq, writes, faults>>

\* The statements that read one table: load, and the three SELECTs of compute.
Reading(f) == <<<<"load", f.table>>, <<"inserts", f.table>>, <<"updates", f.table>>>>
              \o IF f.prune THEN <<<<"deletes", f.table>>>> ELSE <<>>

Resolve ==
    /\ pc = "resolve" /\ ~Refused
    /\ pc' = "plan"
    /\ order' = FkOrder(Diffed)
    /\ todo' = FlattenSeq([i \in DOMAIN order' |-> Reading(order'[i])])
    /\ UNCHANGED <<ForeignKeys, files, tables, command, changing, temp, inserts, updates, deletes,
                   deletesFirst, missing, aim, verdict, ghosts, writes, faults>>

\* The next statement, and what it is about.
Due(at, op, t) == pc = at /\ todo # <<>> /\ Head(todo) = <<op, t>>

\* Faulty: a plan's transaction may write.
MayDrawAlways == TRUE

\* SET LOCAL transaction_read_only = on: in a plan nextval() is an error.
MayDraw == command = "apply"

\* nextval() takes effect at once, whatever becomes of the transaction.  Keys
\* bound the numbers of a sequence.
Draw(t) == seq' = [seq EXCEPT ![t] = IF @ + 1 \in Key THEN @ + 1 ELSE @]

Unloadable(f) == f.suits = "rows" \/ (f.draws /\ ~MayDraw)

Load(t) ==
    /\ Due("plan", "load", t) /\ ~Unloadable(FileOf(t))
    /\ IF FileOf(t).draws THEN Draw(t) ELSE UNCHANGED seq
    /\ temp' = [temp EXCEPT ![t] = RowsOf(FileOf(t), work)]
    /\ meddled' = {m \in meddled : m[1] # t}
    /\ todo' = Tail(todo)
    /\ UNCHANGED <<ForeignKeys, files, committed, work, held, pc, command, changing, order, inserts,
                   updates, deletes, deletesFirst, missing, aim, verdict, drawn, writes, faults>>

LoadFails(t) ==
    /\ Due("plan", "load", t) /\ Unloadable(FileOf(t))
    /\ Abort("refused")
    /\ UNCHANGED <<ForeignKeys, files, committed, seq, writes, faults>>

Lacking(t)   == {k \in Key : temp[t][k] # Absent /\ work[t][k] = Absent}
Differing(t) == {k \in Key : temp[t][k] # Absent /\ work[t][k] \notin {Absent, temp[t][k]}}
Surplus(t)   == {k \in Key : temp[t][k] = Absent /\ work[t][k] # Absent}

\* compute, one SELECT at a time.
Compute(t) ==
    /\ \/ /\ Due("plan", "inserts", t)
          /\ inserts' = [inserts EXCEPT ![t] = Lacking(t)]
          /\ UNCHANGED <<updates, deletes>>
       \/ /\ Due("plan", "updates", t)
          /\ updates' = [updates EXCEPT ![t] = Differing(t)]
          /\ UNCHANGED <<inserts, deletes>>
       \/ /\ Due("plan", "deletes", t)
          /\ deletes' = [deletes EXCEPT ![t] = Surplus(t)]
          /\ UNCHANGED <<inserts, updates>>
    /\ todo' = Tail(todo)
    /\ UNCHANGED <<ForeignKeys, files, tables, pc, command, changing, order, temp, deletesFirst, missing,
                   aim, verdict, ghosts, writes, faults>>

\* A plan rolls its transaction back.
PlanDone ==
    /\ pc = "plan" /\ todo = <<>> /\ command = "plan"
    /\ Abort("planned")
    /\ UNCHANGED <<ForeignKeys, files, committed, seq, writes, faults>>

-----------------------------------------------------------------------------
(* A run: Apply *)

\* write: deletes children first, updates and inserts parents first, and only
\* where the diff has found something.
When(found, op, t) == IF found[t] = {} THEN <<>> ELSE <<<<op, t>>>>

Deletions(fs) == FlattenSeq([i \in DOMAIN fs |-> When(deletes, "delete", fs[i].table)])
Upserts(fs) == FlattenSeq([i \in DOMAIN fs |-> When(updates, "update", fs[i].table)
                                                 \o When(inserts, "insert", fs[i].table)])

Statements(first) == IF first THEN Deletions(Reverse(order)) \o Upserts(order)
                              ELSE Upserts(order) \o Deletions(Reverse(order))

\* The diffs are complete: SAVEPOINT, and the first order.
BeginWrites ==
    /\ pc = "plan" /\ todo = <<>> /\ command = "apply"
    /\ pc' = "write"
    /\ todo' = Statements(TRUE)
    /\ UNCHANGED <<ForeignKeys, files, tables, command, changing, diff, deletesFirst, missing, aim,
                   verdict, ghosts, writes, faults>>

\* Foreign keys into t that refuse to lose the rows of S, and rows that go with
\* them.
References(fk, j, S) == work[fk.from][j] \in S
Clings(t, S) ==
    \E fk \in ForeignKeys : \E j \in Key :
        /\ fk.to = t /\ fk.on = "restrict"
        /\ References(fk, j, S) /\ (fk.from = t => j \notin S)
Dragged(t, S) ==
    {r \in Table \X Key : \E fk \in ForeignKeys :
        /\ fk.to = t /\ fk.on = "cascade"
        /\ fk.from = r[1] /\ References(fk, r[2], S)}

\* What gets written: rows of S in t become as declared.
Written(t, S) == [work EXCEPT ![t] = [k \in Key |-> IF k \in S THEN temp[t][k] ELSE @[k]]]

Orphaned(t, S) == \E fk \in ForeignKeys : fk.from = t /\ \E k \in S : work[fk.to][temp[t][k]] = Absent

\* A unique index is checked row by row, in the order the statement comes upon
\* the rows: whether some order collides, and whether some order does not.
Collides(t, q) ==
    \E i \in DOMAIN q : \E k \in Key \ {q[i]} :
        temp[t][q[i]] = IF \E h \in 1..(i - 1) : q[h] = k THEN temp[t][k] ELSE work[t][k]
Scans(S) == SetToSeqs(S)
MayViolate(t, S) == Orphaned(t, S) \/ (t \in UniqueVal /\ \E q \in Scans(S) : Collides(t, q))
MaySucceed(t, S) == ~Orphaned(t, S) /\ (t \in UniqueVal => \E q \in Scans(S) : ~Collides(t, q))

Lock(rows) == held' = held \cup rows

Delete(t) ==
    /\ Due("write", "delete", t) /\ ~Clings(t, Surplus(t))
    /\ LET gone == ({t} \X Surplus(t)) \cup Dragged(t, Surplus(t)) IN
        /\ work' = [c \in Table |-> [k \in Key |-> IF <<c, k>> \in gone THEN Absent ELSE work[c][k]]]
        /\ Lock(gone)
    /\ todo' = Tail(todo)
    /\ UNCHANGED <<ForeignKeys, files, committed, seq, pc, command, changing, diff, deletesFirst, missing,
                   aim, verdict, ghosts, writes, faults>>

\* Faulty: the UPDATE rewrites every declared row.
UpdateAll(t) ==
    /\ Due("write", "update", t)
    /\ LET S == {k \in Key : temp[t][k] # Absent /\ work[t][k] # Absent} IN
        /\ MaySucceed(t, S)
        /\ work' = Written(t, S) /\ Lock({t} \X S)
    /\ todo' = Tail(todo)
    /\ UNCHANGED <<ForeignKeys, files, committed, seq, pc, command, changing, diff, deletesFirst, missing,
                   aim, verdict, ghosts, writes, faults>>

Update(t) ==
    /\ Due("write", "update", t) /\ MaySucceed(t, Differing(t))
    /\ work' = Written(t, Differing(t)) /\ Lock({t} \X Differing(t))
    /\ todo' = Tail(todo)
    /\ UNCHANGED <<ForeignKeys, files, committed, seq, pc, command, changing, diff, deletesFirst, missing,
                   aim, verdict, ghosts, writes, faults>>

\* INSERT ... SELECT ... WHERE NOT EXISTS finds the rows that are missing,
InsertScan(t) ==
    /\ Due("write", "insert", t)
    /\ pc' = "insert"
    /\ missing' = Lacking(t)
    /\ UNCHANGED <<ForeignKeys, files, tables, command, changing, diff, todo, deletesFirst, aim, verdict,
                   ghosts, writes, faults>>

\* and inserts them, or - ON CONFLICT DO UPDATE - updates one that has appeared
\* since.
InsertRows(t) ==
    /\ Due("insert", "insert", t) /\ MaySucceed(t, missing)
    /\ work' = Written(t, missing) /\ Lock({t} \X missing)
    /\ pc' = "write" /\ missing' = {}
    /\ todo' = Tail(todo)
    /\ UNCHANGED <<ForeignKeys, files, committed, seq, command, changing, diff, deletesFirst, aim,
                   verdict, ghosts, writes, faults>>

\* A statement that may violate a constraint (class 23).
Violates(t) ==
    \/ Due("write", "delete", t) /\ Clings(t, Surplus(t))
    \/ Due("write", "update", t) /\ MayViolate(t, Differing(t))
    \/ Due("insert", "insert", t) /\ MayViolate(t, missing)

\* ROLLBACK TO SAVEPOINT releases the locks too; then deletes come last.
SecondOrder(t) ==
    /\ Violates(t) /\ deletesFirst
    /\ work' = committed /\ held' = {}
    /\ pc' = "write" /\ deletesFirst' = FALSE /\ missing' = {}
    /\ todo' = Statements(FALSE)
    /\ UNCHANGED <<ForeignKeys, files, committed, seq, command, changing, diff, aim, verdict, ghosts,
                   writes, faults>>

BothOrdersFail(t) ==
    /\ Violates(t) /\ ~deletesFirst
    /\ Abort("conflict")
    /\ UNCHANGED <<ForeignKeys, files, committed, seq, writes, faults>>

\* Faulty: a sequence is advanced for changed rows and not for new ones.
SequencesOfUpdates ==
    FlattenSeq([i \in DOMAIN order |-> IF order[i].table \in Serial
                                       THEN When(updates, "advance", order[i].table) ELSE <<>>])

\* The files whose declared column has a sequence behind it, if rows were found
\* missing.
Sequences ==
    FlattenSeq([i \in DOMAIN order |-> IF order[i].table \in Serial
                                       THEN When(inserts, "advance", order[i].table) ELSE <<>>])

BeginAdvance ==
    /\ pc = "write" /\ todo = <<>>
    /\ pc' = "advance"
    /\ todo' = Sequences
    /\ UNCHANGED <<ForeignKeys, files, tables, command, changing, diff, deletesFirst, missing, aim,
                   verdict, ghosts, writes, faults>>

Highest(t) == LET used == {k \in Key : work[t][k] # Absent}
              IN  IF used = {} THEN 0 ELSE CHOOSE k \in used : \A j \in used : j <= k

\* Faulty: the highest value is not compared with the sequence.
AdvanceScanAlways(t) ==
    /\ Due("advance", "advance", t) /\ aim = 0
    /\ aim' = Highest(t) /\ todo' = IF Highest(t) > 0 THEN todo ELSE Tail(todo)
    /\ drawn' = FALSE
    /\ UNCHANGED <<ForeignKeys, files, tables, pc, command, changing, diff, deletesFirst, missing, verdict,
                   meddled, writes, faults>>

\* SELECT setval(...) WHERE m > last_value: the comparison,
AdvanceScan(t) ==
    /\ Due("advance", "advance", t) /\ aim = 0
    /\ IF Highest(t) > seq[t]
       THEN aim' = Highest(t) /\ UNCHANGED todo
       ELSE todo' = Tail(todo) /\ UNCHANGED aim
    /\ drawn' = FALSE
    /\ UNCHANGED <<ForeignKeys, files, tables, pc, command, changing, diff, deletesFirst, missing, verdict,
                   meddled, writes, faults>>

\* and the call, which nothing undoes and which no lock ties to the comparison.
AdvanceSet(t) ==
    /\ Due("advance", "advance", t) /\ aim # 0
    /\ seq' = [seq EXCEPT ![t] = aim]
    /\ aim' = 0 /\ todo' = Tail(todo)
    /\ UNCHANGED <<ForeignKeys, files, committed, work, held, pc, command, changing, diff, deletesFirst,
                   missing, verdict, ghosts, writes, faults>>

Commit ==
    /\ pc = "advance" /\ todo = <<>>
    /\ committed' = work
    /\ Close("applied")
    /\ UNCHANGED <<ForeignKeys, files, work, seq, writes, faults>>

\* A statement fails for another reason - a lock that is not granted in time, a
\* cancelled command, a lost connection: the deferred Rollback.
Fail ==
    /\ pc # "idle"
    /\ faults < MaxFaults /\ faults' = faults + 1
    /\ Abort("failed")
    /\ UNCHANGED <<ForeignKeys, files, committed, seq, writes>>

-----------------------------------------------------------------------------
(* Applications: one row, one transaction *)

\* The row is not locked by m8, and what it becomes offends no constraint in
\* what is committed nor in what m8 may commit.
Settable(t, k, v) ==
    /\ <<t, k>> \notin held
    /\ \A now \in {committed, work} :
        /\ t \in UniqueVal => \A j \in Key \ {k} : now[t][j] # v
        /\ \A fk \in ForeignKeys : fk.from = t => now[fk.to][v] # Absent

AppSets(t, k, v) ==
    /\ committed' = [committed EXCEPT ![t][k] = v]
    /\ work' = [work EXCEPT ![t][k] = v]
    /\ meddled' = IF pc = "idle" THEN meddled ELSE meddled \cup {<<t, k>>}

AppWrites ==
    /\ writes < MaxWrites /\ writes' = writes + 1
    /\ UNCHANGED <<ForeignKeys, files, held, pc, command, changing, diff, write, verdict, faults>>

\* An INSERT with a key of its own, or an UPDATE.
AppPut(t, k, v) ==
    /\ AppWrites /\ Settable(t, k, v)
    /\ AppSets(t, k, v)
    /\ UNCHANGED <<seq, drawn>>

AppDelete(t, k) ==
    /\ AppWrites
    /\ committed[t][k] # Absent /\ <<t, k>> \notin held
    /\ \A fk \in ForeignKeys : fk.to = t => \A j \in Key : k \notin {committed[fk.from][j], work[fk.from][j]}
    /\ AppSets(t, k, Absent)
    /\ UNCHANGED <<seq, drawn>>

\* An INSERT that takes the default: the number is drawn whether or not its row
\* can be written.
AppDefault(t, v) ==
    /\ AppWrites
    /\ t \in Serial /\ seq[t] + 1 \in Key
    /\ Draw(t)
    /\ drawn' = (drawn \/ aim # 0)
    /\ LET k == seq[t] + 1 IN
        IF work[t][k] = Absent /\ committed[t][k] = Absent /\ Settable(t, k, v)
        THEN AppSets(t, k, v)
        ELSE UNCHANGED <<committed, work, meddled>>

-----------------------------------------------------------------------------
(* The specification *)

Step ==
    \/ Refuse \/ Resolve \/ PlanDone \/ BeginWrites \/ BeginAdvance \/ Commit
    \/ \E t \in Table :
        \/ Load(t) \/ LoadFails(t) \/ Compute(t)
        \/ Delete(t) \/ Update(t) \/ InsertScan(t) \/ InsertRows(t)
        \/ SecondOrder(t) \/ BothOrdersFail(t)
        \/ AdvanceScan(t) \/ AdvanceSet(t)

App == \E t \in Table, k \in Key :
         (\E v \in Key : AppPut(t, k, v)) \/ AppDelete(t, k) \/ AppDefault(t, k)

Next == Step \/ Fail \/ App \/ \E cmd \in {"plan", "apply"} : Start(cmd)

Spec == Init /\ [][Next]_vars

\* Runs go on, and m8 keeps being asked to apply.
LiveSpec == Spec /\ WF_vars(Step) /\ SF_vars(Start("apply"))

-----------------------------------------------------------------------------
(* Properties *)

Outside == writes' # writes

\* A table is as the query of f, asked now, declares it - but for the rows of X.
AsDeclared(f, now, X) ==
    \A k \in Key : <<f.table, k>> \notin X =>
        LET want == RowsOf(f, now)[k] IN
        /\ want # Absent => now[f.table][k] = want
        /\ f.prune => now[f.table][k] = want

\* The query reads a declared table where readsNoDeclaredTable does not look.
ReadsUnseen(f) == f.through \cap TablesOf(files) # {}

\* "m8 makes the table match on every apply" (README.md:187): when an apply
\* commits, every declared table whose query reads no declared table behind a
\* view or a function is as that query - asked again - declares it, but for
\* rows that applications wrote after m8 had begun to read it.
MatchesOnApply ==
    [][Commit => \A f \in ToSet(files) :
         ~ReadsUnseen(f) /\ (\A m \in meddled : m[1] \notin Sources(f)) =>
             AsDeclared(f, committed', meddled)]_vars

\* The same of every file, as README.md:236 promises: "m8 refuses ... when the
\* query reads a table a reference/ file declares".
MatchesWhateverItReads ==
    [][Commit => \A f \in ToSet(files) :
         (\A m \in meddled : m[1] \notin Sources(f)) => AsDeclared(f, committed', meddled)]_vars

\* "A row that already matches is not written or locked at all" (README.md:202),
\* and what is logged as written is what was: an apply writes a row only if its
\* diff lists it, or an application touched it after the diff.
WritesWhatItReports ==
    [][Commit => \A t \in Table, k \in Key : <<t, k>> \in held =>
         k \in inserts[t] \cup updates[t] \cup deletes[t] \/ <<t, k>> \in meddled]_vars

\* An apply deletes a row only from a table whose file prunes, and only when no
\* file lists it: not through a foreign key, and not in the first order of
\* writes without the second putting it back (pruneIsContained, Apply).
DeletesOnlyPruned ==
    [][Commit => \A t \in Table, k \in Key :
         committed[t][k] # Absent /\ committed'[t][k] = Absent =>
             \E f \in ToSet(files) : f.table = t /\ f.prune /\ temp[t][k] = Absent]_vars

\* "a failure in one leaves every table as it was" and a plan "writes nothing":
\* rows others see change only with a commit, and a plan moves no sequence
\* either (engine/reference.go:43, reference.go:126).
LeavesNoTrace ==
    [][~Outside => /\ ~Commit => UNCHANGED committed
                   /\ command = "plan" => UNCHANGED seq]_vars

\* "It never moves a sequence backwards" (reference.go:222), but when it is
\* drawn from between the comparison and the call.
RetreatsOnlyInRace ==
    [][\A t \in Table : seq'[t] < seq[t] => drawn]_vars

\* An application that takes the default does not collide with a row the apply
\* has inserted (advanceSequences) - or has found inserted and updated; a row
\* that an application has put itself, with a key of its own, is another matter.
SequenceCoversInserts ==
    [][Commit => \A t \in Serial, k \in Key :
         inserts[t] # {} /\ <<t, k>> \in held /\ committed'[t][k] # Absent => k <= seq[t]]_vars

\* What the declared tables would hold: rows as declared, others kept unless the
\* file prunes.
Target ==
    [t \in Table |->
        IF t \notin TablesOf(files) THEN committed[t]
        ELSE LET f    == CHOOSE f \in ToSet(files) : f.table = t
                 want == RowsOf(f, committed)
             IN  [k \in Key |-> IF f.prune \/ want[k] # Absent THEN want[k] ELSE committed[t][k]]]

\* A declaration that no fixed order of writes can reach (the "ponytail" of
\* reference.go:196): the rows would violate a constraint; or kept rows exchange
\* unique values; or one row has to go before another comes, and another must
\* not go before a child of it has been moved.
Entangled ==
    LET goal == Target
        Doomed(t) == {k \in Key : committed[t][k] # Absent /\ goal[t][k] = Absent}
    IN  \/ ~Sound(goal)
        \/ \E t \in UniqueVal : \E j, k \in Key \ Doomed(t) :
             j # k /\ goal[t][k] = committed[t][j] /\ committed[t][j] # Absent
        \/ /\ \E t \in UniqueVal : \E j \in Doomed(t), k \in Key : goal[t][k] = committed[t][j]
           /\ \E fk \in ForeignKeys : \E k \in Key : /\ committed[fk.from][k] \in Doomed(fk.to)
                                                   /\ k \notin Doomed(fk.from)

\* Files that read one another, or themselves, unseen: each apply loads what the
\* one before has written, and that may alternate for ever.
Circular ==
    \E S \in SUBSET ToSet(files) \ {{}} :
        \A f \in S : \E g \in S : g.table \in f.through

\* "A hand edit is drift ... the next apply puts it back" (README.md:205), and
\* two orders of writes are enough for that: when applications leave the tables
\* alone and m8 keeps being asked, they come to be as declared and stay so, also
\* where a read that was not seen makes the first apply commit something else -
\* unless the files are refused, or the declaration is entangled or circular.
DriftIsRepaired ==
    <>[](\/ \A f \in ToSet(files) : AsDeclared(f, committed, {})
         \/ verdict = "refused" \/ Entangled \/ Circular)
=============================================================================
