------------------------------- MODULE M8File -------------------------------
(***************************************************************************)
(* internal/engine/engine.go, executeMigration and the loops that call it: *)
(* the files of an apply, each parsed and executed statement by statement  *)
(* in one database session, and their history rows, written in it too.     *)
(*                                                                         *)
(* A file leaves an effect for every command that is ordinary text, and    *)
(* may drive the session's transaction itself with BEGIN, COMMIT and       *)
(* ROLLBACK.                                                               *)
(***************************************************************************)
EXTENDS M8Parser, FiniteSets

CONSTANTS
    Batches,             \* the files of an apply, in the order they run
    MaxFaults            \* bounds the statements that fail and the sessions lost

ASSUME FileAssumption == \A b \in Batches : b \in Seq(Seq(Lexeme)) /\ b # <<>>

VARIABLES
    batch,
    at,                  \* the file
    next,                \* its statement
    step,                \* "parse", "exec", "rollback", "record", "end" or "closed"
    inTx,                \* m8 has begun a transaction for it
    session,             \* "idle", "open", "aborted" or "lost"
    pending,             \* what the session's transaction has written
    committed,
    failed,              \* the file has failed
    reported,            \* the files that apply calls applied
    faults

dbVars == <<session, pending, committed>>
runVars == <<batch, at, next, inTx, step, failed, reported>>
vars == <<parserVars, dbVars, runVars, faults>>

\* What is in the database: a command of a file, and a row of the history.
Effect(i, j) == <<"effect", i, j>>
Row(i, outcome) == <<"row", i, outcome>>

Init ==
    /\ batch \in Batches
    /\ content = batch[1]
    /\ Unread
    /\ at = 1 /\ next = 1 /\ step = "parse"
    /\ inTx = FALSE
    /\ session = "idle"
    /\ pending = {} /\ committed = {}
    /\ failed = FALSE
    /\ reported = {}
    /\ faults = 0

Fault == faults < MaxFaults /\ faults' = faults + 1

-----------------------------------------------------------------------------
(* The session *)

\* Something is written, at once or with the open transaction.
Write(items) ==
    \/ session = "idle" /\ committed' = committed \cup items /\ UNCHANGED <<session, pending>>
    \/ session = "open" /\ pending' = pending \cup items /\ UNCHANGED <<session, committed>>

\* A command fails, which aborts a transaction.
Err ==
    /\ session' = IF session = "open" THEN "aborted" ELSE session
    /\ UNCHANGED <<pending, committed>>

\* BEGIN inside a transaction is a warning.
BeginTx == session' = "open" /\ UNCHANGED <<pending, committed>>

\* COMMIT of an aborted transaction rolls it back; outside one it is a warning.
EndTx(keep) ==
    /\ session' = "idle"
    /\ pending' = {}
    /\ committed' = IF keep /\ session = "open" THEN committed \cup pending ELSE committed

Drop(done) ==
    /\ session' = "lost"
    /\ pending' = {}
    /\ committed' = committed \cup done

\* A lost session takes nothing, an aborted transaction nothing but its end,
\* an open one no concurrent build.
Rejected(command) ==
    \/ session = "lost"
    \/ session = "aborted" /\ Head(command) \notin {"COMMIT", "ROLLBACK"}
    \/ session = "open" /\ Head(command) = Concurrently

Perform(command, item) ==
    CASE Head(command) = "BEGIN" -> BeginTx
      [] Head(command) \in {"COMMIT", "ROLLBACK"} -> EndTx(Head(command) = "COMMIT")
      [] OTHER -> Write({item})

-----------------------------------------------------------------------------
(* A file *)

Scan == step = "parse" /\ Parse /\ UNCHANGED <<dbVars, runVars, faults>>

\* executeMigration returns an error; its deferred Rollback comes first.
Fails ==
    /\ failed' = TRUE
    /\ step' = IF inTx THEN "rollback" ELSE "record"
    /\ UNCHANGED <<parserVars, batch, at, next, inTx, reported>>

ParseFails ==
    /\ step = "parse" /\ parsed = "error"
    /\ Fails
    /\ UNCHANGED <<dbVars, faults>>

NoTx ==
    \/ NoTransaction(content)
    \/ DetectConcurrently(statements)
    \/ DetectExplicitTxControl(statements)

\* Faulty: no transaction for any file.
BeginNever ==
    /\ step = "parse" /\ parsed = "yes"
    /\ UNCHANGED dbVars
    /\ inTx' = FALSE
    /\ next' = 1
    /\ step' = "exec"
    /\ UNCHANGED <<parserVars, batch, at, failed, reported, faults>>

Begin ==
    /\ step = "parse" /\ parsed = "yes"
    /\ IF NoTx THEN UNCHANGED dbVars ELSE session # "lost" /\ BeginTx
    /\ inTx' = ~NoTx
    /\ next' = 1
    /\ step' = "exec"
    /\ UNCHANGED <<parserVars, batch, at, failed, reported, faults>>

BeginFails ==
    /\ step = "parse" /\ parsed = "yes" /\ ~NoTx
    /\ session = "lost"
    /\ Fails
    /\ UNCHANGED <<dbVars, faults>>

\* SET LOCAL of the timeouts, the first thing in m8's transaction.
TimeoutsFail ==
    /\ step = "exec" /\ inTx /\ next = 1
    /\ session # "lost" /\ Fault
    /\ Err
    /\ Fails

\* A statement that is sent is one command, or only comments; of one with more,
\* which only a text that is not Told has, the first stands for all.
Executing == step = "exec" /\ next <= Len(statements)
Sent == CommandsOf(AsSent(statements[next]))

Exec ==
    /\ Executing
    /\ IF Sent = <<>> THEN session # "lost" /\ UNCHANGED dbVars
       ELSE ~Rejected(Head(Sent)) /\ Perform(Head(Sent), Effect(at, next))
    /\ next' = next + 1
    /\ UNCHANGED <<parserVars, batch, at, inTx, step, failed, reported, faults>>

\* The server refuses it, or its text is wrong.
ExecFails ==
    /\ Executing
    /\ \/ session = "lost" /\ UNCHANGED faults
       \/ Sent # <<>> /\ Rejected(Head(Sent)) /\ UNCHANGED faults
       \/ Sent # <<>> /\ Head(Head(Sent)) \notin Control /\ session # "lost" /\ Fault
    /\ Err
    /\ Fails

Commit ==
    /\ step = "exec" /\ next > Len(statements)
    /\ IF inTx THEN session # "lost" /\ EndTx(TRUE) ELSE UNCHANGED dbVars
    /\ step' = "record"
    /\ UNCHANGED <<parserVars, batch, at, next, inTx, failed, reported, faults>>

CommitFails ==
    /\ step = "exec" /\ next > Len(statements) /\ inTx
    /\ session = "lost"
    /\ Fails
    /\ UNCHANGED <<dbVars, faults>>

\* Faulty: the transaction of a file that failed is left to the session.
RollbackForgotten ==
    /\ step = "rollback"
    /\ UNCHANGED dbVars
    /\ step' = "record"
    /\ UNCHANGED <<parserVars, batch, at, next, inTx, failed, reported, faults>>

Rollback ==
    /\ step = "rollback"
    /\ IF session = "lost" THEN UNCHANGED dbVars ELSE EndTx(FALSE)
    /\ step' = "record"
    /\ UNCHANGED <<parserVars, batch, at, next, inTx, failed, reported, faults>>

\* The history row, whose loss goes unnoticed; a failure ends the phase and apply.
Record ==
    /\ step = "record"
    /\ \/ Write({Row(at, IF failed THEN "failed" ELSE "success")})
       \/ session \in {"aborted", "lost"} /\ UNCHANGED dbVars
    /\ reported' = IF failed THEN reported ELSE reported \cup {at}
    /\ inTx' = FALSE
    /\ IF failed \/ at = Len(batch)
       THEN step' = "end" /\ UNCHANGED <<at, parserVars>>
       ELSE step' = "parse" /\ at' = at + 1 /\ Reread(batch[at + 1])
    /\ UNCHANGED <<batch, next, failed, faults>>

\* The command ends and its session with it.
Close ==
    /\ step = "end"
    /\ step' = "closed"
    /\ Drop({})
    /\ UNCHANGED <<parserVars, batch, at, next, inTx, failed, reported, faults>>

\* The session is lost between two requests.
LoseSession ==
    /\ step \notin {"end", "closed"} /\ session # "lost" /\ Fault
    /\ Drop({})
    /\ UNCHANGED <<parserVars, runVars>>

\* The session is lost when the server has done what it was asked for.
Outcome ==
    IF next > Len(statements)
    THEN IF inTx /\ session = "open" THEN pending ELSE {}
    ELSE IF Sent = <<>> \/ Rejected(Head(Sent)) THEN {}
    ELSE IF session = "open" /\ Head(Head(Sent)) = "COMMIT" THEN pending
    ELSE IF session = "idle" /\ Head(Head(Sent)) \notin Control THEN {Effect(at, next)}
    ELSE {}

AnswerLost ==
    /\ step = "exec" /\ session # "lost" /\ Fault
    /\ Executing \/ inTx
    /\ Drop(Outcome)
    /\ Fails

Finished == step = "closed" /\ UNCHANGED vars

Next ==
    \/ Scan \/ ParseFails \/ Begin \/ BeginFails \/ TimeoutsFail \/ Exec \/ ExecFails
    \/ Commit \/ CommitFails \/ Rollback \/ Record \/ Close
    \/ LoseSession \/ AnswerLost
    \/ Finished

Spec == Init /\ [][Next]_vars

-----------------------------------------------------------------------------
(* What a file is meant to do *)

Meant(c) == CommandsOf(AsWritten(c))
Effects(c) == {i \in DOMAIN Meant(c) : Head(Meant(c)[i]) \notin Control}
Uses(c, word) == \E i \in DOMAIN Meant(c) : Head(Meant(c)[i]) = word

\* It is sent one command at a time, by SplitIsFaithful.
Told(c) == Paired(AsWritten(c))

\* It asks for no transaction of its own and for none of m8's to be left out.
Plain(c) ==
    /\ ~NoTransaction(c)
    /\ \A i \in DOMAIN Meant(c) : Head(Meant(c)[i]) \notin Control \cup {Concurrently}

\* Its last BEGIN has no end.
LeavesOpen(c) ==
    \E i \in DOMAIN Meant(c) :
        /\ Head(Meant(c)[i]) = "BEGIN"
        /\ \A j \in i..Len(Meant(c)) : Head(Meant(c)[j]) \notin {"COMMIT", "ROLLBACK"}

-----------------------------------------------------------------------------
(* Properties *)

\* Type correctness of the scanner, the run and the session
\* (parser.go:48-60, engine.go:856-895).
TypeOK ==
    /\ state \in Modes
    /\ pos \in 1..(Len(content) + 1)
    /\ dollarStack \in Seq(Tags) /\ blockDepth \in Nat
    /\ (state = "dollarQuote") <=> dollarStack # <<>>
    /\ (state = "blockComment") <=> blockDepth > 0
    /\ parsed \in {"no", "yes", "error"}
    /\ step \in {"parse", "exec", "rollback", "record", "end", "closed"}
    /\ session \in {"idle", "open", "aborted", "lost"}
    /\ session # "open" /\ session # "aborted" => pending = {}
    /\ at \in DOMAIN batch /\ content = batch[at]
    /\ reported \subseteq 1..at

\* To send the statements one by one means what the file means as it was
\* written: no command is lost, cut in two or joined with another, whatever
\* quotes and comments surround its semicolons, and a file is refused only if
\* it ends inside one (parser.go:64 "handling dollar-quoting, string literals,
\* and comments correctly").  Dollar quotes inside another must come in pairs:
\* m8 nests them, PostgreSQL does not.
SplitIsFaithful ==
    parsed # "no" /\ Paired(AsWritten(content)) =>
        /\ (parsed = "yes") <=> Closed(AsWritten(content))
        /\ parsed = "yes" =>
              /\ Meant(content) = FlattenSeq([i \in DOMAIN statements |-> CommandsOf(AsSent(statements[i]))])
              /\ \A i \in DOMAIN statements :
                    /\ Closed(AsSent(statements[i]))
                    /\ Len(CommandsOf(AsSent(statements[i]))) <= 1

\* A row of the history is true of the database.  A success row means that every
\* command of the file is there, unless the file rolled some back itself; a
\* failure row of a file that leaves transactions to m8 means that none is
\* (engine.go:874-894, :594-599: the row is written after the transaction, in
\* a statement of its own, through the same session).
RowsAreTrue ==
    \A i \in DOMAIN batch :
        LET there == {item \in committed : item[1] = "effect" /\ item[2] = i}
        IN  Told(batch[i]) =>
              /\ Row(i, "success") \in committed /\ ~Uses(batch[i], "ROLLBACK") =>
                    Cardinality(there) = Cardinality(Effects(batch[i]))
              /\ Row(i, "failed") \in committed /\ Plain(batch[i]) => there = {}

\* What apply says of a file is in the history when apply ends, as long as the
\* session lives: that it failed, unless the file had begun a transaction of
\* its own, which its failure leaves aborted; that it was applied, unless it or
\* a file before it left a transaction open, which takes the row with it
\* (engine.go:586, :592, :816, :823: the error of RecordApplied is discarded).
ReportsAreRecorded ==
    step = "end" /\ session # "lost" =>
        /\ \A i \in reported :
              (\A j \in 1..i : Told(batch[j]) /\ ~LeavesOpen(batch[j])) =>
                  Row(i, "success") \in committed
        /\ failed /\ (\A j \in 1..at : Told(batch[j]) /\ ~Uses(batch[j], "BEGIN")) =>
              Row(at, "failed") \in committed
=============================================================================
