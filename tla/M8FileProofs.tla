---------------------------- MODULE M8FileProofs ----------------------------
(***************************************************************************)
(* What holds of any files, whatever is in them, and of any failures and   *)
(* losses: files are split as they are meant, the session keeps nothing    *)
(* back outside a transaction, and the history says of a file what apply    *)
(* says and what is true of the database.                                  *)
(***************************************************************************)
EXTENDS M8File, M8ParserProofs, FiniteSetTheorems

\* The run, and the session it goes through.
RunInv ==
    /\ batch \in Batches
    /\ step \in {"parse", "exec", "rollback", "record", "end", "closed"}
    /\ session \in {"idle", "open", "aborted", "lost"}
    /\ session # "open" /\ session # "aborted" => pending = {}
    /\ at \in DOMAIN batch /\ content = batch[at]
    /\ failed \in BOOLEAN

\* What apply says of the files, and the rows that say so.
VerdictInv ==
    /\ reported \subseteq 1..at
    /\ at \in reported => step \in {"end", "closed"} /\ ~failed
    /\ failed => step \in {"rollback", "record", "end", "closed"}
    /\ \A i \in 1..Len(batch) :
        /\ Row(i, "success") \in committed \cup pending => i \in reported
        /\ Row(i, "failed") \in committed \cup pending => i = at /\ failed

FileInv == ScanInv /\ RunInv /\ VerdictInv

LEMMA BatchTypes == ASSUME RunInv PROVE at \in 1..Len(batch) /\ batch \in Seq(Seq(Lexeme))
BY FileAssumption DEF RunInv

LEMMA ScanIsScanner == ASSUME Parse PROVE UNCHANGED content
BY DEF Parse, ScanPsqlMetaCommand, Terminate, OpenComment, OpenQuote, ScanText,
       ScanSingleLineComment, ScanBlockComment, ScanStringLiteral, ScanIdentifierQuote,
       ScanQuoted, ScanDollarQuote, EndOfFile, Keep, Advance

-----------------------------------------------------------------------------
(* The session *)

\* What can be done to the database without writing a row.
SessionStays ==
    /\ session' \in {"idle", "open", "aborted", "lost"}
    /\ session' # "open" /\ session' # "aborted" => pending' = {}
    /\ \A i, o : Row(i, o) \in committed' \cup pending' => Row(i, o) \in committed \cup pending

LEMMA SessionOperations ==
    ASSUME RunInv
    PROVE  /\ Err => SessionStays
           /\ UNCHANGED dbVars => SessionStays
           /\ session # "lost" /\ session # "aborted" /\ BeginTx => SessionStays
           /\ \A keep \in BOOLEAN : EndTx(keep) => SessionStays
           /\ \A i, j : Write({Effect(i, j)}) => SessionStays
<1>1. \A i, j, k, o : Row(i, o) # Effect(k, j)
  BY DEF Row, Effect
<1>2. Err => SessionStays
  BY DEF Err, SessionStays, RunInv
<1>3. UNCHANGED dbVars => SessionStays
  BY DEF dbVars, SessionStays, RunInv
<1>4. BeginTx => SessionStays
  BY DEF BeginTx, SessionStays
<1>5. ASSUME NEW keep \in BOOLEAN, EndTx(keep) PROVE SessionStays
  BY <1>5 DEF EndTx, SessionStays
<1>6. ASSUME NEW i, NEW j, Write({Effect(i, j)}) PROVE SessionStays
  BY <1>1, <1>6 DEF Write, SessionStays, RunInv
<1> QED
  BY <1>2, <1>3, <1>4, <1>5, <1>6

LEMMA DropStays ==
    ASSUME RunInv, NEW done, Drop(done), \A i, o : Row(i, o) \in done => Row(i, o) \in pending
    PROVE  SessionStays
BY DEF Drop, SessionStays

-----------------------------------------------------------------------------
(* The run *)

\* A step inside a file that writes no row keeps what is said and recorded.
LEMMA InsideKeeps ==
    ASSUME FileInv, SessionStays, ScanInv', UNCHANGED <<batch, at, content, reported, failed>>,
           step \notin {"end", "closed"},
           step' \in {"parse", "exec", "rollback", "record"},
           failed => step' \in {"rollback", "record"}
    PROVE  FileInv'
<1>1. RunInv'
  BY DEF FileInv, RunInv, SessionStays
<1>2. VerdictInv'
  BY DEF FileInv, VerdictInv, SessionStays
<1> QED
  BY <1>1, <1>2 DEF FileInv

LEMMA FailsKeeps ==
    ASSUME FileInv, SessionStays, Fails, step \in {"parse", "exec"}
    PROVE  FileInv'
<1>1. /\ UNCHANGED parserVars /\ UNCHANGED <<batch, at, reported>>
      /\ failed' = TRUE /\ step' \in {"rollback", "record"}
  BY DEF Fails
<1>2. ScanInv'
  BY <1>1 DEF parserVars, FileInv, ScanInv, PosInv, StackInv, DepthInv
<1>3. RunInv'
  BY <1>1 DEF parserVars, FileInv, RunInv, SessionStays
<1>4. at \notin reported /\ ~failed
  BY DEF FileInv, VerdictInv
<1>5. VerdictInv'
  BY <1>1, <1>4 DEF FileInv, VerdictInv, SessionStays
<1> QED
  BY <1>2, <1>3, <1>5 DEF FileInv

LEMMA RecordKeeps == ASSUME FileInv, Record PROVE FileInv'
<1>1. at \in 1..Len(batch) /\ batch \in Seq(Seq(Lexeme))
  BY BatchTypes DEF FileInv
<1> DEFINE row == Row(at, IF failed THEN "failed" ELSE "success")
<1>2. /\ session' \in {"idle", "open", "aborted", "lost"}
      /\ session' # "open" /\ session' # "aborted" => pending' = {}
      /\ committed' \cup pending' \subseteq committed \cup pending \cup {row}
  BY DEF Record, Write, FileInv, RunInv, dbVars
<1>3. at \notin reported /\ step = "record" /\ failed \in BOOLEAN
  BY DEF Record, FileInv, RunInv, VerdictInv
<1>4. \A i, o : Row(i, o) = row => i = at /\ o = IF failed THEN "failed" ELSE "success"
  BY DEF Row
<1>5. UNCHANGED <<batch, failed>> /\ reported' = IF failed THEN reported ELSE reported \cup {at}
  BY DEF Record
<1>6. CASE failed \/ at = Len(batch)
  <2>1. step' = "end" /\ UNCHANGED at /\ UNCHANGED parserVars
    BY <1>6 DEF Record
  <2>2. ScanInv' /\ content' = content
    BY <2>1 DEF parserVars, FileInv, ScanInv, PosInv, StackInv, DepthInv
  <2>3. RunInv'
    BY <1>2, <1>5, <2>1, <2>2 DEF FileInv, RunInv
  <2>4. VerdictInv'
    BY <1>1, <1>2, <1>3, <1>4, <1>5, <2>1 DEF FileInv, VerdictInv
  <2> QED
    BY <2>2, <2>3, <2>4 DEF FileInv
<1>7. CASE ~(failed \/ at = Len(batch))
  <2>1. step' = "parse" /\ at' = at + 1 /\ Reread(batch[at + 1])
    BY <1>7 DEF Record
  <2>2. at + 1 \in 1..Len(batch) /\ batch[at + 1] \in Seq(Lexeme)
    BY <1>1, <1>7
  <2>3. ScanInv'
    BY <2>1, <2>2 DEF Reread, ScanInv, PosInv, StackInv, DepthInv, Modes
  <2>4. RunInv'
    BY <1>1, <1>2, <1>3, <1>5, <2>1, <2>2 DEF FileInv, RunInv, Reread
  <2>5. VerdictInv'
    <3>1. reported' = reported \cup {at} /\ ~failed' /\ reported \subseteq 1..at
      BY <1>5, <1>7 DEF FileInv, VerdictInv
    <3>2. at + 1 \notin reported' /\ reported' \subseteq 1..at'
      BY <1>1, <2>1, <3>1
    <3> QED
      BY <1>1, <1>2, <1>3, <1>4, <1>5, <1>7, <2>1, <3>1, <3>2 DEF FileInv, VerdictInv
  <2> QED
    BY <2>3, <2>4, <2>5 DEF FileInv
<1> QED
  BY <1>6, <1>7

LEMMA FileStep == FileInv /\ [Next]_vars => FileInv'
<1> SUFFICES ASSUME FileInv, [Next]_vars PROVE FileInv'
  OBVIOUS
<1>0. RunInv /\ ScanInv /\ (UNCHANGED dbVars => SessionStays)
  BY SessionOperations DEF FileInv
<1>1. UNCHANGED parserVars => ScanInv' /\ UNCHANGED content
  BY DEF parserVars, FileInv, ScanInv, PosInv, StackInv, DepthInv
<1>2. CASE Scan
  <2>1. UNCHANGED <<step, batch, at, reported, failed>> /\ step = "parse"
        /\ UNCHANGED dbVars /\ Parse
    BY <1>2 DEF Scan, runVars
  <2>2. ~failed
    BY <2>1 DEF FileInv, VerdictInv
  <2> QED
    BY <1>0, <2>1, <2>2, ScanStep, ScanIsScanner, InsideKeeps
<1>3. CASE ParseFails \/ BeginFails \/ CommitFails
  BY <1>0, <1>3, FailsKeeps DEF ParseFails, BeginFails, CommitFails
<1>4. CASE Begin
  <2>1. UNCHANGED parserVars /\ UNCHANGED <<batch, at, reported, failed>>
        /\ step = "parse" /\ step' = "exec"
    BY <1>4 DEF Begin
  <2>2. SessionStays
    BY <1>0, <1>4 DEF Begin, BeginTx, SessionStays
  <2>3. ~failed
    BY <2>1 DEF FileInv, VerdictInv
  <2> QED
    BY <1>1, <2>1, <2>2, <2>3, InsideKeeps
<1>5. CASE TimeoutsFail \/ ExecFails
  <2>1. Err /\ Fails /\ step = "exec"
    BY <1>5 DEF TimeoutsFail, ExecFails, Executing
  <2> QED
    BY <1>0, <2>1, SessionOperations, FailsKeeps
<1>6. CASE Exec
  <2>1. UNCHANGED parserVars /\ UNCHANGED <<batch, at, reported, failed, step>> /\ step = "exec"
    BY <1>6 DEF Exec, Executing
  <2>2. SessionStays
    <3>1. UNCHANGED dbVars \/ Perform(Head(Sent), Effect(at, next))
      BY <1>6 DEF Exec
    <3>2. Perform(Head(Sent), Effect(at, next)) =>
              BeginTx \/ (\E keep \in BOOLEAN : EndTx(keep)) \/ Write({Effect(at, next)})
      BY DEF Perform
    <3>3. BeginTx => SessionStays
      BY DEF BeginTx, SessionStays
    <3> QED
      BY <1>0, <3>1, <3>2, <3>3, SessionOperations
  <2>3. ~failed
    BY <2>1 DEF FileInv, VerdictInv
  <2> QED
    BY <1>1, <2>1, <2>2, <2>3, InsideKeeps
<1>7. CASE Commit \/ Rollback
  <2>1. UNCHANGED parserVars /\ UNCHANGED <<batch, at, reported, failed>>
        /\ step \in {"exec", "rollback"} /\ step' = "record"
    BY <1>7 DEF Commit, Rollback
  <2>2. UNCHANGED dbVars \/ \E keep \in BOOLEAN : EndTx(keep)
    BY <1>7 DEF Commit, Rollback
  <2> QED
    BY <1>0, <1>1, <2>1, <2>2, SessionOperations, InsideKeeps
<1>8. CASE Record
  BY <1>8, RecordKeeps
<1>9. CASE Close
  <2>1. /\ UNCHANGED parserVars /\ UNCHANGED <<batch, at, reported, failed>>
        /\ step = "end" /\ step' = "closed"
    BY <1>9 DEF Close
  <2>2. SessionStays
    BY <1>0, <1>9, DropStays DEF Close
  <2>3. RunInv'
    BY <1>0, <1>1, <2>1, <2>2 DEF RunInv, SessionStays
  <2>4. VerdictInv'
    BY <2>1, <2>2 DEF FileInv, VerdictInv, SessionStays
  <2> QED
    BY <1>1, <2>1, <2>3, <2>4 DEF FileInv
<1>10. CASE LoseSession
  <2>1. /\ UNCHANGED parserVars /\ UNCHANGED <<batch, at, reported, failed, step>>
        /\ step \notin {"end", "closed"}
    BY <1>10 DEF LoseSession, runVars
  <2>2. SessionStays
    BY <1>0, <1>10, DropStays DEF LoseSession
  <2>3. step' \in {"parse", "exec", "rollback", "record"} /\ (failed => step' \in {"rollback", "record"})
    BY <2>1 DEF FileInv, RunInv, VerdictInv
  <2> QED
    BY <1>1, <2>1, <2>2, <2>3, InsideKeeps
<1>11. CASE AnswerLost
  <2>1. Drop(Outcome) /\ Fails /\ step = "exec"
    BY <1>11 DEF AnswerLost
  <2>2. \A i, o : Row(i, o) \in Outcome => Row(i, o) \in pending
    BY DEF Outcome, Row, Effect
  <2> QED
    BY <1>0, <2>1, <2>2, DropStays, FailsKeeps
<1>12. CASE UNCHANGED vars
  BY <1>12 DEF vars, parserVars, dbVars, runVars, FileInv, ScanInv, PosInv, StackInv, DepthInv,
               RunInv, VerdictInv
<1> QED
  BY <1>2, <1>3, <1>4, <1>5, <1>6, <1>7, <1>8, <1>9, <1>10, <1>11, <1>12 DEF Next, Finished

LEMMA FileInvariance == Spec => []FileInv
<1>1. Init => FileInv
  <2> SUFFICES ASSUME Init PROVE FileInv
    OBVIOUS
  <2>1. batch \in Seq(Seq(Lexeme)) /\ 1 \in 1..Len(batch) /\ batch[1] \in Seq(Lexeme)
    BY FileAssumption DEF Init
  <2>2. ScanInv
    BY <2>1 DEF Init, Unread, ScanInv, PosInv, StackInv, DepthInv, Modes
  <2>3. RunInv
    <3>1. 1 \in DOMAIN batch /\ batch \in Batches
      BY <2>1 DEF Init
    <3>2. /\ step = "parse" /\ session = "idle" /\ pending = {} /\ failed = FALSE
          /\ at = 1 /\ content = batch[1]
      BY DEF Init
    <3> QED
      BY <3>1, <3>2 DEF RunInv
  <2>4. VerdictInv
    BY <2>1 DEF Init, VerdictInv
  <2> QED
    BY <2>2, <2>3, <2>4 DEF FileInv
<1> QED
  BY <1>1, FileStep, PTL DEF Spec

-----------------------------------------------------------------------------
(* The files are split as they are meant *)

LEMMA UnreadNext == (content \in Seq(Lexeme) /\ Unread => SplitInv)'
<1>1. content \in Seq(Lexeme) /\ Unread => SplitInv
  BY UnreadSplits
<1> QED
  BY <1>1, PTL

LEMMA SplitNext == FileInv /\ SplitInv /\ [Next]_vars => SplitInv'
<1> SUFFICES ASSUME FileInv, SplitInv, [Next]_vars PROVE SplitInv'
  OBVIOUS
<1>1. ASSUME UNCHANGED parserVars PROVE SplitInv'
  BY <1>1 DEF parserVars, SplitInv, TextInv, SyncInv, Synced, Tracks, LastLine, Bare, WellSplit,
              Split, Written, Sending
<1>2. CASE Scan
  BY <1>2, SplitStep DEF Scan, FileInv
<1>3. CASE Record
  <2>1. CASE UNCHANGED parserVars
    BY <1>1, <2>1
  <2>2. CASE Reread(batch[at + 1]) /\ at # Len(batch)
    <3>1. batch[at + 1] \in Seq(Lexeme)
      BY <2>2, BatchTypes DEF FileInv
    <3>2. content' \in Seq(Lexeme) /\ Unread'
      BY <2>2, <3>1 DEF Reread, Unread
    <3> QED
      BY <3>2, UnreadNext
  <2> QED
    BY <1>3, <2>1, <2>2 DEF Record
<1>4. CASE \/ ParseFails \/ Begin \/ BeginFails \/ TimeoutsFail \/ Exec \/ ExecFails
           \/ Commit \/ CommitFails \/ Rollback \/ Close \/ LoseSession \/ AnswerLost
  BY <1>1, <1>4 DEF ParseFails, Begin, BeginFails, TimeoutsFail, Exec, ExecFails, Commit, CommitFails,
                    Rollback, Close, LoseSession, AnswerLost, Fails
<1>5. CASE UNCHANGED vars
  BY <1>1, <1>5 DEF vars
<1> QED
  BY <1>2, <1>3, <1>4, <1>5 DEF Next, Finished

LEMMA SplitInvariance == Spec => []SplitInv
<1>1. Init => SplitInv
  <2> SUFFICES ASSUME Init PROVE SplitInv
    OBVIOUS
  <2>1. content \in Seq(Lexeme)
    BY FileAssumption DEF Init
  <2> QED
    BY <2>1, UnreadSplits DEF Init
<1> QED
  BY <1>1, SplitNext, FileInvariance, PTL DEF Spec

-----------------------------------------------------------------------------
(* What is meant, statement by statement *)

\* The statements that leave an effect.
Ordinary(ss) == {i \in Speaks(ss) : Word(ss, i) \notin Control}

\* Of those before n, one begins a transaction that none of them ends.
OpenAt(ss, n) ==
    \E i \in Speaks(ss) :
        /\ i < n /\ Word(ss, i) = "BEGIN"
        /\ \A j \in Speaks(ss) : i <= j /\ j < n => Word(ss, j) \notin {"COMMIT", "ROLLBACK"}

LEMMA MeantInOrder ==
    ASSUME NEW ss \in Seq(Seq(Lexeme)), AllWellSent(ss), NEW c, Meant(c) = SentOf(ss)
    PROVE  \E f : /\ f \in [Speaks(ss) -> DOMAIN Meant(c)] /\ DOMAIN Meant(c) = 1..Len(Meant(c))
                  /\ Len(Meant(c)) \in Nat
                  /\ \A k \in DOMAIN Meant(c) : \E i \in Speaks(ss) : f[i] = k
                  /\ \A i \in Speaks(ss), j \in Speaks(ss) : i < j => f[i] < f[j]
                  /\ \A i \in Speaks(ss) : Head(Meant(c)[f[i]]) = Word(ss, i)
<1>1. PICK f : InOrder(f, ss)
  BY SentInOrder
<1>2. Meant(c) \in Seq(Seq(Lexeme))
  BY SentTypes
<1>3. DOMAIN Meant(c) = 1..Len(SentOf(ss)) /\ Len(Meant(c)) \in Nat
  BY <1>2
<1> QED
  BY <1>1, <1>3 DEF InOrder, Word

LEMMA MeantUses ==
    ASSUME NEW ss \in Seq(Seq(Lexeme)), AllWellSent(ss), NEW c, Meant(c) = SentOf(ss),
           NEW i \in Speaks(ss)
    PROVE  Uses(c, Word(ss, i)) /\ \E k \in DOMAIN Meant(c) : Head(Meant(c)[k]) = Word(ss, i)
BY MeantInOrder DEF Uses

LEMMA MeantCounts ==
    ASSUME NEW ss \in Seq(Seq(Lexeme)), AllWellSent(ss), NEW c, Meant(c) = SentOf(ss)
    PROVE  IsFiniteSet(Ordinary(ss)) /\ Cardinality(Ordinary(ss)) = Cardinality(Effects(c))
<1>1. PICK f : /\ f \in [Speaks(ss) -> DOMAIN Meant(c)]
               /\ \A k \in DOMAIN Meant(c) : \E i \in Speaks(ss) : f[i] = k
               /\ \A i \in Speaks(ss), j \in Speaks(ss) : i < j => f[i] < f[j]
               /\ \A i \in Speaks(ss) : Head(Meant(c)[f[i]]) = Word(ss, i)
               /\ DOMAIN Meant(c) \subseteq Nat
  <2>1. \A n \in Nat : 1..n \subseteq Nat
    OBVIOUS
  <2> QED
    BY <2>1, MeantInOrder
<1>2. Len(ss) \in Nat /\ Speaks(ss) \subseteq 1..Len(ss)
  BY DEF Speaks
<1>3. IsFiniteSet(Ordinary(ss))
  <2>1. Ordinary(ss) \subseteq 1..Len(ss)
    BY <1>2 DEF Ordinary
  <2>2. IsFiniteSet(1..Len(ss))
    BY <1>2, FS_Interval
  <2> QED
    BY <2>1, <2>2, FS_Subset
<1> DEFINE g == [i \in Ordinary(ss) |-> f[i]]
<1>4. g \in [Ordinary(ss) -> Effects(c)]
  BY <1>1 DEF Ordinary, Effects
<1>5. \A k \in Effects(c) : \E i \in Ordinary(ss) : g[i] = k
  BY <1>1 DEF Ordinary, Effects
<1>6. \A i \in Ordinary(ss), j \in Ordinary(ss) : g[i] = g[j] => i = j
  <2> SUFFICES ASSUME NEW i \in Ordinary(ss), NEW j \in Ordinary(ss), f[i] = f[j] PROVE i = j
    OBVIOUS
  <2>1. i \in Speaks(ss) /\ j \in Speaks(ss) /\ i \in Nat /\ j \in Nat
    BY <1>2 DEF Ordinary
  <2>2. f[i] \in Nat /\ f[j] \in Nat
    BY <1>1, <2>1
  <2>3. ~(f[i] < f[j]) /\ ~(f[j] < f[i])
    BY <2>2
  <2>4. ~(i < j) /\ ~(j < i)
    BY <1>1, <2>1, <2>3
  <2> QED
    BY <2>1, <2>4
<1> HIDE DEF g
<1>7. g \in Bijection(Ordinary(ss), Effects(c))
  BY <1>4, <1>5, <1>6 DEF Bijection, Injection, Surjection, IsInjective
<1> QED
  BY <1>3, <1>7, FS_Bijection DEF ExistsBijection

LEMMA MeantOpen ==
    ASSUME NEW ss \in Seq(Seq(Lexeme)), AllWellSent(ss), NEW c, Meant(c) = SentOf(ss),
           OpenAt(ss, Len(ss) + 1)
    PROVE  LeavesOpen(c)
<1>1. PICK f : /\ f \in [Speaks(ss) -> DOMAIN Meant(c)] /\ DOMAIN Meant(c) = 1..Len(Meant(c))
               /\ Len(Meant(c)) \in Nat
               /\ \A k \in DOMAIN Meant(c) : \E i \in Speaks(ss) : f[i] = k
               /\ \A i \in Speaks(ss), j \in Speaks(ss) : i < j => f[i] < f[j]
               /\ \A i \in Speaks(ss) : Head(Meant(c)[f[i]]) = Word(ss, i)
  BY MeantInOrder
<1>2. Len(ss) \in Nat /\ Speaks(ss) \subseteq 1..Len(ss)
  BY DEF Speaks
<1>3. PICK i \in Speaks(ss) :
          /\ Word(ss, i) = "BEGIN"
          /\ \A j \in Speaks(ss) : i <= j /\ j < Len(ss) + 1 => Word(ss, j) \notin {"COMMIT", "ROLLBACK"}
  BY DEF OpenAt
<1>4. f[i] \in DOMAIN Meant(c) /\ Head(Meant(c)[f[i]]) = "BEGIN" /\ f[i] \in Nat
  <2>1. f[i] \in 1..Len(Meant(c))
    BY <1>1
  <2> QED
    BY <1>1, <1>3, <2>1
<1>5. \A k \in f[i]..Len(Meant(c)) : Head(Meant(c)[k]) \notin {"COMMIT", "ROLLBACK"}
  <2> SUFFICES ASSUME NEW k \in f[i]..Len(Meant(c))
               PROVE  Head(Meant(c)[k]) \notin {"COMMIT", "ROLLBACK"}
    OBVIOUS
  <2>1. k \in Nat /\ k \in DOMAIN Meant(c) /\ ~(k < f[i])
    BY <1>1, <1>4
  <2>2. PICK j \in Speaks(ss) : f[j] = k
    BY <1>1, <2>1
  <2>3. j \in 1..Len(ss) /\ i \in 1..Len(ss) /\ ~(j < i)
    BY <1>1, <1>2, <2>1, <2>2
  <2>4. Word(ss, j) \notin {"COMMIT", "ROLLBACK"}
    BY <1>2, <1>3, <2>3
  <2> QED
    BY <1>1, <2>2, <2>4
<1> QED
  BY <1>4, <1>5 DEF LeavesOpen

-----------------------------------------------------------------------------
(* The statements of the file *)

NoneEmpty == \A i \in DOMAIN statements : statements[i] # <<>>

LEMMA NoneEmptyStep == FileInv /\ SplitInv /\ NoneEmpty /\ [Next]_vars => NoneEmpty'
<1> SUFFICES ASSUME FileInv, SplitInv, NoneEmpty, [Next]_vars PROVE NoneEmpty'
  OBVIOUS
<1>1. ASSUME UNCHANGED statements PROVE NoneEmpty'
  BY <1>1 DEF NoneEmpty
<1>2. ASSUME statements' = Emit(current) PROVE NoneEmpty'
  <2>1. current \in Seq(Lexeme) /\ Begun(current) /\ statements \in Seq(Seq(Lexeme))
    BY DEF SplitInv, TextInv
  <2>2. PICK s : s = Trim(current)
    OBVIOUS
  <2>3. s \in Seq(Lexeme)
    BY <2>1, <2>2, TrimIsFaithful DEF Trimmed
  <2>4. HasContent(s) => s # <<>>
    BY DEF HasContent
  <2>5. statements' = IF HasContent(s) THEN Append(statements, s) ELSE statements
    BY <1>2, <2>2 DEF Emit
  <2>6. CASE HasContent(s)
    <3>1. statements' = Append(statements, s) /\ s # <<>>
      BY <2>4, <2>5, <2>6
    <3> SUFFICES ASSUME NEW i \in DOMAIN statements' PROVE statements'[i] # <<>>
      BY DEF NoneEmpty
    <3>2. i \in 1..(Len(statements) + 1) /\ DOMAIN statements = 1..Len(statements)
      BY <2>1, <2>3, <3>1
    <3>3. CASE i = Len(statements) + 1
      BY <2>1, <2>3, <3>1, <3>3
    <3>4. CASE i \in 1..Len(statements)
      BY <2>1, <2>3, <3>1, <3>2, <3>4 DEF NoneEmpty
    <3> QED
      BY <2>1, <3>2, <3>3, <3>4
  <2> QED
    BY <1>1, <2>5, <2>6
<1>3. CASE Scan
  BY <1>1, <1>2, <1>3 DEF Scan, Parse, ScanPsqlMetaCommand, Terminate, OpenComment, OpenQuote,
     ScanText, ScanSingleLineComment, ScanBlockComment, ScanStringLiteral, ScanIdentifierQuote,
     ScanQuoted, ScanDollarQuote, EndOfFile, Keep
<1>4. CASE Record
  <2>1. CASE UNCHANGED parserVars
    BY <1>1, <2>1 DEF parserVars
  <2>2. CASE Reread(batch[at + 1])
    BY <2>2 DEF Reread, NoneEmpty
  <2> QED
    BY <1>4, <2>1, <2>2 DEF Record
<1>5. CASE UNCHANGED parserVars
  BY <1>1, <1>5 DEF parserVars
<1> QED
  BY <1>3, <1>4, <1>5 DEF Next, ParseFails, Begin, BeginFails, TimeoutsFail, Exec, ExecFails, Commit,
     CommitFails, Rollback, Close, LoseSession, AnswerLost, Fails, Finished, vars

\* What SplitInv says of a file read to its end.
LEMMA ReadToEnd ==
    ASSUME SplitInv, parsed = "yes", Told(content)
    PROVE  /\ statements \in Seq(Seq(Lexeme)) /\ AllWellSent(statements)
           /\ Meant(content) = SentOf(statements)
<1>1. Split /\ statements \in Seq(Seq(Lexeme))
  BY DEF SplitInv, SyncInv, TextInv
<1>2. WellSplit /\ CommandsOf(AsWritten(content)) = SentOf(statements)
  BY <1>1 DEF Split, Told
<1> QED
  BY <1>1, <1>2 DEF WellSplit, AllWellSent, Meant

LEMMA TextWords ==
    /\ \A w \in Control : Text(w) /\ w \in Lexeme
    /\ Text(Concurrently)
<1>1. Tags \cap (Control \cup {Concurrently}) = {}
  BY ParserAssumption DEF Signs
<1> QED
  BY <1>1 DEF Text, Control, Concurrently, Comment, Directive, NL, Lexeme

LEMMA PlainRunsInTx ==
    ASSUME SplitInv, NoneEmpty, parsed = "yes", Told(content), Plain(content)
    PROVE  ~NoTx
<1>1. /\ statements \in Seq(Seq(Lexeme)) /\ AllWellSent(statements)
      /\ Meant(content) = SentOf(statements)
  BY ReadToEnd
<1>2. ASSUME NEW i \in DOMAIN statements, Text(statements[i][1])
      PROVE  statements[i][1] \notin Control \cup {Concurrently}
  <2>1. statements[i] \in Seq(Lexeme) /\ statements[i] # <<>>
    BY <1>1 DEF NoneEmpty
  <2>2. Said(statements, i) # <<>> /\ Word(statements, i) = statements[i][1]
    BY <1>2, <2>1, FirstWord DEF Said, Word
  <2>3. i \in Speaks(statements)
    BY <2>2 DEF Speaks
  <2>4. PICK k \in DOMAIN Meant(content) : Head(Meant(content)[k]) = Word(statements, i)
    BY <1>1, <2>3, MeantUses
  <2> QED
    BY <2>2, <2>4 DEF Plain
<1>3. ~DetectConcurrently(statements)
  <2> SUFFICES ASSUME NEW i \in DOMAIN statements, Head(statements[i]) = Concurrently PROVE FALSE
    BY DEF DetectConcurrently
  <2>1. statements[i] \in Seq(Lexeme) /\ statements[i] # <<>>
    BY <1>1 DEF NoneEmpty
  <2>2. statements[i][1] = Concurrently
    BY <2>1
  <2> QED
    BY <1>2, <2>2, TextWords
<1>4. ~DetectExplicitTxControl(statements)
  <2> SUFFICES ASSUME NEW i \in DOMAIN statements, NEW w \in Control, statements[i] = <<w>> PROVE FALSE
    BY DEF DetectExplicitTxControl
  <2>1. statements[i][1] = w
    OBVIOUS
  <2> QED
    BY <1>2, <2>1, TextWords
<1> QED
  BY <1>3, <1>4 DEF NoTx, Plain

-----------------------------------------------------------------------------
(* The run of a file *)

TxInv ==
    /\ inTx \in BOOLEAN
    /\ step = "parse" => inTx = FALSE /\ failed = FALSE
    /\ step = "exec" => parsed = "yes" /\ next \in 1..(Len(statements) + 1) /\ failed = FALSE
    /\ step = "record" /\ failed = FALSE => parsed = "yes" /\ next = Len(statements) + 1
    /\ step = "rollback" => inTx = TRUE /\ failed = TRUE
    /\ failed = FALSE => session # "aborted"

\* The rest of a file: everything a step may do but go on to the next one.
Within ==
    /\ step \notin {"end", "closed"}
    /\ UNCHANGED <<batch, at, content, reported>>
    /\ step' = "parse" => step = "parse"
    /\ step' # "end" /\ step' # "closed"

\* What a statement does.
Does(word) ==
    CASE word = "BEGIN" -> session \in {"idle", "open"} /\ BeginTx
      [] word \in {"COMMIT", "ROLLBACK"} -> session # "lost" /\ EndTx(word = "COMMIT")
      [] OTHER -> Write({Effect(at, next)})

LEMMA ExecDoes ==
    ASSUME TxInv, RunInv, statements \in Seq(Seq(Lexeme)), Exec
    PROVE  /\ next \in 1..Len(statements) /\ next' = next + 1 /\ session # "lost"
           /\ step = "exec" /\ UNCHANGED <<parserVars, batch, at, inTx, step, failed, reported>>
           /\ \/ next \notin Speaks(statements) /\ UNCHANGED dbVars
              \/ next \in Speaks(statements) /\ Does(Word(statements, next))
<1>1. /\ step = "exec" /\ UNCHANGED <<parserVars, batch, at, inTx, step, failed, reported>>
      /\ next' = next + 1 /\ next <= Len(statements)
  BY DEF Exec, Executing
<1>2. next \in 1..Len(statements) /\ session # "aborted" /\ DOMAIN statements = 1..Len(statements)
  BY <1>1 DEF TxInv
<1>3. Sent = Said(statements, next)
  BY DEF Sent, Said
<1>4. CASE Sent = <<>>
  BY <1>1, <1>2, <1>3, <1>4 DEF Exec, Speaks
<1>5. CASE Sent # <<>>
  <2>1. next \in Speaks(statements)
    BY <1>2, <1>3, <1>5 DEF Speaks
  <2>2. session # "lost" /\ Perform(Head(Sent), Effect(at, next))
    BY <1>5 DEF Exec, Rejected
  <2>3. Head(Head(Sent)) = Word(statements, next)
    BY <1>3 DEF Word
  <2>4. session \in {"idle", "open"}
    BY <1>2, <2>2 DEF RunInv
  <2>5. Does(Word(statements, next))
    BY <2>2, <2>3, <2>4 DEF Perform, Does
  <2> QED
    BY <1>1, <1>2, <2>1, <2>2, <2>5
<1> QED
  BY <1>4, <1>5

LEMMA DoesCases ==
    ASSUME NEW w, Does(w)
    PROVE  /\ w = "BEGIN" => session \in {"idle", "open"} /\ BeginTx
           /\ w \in {"COMMIT", "ROLLBACK"} => session # "lost" /\ EndTx(w = "COMMIT")
           /\ w \notin Control => Write({Effect(at, next)})
           /\ w = "BEGIN" \/ w \in {"COMMIT", "ROLLBACK"} \/ w \notin Control
BY DEF Does, Control

LEMMA TxStep == FileInv /\ SplitInv /\ TxInv /\ [Next]_vars => TxInv'
<1> SUFFICES ASSUME FileInv, SplitInv, TxInv, [Next]_vars PROVE TxInv'
  OBVIOUS
<1>0. /\ statements \in Seq(Seq(Lexeme)) /\ Len(statements) \in Nat /\ RunInv
      /\ failed \in BOOLEAN
  BY DEF FileInv, SplitInv, TextInv, RunInv
<1>1. CASE Scan
  BY <1>1 DEF Scan, TxInv, dbVars, runVars
<1>2. ASSUME Fails, step \in {"parse", "exec"} PROVE TxInv'
  BY <1>2 DEF Fails, TxInv
<1>3. CASE ParseFails \/ BeginFails \/ TimeoutsFail \/ ExecFails \/ CommitFails \/ AnswerLost
  BY <1>2, <1>3 DEF ParseFails, BeginFails, TimeoutsFail, ExecFails, CommitFails, AnswerLost, Executing
<1>4. CASE Begin
  BY <1>0, <1>4 DEF Begin, BeginTx, TxInv, parserVars, dbVars
<1>5. CASE Exec
  <2>1. /\ next \in 1..Len(statements) /\ next' = next + 1
        /\ step = "exec" /\ UNCHANGED <<parserVars, batch, at, inTx, step, failed, reported>>
        /\ UNCHANGED dbVars \/ Does(Word(statements, next))
    BY <1>0, <1>5, ExecDoes
  <2>2. session' # "aborted"
    BY <2>1, DoesCases DEF TxInv, dbVars, BeginTx, EndTx, Write
  <2> QED
    BY <1>0, <2>1, <2>2 DEF TxInv, parserVars
<1>6. CASE Commit
  BY <1>0, <1>6 DEF Commit, EndTx, TxInv, parserVars, dbVars
<1>7. CASE Rollback
  BY <1>0, <1>7 DEF Rollback, EndTx, TxInv, parserVars, dbVars
<1>8. CASE Record
  BY <1>0, <1>8 DEF Record, Write, TxInv, dbVars, FileInv, VerdictInv
<1>9. CASE Close
  BY <1>0, <1>9 DEF Close, Drop, TxInv, parserVars
<1>10. CASE LoseSession
  BY <1>0, <1>10 DEF LoseSession, Drop, TxInv, parserVars, runVars
<1>11. CASE UNCHANGED vars
  BY <1>11 DEF vars, parserVars, dbVars, runVars, TxInv
<1> QED
  BY <1>1, <1>3, <1>4, <1>5, <1>6, <1>7, <1>8, <1>9, <1>10, <1>11 DEF Next, Finished

-----------------------------------------------------------------------------
(* What a file has left *)

\* What is in the database, or will be with the transaction.
Held == committed \cup pending

There(i, items) == {item \in items : item[1] = "effect" /\ item[2] = i}

\* Something is written at once, with the transaction, before it is rolled back
\* or lost; or the transaction is committed.
Moves(new) ==
    \/ committed' = committed \cup new /\ pending' = pending
    \/ committed' = committed /\ pending' = pending \cup new
    \/ committed' = committed \cup new /\ pending' = {}
    \/ committed' = committed \cup pending /\ pending' = {}

\* A step within a file moves at most the effect of its next statement.
MovesOne == Moves({}) \/ (step = "exec" /\ Moves({Effect(at, next)}))

LEMMA SessionMoves ==
    /\ Err => Moves({})
    /\ UNCHANGED dbVars => Moves({})
    /\ BeginTx => Moves({})
    /\ \A keep \in BOOLEAN : EndTx(keep) => Moves({})
    /\ \A item : Write({item}) => Moves({item})
    /\ \A new : Drop(new) => Moves(new)
    /\ Drop(pending) => Moves({})
<1>1. Err \/ UNCHANGED dbVars \/ BeginTx => Moves({})
  BY DEF Err, dbVars, BeginTx, Moves
<1>2. \A keep \in BOOLEAN : EndTx(keep) => Moves({})
  BY DEF EndTx, Moves
<1>3. \A item : Write({item}) => Moves({item})
  BY DEF Write, Moves
<1>4. \A new : Drop(new) => Moves(new)
  BY DEF Drop, Moves
<1>5. Drop(pending) => Moves({})
  BY DEF Drop, Moves
<1> QED
  BY <1>1, <1>2, <1>3, <1>4, <1>5

WithinStep ==
    \/ Scan \/ ParseFails \/ Begin \/ BeginFails \/ TimeoutsFail \/ Exec \/ ExecFails
    \/ Commit \/ CommitFails \/ Rollback \/ LoseSession \/ AnswerLost

LEMMA StaysWithin == ASSUME FileInv, WithinStep PROVE Within
<1>1. step \in {"parse", "exec", "rollback", "record", "end", "closed"} /\ batch \in Batches
  BY DEF FileInv, RunInv
<1>2. CASE Scan
  BY <1>2, ScanIsScanner DEF Scan, Within, runVars
<1>3. ASSUME Fails, step \in {"parse", "exec"} PROVE Within
  BY <1>3 DEF Fails, Within, parserVars
<1>4. CASE ParseFails \/ BeginFails \/ TimeoutsFail \/ ExecFails \/ CommitFails \/ AnswerLost
  BY <1>3, <1>4 DEF ParseFails, BeginFails, TimeoutsFail, ExecFails, CommitFails, AnswerLost, Executing
<1>5. CASE Begin \/ Exec \/ Commit \/ Rollback
  BY <1>5 DEF Begin, Exec, Executing, Commit, Rollback, Within, parserVars
<1>6. CASE LoseSession
  BY <1>1, <1>6 DEF LoseSession, Within, parserVars, runVars
<1> QED
  BY <1>2, <1>4, <1>5, <1>6 DEF WithinStep

LEMMA MovesWithin == ASSUME FileInv, SplitInv, TxInv, WithinStep PROVE MovesOne
<1>0. statements \in Seq(Seq(Lexeme)) /\ RunInv
  BY DEF FileInv, SplitInv, TextInv
<1>1. CASE UNCHANGED dbVars
  BY <1>1, SessionMoves DEF MovesOne
<1>2. CASE Scan \/ ParseFails \/ BeginFails \/ CommitFails
  BY <1>1, <1>2 DEF Scan, ParseFails, BeginFails, CommitFails
<1>3. CASE Begin \/ TimeoutsFail \/ ExecFails
  BY <1>1, <1>3, SessionMoves DEF Begin, TimeoutsFail, ExecFails, MovesOne
<1>4. CASE Exec
  <2>1. step = "exec" /\ (UNCHANGED dbVars \/ Does(Word(statements, next)))
    BY <1>0, <1>4, ExecDoes
  <2>2. ASSUME Does(Word(statements, next)) PROVE MovesOne
    BY <2>1, <2>2, DoesCases, SessionMoves DEF MovesOne
  <2> QED
    BY <1>1, <2>1, <2>2
<1>5. CASE Commit \/ Rollback
  <2>1. UNCHANGED dbVars \/ \E keep \in BOOLEAN : EndTx(keep)
    BY <1>5 DEF Commit, Rollback
  <2> QED
    BY <2>1, SessionMoves DEF MovesOne
<1>6. CASE LoseSession
  BY <1>6, SessionMoves DEF LoseSession, MovesOne
<1>7. CASE AnswerLost
  <2>1. step = "exec" /\ Drop(Outcome)
    BY <1>7 DEF AnswerLost
  <2>2. Outcome = {} \/ Outcome = pending \/ Outcome = {Effect(at, next)}
    BY DEF Outcome
  <2> QED
    BY <2>1, <2>2, SessionMoves DEF MovesOne
<1> QED
  BY <1>2, <1>3, <1>4, <1>5, <1>6, <1>7 DEF WithinStep

\* Nothing is left yet of a file that is only parsed, and nothing of later ones.
ItemsInv ==
    /\ \A item \in Held : item[1] = "effect" => item[2] \in 1..at
    /\ step = "parse" => There(at, Held) = {}

LEMMA ItemFacts ==
    /\ \A i, j : Effect(i, j)[1] = "effect" /\ Effect(i, j)[2] = i
    /\ \A i, o : Row(i, o)[1] = "row"
BY DEF Effect, Row

\* The history rows after any step but Record, and what was there of a file.
LEMMA WithinKeeps ==
    ASSUME MovesOne, NEW i, i = at => step # "exec"
    PROVE  /\ There(i, Held') \subseteq There(i, Held)
           /\ There(i, committed) \subseteq There(i, committed')
           /\ There(i, pending') \subseteq There(i, pending)
           /\ pending' # {} => There(i, Held') = There(i, Held)
           /\ There(i, pending) = {} => There(i, Held') = There(i, Held)
<1>1. PICK new : Moves(new) /\ There(i, new) = {}
  <2>1. CASE Moves({})
    BY <2>1 DEF There
  <2>2. CASE step = "exec" /\ Moves({Effect(at, next)})
    <3>1. There(i, {Effect(at, next)}) = {}
      BY <2>2, ItemFacts DEF There
    <3> QED
      BY <2>2, <3>1
  <2> QED
    BY <2>1, <2>2 DEF MovesOne
<1> QED
  BY <1>1 DEF Moves, There, Held

LEMMA RowsWithin ==
    ASSUME MovesOne, NEW i, NEW o
    PROVE  /\ Row(i, o) \in Held' => Row(i, o) \in Held
           /\ Row(i, o) \in committed => Row(i, o) \in committed'
           /\ Row(i, o) \in committed' => Row(i, o) \in committed \/ (Row(i, o) \in pending /\ pending' = {})
<1>1. PICK new : Moves(new) /\ Row(i, o) \notin new
  <2>1. CASE Moves({})
    BY <2>1
  <2>2. CASE Moves({Effect(at, next)})
    BY <2>2, ItemFacts
  <2> QED
    BY <2>1, <2>2 DEF MovesOne
<1> QED
  BY <1>1 DEF Moves, Held

\* Record adds its row and nothing else.
LEMMA RecordHolds ==
    ASSUME Record
    PROVE  /\ \A i : There(i, Held') = There(i, Held)
           /\ \A i : There(i, committed') = There(i, committed) /\ There(i, pending') = There(i, pending)
           /\ Held \subseteq Held' /\ committed \subseteq committed'
           /\ Held' \subseteq Held \cup {Row(at, IF failed THEN "failed" ELSE "success")}
           /\ session' = session
           /\ session = "idle" => Row(at, IF failed THEN "failed" ELSE "success") \in committed'
           /\ session = "idle" => pending' = pending
           /\ session # "idle" => committed' = committed
<1> DEFINE row == Row(at, IF failed THEN "failed" ELSE "success")
<1>1. row[1] # "effect"
  BY ItemFacts
<1>2. Write({row}) \/ (session \in {"aborted", "lost"} /\ UNCHANGED dbVars)
  BY DEF Record
<1> HIDE DEF row
<1>3. /\ \A i : There(i, Held') = There(i, Held)
      /\ \A i : There(i, committed') = There(i, committed) /\ There(i, pending') = There(i, pending)
      /\ Held \subseteq Held' /\ committed \subseteq committed'
      /\ Held' \subseteq Held \cup {row}
      /\ session' = session
      /\ session = "idle" => row \in committed'
      /\ session = "idle" => pending' = pending
      /\ session # "idle" => committed' = committed
  BY <1>1, <1>2 DEF Write, dbVars, There, Held
<1> QED
  BY <1>3 DEF row

LEMMA ItemsStep == FileInv /\ SplitInv /\ TxInv /\ ItemsInv /\ [Next]_vars => ItemsInv'
<1> SUFFICES ASSUME FileInv, SplitInv, TxInv, ItemsInv, [Next]_vars PROVE ItemsInv'
  OBVIOUS
<1>0. at \in Nat /\ at \in 1..Len(batch)
  BY BatchTypes DEF FileInv
<1>1. CASE WithinStep
  <2>1. Within /\ MovesOne
    BY <1>1, StaysWithin, MovesWithin
  <2>2. \A item \in Held' : item \in Held \/ item = Effect(at, next)
    BY <2>1 DEF MovesOne, Moves, Held
  <2>3. ASSUME NEW item \in Held', item[1] = "effect" PROVE item[2] \in 1..at'
    BY <1>0, <2>1, <2>2, <2>3, ItemFacts DEF ItemsInv, Within
  <2>4. step' = "parse" => There(at, Held') = {} /\ at' = at
    BY <2>1, WithinKeeps DEF Within, ItemsInv
  <2> QED
    BY <2>3, <2>4 DEF ItemsInv
<1>2. CASE Record
  <2>1. \A item \in Held' : item[1] = "effect" => item \in Held
    BY <1>2, RecordHolds, ItemFacts
  <2>2. at' = at \/ (at' = at + 1)
    BY <1>2 DEF Record
  <2>3. \A item \in Held' : item[1] = "effect" => item[2] \in 1..at
    BY <2>1 DEF ItemsInv
  <2>4. step' = "parse" => at' = at + 1
    BY <1>2 DEF Record
  <2>5. step' = "parse" => There(at + 1, Held') = {}
    BY <1>0, <2>3 DEF There
  <2> QED
    BY <1>0, <2>2, <2>3, <2>4, <2>5 DEF ItemsInv
<1>3. CASE Close
  <2>1. Held' \subseteq Held /\ at' = at /\ step' # "parse"
    BY <1>3 DEF Close, Drop, Held
  <2> QED
    BY <2>1 DEF ItemsInv
<1>4. CASE UNCHANGED vars
  <2>1. Held' = Held /\ at' = at /\ step' = step
    BY <1>4 DEF vars, dbVars, runVars, Held
  <2> QED
    BY <2>1 DEF ItemsInv
<1> QED
  BY <1>1, <1>2, <1>3, <1>4 DEF Next, Finished, WithinStep

-----------------------------------------------------------------------------
(* Every command of a file that succeeds is there *)

\* The effects of the statements before next.
DoneTo(n) == {Effect(at, j) : j \in {k \in Ordinary(statements) : k < n}}

\* As long as nothing of the file is rolled back, it has left what it has done.
CountInv ==
    /\ step \in {"exec", "record"} /\ failed = FALSE /\ session # "lost"
    /\ Told(content) /\ ~Uses(content, "ROLLBACK")
    => There(at, Held) = DoneTo(next)

LEMMA DoneGrows ==
    ASSUME statements \in Seq(Seq(Lexeme)), NEW n \in 1..Len(statements)
    PROVE  /\ n \in Ordinary(statements) => DoneTo(n + 1) = DoneTo(n) \cup {Effect(at, n)}
           /\ n \notin Ordinary(statements) => DoneTo(n + 1) = DoneTo(n)
<1>1. Ordinary(statements) \subseteq 1..Len(statements) /\ Len(statements) \in Nat
  BY DEF Ordinary, Speaks
<1>2. {k \in Ordinary(statements) : k < n + 1} =
          {k \in Ordinary(statements) : k < n} \cup {k \in Ordinary(statements) : k = n}
  BY <1>1
<1> QED
  BY <1>2 DEF DoneTo

LEMMA ExecCounts == ASSUME FileInv, SplitInv, TxInv, CountInv, Exec PROVE CountInv'
<1>0. statements \in Seq(Seq(Lexeme)) /\ RunInv
  BY DEF FileInv, SplitInv, TextInv
<1>1. /\ next \in 1..Len(statements) /\ next' = next + 1 /\ session # "lost"
      /\ step = "exec" /\ UNCHANGED <<parserVars, batch, at, inTx, step, failed, reported>>
      /\ \/ next \notin Speaks(statements) /\ UNCHANGED dbVars
         \/ next \in Speaks(statements) /\ Does(Word(statements, next))
  BY <1>0, ExecDoes
<1> SUFFICES ASSUME Told(content), ~Uses(content, "ROLLBACK")
             PROVE  There(at, Held') = DoneTo(next + 1)
  BY <1>1 DEF CountInv, parserVars, DoneTo
<1>2. parsed = "yes" /\ failed = FALSE /\ session # "aborted"
  BY <1>1 DEF TxInv
<1>3. /\ AllWellSent(statements) /\ Meant(content) = SentOf(statements)
      /\ There(at, Held) = DoneTo(next)
  BY <1>0, <1>1, <1>2, ReadToEnd DEF CountInv
<1>4. CASE next \notin Speaks(statements)
  <2>1. Held' = Held
    BY <1>1, <1>4 DEF dbVars, Held
  <2>2. next \notin Ordinary(statements)
    BY <1>4 DEF Ordinary
  <2> QED
    BY <1>0, <1>1, <1>3, <2>1, <2>2, DoneGrows
<1>5. CASE next \in Speaks(statements)
  <2> DEFINE w == Word(statements, next)
  <2>1. Does(w) /\ w # "ROLLBACK"
    BY <1>0, <1>1, <1>3, <1>5, MeantUses
  <2>2. next \in Ordinary(statements) <=> w \notin Control
    BY <1>5 DEF Ordinary
  <2> HIDE DEF w
  <2>3. CASE w \notin Control
    <3>1. Write({Effect(at, next)})
      BY <2>1, <2>3, DoesCases
    <3>2. There(at, Held') = There(at, Held) \cup {Effect(at, next)}
      BY <3>1, ItemFacts DEF Write, There, Held
    <3> QED
      BY <1>0, <1>1, <1>3, <2>2, <2>3, <3>2, DoneGrows
  <2>4. CASE w \in Control
    <3>1. BeginTx \/ EndTx(TRUE)
      BY <2>1, <2>4, DoesCases DEF Control
    <3>2. session = "open" \/ pending = {}
      BY <1>0, <1>2 DEF RunInv
    <3>3. Held' = Held
      BY <3>1, <3>2 DEF BeginTx, EndTx, Held
    <3> QED
      BY <1>0, <1>1, <1>3, <2>2, <2>4, <3>3, DoneGrows
  <2> QED
    BY <2>3, <2>4
<1> QED
  BY <1>4, <1>5

LEMMA CountStep ==
    FileInv /\ SplitInv /\ TxInv /\ ItemsInv /\ CountInv /\ [Next]_vars => CountInv'
<1> SUFFICES ASSUME FileInv, SplitInv, TxInv, ItemsInv, CountInv, [Next]_vars PROVE CountInv'
  OBVIOUS
<1>0. statements \in Seq(Seq(Lexeme)) /\ RunInv
  BY DEF FileInv, SplitInv, TextInv
<1>1. ASSUME failed' # FALSE \/ session' = "lost" \/ step' \notin {"exec", "record"} PROVE CountInv'
  BY <1>1 DEF CountInv
<1>2. CASE ParseFails \/ BeginFails \/ TimeoutsFail \/ ExecFails \/ CommitFails \/ AnswerLost
  BY <1>1, <1>2 DEF ParseFails, BeginFails, TimeoutsFail, ExecFails, CommitFails, AnswerLost, Fails
<1>3. CASE Scan \/ Record \/ Close \/ LoseSession
  BY <1>1, <1>3 DEF Scan, runVars, Record, Close, LoseSession, Drop
<1>4. CASE Rollback
  BY <1>1, <1>4 DEF Rollback, TxInv
<1>5. CASE Begin
  <2>1. Held' = Held /\ UNCHANGED <<at, statements>> /\ next' = 1 /\ step = "parse"
    BY <1>5 DEF Begin, BeginTx, dbVars, Held, parserVars
  <2>2. There(at, Held) = {}
    BY <2>1 DEF ItemsInv
  <2>3. {k \in Ordinary(statements) : k < 1} = {}
    BY <1>0 DEF Ordinary, Speaks
  <2>4. There(at', Held') = {} /\ DoneTo(next)' = {}
    BY <2>1, <2>2, <2>3 DEF DoneTo
  <2> QED
    BY <2>4 DEF CountInv
<1>6. CASE Exec
  BY <1>6, ExecCounts
<1>7. CASE Commit
  <2>1. /\ UNCHANGED <<parserVars, at, next, failed>> /\ step = "exec"
        /\ UNCHANGED dbVars \/ (session # "lost" /\ EndTx(TRUE))
    BY <1>7 DEF Commit
  <2>2. session \in {"open", "lost"} \/ pending = {}
    BY <1>0, <2>1 DEF RunInv, TxInv
  <2>3. Held' = Held /\ (session = "lost" => session' = "lost")
    BY <2>1, <2>2 DEF dbVars, EndTx, Held
  <2> QED
    BY <2>1, <2>3 DEF CountInv, parserVars, DoneTo
<1>8. CASE UNCHANGED vars
  BY <1>8 DEF vars, parserVars, dbVars, runVars, CountInv, DoneTo, Held
<1> QED
  BY <1>2, <1>3, <1>4, <1>5, <1>6, <1>7, <1>8 DEF Next, Finished

-----------------------------------------------------------------------------
(* Nothing is there of a file that leaves its transaction to m8 and fails *)

PlainInv ==
    Told(content) /\ Plain(content) /\ session # "lost" =>
        /\ step = "exec" => inTx = TRUE /\ session = "open" /\ There(at, committed) = {}
        /\ step = "rollback" => session \in {"open", "aborted"} /\ There(at, committed) = {}
        /\ step = "record" /\ failed = TRUE => There(at, Held) = {}

LEMMA PlainStep ==
    FileInv /\ SplitInv /\ NoneEmpty /\ TxInv /\ ItemsInv /\ PlainInv /\ [Next]_vars => PlainInv'
<1> SUFFICES ASSUME FileInv, SplitInv, NoneEmpty, TxInv, ItemsInv, PlainInv, [Next]_vars
             PROVE  PlainInv'
  OBVIOUS
<1>0. statements \in Seq(Seq(Lexeme)) /\ RunInv /\ failed \in BOOLEAN
  BY DEF FileInv, RunInv, SplitInv, TextInv
<1>1. ASSUME session' = "lost" \/ step' \notin {"exec", "rollback", "record"} PROVE PlainInv'
  BY <1>1 DEF PlainInv
<1>2. CASE Scan \/ Record \/ Close \/ LoseSession \/ AnswerLost
  BY <1>1, <1>2 DEF Scan, runVars, Record, Close, LoseSession, AnswerLost, Drop, TxInv
<1>3. CASE BeginFails \/ CommitFails
  BY <1>1, <1>3 DEF BeginFails, CommitFails, dbVars
<1>4. CASE ParseFails
  <2>1. /\ step = "parse" /\ inTx = FALSE /\ There(at, Held) = {}
    BY <1>4 DEF ParseFails, TxInv, ItemsInv
  <2>2. step' = "record" /\ at' = at /\ Held' = Held
    BY <1>4, <2>1 DEF ParseFails, Fails, dbVars, Held
  <2> QED
    BY <2>1, <2>2 DEF PlainInv
<1>5. CASE Begin
  <2>1. /\ step = "parse" /\ parsed = "yes" /\ step' = "exec" /\ UNCHANGED <<content, at>>
        /\ committed' = committed /\ inTx' = ~NoTx
        /\ ~NoTx => session' = "open"
    BY <1>5 DEF Begin, BeginTx, dbVars, parserVars
  <2>2. There(at, committed) = {}
    BY <2>1 DEF ItemsInv, There, Held
  <2>3. Told(content) /\ Plain(content) => ~NoTx
    BY <2>1, PlainRunsInTx
  <2> QED
    BY <2>1, <2>2, <2>3 DEF PlainInv
<1>6. CASE Exec
  <2>1. /\ next \in 1..Len(statements) /\ session # "lost"
        /\ step = "exec" /\ UNCHANGED <<parserVars, at, inTx, step, failed>>
        /\ \/ UNCHANGED dbVars
           \/ next \in Speaks(statements) /\ Does(Word(statements, next))
    BY <1>0, <1>6, ExecDoes
  <2> SUFFICES ASSUME Told(content), Plain(content)
               PROVE  inTx = TRUE /\ session' = "open" /\ There(at, committed') = {}
    BY <2>1 DEF PlainInv, parserVars
  <2>2. inTx = TRUE /\ session = "open" /\ There(at, committed) = {} /\ parsed = "yes"
    BY <2>1 DEF PlainInv, TxInv
  <2>3. CASE UNCHANGED dbVars
    BY <2>2, <2>3 DEF dbVars
  <2>4. CASE next \in Speaks(statements) /\ Does(Word(statements, next))
    <3>1. PICK k \in DOMAIN Meant(content) : Head(Meant(content)[k]) = Word(statements, next)
      BY <2>2, <2>4, ReadToEnd, MeantUses
    <3>2. Word(statements, next) \notin Control
      BY <3>1 DEF Plain
    <3>3. Write({Effect(at, next)})
      BY <2>4, <3>2, DoesCases
    <3> QED
      BY <2>2, <3>3 DEF Write
  <2> QED
    BY <2>1, <2>3, <2>4
<1>7. CASE TimeoutsFail \/ ExecFails
  <2>1. /\ step = "exec" /\ UNCHANGED <<content, at>> /\ Err
        /\ step' = IF inTx THEN "rollback" ELSE "record"
    BY <1>7 DEF TimeoutsFail, ExecFails, Executing, Fails, parserVars
  <2>2. /\ committed' = committed /\ session' = IF session = "open" THEN "aborted" ELSE session
    BY <2>1 DEF Err
  <2> QED
    BY <2>1, <2>2 DEF PlainInv
<1>8. CASE Commit
  BY <1>8 DEF Commit, PlainInv, TxInv
<1>9. CASE Rollback
  <2>1. /\ step = "rollback" /\ step' = "record" /\ UNCHANGED <<content, at>>
        /\ IF session = "lost" THEN UNCHANGED dbVars ELSE EndTx(FALSE)
    BY <1>9 DEF Rollback, parserVars
  <2>2. CASE session = "lost"
    BY <1>1, <2>1, <2>2 DEF dbVars
  <2>3. CASE session # "lost"
    <3>1. pending' = {} /\ committed' = committed
      BY <2>1, <2>3 DEF EndTx
    <3>2. Held' = committed
      BY <3>1 DEF Held
    <3> QED
      BY <2>1, <2>3, <3>2 DEF PlainInv
  <2> QED
    BY <2>2, <2>3
<1>10. CASE UNCHANGED vars
  BY <1>10 DEF vars, parserVars, dbVars, runVars, PlainInv, Held
<1> QED
  BY <1>2, <1>3, <1>4, <1>5, <1>6, <1>7, <1>8, <1>9, <1>10 DEF Next, Finished

-----------------------------------------------------------------------------
(* A transaction in the session is the file's own *)

\* The files up to n leave no transaction behind.
ClosedTo(n) == \A j \in 1..n : Told(batch[j]) /\ ~LeavesOpen(batch[j])

OpenInv ==
    ClosedTo(at - 1) /\ session \in {"open", "aborted"} =>
        /\ step # "parse"
        /\ step = "exec" /\ inTx = FALSE /\ Told(content) => OpenAt(statements, next)
        /\ step = "record" /\ Told(content) /\ failed = TRUE => Uses(content, "BEGIN")
        /\ step = "record" /\ Told(content) /\ failed = FALSE => LeavesOpen(content)

LEMMA OpenGrows ==
    ASSUME statements \in Seq(Seq(Lexeme)), NEW n \in 1..Len(statements)
    PROVE  /\ n \notin Speaks(statements) /\ OpenAt(statements, n) => OpenAt(statements, n + 1)
           /\ n \in Speaks(statements) /\ Word(statements, n) = "BEGIN" => OpenAt(statements, n + 1)
           /\ n \in Speaks(statements) /\ Word(statements, n) \notin Control /\ OpenAt(statements, n)
                  => OpenAt(statements, n + 1)
<1>1. Speaks(statements) \subseteq 1..Len(statements) /\ Len(statements) \in Nat
  BY DEF Speaks
<1>2. \A j \in Speaks(statements) : j < n + 1 => j < n \/ j = n
  BY <1>1
<1>3. \A j \in Speaks(statements) : j < n => j < n + 1
  BY <1>1
<1>4. ASSUME n \in Speaks(statements) => Word(statements, n) \notin Control, OpenAt(statements, n)
      PROVE  OpenAt(statements, n + 1)
  <2>1. PICK i \in Speaks(statements) :
            /\ i < n /\ Word(statements, i) = "BEGIN"
            /\ \A j \in Speaks(statements) :
                   i <= j /\ j < n => Word(statements, j) \notin {"COMMIT", "ROLLBACK"}
    BY <1>4 DEF OpenAt
  <2>2. \A j \in Speaks(statements) : 
            i <= j /\ j < n + 1 => Word(statements, j) \notin {"COMMIT", "ROLLBACK"}
    BY <1>2, <1>4, <2>1 DEF Control
  <2> QED
    BY <1>3, <2>1, <2>2 DEF OpenAt
<1>5. ASSUME n \in Speaks(statements), Word(statements, n) = "BEGIN" PROVE OpenAt(statements, n + 1)
  <2>1. n < n + 1
    OBVIOUS
  <2>2. \A j \in Speaks(statements) : n <= j /\ j < n + 1 => j = n
    BY <1>1
  <2> QED
    BY <1>5, <2>1, <2>2 DEF OpenAt
<1> QED
  BY <1>4, <1>5

LEMMA ExecOpens == ASSUME FileInv, SplitInv, TxInv, OpenInv, Exec PROVE OpenInv'
<1>0. statements \in Seq(Seq(Lexeme)) /\ RunInv
  BY DEF FileInv, SplitInv, TextInv
<1>1. /\ next \in 1..Len(statements) /\ next' = next + 1 /\ session # "lost"
      /\ step = "exec" /\ UNCHANGED <<parserVars, batch, at, inTx, step, failed, reported>>
      /\ \/ next \notin Speaks(statements) /\ UNCHANGED dbVars
         \/ next \in Speaks(statements) /\ Does(Word(statements, next))
  BY <1>0, ExecDoes
<1> SUFFICES ASSUME ClosedTo(at - 1), session' \in {"open", "aborted"}, inTx = FALSE, Told(content)
             PROVE  OpenAt(statements, next + 1)
  BY <1>1 DEF OpenInv, ClosedTo, parserVars
<1>2. session \in {"open", "aborted"} => OpenAt(statements, next)
  BY <1>1 DEF OpenInv
<1>3. CASE next \notin Speaks(statements)
  BY <1>0, <1>1, <1>2, <1>3, OpenGrows DEF dbVars
<1>4. CASE next \in Speaks(statements)
  <2> DEFINE w == Word(statements, next)
  <2>1. Does(w)
    BY <1>1, <1>4
  <2> HIDE DEF w
  <2>2. CASE w = "BEGIN"
    BY <1>0, <1>1, <1>4, <2>2, OpenGrows DEF w
  <2>3. CASE w \in {"COMMIT", "ROLLBACK"}
    BY <2>1, <2>3, DoesCases DEF EndTx
  <2>4. CASE w \notin Control
    <3>1. session' = session
      BY <2>1, <2>4, DoesCases DEF Write
    <3> QED
      BY <1>0, <1>1, <1>2, <1>4, <2>4, <3>1, OpenGrows DEF w
  <2> QED
    BY <2>1, <2>2, <2>3, <2>4, DoesCases
<1> QED
  BY <1>3, <1>4

LEMMA OpenMeans ==
    ASSUME SplitInv, parsed = "yes", Told(content), NEW n, OpenAt(statements, n)
    PROVE  /\ Uses(content, "BEGIN")
           /\ n = Len(statements) + 1 => LeavesOpen(content)
<1>1. /\ statements \in Seq(Seq(Lexeme)) /\ AllWellSent(statements)
      /\ Meant(content) = SentOf(statements)
  BY ReadToEnd
<1>2. PICK i \in Speaks(statements) : Word(statements, i) = "BEGIN"
  BY DEF OpenAt
<1>3. Uses(content, "BEGIN")
  BY <1>1, <1>2, MeantUses
<1> QED
  BY <1>1, <1>3, MeantOpen

LEMMA RecordOpens == ASSUME FileInv, SplitInv, TxInv, OpenInv, Record PROVE OpenInv'
<1>1. session' = session /\ step = "record" /\ failed \in BOOLEAN /\ UNCHANGED batch
  BY RecordHolds DEF Record, FileInv, RunInv
<1>2. CASE step' = "end"
  BY <1>2 DEF OpenInv
<1>3. CASE step' # "end"
  <2>1. /\ failed = FALSE /\ step' = "parse" /\ at' = at + 1 /\ content = batch[at]
        /\ at \in Nat /\ at \in 1..Len(batch)
    BY <1>1, <1>3, BatchTypes DEF Record, FileInv, RunInv
  <2> SUFFICES ASSUME ClosedTo(at), session \in {"open", "aborted"} PROVE FALSE
    BY <1>1, <2>1 DEF OpenInv, ClosedTo
  <2>2. Told(content) /\ ~LeavesOpen(content) /\ ClosedTo(at - 1)
    <3>1. at \in 1..at /\ 1..(at - 1) \subseteq 1..at
      BY <2>1
    <3> QED
      BY <2>1, <3>1 DEF ClosedTo
  <2> QED
    BY <1>1, <2>1, <2>2 DEF OpenInv
<1> QED
  BY <1>2, <1>3

LEMMA OpenStep ==
    FileInv /\ SplitInv /\ TxInv /\ OpenInv /\ [Next]_vars => OpenInv'
<1> SUFFICES ASSUME FileInv, SplitInv, TxInv, OpenInv, [Next]_vars PROVE OpenInv'
  OBVIOUS
<1>0. RunInv
  BY DEF FileInv
<1>1. ASSUME session' \in {"idle", "lost"} \/ step' \notin {"parse", "exec", "record"} PROVE OpenInv'
  BY <1>1 DEF OpenInv
<1>2. CASE Scan
  <2>1. UNCHANGED <<batch, at, content, step, session>> /\ step = "parse"
    BY <1>2, ScanIsScanner DEF Scan, dbVars, runVars
  <2> QED
    BY <2>1 DEF OpenInv, ClosedTo
<1>3. CASE Close \/ LoseSession \/ AnswerLost
  BY <1>1, <1>3 DEF Close, LoseSession, AnswerLost, Drop
<1>4. CASE BeginFails \/ CommitFails
  BY <1>1, <1>4 DEF BeginFails, CommitFails, dbVars
<1>5. CASE ParseFails
  <2>1. UNCHANGED <<batch, at, session>> /\ step = "parse"
    BY <1>5 DEF ParseFails, Fails, dbVars
  <2> QED
    BY <2>1 DEF OpenInv, ClosedTo
<1>6. CASE Begin
  <2>1. /\ UNCHANGED <<batch, at>> /\ step = "parse" /\ step' = "exec"
        /\ inTx' = FALSE => session' = session
    BY <1>6 DEF Begin, dbVars
  <2> QED
    BY <2>1 DEF OpenInv, ClosedTo
<1>7. CASE Exec
  BY <1>7, ExecOpens
<1>8. CASE TimeoutsFail \/ ExecFails
  <2>1. /\ UNCHANGED <<batch, at, content>> /\ Err /\ step = "exec" /\ failed' = TRUE
        /\ step' = IF inTx THEN "rollback" ELSE "record"
    BY <1>8 DEF TimeoutsFail, ExecFails, Executing, Fails, parserVars
  <2> SUFFICES ASSUME ClosedTo(at - 1), session' \in {"open", "aborted"}, step' = "record", Told(content)
               PROVE  Uses(content, "BEGIN")
    BY <2>1 DEF OpenInv, ClosedTo
  <2>2. inTx = FALSE /\ session \in {"open", "aborted"} /\ parsed = "yes"
    BY <2>1 DEF TxInv, Err
  <2>3. OpenAt(statements, next)
    BY <2>1, <2>2 DEF OpenInv
  <2> QED
    BY <2>2, <2>3, OpenMeans
<1>9. CASE Commit
  <2>1. /\ UNCHANGED <<batch, at, content, failed, inTx>> /\ step = "exec" /\ step' = "record"
        /\ IF inTx THEN session' = "idle" ELSE session' = session
        /\ next > Len(statements)
    BY <1>9 DEF Commit, EndTx, dbVars, parserVars
  <2>2. failed = FALSE /\ parsed = "yes" /\ next = Len(statements) + 1 /\ inTx \in BOOLEAN
    <3>1. Len(statements) \in Nat
      BY DEF SplitInv, TextInv
    <3> QED
      BY <2>1, <3>1 DEF TxInv
  <2> SUFFICES ASSUME ClosedTo(at - 1), session \in {"open", "aborted"}, inTx = FALSE, Told(content)
               PROVE  LeavesOpen(content)
    BY <2>1, <2>2 DEF OpenInv, ClosedTo
  <2>3. OpenAt(statements, next)
    BY <2>1 DEF OpenInv
  <2> QED
    BY <2>2, <2>3, OpenMeans
<1>10. CASE Rollback
  BY <1>1, <1>10 DEF Rollback, EndTx, dbVars
<1>11. CASE Record
  BY <1>11, RecordOpens
<1>12. CASE UNCHANGED vars
  BY <1>12 DEF vars, parserVars, dbVars, runVars, OpenInv, ClosedTo
<1> QED
  BY <1>2, <1>3, <1>4, <1>5, <1>6, <1>7, <1>8, <1>9, <1>10, <1>11, <1>12 DEF Next, Finished

-----------------------------------------------------------------------------
(* The rows *)

\* What a row of a file says of what is there, kept back or not.
RowInv(i) ==
    /\ Row(i, "success") \in Held /\ ~Uses(batch[i], "ROLLBACK") =>
           Cardinality(There(i, Held)) = Cardinality(Effects(batch[i]))
    /\ Row(i, "success") \in committed => There(i, pending) = {}
    /\ Row(i, "failed") \in Held /\ Plain(batch[i]) => There(i, Held) = {}

RowsInv == \A i \in 1..Len(batch) : Told(batch[i]) => RowInv(i)

LEMMA WithinRows == ASSUME FileInv, TxInv, RowsInv, Within, MovesOne PROVE RowsInv'
<1> SUFFICES ASSUME NEW i \in 1..Len(batch), Told(batch[i]) PROVE RowInv(i)'
  BY DEF RowsInv, Within
<1>0. RowInv(i) /\ UNCHANGED batch
  BY DEF RowsInv, Within
<1>1. /\ Row(i, "success") \in Held => i \in reported
      /\ Row(i, "failed") \in Held => failed = TRUE
      /\ at \in reported => step \in {"end", "closed"}
  BY DEF FileInv, VerdictInv, RunInv, Held
<1>2. Row(i, "success") \in Held \/ Row(i, "failed") \in Held => (i = at => step # "exec")
  BY <1>1 DEF TxInv, Within
<1>3. /\ \A o : Row(i, o) \in Held' => Row(i, o) \in Held
      /\ \A o : Row(i, o) \in committed' => Row(i, o) \in committed \/ (Row(i, o) \in pending /\ pending' = {})
  BY RowsWithin
<1>4. \A o : Row(i, o) \in committed' => Row(i, o) \in Held
  BY <1>3 DEF Held
<1>5. ASSUME Row(i, "success") \in Held', ~Uses(batch[i], "ROLLBACK")
      PROVE  Cardinality(There(i, Held')) = Cardinality(Effects(batch[i]))
  <2>1. Row(i, "success") \in Held /\ Cardinality(There(i, Held)) = Cardinality(Effects(batch[i]))
    BY <1>0, <1>3, <1>5 DEF RowInv
  <2>2. pending' # {} \/ There(i, pending) = {} => There(i, Held') = There(i, Held)
    BY <1>2, <2>1, WithinKeeps
  <2>3. CASE pending' = {}
    <3>1. CASE Row(i, "success") \in committed
      BY <1>0, <2>1, <2>2, <3>1 DEF RowInv
    <3>2. CASE Row(i, "success") \notin committed
      <4>1. committed' # committed
        BY <1>5, <2>3, <3>2 DEF Held
      <4>2. There(i, Held') = There(i, Held)
        <5>1. Row(i, "success") \in committed' /\ Row(i, "success") \in pending
          BY <1>3, <1>5, <2>3, <3>2 DEF Held
        <5>2. committed' = committed \cup pending
          <6>1. CASE Moves({})
            BY <2>3, <3>2, <5>1, <6>1 DEF Moves
          <6>2. CASE Moves({Effect(at, next)})
            BY <2>3, <3>2, <5>1, <6>2, ItemFacts DEF Moves
          <6> QED
            BY <6>1, <6>2 DEF MovesOne
        <5> QED
          BY <2>3, <5>2 DEF Held
      <4> QED
        BY <2>1, <4>2
    <3> QED
      BY <3>1, <3>2
  <2> QED
    BY <2>1, <2>2, <2>3
<1>6. ASSUME Row(i, "success") \in committed' PROVE There(i, pending') = {}
  <2>1. CASE pending' = {}
    BY <2>1 DEF There
  <2>2. CASE pending' # {}
    <3>1. There(i, pending') \subseteq There(i, pending)
      BY <1>2, <1>4, <1>6, WithinKeeps
    <3>2. Row(i, "success") \in committed
      BY <1>3, <1>6, <2>2
    <3> QED
      BY <1>0, <3>1, <3>2 DEF RowInv
  <2> QED
    BY <2>1, <2>2
<1>7. ASSUME Row(i, "failed") \in Held', Plain(batch[i]) PROVE There(i, Held') = {}
  <2>1. Row(i, "failed") \in Held /\ There(i, Held) = {}
    BY <1>0, <1>3, <1>7 DEF RowInv
  <2> QED
    BY <1>2, <2>1, WithinKeeps
<1> QED
  BY <1>0, <1>5, <1>6, <1>7 DEF RowInv

\* The effects of a file whose statements have all been executed.
LEMMA DoneIsAll ==
    ASSUME SplitInv, parsed = "yes", Told(content)
    PROVE  Cardinality(DoneTo(Len(statements) + 1)) = Cardinality(Effects(content))
<1>1. /\ statements \in Seq(Seq(Lexeme)) /\ AllWellSent(statements)
      /\ Meant(content) = SentOf(statements)
  BY ReadToEnd
<1>2. /\ IsFiniteSet(Ordinary(statements))
      /\ Cardinality(Ordinary(statements)) = Cardinality(Effects(content))
  BY <1>1, MeantCounts
<1>3. {k \in Ordinary(statements) : k < Len(statements) + 1} = Ordinary(statements)
  BY <1>1 DEF Ordinary, Speaks
<1> DEFINE g == [j \in Ordinary(statements) |-> Effect(at, j)]
<1>4. DoneTo(Len(statements) + 1) = {Effect(at, j) : j \in Ordinary(statements)}
  BY <1>3 DEF DoneTo
<1>5. \A i, j : Effect(at, i) = Effect(at, j) => i = j
  BY DEF Effect
<1>6. g \in Bijection(Ordinary(statements), DoneTo(Len(statements) + 1))
  BY <1>4, <1>5 DEF Bijection, Injection, Surjection, IsInjective
<1> QED
  BY <1>2, <1>6, FS_Bijection DEF ExistsBijection

LEMMA RecordRows ==
    ASSUME FileInv, SplitInv, TxInv, CountInv, PlainInv, RowsInv, Record
    PROVE  RowsInv'
<1> SUFFICES ASSUME NEW i \in 1..Len(batch), Told(batch[i]) PROVE RowInv(i)'
  BY DEF RowsInv, Record
<1> DEFINE row == Row(at, IF failed THEN "failed" ELSE "success")
<1>0. RowInv(i) /\ UNCHANGED batch /\ content = batch[at] /\ failed \in BOOLEAN /\ step = "record"
      /\ session \in {"idle", "open", "aborted", "lost"}
  BY DEF RowsInv, Record, FileInv, RunInv
<1>1. /\ There(i, Held') = There(i, Held)
      /\ There(i, committed') = There(i, committed) /\ There(i, pending') = There(i, pending)
      /\ Held' \subseteq Held \cup {row}
      /\ session = "idle" => pending' = pending
      /\ session # "idle" => committed' = committed
  BY RecordHolds
<1>2. \A o : Row(i, o) = row => i = at /\ o = IF failed THEN "failed" ELSE "success"
  BY DEF Row
<1> HIDE DEF row
<1>3. row \in Held' /\ row \notin Held => session # "lost"
  BY DEF Record, Write, dbVars, Held
<1>4. ASSUME Row(i, "success") \in Held', ~Uses(batch[i], "ROLLBACK")
      PROVE  Cardinality(There(i, Held)) = Cardinality(Effects(batch[i]))
  <2>1. CASE Row(i, "success") \in Held
    BY <1>0, <1>4, <2>1 DEF RowInv
  <2>2. CASE Row(i, "success") \notin Held
    <3>1. row = Row(i, "success")
      BY <1>1, <1>4, <2>2
    <3>2. i = at /\ failed = FALSE /\ session # "lost"
      BY <1>0, <1>2, <1>3, <1>4, <2>2, <3>1
    <3>3. parsed = "yes" /\ next = Len(statements) + 1
      BY <1>0, <3>2 DEF TxInv
    <3>4. There(at, Held) = DoneTo(next)
      BY <1>0, <1>4, <3>2 DEF CountInv
    <3> QED
      BY <1>0, <3>2, <3>3, <3>4, DoneIsAll
  <2> QED
    BY <2>1, <2>2
<1>5. ASSUME Row(i, "success") \in committed' PROVE There(i, pending) = {}
  <2>1. CASE Row(i, "success") \in committed
    BY <1>0, <2>1 DEF RowInv
  <2>2. CASE Row(i, "success") \notin committed
    <3>1. session = "idle"
      BY <1>1, <1>5, <2>2
    <3>2. pending = {}
      BY <3>1 DEF FileInv, RunInv
    <3> QED
      BY <3>2 DEF There
  <2> QED
    BY <2>1, <2>2
<1>6. ASSUME Row(i, "failed") \in Held', Plain(batch[i]) PROVE There(i, Held) = {}
  <2>1. CASE Row(i, "failed") \in Held
    BY <1>0, <1>6, <2>1 DEF RowInv
  <2>2. CASE Row(i, "failed") \notin Held
    <3>1. row = Row(i, "failed")
      BY <1>1, <1>6, <2>2
    <3>2. i = at /\ failed = TRUE /\ session # "lost"
      BY <1>0, <1>2, <1>3, <1>6, <2>2, <3>1
    <3> QED
      BY <1>0, <1>6, <3>2 DEF PlainInv
  <2> QED
    BY <2>1, <2>2
<1> QED
  BY <1>0, <1>1, <1>4, <1>5, <1>6 DEF RowInv

LEMMA RowsStep ==
    FileInv /\ SplitInv /\ TxInv /\ CountInv /\ PlainInv /\ RowsInv /\ [Next]_vars => RowsInv'
<1> SUFFICES ASSUME FileInv, SplitInv, TxInv, CountInv, PlainInv, RowsInv, [Next]_vars
             PROVE  RowsInv'
  OBVIOUS
<1>1. CASE WithinStep
  BY <1>1, StaysWithin, MovesWithin, WithinRows
<1>2. CASE Record
  BY <1>2, RecordRows
<1>3. CASE Close
  <2>1. Held' \subseteq Held /\ committed' = committed /\ pending' = {} /\ UNCHANGED batch
    BY <1>3 DEF Close, Drop, Held
  <2>2. pending = {} \/ step = "end"
    BY <1>3 DEF Close
  <2> SUFFICES ASSUME NEW i \in 1..Len(batch), Told(batch[i]) PROVE RowInv(i)'
    BY <2>1 DEF RowsInv
  <2>3. RowInv(i)
    BY DEF RowsInv
  <2>4. There(i, pending') = {} /\ There(i, Held') \subseteq There(i, Held)
    BY <2>1 DEF There
  <2>5. Row(i, "success") \in committed => There(i, Held') = There(i, Held)
    BY <2>1, <2>3 DEF RowInv, There, Held
  <2>6. \A o : Row(i, o) \in Held' => Row(i, o) \in committed /\ Row(i, o) \in Held
    BY <2>1 DEF Held
  <2> QED
    BY <2>1, <2>3, <2>4, <2>5, <2>6 DEF RowInv
<1>4. CASE UNCHANGED vars
  BY <1>4 DEF vars, dbVars, runVars, RowsInv, RowInv, Held
<1> QED
  BY <1>1, <1>2, <1>3, <1>4 DEF Next, Finished, WithinStep

\* What apply has said by now is in the history.
ReportsInv ==
    session # "lost" =>
        /\ \A i \in reported : ClosedTo(i) => Row(i, "success") \in committed
        /\ step = "end" /\ failed = TRUE /\ (\A j \in 1..at : Told(batch[j]) /\ ~Uses(batch[j], "BEGIN"))
               => Row(at, "failed") \in committed

LEMMA LostForGood ==
    ASSUME FileInv, SplitInv, TxInv, WithinStep, session = "lost"
    PROVE  session' = "lost"
<1>1. statements \in Seq(Seq(Lexeme)) /\ RunInv
  BY DEF FileInv, SplitInv, TextInv
<1>2. ~Exec
  BY <1>1, ExecDoes
<1> QED
  BY <1>2 DEF WithinStep, Scan, ParseFails, Begin, BeginFails, TimeoutsFail, ExecFails, Commit,
      CommitFails, Rollback, LoseSession, AnswerLost, dbVars, Err

LEMMA RecordReports ==
    ASSUME FileInv, TxInv, OpenInv, ReportsInv, Record
    PROVE  ReportsInv'
<1>0. /\ at \in Nat /\ at \in 1..Len(batch) /\ content = batch[at] /\ failed \in BOOLEAN
      /\ UNCHANGED <<batch, failed>> /\ step = "record"
      /\ session \in {"idle", "open", "aborted", "lost"}
      /\ reported' = IF failed THEN reported ELSE reported \cup {at}
  BY BatchTypes DEF FileInv, RunInv, Record
<1>1. /\ committed \subseteq committed' /\ session' = session
      /\ session = "idle" => Row(at, IF failed THEN "failed" ELSE "success") \in committed'
  BY RecordHolds
<1> SUFFICES ASSUME session # "lost"
             PROVE  /\ \A i \in reported' : ClosedTo(i) => Row(i, "success") \in committed'
                    /\ step' = "end" /\ failed = TRUE
                       /\ (\A j \in 1..at' : Told(batch[j]) /\ ~Uses(batch[j], "BEGIN"))
                           => Row(at', "failed") \in committed'
  BY <1>0, <1>1 DEF ReportsInv, ClosedTo
<1>2. ASSUME NEW i \in reported', ClosedTo(i) PROVE Row(i, "success") \in committed'
  <2>1. CASE i \in reported
    BY <1>1, <1>2, <2>1 DEF ReportsInv
  <2>2. CASE i \notin reported
    <3>1. i = at /\ failed = FALSE
      BY <1>0, <1>2, <2>2
    <3>2. Told(content) /\ ~LeavesOpen(content) /\ ClosedTo(at - 1)
      <4>1. at \in 1..at /\ 1..(at - 1) \subseteq 1..at
        BY <1>0
      <4> QED
        BY <1>0, <1>2, <3>1, <4>1 DEF ClosedTo
    <3>3. session = "idle"
      BY <1>0, <3>1, <3>2 DEF OpenInv
    <3> QED
      BY <1>1, <3>1, <3>3
  <2> QED
    BY <2>1, <2>2
<1>3. ASSUME step' = "end", failed = TRUE, \A j \in 1..at' : Told(batch[j]) /\ ~Uses(batch[j], "BEGIN")
      PROVE  Row(at', "failed") \in committed'
  <2>1. at' = at
    BY <1>3 DEF Record
  <2>2. \A j \in 1..at : Told(batch[j]) /\ ~Uses(batch[j], "BEGIN") /\ ~LeavesOpen(batch[j])
    BY <1>3, <2>1 DEF LeavesOpen, Uses
  <2>3. Told(content) /\ ~Uses(content, "BEGIN") /\ ClosedTo(at - 1)
    <3>1. at \in 1..at /\ 1..(at - 1) \subseteq 1..at
      BY <1>0
    <3> QED
      BY <1>0, <2>2, <3>1 DEF ClosedTo
  <2>4. session = "idle"
    BY <1>0, <1>3, <2>3 DEF OpenInv
  <2> QED
    BY <1>1, <1>3, <2>1, <2>4
<1> QED
  BY <1>2, <1>3

LEMMA ReportsStep ==
    FileInv /\ SplitInv /\ TxInv /\ OpenInv /\ ReportsInv /\ [Next]_vars => ReportsInv'
<1> SUFFICES ASSUME FileInv, SplitInv, TxInv, OpenInv, ReportsInv, [Next]_vars PROVE ReportsInv'
  OBVIOUS
<1>1. CASE WithinStep
  <2>1. Within /\ MovesOne /\ (session' # "lost" => session # "lost")
    BY <1>1, StaysWithin, MovesWithin, LostForGood
  <2>2. \A i : Row(i, "success") \in committed => Row(i, "success") \in committed'
    BY <2>1, RowsWithin
  <2> QED
    BY <2>1, <2>2 DEF ReportsInv, Within, ClosedTo
<1>2. CASE Record
  BY <1>2, RecordReports
<1>3. CASE Close
  BY <1>3 DEF Close, Drop, ReportsInv
<1>4. CASE UNCHANGED vars
  BY <1>4 DEF vars, dbVars, runVars, ReportsInv, ClosedTo
<1> QED
  BY <1>1, <1>2, <1>3, <1>4 DEF Next, Finished, WithinStep

-----------------------------------------------------------------------------
(* The whole of it *)

HistoryInv ==
    /\ NoneEmpty /\ TxInv /\ ItemsInv /\ CountInv /\ PlainInv /\ OpenInv
    /\ RowsInv /\ ReportsInv

LEMMA HistoryInvariance == Spec => []HistoryInv
<1>1. Init => HistoryInv
  <2> SUFFICES ASSUME Init PROVE HistoryInv
    OBVIOUS
  <2>1. /\ statements = <<>> /\ step = "parse" /\ inTx = FALSE /\ failed = FALSE /\ session = "idle"
        /\ committed = {} /\ pending = {} /\ Held = {} /\ reported = {}
    BY DEF Init, Unread, Held
  <2>2. TxInv
    BY <2>1 DEF TxInv
  <2>7. NoneEmpty
    <3>1. DOMAIN <<>> = {}
      OBVIOUS
    <3> QED
      BY <2>1, <3>1 DEF NoneEmpty
  <2>3. ItemsInv
    BY <2>1 DEF ItemsInv, There
  <2>4. CountInv /\ PlainInv /\ OpenInv
    BY <2>1 DEF CountInv, PlainInv, OpenInv
  <2>5. RowsInv
    BY <2>1 DEF RowsInv, RowInv, There
  <2>6. ReportsInv
    BY <2>1 DEF ReportsInv
  <2> QED
    BY <2>2, <2>3, <2>4, <2>5, <2>6, <2>7 DEF HistoryInv
<1>2. FileInv /\ SplitInv /\ HistoryInv /\ [Next]_vars => HistoryInv'
  BY NoneEmptyStep, TxStep, ItemsStep, CountStep, PlainStep, OpenStep, RowsStep, ReportsStep
     DEF HistoryInv
<1> QED
  BY <1>1, <1>2, FileInvariance, SplitInvariance, PTL DEF Spec

-----------------------------------------------------------------------------
(* The theorems *)

\* The scanner is inside a dollar quote or a block comment just when its stack,
\* or its depth, says so; outside a transaction the session keeps nothing back
\* (parser.go:48-60, engine.go:856-895).
THEOREM FileTypes == Spec => []TypeOK
<1>1. FileInv => TypeOK
  BY BatchTypes DEF FileInv, ScanInv, PosInv, StackInv, DepthInv, RunInv, VerdictInv, TypeOK
<1> QED
  BY <1>1, FileInvariance, PTL

\* A file has a success row only if apply calls it applied, a failure row only if
\* apply ends because of it, and never both (engine.go:586, :592, :816, :823).
RowsNeverContradict ==
    \A i \in 1..Len(batch) :
        /\ Row(i, "success") \in committed => i \in reported
        /\ Row(i, "failed") \in committed => i = at /\ failed /\ Row(i, "success") \notin committed

\* RowsNeverContradict holds of any files, whatever transactions they drive
\* themselves, whatever fails and whenever the session is lost.
THEOREM VerdictsAgree == Spec => []RowsNeverContradict
<1>1. FileInv => RowsNeverContradict
  BY DEF FileInv, VerdictInv, RowsNeverContradict
<1> QED
  BY <1>1, FileInvariance, PTL

\* SplitIsFaithful holds of any text of any lexemes, however long, with any tags
\* and any words: by induction over the lexemes read, the statements cut so far
\* and the one being read hold, command for command, what has been read of the
\* file (parser.go:64).
THEOREM SplitsFaithfully == Spec => []SplitIsFaithful
<1>1. SplitInv => SplitIsFaithful
  BY DEF SplitInv, SyncInv, Split, SplitIsFaithful, Meant, SentOf, WellSplit, WellSent
<1> QED
  BY <1>1, SplitInvariance, PTL

\* RowsAreTrue holds of any files, whatever fails and whenever the session is
\* lost: while a file runs its effects are those of the statements it has done,
\* and a row, once written, is kept or lost together with them
\* (engine.go:594-599, :874-894).
THEOREM HistoryIsTrue == Spec => []RowsAreTrue
<1>1. FileInv /\ HistoryInv => RowsAreTrue
  <2> SUFFICES ASSUME FileInv, HistoryInv, NEW i \in DOMAIN batch, Told(batch[i])
               PROVE  LET there == {item \in committed : item[1] = "effect" /\ item[2] = i} IN
                      /\ Row(i, "success") \in committed /\ ~Uses(batch[i], "ROLLBACK") =>
                            Cardinality(there) = Cardinality(Effects(batch[i]))
                      /\ Row(i, "failed") \in committed /\ Plain(batch[i]) => there = {}
    BY DEF RowsAreTrue
  <2>1. i \in 1..Len(batch)
    BY BatchTypes DEF FileInv
  <2>2. RowInv(i)
    BY <2>1 DEF HistoryInv, RowsInv
  <2>3. There(i, pending) = {} => There(i, Held) = There(i, committed)
    BY DEF There, Held
  <2>4. There(i, committed) \subseteq There(i, Held)
    BY DEF There, Held
  <2>5. \A o : Row(i, o) \in committed => Row(i, o) \in Held
    BY DEF Held
  <2> QED
    BY <2>2, <2>3, <2>4, <2>5 DEF RowInv, There
<1> QED
  BY <1>1, FileInvariance, HistoryInvariance, PTL

\* ReportsAreRecorded holds of any files: a transaction open in the session is
\* one that a file began, so a row that a file or its predecessors could not take
\* with them is committed as it is written (engine.go:586, :592, :816, :823).
THEOREM ReportsReachHistory == Spec => []ReportsAreRecorded
<1>1. FileInv /\ HistoryInv => ReportsAreRecorded
  BY DEF FileInv, RunInv, HistoryInv, ReportsInv, ReportsAreRecorded, ClosedTo
<1> QED
  BY <1>1, FileInvariance, HistoryInvariance, PTL
=============================================================================
