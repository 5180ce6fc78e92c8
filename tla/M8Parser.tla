------------------------------ MODULE M8Parser ------------------------------
(***************************************************************************)
(* internal/parser/parser.go: how a migration file is cut into statements, *)
(* and what tells m8 that a file cannot run inside a transaction.          *)
(*                                                                         *)
(* A file is a sequence of lexemes, the shortest pieces of text the scanner *)
(* tells apart; a run of ordinary words is one.  Blanks other than line    *)
(* ends, line numbers and the wording of warnings are left out, and so are *)
(* the directives that do not decide how a file runs.                      *)
(***************************************************************************)
EXTENDS Naturals, Sequences, SequencesExt

CONSTANT Tags            \* dollar quotes, told apart by the tag between the signs
CONSTANT Words           \* ordinary text

NL == "line end"
Directive == "-- m8:no-transaction"
Concurrently == "CREATE INDEX CONCURRENTLY"
Control == {"BEGIN", "COMMIT", "ROLLBACK"}
Comment == {"--", Directive}
Signs == {NL, Concurrently, ";", "'", "\"", "/*", "*/", "\\"}
Lexeme == Tags \cup Words \cup Control \cup Comment \cup Signs

ASSUME ParserAssumption == Tags \cap (Words \cup Control \cup Comment \cup Signs) = {}

Modes == {"normal", "lineComment", "blockComment", "literal", "dollarQuote", "identifier"}

VARIABLES
    content,             \* what is parsed
    pos,                 \* the next lexeme
    state,               \* the scanner's mode
    dollarStack,         \* the tags of the dollar quotes around pos, outermost first
    blockDepth,
    lineStart,
    current,             \* the statement being read
    statements,          \* those read
    parsed               \* "no", "yes" or "error"

scannerVars == <<state, dollarStack, blockDepth>>
parserVars == <<content, pos, state, dollarStack, blockDepth, lineStart, current, statements, parsed>>

\* Nothing of content is read yet.
Unread ==
    /\ pos = 1
    /\ state = "normal"
    /\ dollarStack = <<>>
    /\ blockDepth = 0
    /\ lineStart = TRUE
    /\ current = <<>>
    /\ statements = <<>>
    /\ parsed = "no"

\* The scanner turns to another file.
Reread(c) ==
    /\ content' = c
    /\ pos' = 1
    /\ state' = "normal"
    /\ dollarStack' = <<>>
    /\ blockDepth' = 0
    /\ lineStart' = TRUE
    /\ current' = <<>>
    /\ statements' = <<>>
    /\ parsed' = "no"

-----------------------------------------------------------------------------
(* The text of a statement *)

IsBreak(l) == l = NL

\* strings.TrimSpace
Trim(s) ==
    LET kept == {i \in DOMAIN s : ~IsBreak(s[i])}
    IN  IF kept = {} THEN <<>>
        ELSE SubSeq(s, CHOOSE i \in kept : \A j \in kept : i <= j,
                       CHOOSE i \in kept : \A j \in kept : i >= j)

\* Some line is neither blank nor begins with a comment.
HasContent(s) ==
    \E i \in DOMAIN s :
        /\ ~IsBreak(s[i])
        /\ s[i] \notin Comment
        /\ i = 1 \/ IsBreak(s[i - 1])

\* The statement that ends here, if it is more than comments.
Emit(s) == IF HasContent(Trim(s)) THEN Append(statements, Trim(s)) ELSE statements

-----------------------------------------------------------------------------
(* The scanner *)

More == parsed = "no" /\ pos <= Len(content)
Here == content[pos]
Peek == IF pos < Len(content) THEN content[pos + 1] ELSE "nothing"

\* n lexemes are consumed.
Advance(n) ==
    /\ pos' = pos + n
    /\ lineStart' = IsBreak(content[pos + n - 1])
    /\ UNCHANGED <<content, parsed>>

\* They become part of the statement.
Keep(n) ==
    /\ Advance(n)
    /\ current' = current \o SubSeq(content, pos, pos + n - 1)
    /\ UNCHANGED statements

\* A backslash at the start of a line: psql's, and dropped up to the line's end.
ScanPsqlMetaCommand ==
    /\ More /\ state = "normal" /\ lineStart /\ Here = "\\"
    /\ \E e \in pos..Len(content) :
        /\ IsBreak(content[e]) \/ e = Len(content)
        /\ \A i \in pos..(e - 1) : ~IsBreak(content[i])
        /\ pos' = e + 1
    /\ UNCHANGED <<content, scannerVars, lineStart, current, statements, parsed>>

Terminate ==
    /\ More /\ state = "normal" /\ Here = ";"
    /\ Advance(1)
    /\ current' = <<>>
    /\ statements' = Emit(current)
    /\ UNCHANGED scannerVars

OpenComment ==
    /\ More /\ state = "normal" /\ Here \in Comment \cup {"/*"}
    /\ Keep(1)
    /\ state' = IF Here = "/*" THEN "blockComment" ELSE "lineComment"
    /\ blockDepth' = IF Here = "/*" THEN 1 ELSE blockDepth
    /\ UNCHANGED dollarStack

OpenQuote ==
    /\ More /\ state = "normal" /\ Here \in {"'", "\""} \cup Tags
    /\ Keep(1)
    /\ state' = CASE Here = "'" -> "literal"
                  [] Here = "\"" -> "identifier"
                  [] OTHER -> "dollarQuote"
    /\ dollarStack' = IF Here \in Tags THEN <<Here>> ELSE dollarStack
    /\ UNCHANGED blockDepth

\* A line end between two statements is skipped.
ScanText ==
    /\ More /\ state = "normal"
    /\ Here \notin Comment \cup Tags \cup {";", "/*", "'", "\""}
    /\ ~(lineStart /\ Here = "\\")
    /\ IF current = <<>> /\ IsBreak(Here)
       THEN Advance(1) /\ UNCHANGED <<current, statements>>
       ELSE Keep(1)
    /\ UNCHANGED scannerVars

ScanSingleLineComment ==
    /\ More /\ state = "lineComment"
    /\ Keep(1)
    /\ state' = IF IsBreak(Here) THEN "normal" ELSE state
    /\ UNCHANGED <<dollarStack, blockDepth>>

ScanBlockComment ==
    /\ More /\ state = "blockComment"
    /\ Keep(1)
    /\ blockDepth' = CASE Here = "/*" -> blockDepth + 1
                       [] Here = "*/" -> blockDepth - 1
                       [] OTHER -> blockDepth
    /\ state' = IF blockDepth' = 0 THEN "normal" ELSE state
    /\ UNCHANGED dollarStack

\* A doubled quote is part of the text.
ScanQuoted(mode, quote) ==
    /\ More /\ state = mode
    /\ IF Here = quote /\ Peek = quote
       THEN Keep(2) /\ UNCHANGED state
       ELSE Keep(1) /\ state' = IF Here = quote THEN "normal" ELSE state
    /\ UNCHANGED <<dollarStack, blockDepth>>

ScanStringLiteral == ScanQuoted("literal", "'")
ScanIdentifierQuote == ScanQuoted("identifier", "\"")

\* Faulty: any tag closes the quote.
ScanDollarQuoteAny ==
    /\ More /\ state = "dollarQuote"
    /\ Keep(1)
    /\ dollarStack' = IF Here \in Tags THEN <<>> ELSE dollarStack
    /\ state' = IF dollarStack' = <<>> THEN "normal" ELSE state
    /\ UNCHANGED blockDepth

\* The innermost tag closes its quote, any other opens one more.
ScanDollarQuote ==
    /\ More /\ state = "dollarQuote"
    /\ Keep(1)
    /\ dollarStack' = CASE Here \notin Tags -> dollarStack
                        [] Here = Last(dollarStack) -> Front(dollarStack)
                        [] OTHER -> Append(dollarStack, Here)
    /\ state' = IF dollarStack' = <<>> THEN "normal" ELSE state
    /\ UNCHANGED blockDepth

\* The end of the file; a quote or a block comment left open is an error.
EndOfFile ==
    /\ parsed = "no" /\ pos > Len(content)
    /\ IF state \in {"normal", "lineComment"}
       THEN parsed' = "yes" /\ statements' = Emit(current) /\ current' = <<>>
       ELSE parsed' = "error" /\ UNCHANGED <<statements, current>>
    /\ UNCHANGED <<content, pos, scannerVars, lineStart>>

Parse ==
    \/ ScanPsqlMetaCommand \/ Terminate \/ OpenComment \/ OpenQuote \/ ScanText
    \/ ScanSingleLineComment \/ ScanBlockComment
    \/ ScanStringLiteral \/ ScanIdentifierQuote \/ ScanDollarQuote
    \/ EndOfFile

-----------------------------------------------------------------------------
(* What is read off the file and its statements *)

\* A line that is the directive, wherever it stands.
NoTransaction(c) ==
    \E i \in DOMAIN c :
        /\ c[i] = Directive
        /\ i = 1 \/ IsBreak(c[i - 1])
        /\ i = Len(c) \/ IsBreak(c[i + 1])

\* A statement whose text begins so.
DetectConcurrently(ss) == \E i \in DOMAIN ss : Head(ss[i]) = Concurrently

\* A statement whose text is that one word.
DetectExplicitTxControl(ss) == \E i \in DOMAIN ss : \E w \in Control : ss[i] = <<w>>

-----------------------------------------------------------------------------
(* How a text is meant, as far as m8 relies on it.  PostgreSQL: comments   *)
(* are blanks, block comments nest, a doubled quote is part of the text,    *)
(* and a dollar quote ends at the next use of its own tag.  psql, for which *)
(* a file may have been written: a backslash that begins a line outside any *)
(* quote and comment takes the line out of the text.                       *)

\* "inner": the tags of others met in a dollar quote and not met again.
Beginning(psql) ==
    [psql |-> psql, fresh |-> TRUE, mode |-> "normal", tag |-> "none", depth |-> 0,
     command |-> <<>>, commands |-> <<>>, inner |-> <<>>, paired |-> TRUE]

Taken(s, l) == [s EXCEPT !.command = Append(@, l)]

Ended(s) ==
    [s EXCEPT !.command = <<>>,
              !.commands = IF s.command = <<>> THEN @ ELSE Append(@, s.command)]

ReadNormal(s, l) ==
    CASE l = ";" -> Ended(s)
      [] l = NL -> s
      [] l = "\\" /\ s.psql /\ s.fresh -> [s EXCEPT !.mode = "lineComment"]
      [] l \in Comment -> [s EXCEPT !.mode = "lineComment"]
      [] l = "/*" -> [s EXCEPT !.mode = "blockComment", !.depth = 1]
      [] l = "'" -> [Taken(s, l) EXCEPT !.mode = "literal"]
      [] l = "\"" -> [Taken(s, l) EXCEPT !.mode = "identifier"]
      [] l \in Tags -> [Taken(s, l) EXCEPT !.mode = "dollarQuote", !.tag = l]
      [] OTHER -> Taken(s, l)

ReadBlock(s, l) ==
    LET d == CASE l = "/*" -> s.depth + 1 [] l = "*/" -> s.depth - 1 [] OTHER -> s.depth
    IN  [s EXCEPT !.depth = d, !.mode = IF d = 0 THEN "normal" ELSE @]

ReadQuoted(s, l, quote) == [Taken(s, l) EXCEPT !.mode = IF l = quote THEN "normal" ELSE @]

ReadDollar(s, l) ==
    CASE l = s.tag -> [Taken(s, l) EXCEPT !.mode = "normal", !.inner = <<>>,
                                          !.paired = @ /\ s.inner = <<>>]
      [] l \in Tags \ {s.tag} ->
             [Taken(s, l) EXCEPT !.inner = IF @ # <<>> /\ Last(@) = l THEN Front(@) ELSE Append(@, l)]
      [] OTHER -> Taken(s, l)

ReadNext(s, l) ==
    LET read == CASE s.mode = "normal" -> ReadNormal(s, l)
                  [] s.mode = "lineComment" -> IF l = NL THEN [s EXCEPT !.mode = "normal"] ELSE s
                  [] s.mode = "blockComment" -> ReadBlock(s, l)
                  [] s.mode = "literal" -> ReadQuoted(s, l, "'")
                  [] s.mode = "identifier" -> ReadQuoted(s, l, "\"")
                  [] s.mode = "dollarQuote" -> ReadDollar(s, l)
    IN  [read EXCEPT !.fresh = l = NL]

\* What was written, and what the server is sent.
AsWritten(c) == FoldLeft(ReadNext, Beginning(TRUE), c)
AsSent(c) == FoldLeft(ReadNext, Beginning(FALSE), c)

\* The commands read, without their comments.
CommandsOf(reading) == Ended(reading).commands

\* The text ends outside any quote and block comment.
Closed(reading) == reading.mode \in {"normal", "lineComment"}

\* The tags inside a dollar quote come in pairs, as if they were quotes too.
Paired(reading) == reading.paired /\ reading.inner = <<>>
=============================================================================
