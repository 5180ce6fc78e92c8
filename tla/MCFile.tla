------------------------------- MODULE MCFile -------------------------------
(***************************************************************************)
(* M8File for TLC: every short text, and batches of longer ones.           *)
(***************************************************************************)
EXTENDS M8File

CONSTANT MaxLength       \* bounds the texts of which all are tried

Short == UNION {[1..n -> Lexeme] : n \in 1..MaxLength}

\* A command, one commented, one that must not run in a transaction; a
\* transaction begun and ended by the file, seen and unseen by m8.
Pieces == {<<"x", ";">>, <<"--", NL, Concurrently, "x", ";">>, <<Concurrently, "x", ";", NL>>,
           <<"BEGIN", ";">>, <<"COMMIT", ";">>, <<"--", "x", NL, "COMMIT", ";">>, <<"ROLLBACK", ";">>}

\* Quotes in quotes, doubled quotes, nested comments, a semicolon in each.
Literals == {<<"'", ";", "'", "'", "--", "'">>, <<"\"", "'", "\"", "\"", ";", "\"">>,
             <<"$a$", "'", ";", "$b$", ";", "$b$", "$a$">>, <<"/*", ";", "/*", "'", "*/", ";", "*/", "x">>,
             <<"$a$", "--", "$a$", NL, "\\", ";", NL>>, <<"$a$", NL, Directive, NL, "$a$">>}

Long == {FlattenSeq(s) : s \in UNION {[1..n -> Pieces] : n \in 1..3}}
        \cup {FlattenSeq(<<p, l, <<";">>, q>>) : p \in Pieces, q \in Pieces, l \in Literals}

\* The first file of two; what follows it.
Firsts == {FlattenSeq(s) : s \in UNION {[1..n -> Pieces] : n \in 1..2}} \cup {<<"'", "x">>}
Seconds == {<<"x", ";">>, <<Concurrently, "x", ";", "x">>, <<"x", ";", "ROLLBACK", ";">>,
            <<"x", ";", "x">>, <<"BEGIN", ";", "x", ";", "COMMIT">>, <<"$a$">>}

MCBatches == {<<c>> : c \in Short \cup Long} \cup {<<c, d>> : c \in Firsts, d \in Seconds}
=============================================================================
