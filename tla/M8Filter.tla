------------------------------ MODULE M8Filter ------------------------------
(***************************************************************************)
(* The text filter of internal/schema/differ.go: which statements of a     *)
(* plan are kept.  A statement is [verb, of], what it does to an object;   *)
(* all that the filter sees of it is its text, here the identifiers in it. *)
(* Which class a statement acts on is read off its object here.  The code  *)
(* asks its text: for triggers and policies, whether it begins with that   *)
(* command; for row level security and replica identity (differ.go:820,    *)
(* 825), whether the words occur anywhere, so that a statement of another  *)
(* kind that carries them in a comment or a literal is filtered as well.   *)
(***************************************************************************)
EXTENDS FiniteSets

CONSTANTS
    Object,     \* what the schema of a folder holds, or may come to hold
    Kind,       \* of an object: one of Kinds
    NameOf,     \* its name, unless it has none
    On,         \* the table that it hangs off, that owns it, or else itself
    Mentions,   \* other identifiers in its statements, as types of arguments
    Needs,      \* the objects that it cannot be without
    InternalLike   \* names of schemas that end in _m8

Attached == {"trigger", "policy", "row level security", "replica identity"}
Kinds == {"table", "index", "column", "sequence", "routine", "grant"} \cup Attached
Verbs == {"create", "drop", "grant", "revoke"}

\* Only tables have something hanging off them, as a column must and a routine
\* cannot, and the relations of a schema are told apart by their names.
Relations == {o \in Object : Kind[o] \in {"table", "index", "sequence"}}

ASSUME FilterAssumption ==
    /\ Kind \in [Object -> Kinds] /\ On \in [Object -> Object]
    /\ Needs \in [Object -> SUBSET Object]
    /\ \A o \in Object :
          On[o] # o => Kind[On[o]] = "table" /\ On[On[o]] = On[o] /\ Kind[o] # "routine"
    /\ \A o \in Object : Kind[o] = "column" => On[o] # o
    /\ \A o, q \in Relations : NameOf[o] = NameOf[q] => o = q

\* What the files of a folder say: the schema they are for, the objects that
\* they declare, those only named in a comment, and the objects, sequences
\* above all, that exist because of what is declared.
Named(files) == {o \in files.declared \cup files.commented : Kind[o] \in {"table", "index"}}
ExtractDefinedObjects(files) == {NameOf[o] : o \in Named(files)}

\* pg_depend: the sequences behind a column of a table of the same schema.
OwnedSequences(live) == {o \in live : Kind[o] = "sequence" /\ On[o] # o}

\* Faulty: a sequence is adopted because its name begins like that of a table.
AdoptAll(files, live) == ExtractDefinedObjects(files) \cup {NameOf[o] : o \in OwnedSequences(live)}

DefinedObjects(files, live) ==
    LET defined == ExtractDefinedObjects(files)
    IN  defined \cup {NameOf[o] : o \in {o \in OwnedSequences(live) : NameOf[On[o]] \in defined}}

\* A column, a privilege, and what is attached to a table, name the table.
ThroughTable == Attached \cup {"column", "grant"}
Words(stmt, files) ==
    {files.schema, NameOf[stmt.of]} \cup Mentions[stmt.of]
    \cup (IF Kind[stmt.of] \in ThroughTable THEN {NameOf[On[stmt.of]]} ELSE {})

\* "_m8" in quotes, or _m8 and a dot: CREATE INDEX does not quote the schema.
Internal(stmt, files) ==
    \/ "_m8" \in Words(stmt, files)
    \/ Kind[stmt.of] = "index" /\ stmt.verb = "create" /\ files.schema \in InternalLike

\* Classes of attached objects of which the files declare none.
UndeclaredAttachedClasses(files) ==
    {c \in Attached : ~ \E o \in files.declared \cup files.commented : Kind[o] = c}

\* Faulty: the name test for every statement, also for a CREATE.
NameTestForAll(stmt, files, live) ==
    stmt.verb \notin {"grant", "revoke"} /\ Words(stmt, files) \cap DefinedObjects(files, live) # {}

StatementTargetsDefinedObject(stmt, files, live) ==
    /\ stmt.verb \notin {"grant", "revoke"}
    /\ \/ stmt.verb = "create"
       \/ Words(stmt, files) \cap DefinedObjects(files, live) # {}

Kept(stmt, files, live, strict) ==
    /\ ~Internal(stmt, files)
    /\ ~strict =>
          /\ Kind[stmt.of] \notin UndeclaredAttachedClasses(files)
          /\ StatementTargetsDefinedObject(stmt, files, live)

\* The difference as pg-schema-diff states it: a table comes with its columns,
\* and goes with all that hangs off it; a sequence may have its own statement.
Difference(files, live) ==
    LET new  == {o \in files.declared \ live : Kind[o] = "column" => On[o] \in live}
        gone == {o \in live \ files.declared : On[o] = o \/ On[o] \in files.declared \/ Kind[o] = "sequence"}
    IN  {[verb |-> IF Kind[o] = "grant" THEN "grant" ELSE "create", of |-> o] : o \in new}
        \cup {[verb |-> IF Kind[o] = "grant" THEN "revoke" ELSE "drop", of |-> o] : o \in gone}

Removes(stmt) == stmt.verb \in {"drop", "revoke"}

\* What goes with an object: what hangs off it; with a column, its indexes and
\* the sequences that it owns.
Dropped(o) ==
    {q \in Object : \/ q = o \/ On[q] = o
                    \/ Kind[o] = "column" /\ Kind[q] \in {"index", "sequence"} /\ o \in Needs[q]}

\* It makes what something needs before it, and removes it after.
Earlier(a, b) ==
    IF Removes(a)
    THEN /\ Removes(b) /\ b # a
         /\ \E q \in Dropped(a.of) : (Needs[q] \cup {On[q]}) \cap Dropped(b.of) # {}
    ELSE ~Removes(b) /\ a.of \in Needs[b.of]

\* What a statement leaves of the catalog.
Executed(stmt, files, live) ==
    IF Removes(stmt)
    THEN live \ Dropped(stmt.of)
    ELSE live \cup {stmt.of}
         \cup {o \in files.declared : Kind[o] = "column" /\ On[o] = stmt.of}

\* PostgreSQL drops nothing that another object needs, unless that goes with it.
Blockers(stmt, live) ==
    {o \in live \ Dropped(stmt.of) : Removes(stmt) /\ Needs[o] \cap Dropped(stmt.of) # {}}
=============================================================================
