----------------------------- MODULE M8History -----------------------------
(***************************************************************************)
(* The table _m8.history and the queries of internal/state/state.go.       *)
(*                                                                         *)
(* A history is the sequence of its rows in insertion order: id is a       *)
(* BIGSERIAL and applied_at defaults to now(), each row being inserted by  *)
(* an autocommitted statement of its own.  The columns no query of the     *)
(* engine decides on (execution_ms, applied_by, pg_schema) are left out.   *)
(***************************************************************************)
EXTENDS Naturals, Sequences

CONSTANTS
    File,       \* the migration files the directory may ever hold
    Checksum,   \* the contents a file may have, known by their SHA-256
    TypeOf,     \* the type of each file (the folder it lives in)
    Ordinal     \* a one-time file's version; for the others, the position
                \* of (PGSchema, Name) in the sorted listing

Types == {"ops", "schema", "logic", "permissions", "reference", "data"}

ASSUME FilesAssumption ==
    /\ TypeOf \in [File -> Types]
    /\ Ordinal \in [File -> Nat]

Files(t) == {f \in File : TypeOf[f] = t}

\* migration.IsVersioned: one-time and ordered by the filename timestamp.
IsVersioned(f) == TypeOf[f] \in {"ops", "data"}

OneTime == {f \in File : IsVersioned(f)}

\* NULL for the types that have no version (schema, logic, permissions).
VersionOf(f) == IF IsVersioned(f) THEN Ordinal[f] ELSE 0

HistoryRow == [version : Nat, name : File, type : Types,
               checksum : Checksum, success : BOOLEAN]

\* Faulty: success is never recorded.
NewRowUnflagged(f, c, ok) ==
    [version |-> VersionOf(f), name |-> f, type |-> TypeOf[f],
     checksum |-> c, success |-> FALSE]

NewRow(f, c, ok) == [version |-> VersionOf(f), name |-> f, type |-> TypeOf[f],
                     checksum |-> c, success |-> ok]

Succeeded(h, t) == {i \in DOMAIN h : h[i].type = t /\ h[i].success}

\* GetAppliedVersioned: the versions of a type that are recorded as applied.
AppliedVersions(h, t) == {h[i].version : i \in Succeeded(h, t)}

\* Faulty: whether any successful row, however old, has that checksum.
IsOnRecord(h, t, n, c) ==
    \E i \in Succeeded(h, t) : h[i].name = n /\ h[i].checksum = c

\* GetLatestByType: SELECT DISTINCT ON (name) ... ORDER BY applied_at DESC, as
\* the question its callers ask of it: is c the checksum of the newest
\* successful row of that type and name?
IsLatest(h, t, n, c) ==
    \E i \in Succeeded(h, t) :
        /\ h[i].name = n
        /\ h[i].checksum = c
        /\ \A j \in Succeeded(h, t) : h[j].name = n => j <= i

\* The partial unique indexes: one successful row per version, among the ops
\* rows and, separately, among the data rows.
Admits(h, row) ==
    row.success /\ row.type \in {"ops", "data"}
        => row.version \notin AppliedVersions(h, row.type)

\* RecordApplied and RecordBaseline: an INSERT, refused by a unique index.
Insert(h, row) == IF Admits(h, row) THEN Append(h, row) ELSE h

=============================================================================
