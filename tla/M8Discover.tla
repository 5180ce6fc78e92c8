----------------------------- MODULE M8Discover -----------------------------
(***************************************************************************)
(* internal/migration/migration.go: which files of a migrations directory  *)
(* are migrations, of which type, and in which order they come.            *)
(*                                                                         *)
(* An entry of the directory is [folder, prefix, stamp, name, sql]: "top"  *)
(* is the directory itself, a prefix is that of the flat layout ("V", "S", *)
(* "R" or "none"), and a stamp is the digits and underscores before the    *)
(* double underscore, a character each, an underscore being 10, as it      *)
(* comes after every digit.  Names are compared by their rank, a number.   *)
(***************************************************************************)
EXTENDS Naturals, Sequences, SequencesExt, FiniteSets

Underscore == 10

\* The order in which Discover sorts, and Apply runs, the types.
Types == <<"ops", "schema", "logic", "permissions", "reference", "data">>
IsVersioned(type) == type \in {"ops", "data"}
TypeRank(type) == CHOOSE i \in DOMAIN Types : Types[i] = type

DirEntry ==
    [folder : {"top"} \cup Range(Types), prefix : {"none", "V", "S", "R"},
     stamp : Seq(0..Underscore), name : Nat, sql : BOOLEAN]

\* It may become a one-time migration, in one layout or the other.
OneTimeFile(e) == IsVersioned(e.folder) \/ (e.folder = "top" /\ e.prefix = "V")

\* A file whose name has the form that its folder asks for.
WellFormed(e) == e.sql /\ (IsVersioned(e.folder) => e.stamp # <<>>)

Migration(type, e) ==
    [type |-> type, version |-> IF IsVersioned(type) THEN e.stamp ELSE <<>>,
     name |-> e.name, entry |-> e]

\* The directories of the preferred layout are there.
FolderBased(dir) == \E e \in dir : e.folder # "top"

InFolders(dir) ==
    {Migration(e.folder, e) : e \in {e \in dir : e.folder # "top" /\ WellFormed(e)}}

\* Faulty: V__ files are data migrations.
LegacyAsData(e) ==
    CASE e.prefix = "V" -> "data" [] e.prefix = "S" -> "schema" [] e.prefix = "R" -> "logic"

\* V__, S__ and R__ files; R__ files are logic.
LegacyType(e) ==
    CASE e.prefix = "V" -> "ops" [] e.prefix = "S" -> "schema" [] e.prefix = "R" -> "logic"
Legacy(e) == e.sql /\ e.prefix # "none" /\ (e.prefix = "V" => e.stamp # <<>>)
Flat(dir) ==
    {Migration(LegacyType(e), e) : e \in {e \in dir : e.folder = "top" /\ Legacy(e)}}

\* Go's order of strings, byte by byte.
StringLess(v, w) ==
    \/ IsStrictPrefix(v, w)
    \/ \E i \in DOMAIN v \cap DOMAIN w :
          v[i] < w[i] /\ \A j \in 1..(i - 1) : v[j] = w[j]

\* Faulty: one-time migrations are sorted like the others.
LessByName(m, n) ==
    IF m.type # n.type THEN TypeRank(m.type) < TypeRank(n.type) ELSE m.name < n.name

\* The comparison handed to sort.Slice.
Less(m, n) ==
    IF m.type # n.type THEN TypeRank(m.type) < TypeRank(n.type)
    ELSE IF IsVersioned(m.type) THEN StringLess(m.version, n.version)
    ELSE m.name < n.name

\* Equal elements come in any order: the sort is not stable.
Sorted(s) == \A i, j \in DOMAIN s : i < j => ~Less(s[j], s[i])

Found(dir) == IF FolderBased(dir) THEN InFolders(dir) ELSE Flat(dir)

\* Every listing that Discover may return.
Discover(dir) == {s \in SetToSeqs(Found(dir)) : Sorted(s)}
=============================================================================
