---------------------------- MODULE M8FileNames ----------------------------
(***************************************************************************)
(* internal/dump/filenames.go: the file that each function, procedure and  *)
(* view is dumped to.                                                      *)
(*                                                                         *)
(* A file name is a sequence of parts, which "__" separates: a base is one *)
(* part, or more when the catalog's names hold the separator themselves.   *)
(* A part is a tuple, of a word, or of what a hash is computed from.       *)
(***************************************************************************)
EXTENDS Naturals, Sequences, FiniteSets, SequencesExt

CONSTANTS
    Routine,             \* the functions, procedures and views of the catalog
    Part,                \* what names are made of, hashes aside
    Base,                \* BaseFileName of each
    Slug,                \* argSlug of their arguments
    Folded               \* a part in lower case

\* objectHash, which no two objects, and no two rounds, share.
Hash(o, round) == <<"hash", o, round>>

\* Nothing in the catalog is named as a hash.
ASSUME FileNamesAssumption ==
    /\ Base \in [Routine -> Seq(Part)] /\ Slug \in [Routine -> Part]
    /\ DOMAIN Folded \subseteq Part /\ Folded \in [DOMAIN Folded -> Part]
    /\ \A o \in Routine, round \in 0..3 : Hash(o, round) \notin Part

Fold(name) == [i \in DOMAIN name |-> IF name[i] \in DOMAIN Folded THEN Folded[name[i]] ELSE name[i]]

\* Faulty: an overload is told from the others by its place among them.
InOrder == SetToSeq(Routine)
NameByOrdinal(group, o) ==
    IF group = {o} THEN Base[o]
    ELSE LET before == {i \in DOMAIN InOrder : InOrder[i] \in group}
             own    == CHOOSE i \in before : InOrder[i] = o
         IN  Append(Base[o], <<"ordinal", Cardinality({i \in before : i <= own})>>)

\* The name of an object in the group that shares its base.
NameIn(group, o) ==
    IF group = {o} THEN Base[o]
    ELSE IF \E q \in group \ {o} : Slug[q] = Slug[o]
    THEN Base[o] \o <<Slug[o], Hash(o, 0)>>
    ELSE Append(Base[o], Slug[o])

\* One round of deduplicate: whatever shares a path gets a hash.
Apart(names, round) ==
    [o \in DOMAIN names |->
        IF \E q \in DOMAIN names \ {o} : Fold(names[q]) = Fold(names[o])
        THEN Append(names[o], Hash(o, round))
        ELSE names[o]]

Collide(names) == \E o, q \in DOMAIN names : o # q /\ Fold(names[q]) = Fold(names[o])

\* Faulty: names are only made distinct among overloads.
LeftAlone(names, round) == names

\* A round that finds nothing to tell apart is the last.
Round(names, round) == IF Collide(names) THEN Apart(names, round) ELSE names

\* deduplicate: there are at most four.
Deduplicate(names) == Round(Round(Round(Round(names, 0), 1), 2), 3)

ResolveLogicFileNames(objects) ==
    Deduplicate([o \in objects |-> NameIn({q \in objects : Base[q] = Base[o]}, o)])
=============================================================================
