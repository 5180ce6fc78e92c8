--------------------------- MODULE M8CommandProofs ---------------------------
(***************************************************************************)
(* What holds of a command for any flags, environment and file; of a dump  *)
(* for any routines, arguments and failures; of the one-time migrations in *)
(* any directory; and of the filter for any catalog and schema folder.     *)
(***************************************************************************)
EXTENDS M8Command, SequenceTheorems, FiniteSetTheorems, WellFoundedInduction, TLAPS

-----------------------------------------------------------------------------
(* File names *)

\* The names before deduplicate.
Raw(S) == [o \in S |-> NameIn({q \in S : Base[q] = Base[o]}, o)]

Distinct(paths) == \A o, q \in DOMAIN paths : o # q => Fold(paths[o]) # Fold(paths[q])

\* A name is made of parts, and of the hash of its own object.
OwnParts(name, o) == name \in Seq(Part \cup {Hash(o, 0)})

LEMMA RawNames == ASSUME NEW S \in SUBSET Routine, NEW o \in S PROVE OwnParts(Raw(S)[o], o)
<1> DEFINE group == {q \in S : Base[q] = Base[o]}
           all   == Part \cup {Hash(o, 0)}
<1>1. Base[o] \in Seq(Part) /\ Slug[o] \in Part
  BY FileNamesAssumption
<1>2. Base[o] \in Seq(all) /\ Slug[o] \in all /\ Hash(o, 0) \in all
  <2>1. \A i \in 1..Len(Base[o]) : Base[o][i] \in all
    BY <1>1
  <2> QED
    BY <1>1, <2>1
<1> HIDE DEF all
<1>3. Append(Base[o], Slug[o]) \in Seq(all)
  BY <1>2
<1>4. Base[o] \o <<Slug[o], Hash(o, 0)>> \in Seq(all)
  <2>1. <<Slug[o], Hash(o, 0)>> \in Seq(all)
    BY <1>2
  <2> QED
    BY <1>2, <2>1
<1>5. NameIn(group, o) \in Seq(all)
  BY <1>2, <1>3, <1>4 DEF NameIn
<1>6. Raw(S)[o] = NameIn(group, o)
  BY DEF Raw
<1> QED
  BY <1>5, <1>6 DEF OwnParts, all

\* Lower case keeps the length, and what is a hash, or is none.
LEMMA FoldKeepsHashes ==
    ASSUME NEW o \in Routine, NEW q \in Routine, NEW r \in 0..3,
           NEW name \in Seq(Part \cup {Hash(o, 0)}), NEW i \in 1..Len(name)
    PROVE  /\ name[i] = Hash(q, r) => Fold(name)[i] = Hash(q, r)
           /\ Fold(name)[i] = Hash(q, r) => name[i] = Hash(q, r)
<1>1. name[i] \in Part \cup {Hash(o, 0)} /\ i \in DOMAIN name
  OBVIOUS
<1>2. Hash(q, r) \notin Part /\ Hash(o, 0) \notin Part
  BY FileNamesAssumption
<1>3. Fold(name)[i] = IF name[i] \in DOMAIN Folded THEN Folded[name[i]] ELSE name[i]
  BY <1>1 DEF Fold
<1>4. name[i] \in DOMAIN Folded => Folded[name[i]] \in Part /\ name[i] \in Part
  BY FileNamesAssumption
<1> QED
  BY <1>1, <1>2, <1>3, <1>4

LEMMA FoldLength ==
    ASSUME NEW P, NEW name \in Seq(P)
    PROVE  DOMAIN Fold(name) = 1..Len(name)
BY DEF Fold

\* A part that is added is the last of the folded name.
LEMMA FoldAppend ==
    ASSUME NEW o \in Routine, NEW P, NEW name \in Seq(P), NEW r \in 0..3
    PROVE  LET longer == Append(name, Hash(o, r)) IN
           /\ DOMAIN Fold(longer) = 1..(Len(name) + 1)
           /\ Fold(longer)[Len(name) + 1] = Hash(o, r)
<1> DEFINE longer == Append(name, Hash(o, r))
<1>1. longer \in Seq(P \cup {Hash(o, r)}) /\ Len(longer) = Len(name) + 1
      /\ longer[Len(name) + 1] = Hash(o, r) /\ DOMAIN longer = 1..(Len(name) + 1)
  OBVIOUS
<1>2. Hash(o, r) \notin DOMAIN Folded
  BY FileNamesAssumption
<1>3. Len(name) + 1 \in DOMAIN longer
  BY <1>1
<1> HIDE DEF longer
<1>4. Fold(longer)[Len(name) + 1] = Hash(o, r) /\ DOMAIN Fold(longer) = 1..(Len(name) + 1)
  BY <1>1, <1>2, <1>3 DEF Fold
<1> QED
  BY <1>4 DEF longer

\* One round tells all routines apart: two that shared a path by their hashes,
\* and one that did from one that did not, as that name ends in another part.
LEMMA FirstRoundTellsApart ==
    ASSUME NEW S \in SUBSET Routine
    PROVE  DOMAIN Round(Raw(S), 0) = S /\ Distinct(Round(Raw(S), 0))
<1> DEFINE paths == Raw(S)
           after == Apart(paths, 0)
           Shares(o) == \E q \in S \ {o} : Fold(paths[q]) = Fold(paths[o])
<1>1. DOMAIN paths = S /\ DOMAIN after = S
  BY DEF Raw, Apart
<1>2. ASSUME ~Collide(paths) PROVE Distinct(paths) /\ Round(paths, 0) = paths
  BY <1>2 DEF Collide, Distinct, Round
<1>3. \A o \in S : paths[o] \in Seq(Part \cup {Hash(o, 0)})
  BY RawNames DEF OwnParts
<1>4. \A o \in S : after[o] = IF Shares(o) THEN Append(paths[o], Hash(o, 0)) ELSE paths[o]
  BY <1>1 DEF Apart
<1> HIDE DEF paths, after
<1>5. ASSUME NEW o \in S, NEW q \in S, o # q, Shares(o)
      PROVE  Fold(after[o]) # Fold(after[q])
  <2>1. Hash(o, 0) # Hash(q, 0)
    BY <1>5 DEF Hash
  <2>2. /\ DOMAIN Fold(after[o]) = 1..(Len(paths[o]) + 1)
        /\ Fold(after[o])[Len(paths[o]) + 1] = Hash(o, 0)
    <3>1. after[o] = Append(paths[o], Hash(o, 0)) /\ paths[o] \in Seq(Part \cup {Hash(o, 0)})
      BY <1>3, <1>4, <1>5
    <3> QED
      BY <3>1, FoldAppend
  <2>3. paths[o] \in Seq(Part \cup {Hash(o, 0)}) /\ Len(paths[o]) \in Nat
    BY <1>3
  <2>4. CASE Shares(q)
    <3>1. /\ DOMAIN Fold(after[q]) = 1..(Len(paths[q]) + 1)
          /\ Fold(after[q])[Len(paths[q]) + 1] = Hash(q, 0)
      <4>1. after[q] = Append(paths[q], Hash(q, 0)) /\ paths[q] \in Seq(Part \cup {Hash(q, 0)})
        BY <1>3, <1>4, <2>4
      <4> QED
        BY <4>1, FoldAppend
    <3>2. Len(paths[q]) \in Nat
      BY <1>3
    <3>3. 1..(Len(paths[o]) + 1) = 1..(Len(paths[q]) + 1) => Len(paths[o]) = Len(paths[q])
      BY <2>3, <3>2
    <3> QED
      BY <2>1, <2>2, <3>1, <3>3
  <2>5. CASE ~Shares(q)
    <3>1. after[q] = paths[q] /\ paths[q] \in Seq(Part \cup {Hash(q, 0)}) /\ Len(paths[q]) \in Nat
      BY <1>3, <1>4, <2>5
    <3>2. SUFFICES ASSUME Fold(after[o]) = Fold(after[q]) PROVE FALSE
      OBVIOUS
    <3>3. DOMAIN Fold(after[q]) = 1..Len(paths[q])
      BY <3>1, FoldLength
    <3> DEFINE last == Len(paths[o]) + 1
    <3>4. last \in 1..Len(paths[q])
      BY <2>2, <2>3, <3>2, <3>3
    <3>5. Fold(paths[q])[last] = Hash(o, 0)
      BY <2>2, <3>1, <3>2
    <3>6. paths[q][last] = Hash(o, 0)
      BY <3>1, <3>4, <3>5, FoldKeepsHashes
    <3>7. paths[q][last] \in Part \cup {Hash(q, 0)}
      BY <3>1, <3>4
    <3>8. Hash(o, 0) \notin Part
      BY FileNamesAssumption
    <3> QED
      BY <2>1, <3>6, <3>7, <3>8
  <2> QED
    BY <2>4, <2>5
<1>6. ASSUME NEW o \in S, NEW q \in S, o # q
      PROVE  Fold(after[o]) # Fold(after[q])
  <2>1. CASE Shares(o)
    BY <1>5, <1>6, <2>1
  <2>2. CASE Shares(q)
    BY <1>5, <1>6, <2>2
  <2>3. CASE ~Shares(o) /\ ~Shares(q)
    BY <1>4, <1>6, <2>3
  <2> QED
    BY <2>1, <2>2, <2>3
<1>7. Distinct(after)
  BY <1>1, <1>6 DEF Distinct
<1>8. Round(paths, 0) = IF Collide(paths) THEN after ELSE paths
  BY DEF Round, after
<1>9. DOMAIN Round(paths, 0) = S /\ Distinct(Round(paths, 0))
  BY <1>1, <1>2, <1>7, <1>8
<1> QED
  BY <1>9 DEF paths

\* Every routine has a path of its own, whatever the case of the letters
\* (ResolveLogicFileNames).
LEMMA PathsAreDistinct ==
    ASSUME NEW S \in SUBSET Routine
    PROVE  DOMAIN ResolveLogicFileNames(S) = S /\ Distinct(ResolveLogicFileNames(S))
<1>1. ASSUME NEW paths, Distinct(paths), NEW r PROVE Round(paths, r) = paths
  BY <1>1 DEF Round, Collide, Distinct
<1> DEFINE first == Round(Raw(S), 0)
<1>2. DOMAIN first = S /\ Distinct(first)
  BY FirstRoundTellsApart
<1> HIDE DEF first
<1>3. Round(Round(Round(first, 1), 2), 3) = first
  BY <1>1, <1>2
<1>4. ResolveLogicFileNames(S) = Round(Round(Round(first, 1), 2), 3)
  BY DEF ResolveLogicFileNames, Deduplicate, Raw, first
<1> QED
  BY <1>2, <1>3, <1>4

\* The routines of S that share o's base.
Namesakes(S, o) == {q \in S : Base[q] = Base[o]}
Shares(S, o) == \E q \in S \ {o} : Fold(Raw(S)[q]) = Fold(Raw(S)[o])

\* What a routine is called in the end: one round is all that ever takes effect.
LEMMA NamesAre ==
    ASSUME NEW S \in SUBSET Routine, NEW o \in S
    PROVE  ResolveLogicFileNames(S)[o] =
               IF Shares(S, o) THEN Append(Raw(S)[o], Hash(o, 0)) ELSE Raw(S)[o]
<1>1. ASSUME NEW paths, Distinct(paths), NEW r PROVE Round(paths, r) = paths
  BY <1>1 DEF Round, Collide, Distinct
<1> DEFINE first == Round(Raw(S), 0)
<1>2. Distinct(first)
  BY FirstRoundTellsApart
<1>3. first[o] = IF Shares(S, o) THEN Append(Raw(S)[o], Hash(o, 0)) ELSE Raw(S)[o]
  <2>1. DOMAIN Raw(S) = S
    BY DEF Raw
  <2>2. CASE Collide(Raw(S))
    BY <2>1, <2>2 DEF Round, Apart, Shares
  <2>3. CASE ~Collide(Raw(S))
    BY <2>1, <2>3 DEF Round, Collide, Shares
  <2> QED
    BY <2>2, <2>3
<1> HIDE DEF first
<1>4. Round(Round(Round(first, 1), 2), 3) = first
  BY <1>1, <1>2
<1>5. ResolveLogicFileNames(S) = Round(Round(Round(first, 1), 2), 3)
  BY DEF ResolveLogicFileNames, Deduplicate, Raw, first
<1> QED
  BY <1>3, <1>4, <1>5

\* A name with a hash in it is that of no other routine.
LEMMA HashesTell ==
    ASSUME NEW o \in Routine, NEW q \in Routine, o # q,
           NEW name, OwnParts(name, o), NEW other, OwnParts(other, q),
           NEW i \in 1..Len(name), name[i] = Hash(o, 0)
    PROVE  Fold(name) # Fold(other)
<1> SUFFICES ASSUME Fold(name) = Fold(other) PROVE FALSE
  OBVIOUS
<1>1. name \in Seq(Part \cup {Hash(o, 0)}) /\ other \in Seq(Part \cup {Hash(q, 0)})
  BY DEF OwnParts
<1>2. DOMAIN Fold(name) = 1..Len(name) /\ DOMAIN Fold(other) = 1..Len(other)
  BY <1>1, FoldLength
<1>3. Fold(name)[i] = Hash(o, 0)
  BY <1>1, FoldKeepsHashes
<1>4. i \in 1..Len(other) /\ Fold(other)[i] = Hash(o, 0)
  BY <1>2, <1>3
<1>5. other[i] = Hash(o, 0)
  BY <1>1, <1>4, FoldKeepsHashes
<1>6. other[i] \in Part \cup {Hash(q, 0)}
  BY <1>1, <1>4
<1>7. Hash(o, 0) \notin Part
  BY FileNamesAssumption
<1>8. Hash(o, 0) # Hash(q, 0)
  BY DEF Hash
<1> QED
  BY <1>5, <1>6, <1>7, <1>8

\* A name without one is the base, or the base and the arguments - which no
\* namesake has, and which nothing else is called.
LEMMA UnhashedNames ==
    ASSUME NEW S \in SUBSET Routine, NEW o \in S
    PROVE  LET name == ResolveLogicFileNames(S)[o] IN
           /\ OwnParts(name, o)
           /\ \/ \E i \in 1..Len(name) : name[i] = Hash(o, 0)
              \/ /\ ~Shares(S, o) /\ name = Raw(S)[o]
                 /\ \/ Namesakes(S, o) = {o} /\ Raw(S)[o] = Base[o]
                    \/ /\ Namesakes(S, o) # {o} /\ Raw(S)[o] = Append(Base[o], Slug[o])
                       /\ \A q \in Namesakes(S, o) \ {o} : Slug[q] # Slug[o]
<1> DEFINE name == ResolveLogicFileNames(S)[o]
           raw  == Raw(S)[o]
<1>1. raw \in Seq(Part \cup {Hash(o, 0)})
  BY RawNames DEF OwnParts
<1>2. Base[o] \in Seq(Part) /\ Slug[o] \in Part
  BY FileNamesAssumption
<1>3. raw = NameIn(Namesakes(S, o), o)
  BY DEF Raw, Namesakes
<1>4. name = IF Shares(S, o) THEN Append(raw, Hash(o, 0)) ELSE raw
  BY NamesAre
<1> HIDE DEF name, raw
<1>5. CASE Shares(S, o)
  <2>1. name = Append(raw, Hash(o, 0))
    BY <1>4, <1>5
  <2>2. name \in Seq(Part \cup {Hash(o, 0)}) /\ Len(name) = Len(raw) + 1 /\ Len(raw) \in Nat
    BY <1>1, <2>1
  <2>3. Len(name) \in 1..Len(name) /\ name[Len(name)] = Hash(o, 0)
    BY <1>1, <2>1, <2>2
  <2> QED
    BY <2>2, <2>3 DEF OwnParts, name
<1>6. CASE ~Shares(S, o)
  <2>1. name = raw
    BY <1>4, <1>6
  <2>2. CASE Namesakes(S, o) = {o}
    BY <1>1, <1>3, <1>6, <2>1, <2>2 DEF OwnParts, NameIn, name, raw
  <2>3. CASE Namesakes(S, o) # {o} /\ ~ \E q \in Namesakes(S, o) \ {o} : Slug[q] = Slug[o]
    BY <1>1, <1>3, <1>6, <2>1, <2>3 DEF OwnParts, NameIn, name, raw
  <2>4. CASE Namesakes(S, o) # {o} /\ \E q \in Namesakes(S, o) \ {o} : Slug[q] = Slug[o]
    <3>1. raw = Base[o] \o <<Slug[o], Hash(o, 0)>>
      BY <1>3, <2>4 DEF NameIn
    <3>2. Len(raw) = Len(Base[o]) + 2 /\ raw[Len(Base[o]) + 2] = Hash(o, 0) /\ Len(Base[o]) \in Nat
      BY <1>2, <3>1
    <3>3. \E i \in 1..Len(name) : name[i] = Hash(o, 0)
      BY <2>1, <3>2
    <3> QED
      BY <1>1, <2>1, <3>3 DEF OwnParts, name
  <2> QED
    BY <2>2, <2>3, <2>4
<1> QED
  BY <1>5, <1>6

\* Without one routine, at most, every path that stays in use stays its routine's
\* ("a removal can shorten a surviving name, never re-point an existing one").
LEMMA RemovalRepointsNothing ==
    ASSUME NEW S \in SUBSET Routine, NEW T \in SUBSET S, NEW x, S \subseteq T \cup {x},
           NEW o \in S, NEW q \in T, o # q
    PROVE  Fold(ResolveLogicFileNames(S)[o]) # Fold(ResolveLogicFileNames(T)[q])
<1> SUFFICES ASSUME Fold(ResolveLogicFileNames(S)[o]) = Fold(ResolveLogicFileNames(T)[q])
             PROVE  FALSE
  OBVIOUS
<1> DEFINE before == ResolveLogicFileNames(S)[o]
           after  == ResolveLogicFileNames(T)[q]
<1>1. OwnParts(before, o) /\ OwnParts(after, q) /\ T \in SUBSET Routine
  BY UnhashedNames
<1>2. /\ ~ \E i \in 1..Len(before) : before[i] = Hash(o, 0)
      /\ ~ \E i \in 1..Len(after) : after[i] = Hash(q, 0)
  <2> HIDE DEF before, after
  <2>1. Fold(before) = Fold(after)
    BY DEF before, after
  <2> QED
    BY <1>1, <2>1, HashesTell
<1>3. /\ ~Shares(S, o) /\ before = Raw(S)[o]
      /\ \/ Namesakes(S, o) = {o} /\ Raw(S)[o] = Base[o]
         \/ /\ Namesakes(S, o) # {o} /\ Raw(S)[o] = Append(Base[o], Slug[o])
            /\ \A r \in Namesakes(S, o) \ {o} : Slug[r] # Slug[o]
  BY <1>2, UnhashedNames
<1>4. /\ ~Shares(T, q) /\ after = Raw(T)[q]
      /\ \/ Namesakes(T, q) = {q} /\ Raw(T)[q] = Base[q]
         \/ /\ Namesakes(T, q) # {q} /\ Raw(T)[q] = Append(Base[q], Slug[q])
            /\ \A r \in Namesakes(T, q) \ {q} : Slug[r] # Slug[q]
  BY <1>1, <1>2, UnhashedNames
<1>5. Fold(Raw(S)[o]) = Fold(Raw(T)[q])
  BY <1>3, <1>4
<1>6. \A r \in T : Raw(S)[r] = NameIn(Namesakes(S, r), r) /\ Raw(T)[r] = NameIn(Namesakes(T, r), r)
  BY DEF Raw, Namesakes
<1>7. Raw(S)[q] # Raw(T)[q]
  BY <1>3, <1>5 DEF Shares
<1>8. o \in T => Raw(T)[o] # Raw(S)[o]
  BY <1>4, <1>5 DEF Shares
<1>9. \A r \in T : Base[r] # Base[x] => Namesakes(S, r) = Namesakes(T, r)
  BY DEF Namesakes
<1>10. Base[q] = Base[x] /\ (o \in T => Base[o] = Base[x])
  BY <1>6, <1>7, <1>8, <1>9
<1>11. CASE o \in T
  <2>1. o \in Namesakes(T, q) /\ q \in Namesakes(T, o) /\ q \in Namesakes(S, o)
    BY <1>10, <1>11 DEF Namesakes
  <2>2. Raw(S)[o] = Append(Base[o], Slug[o]) /\ \A r \in Namesakes(T, o) \ {o} : Slug[r] # Slug[o]
    BY <1>3, <2>1 DEF Namesakes
  <2>3. Raw(T)[o] = Append(Base[o], Slug[o])
    BY <1>6, <1>11, <2>1, <2>2 DEF NameIn
  <2> QED
    BY <1>8, <1>11, <2>2, <2>3
<1>12. CASE o \notin T
  <2>1. o = x /\ Base[o] = Base[q]
    BY <1>10, <1>12
  <2>2. q \in Namesakes(S, o) /\ o \in Namesakes(S, q)
    BY <2>1 DEF Namesakes
  <2>3. Raw(S)[o] = Append(Base[q], Slug[o]) /\ Slug[q] # Slug[o]
    BY <1>3, <2>1, <2>2
  <2>4. CASE Raw(T)[q] = Base[q]
    <3>1. Base[q] \in Seq(Part) /\ Slug[o] \in Part
      BY FileNamesAssumption
    <3>2. DOMAIN Fold(Base[q]) = 1..Len(Base[q])
      BY <3>1, FoldLength
    <3>3. Append(Base[q], Slug[o]) \in Seq(Part) /\ Len(Append(Base[q], Slug[o])) = Len(Base[q]) + 1
      BY <3>1
    <3>4. DOMAIN Fold(Append(Base[q], Slug[o])) = 1..(Len(Base[q]) + 1)
      BY <3>3, FoldLength
    <3>5. Len(Base[q]) \in Nat
      BY <3>1
    <3>6. 1..(Len(Base[q]) + 1) = 1..Len(Base[q])
      BY <1>5, <2>3, <2>4, <3>2, <3>4
    <3> QED
      BY <3>5, <3>6
  <2>5. CASE /\ Raw(T)[q] = Append(Base[q], Slug[q])
             /\ \A r \in Namesakes(T, q) \ {q} : Slug[r] # Slug[q]
    <3>1. \A r \in Namesakes(S, q) \ {q} : Slug[r] # Slug[q]
      BY <2>1, <2>3, <2>5 DEF Namesakes
    <3>2. Raw(S)[q] = Append(Base[q], Slug[q])
      BY <1>6, <2>2, <3>1 DEF NameIn
    <3> QED
      BY <1>7, <2>5, <3>2
  <2> QED
    BY <1>4, <2>4, <2>5
<1> QED
  BY <1>11, <1>12

-----------------------------------------------------------------------------
(* The invariant *)

\* A command that has its settings has them from what it was given, and diffs
\* in temporary databases where they allow it.
SettingsInv ==
    /\ given \in Givens
    /\ step \notin {"idle", "resolve"} => ~Unresolvable(given) /\ settings = Settings(given)
    /\ step \in {"discover"} \cup Phases =>
        ~RefusesToStart(settings) /\ temps = IF settings.shadow THEN "shadow" ELSE "target"

\* While a dump writes, what is no longer to be written is in its file.
WriteInv ==
    LET chosen == ResolveLogicFileNames(routines) IN
    /\ routines \subseteq Routine
    /\ step = "write" =>
        /\ DOMAIN names \subseteq routines
        /\ \A o \in DOMAIN names : names[o] = chosen[o]
        /\ \A o \in routines \ DOMAIN names :
            Fold(chosen[o]) \in DOMAIN written /\ written[Fold(chosen[o])] = o

CommandInv == SettingsInv /\ WriteInv

LEMMA SettingsStep == SettingsInv /\ [Next]_vars => SettingsInv'
<1> SUFFICES ASSUME SettingsInv, [Next]_vars PROVE SettingsInv'
  OBVIOUS
<1> USE DEF SettingsInv, Phases
<1>1. ASSUME NEW c, Invoke(c) PROVE SettingsInv'
  BY <1>1 DEF Invoke, world
<1>2. CASE ResolveSettings
  BY <1>2 DEF ResolveSettings, Leave, world
<1>3. CASE Connect
  BY <1>3 DEF Connect, Leave, world
<1>4. CASE DiscoverMigrations \/ SchemaDone
  BY <1>4 DEF DiscoverMigrations, SchemaDone, world
<1>5. CASE RunOneTime
  BY <1>5 DEF RunOneTime, Leave, world
<1>6. CASE OneTimeDone
  BY <1>6 DEF OneTimeDone, Leave, world
<1>7. CASE ExecStatement
  BY <1>7 DEF ExecStatement, Leave, world
<1>8. CASE ResolveNames
  BY <1>8 DEF ResolveNames
<1>9. CASE WriteFile \/ DumpDone
  BY <1>9 DEF WriteFile, DumpDone, Leave
<1>10. CASE AddFile \/ ConvertLayout \/ DropRoutine
  BY <1>10 DEF AddFile, ConvertLayout, DropRoutine
<1>11. CASE UNCHANGED vars
  BY <1>11 DEF vars
<1> QED
  BY <1>1, <1>2, <1>3, <1>4, <1>5, <1>6, <1>7, <1>8, <1>9, <1>10, <1>11 DEF Next

\* A file that is written replaces no other: its path is its routine's alone.
LEMMA WriteFileKeeps == WriteInv /\ WriteFile => WriteInv'
<1> SUFFICES ASSUME WriteInv, WriteFile PROVE WriteInv'
  OBVIOUS
<1> DEFINE chosen == ResolveLogicFileNames(routines)
<1>1. UNCHANGED routines /\ step = "write"
  BY DEF WriteFile
<1>2. CASE step' = "idle"
  BY <1>1, <1>2 DEF WriteInv
<1>3. CASE step' # "idle"
  <2>1. PICK o \in DOMAIN names :
            /\ written' = Replaced(Fold(names[o]), o)
            /\ names' = Restrict(names, DOMAIN names \ {o})
            /\ UNCHANGED step
    BY <1>3 DEF WriteFile, Leave
  <2>2. DOMAIN names' = DOMAIN names \ {o} /\ \A q \in DOMAIN names' : names'[q] = names[q]
    BY <2>1 DEF Restrict
  <2>3. /\ DOMAIN written' = {Fold(chosen[o])} \cup DOMAIN written
        /\ written'[Fold(chosen[o])] = o
        /\ \A p \in DOMAIN written : p # Fold(chosen[o]) => written'[p] = written[p]
    <3>1. names[o] = chosen[o]
      BY <1>1 DEF WriteInv
    <3> QED
      BY <2>1, <3>1 DEF Replaced
  <2>4. ASSUME NEW q \in routines \ DOMAIN names'
        PROVE  Fold(chosen[q]) \in DOMAIN written' /\ written'[Fold(chosen[q])] = q
    <3>1. CASE q = o
      BY <2>3, <3>1
    <3>2. CASE q # o
      <4>1. q \in routines \ DOMAIN names /\ o \in routines
        BY <1>1, <2>2, <3>2 DEF WriteInv
      <4>2. Fold(chosen[q]) \in DOMAIN written /\ written[Fold(chosen[q])] = q
        BY <1>1, <4>1 DEF WriteInv
      <4>3. Fold(chosen[q]) # Fold(chosen[o])
        BY <3>2, <4>1, PathsAreDistinct DEF Distinct, WriteInv
      <4> QED
        BY <2>3, <4>2, <4>3
    <3> QED
      BY <3>1, <3>2
  <2> QED
    BY <1>1, <2>1, <2>2, <2>4 DEF WriteInv
<1> QED
  BY <1>2, <1>3

LEMMA WriteStep == WriteInv /\ [Next]_vars => WriteInv'
<1> SUFFICES ASSUME WriteInv, [Next]_vars PROVE WriteInv'
  OBVIOUS
<1>1. CASE ResolveNames
  <2>1. names' = ResolveLogicFileNames(routines) /\ UNCHANGED routines
    BY <1>1 DEF ResolveNames
  <2>2. DOMAIN names' = routines
    BY <2>1, PathsAreDistinct DEF WriteInv
  <2> QED
    BY <2>1, <2>2 DEF WriteInv
<1>2. CASE WriteFile
  BY <1>2, WriteFileKeeps
<1>3. CASE DropRoutine
  <2>1. step' # "write" /\ routines' \subseteq routines
    BY <1>3 DEF DropRoutine
  <2> QED
    BY <2>1 DEF WriteInv
<1>4. ASSUME step' # "write", UNCHANGED routines PROVE WriteInv'
  BY <1>4 DEF WriteInv
<1>5. ASSUME NEW c, Invoke(c) PROVE WriteInv'
  BY <1>4, <1>5 DEF Invoke, world
<1>6. CASE ResolveSettings \/ Connect \/ DiscoverMigrations \/ SchemaDone
  BY <1>4, <1>6 DEF ResolveSettings, Connect, DiscoverMigrations, SchemaDone, Leave, world
<1>7. CASE RunOneTime
  BY <1>4, <1>7 DEF RunOneTime, Leave, world
<1>8. CASE OneTimeDone \/ ExecStatement
  BY <1>4, <1>8 DEF OneTimeDone, ExecStatement, Leave, world
<1>9. CASE DumpDone \/ AddFile \/ ConvertLayout
  BY <1>4, <1>9 DEF DumpDone, AddFile, ConvertLayout, Leave
<1>10. CASE UNCHANGED vars
  BY <1>10 DEF vars, WriteInv
<1> QED
  BY <1>1, <1>2, <1>3, <1>5, <1>6, <1>7, <1>8, <1>9, <1>10 DEF Next

LEMMA CommandInvariance == Spec => []CommandInv
<1>1. Init => CommandInv
  BY CommandAssumption DEF Init, CommandInv, SettingsInv, WriteInv, Phases
<1>2. CommandInv /\ [Next]_vars => CommandInv'
  BY SettingsStep, WriteStep DEF CommandInv
<1> QED
  BY <1>1, <1>2, PTL DEF Spec

-----------------------------------------------------------------------------
(* The theorems *)

\* Whatever combination of flags, environment and file a command is given: it
\* does not get to work on one it cannot read; every safeguard that one of them
\* asks for is in force, unless the environment's "false" has taken back what
\* the file asks for; and a target that a flag names gives way to a URL only
\* (resolveSettings, connectAndBuildEngine).
THEOREM SafetyAlwaysHonoured == Spec => []SafetyIsHonoured
<1>1. CommandInv => SafetyIsHonoured
  <2> SUFFICES ASSUME CommandInv, step \in {"discover"} \cup Phases
               PROVE  MakesSense /\ SafeguardsInForce /\ FlagNamesTarget
    BY DEF SafetyIsHonoured
  <2>1. given \in Givens /\ ~Unresolvable(given) /\ settings = Settings(given)
    BY DEF CommandInv, SettingsInv, Phases
  <2>2. given.flag.timeout \in FlagTimeouts
    BY <2>1 DEF Givens
  <2>3. MakesSense
    BY <2>1, <2>2 DEF MakesSense, Unresolvable, BadBool, BadTimeout, FlagTimeouts
  <2>4. {given.env.require, given.env.fail} \subseteq {"unset", "true", "false"}
    BY <2>1, <2>3 DEF MakesSense, Givens, EnvValues
  <2>5. settings.strict = (given.flag.strict \/ given.file.strict)
    BY <2>1 DEF Settings
  <2>6. /\ settings.require = RequireShadow(given)
        /\ settings.fail = (given.flag.fail \/ EnvBool(given.env.fail, given.file.fail)
                             \/ RequireShadow(given))
    BY <2>1 DEF Settings, FailOnUnvalidated
  <2>7. RequireShadow(given) => temps = "shadow"
    BY <2>6 DEF CommandInv, SettingsInv, RefusesToStart
  <2>8. SafeguardsInForce
    BY <2>4, <2>5, <2>6, <2>7
       DEF SafeguardsInForce, Demanded, TakenBack, RequireShadow, EnvBool
  <2>9. FlagNamesTarget
    <3>1. settings.target = ConnStrSource(given)
      BY <2>1 DEF Settings
    <3>2. CASE given.flag.url
      BY <3>1, <3>2 DEF FlagNamesTarget, ConnStrSource, FirstOf
    <3>3. CASE ~given.flag.url /\ ~given.env.url /\ ~given.file.url
      BY <3>1, <3>3 DEF FlagNamesTarget, ConnStrSource, FirstOf
    <3>4. CASE ~given.flag.url /\ (given.env.url \/ given.file.url)
      BY <3>4 DEF FlagNamesTarget
    <3> QED
      BY <3>2, <3>3, <3>4
  <2> QED
    BY <2>3, <2>8, <2>9
<1> QED
  BY <1>1, CommandInvariance, PTL

\* A dump that ends well has every routine in a file of its own, whatever they
\* are called and whatever is in the directory already: the first round of
\* deduplicate is enough (ResolveLogicFileNames, deduplicate).
THEOREM DumpIsAlwaysWhole == Spec => DumpIsWhole
<1> DEFINE Whole == DumpDone => \A o \in routines : \E p \in DOMAIN written : written[p] = o
<1>1. CommandInv => Whole
  <2> SUFFICES ASSUME CommandInv, DumpDone, NEW o \in routines
               PROVE  \E p \in DOMAIN written : written[p] = o
    OBVIOUS
  <2>1. step = "write" /\ DOMAIN names = {}
    BY DEF DumpDone
  <2> QED
    BY <2>1 DEF CommandInv, WriteInv
<1>2. CommandInv /\ [Next]_vars => [Whole]_vars
  BY <1>1
<1> QED
  BY <1>2, CommandInvariance, PTL DEF Spec, DumpIsWhole

\* Between two dumps one routine goes, at most.
DumpInv ==
    dumped = {} \/ (dumped \subseteq Routine /\ routines \subseteq dumped
                    /\ \E x \in Routine : dumped \subseteq routines \cup {x})

LEMMA DumpStep == WriteInv /\ DumpInv /\ [Next]_vars => DumpInv'
<1> SUFFICES ASSUME WriteInv, DumpInv, [Next]_vars PROVE DumpInv'
  OBVIOUS
<1>1. CASE DumpDone
  <2>1. dumped' = routines /\ routines' = routines /\ routines \subseteq Routine
    BY <1>1 DEF DumpDone, WriteInv
  <2> QED
    BY <2>1 DEF DumpInv
<1>2. CASE DropRoutine
  <2>1. PICK o \in routines : routines' = routines \ {o} /\ dumped = routines /\ dumped' = dumped
    BY <1>2 DEF DropRoutine
  <2> QED
    BY <2>1 DEF DumpInv, WriteInv
<1>3. CASE UNCHANGED <<routines, dumped>>
  BY <1>3 DEF DumpInv
<1>4. \/ UNCHANGED <<routines, dumped>>
      \/ DumpDone \/ DropRoutine
  BY DEF Next, vars, world, Invoke, ResolveSettings, Connect, DiscoverMigrations, RunOneTime,
         OneTimeDone, ExecStatement, SchemaDone, ResolveNames, WriteFile, AddFile, ConvertLayout
<1> QED
  BY <1>1, <1>2, <1>3, <1>4

\* After one routine was dropped, a dump writes no routine into the file of
\* another (ResolveLogicFileNames).
THEOREM NoPathIsRepointed == Spec => PathsKeepTheirRoutine
<1> DEFINE Keeping == step = "dump" /\ step' = "write" =>
               LET before == ResolveLogicFileNames(dumped)
               IN  \A o \in dumped, q \in routines : Fold(before[o]) = Fold(names'[q]) => o = q
<1>1. WriteInv /\ DumpInv /\ [Next]_vars => [Keeping]_vars
  <2> SUFFICES ASSUME WriteInv, DumpInv, [Next]_vars, step = "dump", step' = "write",
                      NEW o \in dumped, NEW q \in routines, o # q
               PROVE  Fold(ResolveLogicFileNames(dumped)[o]) # Fold(names'[q])
    OBVIOUS
  <2>1. names' = ResolveLogicFileNames(routines)
    BY DEF Next, vars, Invoke, ResolveSettings, Connect, DiscoverMigrations, RunOneTime, Phases,
           OneTimeDone, ExecStatement, SchemaDone, ResolveNames, WriteFile, DumpDone, AddFile,
           ConvertLayout, DropRoutine, Leave
  <2>2. PICK x \in Routine : dumped \subseteq routines \cup {x}
    BY DEF DumpInv
  <2>3. dumped \subseteq Routine /\ routines \subseteq dumped
    BY DEF DumpInv
  <2> QED
    BY <2>1, <2>2, <2>3, RemovalRepointsNothing
<1>2. Init => DumpInv
  BY DEF Init, DumpInv
<1>3. Spec => []DumpInv
  BY <1>2, DumpStep, CommandInvariance, PTL DEF Spec, CommandInv
<1> QED
  BY <1>1, <1>3, CommandInvariance, PTL DEF Spec, CommandInv, PathsKeepTheirRoutine

-----------------------------------------------------------------------------
(* What Discover finds *)

LEMMA RemoveAtFacts ==
    ASSUME NEW S, NEW s \in Seq(S), NEW i \in 1..Len(s)
    PROVE  /\ RemoveAt(s, i) \in Seq(S)
           /\ Len(RemoveAt(s, i)) = Len(s) - 1
           /\ \A j \in 1..(Len(s) - 1) : RemoveAt(s, i)[j] = IF j < i THEN s[j] ELSE s[j + 1]
<1> DEFINE before == SubSeq(s, 1, i - 1)
           after  == SubSeq(s, i + 1, Len(s))
<1>1. /\ before \in Seq(S) /\ Len(before) = i - 1
      /\ \A j \in 1..(i - 1) : before[j] = s[j]
  OBVIOUS
<1>2. /\ after \in Seq(S) /\ Len(after) = Len(s) - i
      /\ \A j \in 1..(Len(s) - i) : after[j] = s[i + j]
  OBVIOUS
<1> HIDE DEF before, after
<1>3. /\ before \o after \in Seq(S) /\ Len(before \o after) = Len(s) - 1
      /\ \A j \in 1..(Len(s) - 1) :
            (before \o after)[j] = IF j <= i - 1 THEN before[j] ELSE after[j - (i - 1)]
  BY <1>1, <1>2
<1>4. ASSUME NEW j \in 1..(Len(s) - 1)
      PROVE  (before \o after)[j] = IF j < i THEN s[j] ELSE s[j + 1]
  BY <1>1, <1>2, <1>3
<1>5. RemoveAt(s, i) = before \o after
  BY DEF RemoveAt, before, after
<1> QED
  BY <1>3, <1>4, <1>5

\* The type under which a one-time file is found, in either layout.
TypeIn(e) == IF e.folder = "top" THEN "ops" ELSE e.folder

LEMMA TypeNames == Range(Types) = {"ops", "schema", "logic", "permissions", "reference", "data"}
BY DEF Types, Range

\* A one-time migration is that of a file of the directory, and the only one.
LEMMA FoundOneTime ==
    ASSUME NEW D \in SUBSET DirEntry, NEW m \in Found(D), IsVersioned(m.type)
    PROVE  /\ m.entry \in D /\ OneTimeFile(m.entry)
           /\ m = Migration(TypeIn(m.entry), m.entry)
           /\ m.type = TypeIn(m.entry) /\ m.version = m.entry.stamp /\ m.name = m.entry.name
<1>1. CASE FolderBased(D)
  <2>1. PICK e \in D : e.folder # "top" /\ m = Migration(e.folder, e)
    BY <1>1 DEF Found, InFolders
  <2>2. m.entry = e /\ m.type = e.folder
    BY <2>1 DEF Migration
  <2> QED
    BY <2>1, <2>2 DEF Migration, TypeIn, OneTimeFile
<1>2. CASE ~FolderBased(D)
  <2>1. PICK e \in D : e.folder = "top" /\ Legacy(e) /\ m = Migration(LegacyType(e), e)
    BY <1>2 DEF Found, Flat
  <2>2. m.entry = e /\ m.type = LegacyType(e)
    BY <2>1 DEF Migration
  <2>3. e.prefix = "V" /\ LegacyType(e) = "ops"
    <3>1. e.prefix \in {"V", "S", "R"}
      BY <2>1 DEF DirEntry, Legacy
    <3>2. e.prefix = "S" => LegacyType(e) = "schema"
      BY DEF LegacyType
    <3>3. e.prefix = "R" => LegacyType(e) = "logic"
      BY DEF LegacyType
    <3>4. e.prefix = "V" => LegacyType(e) = "ops"
      BY DEF LegacyType
    <3> QED
      BY <2>2, <3>1, <3>2, <3>3, <3>4 DEF IsVersioned
  <2> QED
    BY <2>1, <2>2, <2>3 DEF Migration, TypeIn, OneTimeFile, IsVersioned
<1> QED
  BY <1>1, <1>2

LEMMA FoundFinite ==
    ASSUME NEW D, IsFiniteSet(D)
    PROVE  IsFiniteSet(Found(D))
<1>1. IsFiniteSet(InFolders(D))
  <2> DEFINE E == {e \in D : e.folder # "top" /\ WellFormed(e)}
             f == [e \in E |-> Migration(e.folder, e)]
  <2>1. IsFiniteSet(E)
    BY FS_Subset
  <2>2. f \in Surjection(E, InFolders(D))
    BY DEF Surjection, InFolders
  <2> HIDE DEF E, f
  <2> QED
    BY <2>1, <2>2, FS_Surjection
<1>2. IsFiniteSet(Flat(D))
  <2> DEFINE E == {e \in D : e.folder = "top" /\ Legacy(e)}
             f == [e \in E |-> Migration(LegacyType(e), e)]
  <2>1. IsFiniteSet(E)
    BY FS_Subset
  <2>2. f \in Surjection(E, Flat(D))
    BY DEF Surjection, Flat
  <2> HIDE DEF E, f
  <2> QED
    BY <2>1, <2>2, FS_Surjection
<1> QED
  BY <1>1, <1>2 DEF Found

\* A listing has each migration once, in an order that Less allows.
LEMMA DiscoverFacts ==
    ASSUME NEW D, IsFiniteSet(D), NEW s \in Discover(D)
    PROVE  /\ s \in Seq(Found(D))
           /\ \A j, k \in 1..Len(s) : j # k => s[j] # s[k]
           /\ \A m \in Found(D) : \E k \in 1..Len(s) : s[k] = m
           /\ Sorted(s)
<1> DEFINE F == Found(D)
           n == Cardinality(F)
<1>1. IsFiniteSet(F) /\ n \in Nat
  BY FoundFinite, FS_CardinalityType
<1>2. s \in [1..n -> F] /\ (\A j, k \in 1..n : j # k => s[j] # s[k]) /\ Sorted(s)
  BY DEF Discover, SetToSeqs
<1> HIDE DEF F
<1>3. s \in Seq(F) /\ Len(s) = n
  BY <1>1, <1>2
<1>4. s \in Injection(1..n, F)
  BY <1>2 DEF Injection, IsInjective
<1>5. IsFiniteSet(1..n) /\ Cardinality(1..n) = n
  BY <1>1, FS_Interval
<1>6. s \in Surjection(1..n, F)
  BY <1>1, <1>4, <1>5, FS_Injection
<1>7. \A m \in F : \E k \in 1..n : s[k] = m
  BY <1>6 DEF Surjection
<1> QED
  BY <1>2, <1>3, <1>7 DEF F

-----------------------------------------------------------------------------
(* The directory *)

Twins(e, f) == OneTimeFile(e) /\ OneTimeFile(f) /\ e.stamp = f.stamp /\ e.name = f.name

\* A file of the one directory is that of the other, moved or not.
Same(e, f) == Twins(e, f) /\ TypeIn(e) = TypeIn(f)

\* No two one-time files share version and name, those still to come included.
DirInv ==
    /\ dir \subseteq DirEntry /\ toAdd \subseteq DirEntry /\ IsFiniteSet(dir)
    /\ \A e, f \in dir : Twins(e, f) => e = f
    /\ \A e, f \in toAdd : Twins(e, f) => e = f
    /\ \A e \in dir, f \in toAdd : ~Twins(e, f)

Converted(e) ==
    IF Legacy(e) THEN [e EXCEPT !.folder = FolderFor(e.prefix), !.prefix = "none"] ELSE e

LEMMA ConvertedIsSame ==
    ASSUME NEW e \in DirEntry, e.folder = "top"
    PROVE  /\ Converted(e) \in DirEntry
           /\ OneTimeFile(e) => Same(e, Converted(e))
           /\ OneTimeFile(Converted(e)) => OneTimeFile(e)
           /\ Converted(e).stamp = e.stamp /\ Converted(e).name = e.name
<1>1. CASE ~Legacy(e)
  BY <1>1 DEF Converted, Same, Twins
<1>2. CASE Legacy(e)
  <2> DEFINE moved == [e EXCEPT !.folder = FolderFor(e.prefix), !.prefix = "none"]
  <2>1. e.prefix \in {"V", "S", "R"}
    BY <1>2 DEF Legacy, DirEntry
  <2>2. /\ e.prefix = "V" => FolderFor(e.prefix) = "ops"
        /\ e.prefix = "S" => FolderFor(e.prefix) = "schema"
        /\ e.prefix = "R" => FolderFor(e.prefix) = "logic"
    BY DEF FolderFor
  <2>3. FolderFor(e.prefix) \in Range(Types)
    BY <2>1, <2>2, TypeNames
  <2>4. /\ moved \in DirEntry /\ moved.folder = FolderFor(e.prefix) /\ moved.prefix = "none"
        /\ moved.stamp = e.stamp /\ moved.name = e.name
    BY <2>3 DEF DirEntry
  <2>5. Converted(e) = moved
    BY <1>2 DEF Converted
  <2> HIDE DEF moved
  <2>6. OneTimeFile(e) <=> e.prefix = "V"
    BY DEF OneTimeFile, IsVersioned
  <2>7. OneTimeFile(moved) <=> e.prefix = "V"
    BY <2>1, <2>2, <2>4 DEF OneTimeFile, IsVersioned
  <2>8. e.prefix = "V" => TypeIn(moved) = "ops" /\ TypeIn(e) = "ops"
    BY <2>2, <2>4 DEF TypeIn
  <2> QED
    BY <2>4, <2>5, <2>6, <2>7, <2>8 DEF Same, Twins
<1> QED
  BY <1>1, <1>2

\* Nothing but AddFile and ConvertLayout touches the directory, between commands.
LEMMA DirSteps ==
    ASSUME [Next]_vars
    PROVE  \/ UNCHANGED <<dir, toAdd>>
           \/ (AddFile \/ ConvertLayout)
<1>1. ASSUME NEW c, Invoke(c) PROVE UNCHANGED <<dir, toAdd>>
  BY <1>1 DEF Invoke, world
<1>2. CASE ResolveSettings \/ Connect \/ DiscoverMigrations \/ SchemaDone
  BY <1>2 DEF ResolveSettings, Connect, DiscoverMigrations, SchemaDone, world
<1>3. CASE RunOneTime \/ OneTimeDone \/ ExecStatement
  BY <1>3 DEF RunOneTime, OneTimeDone, ExecStatement, world
<1>4. CASE ResolveNames \/ WriteFile \/ DumpDone \/ DropRoutine
  BY <1>4 DEF ResolveNames, WriteFile, DumpDone, DropRoutine
<1>5. CASE UNCHANGED vars
  BY <1>5 DEF vars
<1> QED
  BY <1>1, <1>2, <1>3, <1>4, <1>5 DEF Next

LEMMA DirStep ==
    ASSUME DirInv, [Next]_vars
    PROVE  /\ DirInv'
           /\ \A e \in dir : OneTimeFile(e) => \E f \in dir' : Same(e, f)
<1>1. CASE UNCHANGED <<dir, toAdd>>
  BY <1>1 DEF DirInv, Same, Twins
<1>2. CASE AddFile
  <2>1. PICK e \in toAdd : dir' = dir \cup {e} /\ toAdd' = toAdd \ {e}
    BY <1>2 DEF AddFile
  <2>2. IsFiniteSet(dir')
    BY <2>1, FS_AddElement DEF DirInv
  <2>3. \A f \in toAdd \ {e} : ~Twins(e, f) /\ ~Twins(f, e)
    BY DEF DirInv, Twins
  <2>4. \A f \in dir : ~Twins(e, f) /\ ~Twins(f, e)
    BY DEF DirInv, Twins
  <2> QED
    BY <2>1, <2>2, <2>3, <2>4 DEF DirInv, Same, Twins
<1>3. CASE ConvertLayout
  <2>1. /\ \A e \in dir : e.folder = "top" /\ e \in DirEntry
        /\ dir' = {Converted(e) : e \in dir} /\ toAdd' = toAdd
    BY <1>3 DEF ConvertLayout, FolderBased, Converted, DirInv
  <2>2. IsFiniteSet(dir')
    <3> DEFINE f == [e \in dir |-> Converted(e)]
    <3>1. f \in Surjection(dir, dir')
      BY <2>1 DEF Surjection
    <3> HIDE DEF f
    <3> QED
      BY <3>1, FS_Surjection DEF DirInv
  <2>3. dir' \subseteq DirEntry
    BY <2>1, ConvertedIsSame
  <2>4. \A e, f \in dir : Twins(Converted(e), Converted(f)) => Twins(e, f)
    BY <2>1, ConvertedIsSame DEF Twins
  <2>5. \A e \in dir, f \in toAdd : Twins(Converted(e), f) => Twins(e, f)
    BY <2>1, ConvertedIsSame DEF Twins
  <2>6. \A e \in dir : OneTimeFile(e) => Same(e, Converted(e))
    BY <2>1, ConvertedIsSame
  <2>7. /\ \A e, f \in dir' : Twins(e, f) => e = f
        /\ \A e \in dir', f \in toAdd' : ~Twins(e, f)
        /\ \A e, f \in toAdd' : Twins(e, f) => e = f
    BY <2>1, <2>4, <2>5 DEF DirInv
  <2>8. DirInv'
    BY <2>1, <2>2, <2>3, <2>7 DEF DirInv
  <2> QED
    BY <2>1, <2>6, <2>8
<1> QED
  BY <1>1, <1>2, <1>3, DirSteps

-----------------------------------------------------------------------------
(* What ran, and what is left of the listing *)

Execution == [type : {"ops", "data"}, version : Seq(0..Underscore), name : Nat]

\* The history holds what ran, every run is that of a file that is still there,
\* and none is a second one.
HistoryInv ==
    /\ faults \in Nat
    /\ ran \in Seq(Execution)
    /\ \A i \in DOMAIN ran : <<ran[i].type, ran[i].version>> \in recorded
    /\ \A r \in recorded : \E i \in DOMAIN ran : r = <<ran[i].type, ran[i].version>>
    /\ \A i \in DOMAIN ran : \E e \in dir :
          /\ OneTimeFile(e) /\ TypeIn(e) = ran[i].type
          /\ e.stamp = ran[i].version /\ e.name = ran[i].name
    /\ NeverTwice

Ran(m) == \E i \in DOMAIN ran : ran[i].type = m.type /\ ran[i].version = m.version

\* What the listing has lost has run, or a twin of it has; and what ran already
\* is either gone from it or will be skipped.
ListingInv ==
    step \in Phases =>
        /\ listing \in Seq(Found(dir))
        /\ \A j, k \in 1..Len(listing) : j # k => listing[j] # listing[k]
        /\ Sorted(listing)
        /\ \A m \in Found(dir) : IsVersioned(m.type) =>
              (\E k \in 1..Len(listing) : listing[k] = m) \/ Ran(m)
        /\ step # "ops" => \A k \in 1..Len(listing) : listing[k].type # "ops"
        /\ step # "schema" =>
              /\ applied \subseteq AppliedVersioned(step)
              /\ \A i \in DOMAIN ran, k \in 1..Len(listing) :
                    /\ ran[i].type = step /\ listing[k].type = step
                    /\ ran[i].version = listing[k].version /\ ran[i].name = listing[k].name
                    => ran[i].version \in applied

OneTimeInv == DirInv /\ HistoryInv /\ ListingInv

\* The history and the world as they are, all that matters is where the command is.
LEMMA HistoryStays ==
    ASSUME OneTimeInv, [Next]_vars, UNCHANGED <<ran, recorded>>, faults' \in Nat
    PROVE  HistoryInv'
<1>1. ASSUME NEW i \in DOMAIN ran
      PROVE  \E e \in dir' : /\ OneTimeFile(e) /\ TypeIn(e) = ran[i].type
                             /\ e.stamp = ran[i].version /\ e.name = ran[i].name
  <2>1. PICK e \in dir : /\ OneTimeFile(e) /\ TypeIn(e) = ran[i].type
                         /\ e.stamp = ran[i].version /\ e.name = ran[i].name
    BY DEF OneTimeInv, HistoryInv
  <2>2. PICK f \in dir' : Same(e, f)
    BY <2>1, DirStep DEF OneTimeInv
  <2> QED
    BY <2>1, <2>2 DEF Same, Twins
<1>2. NeverTwice'
  BY DEF OneTimeInv, HistoryInv, NeverTwice
<1> QED
  BY <1>1, <1>2 DEF OneTimeInv, HistoryInv

\* A file that a phase comes to has its execution before it.
LEMMA RunsForTheFirstTime ==
    ASSUME OneTimeInv, step \in {"ops", "data"}, NEW i \in 1..Len(listing),
           listing[i].type = step, listing[i].version \notin applied
    PROVE  /\ listing[i].entry \in dir /\ OneTimeFile(listing[i].entry)
           /\ TypeIn(listing[i].entry) = step
           /\ listing[i].version = listing[i].entry.stamp
           /\ listing[i].name = listing[i].entry.name
           /\ Identity(listing[i]) \in Execution
           /\ \A j \in DOMAIN ran : ~ (ran[j].version = listing[i].version /\ ran[j].name = listing[i].name)
           /\ \A k \in 1..Len(listing) : k # i /\ listing[k].type = step =>
                 ~ (listing[k].version = listing[i].version /\ listing[k].name = listing[i].name)
<1> DEFINE m == listing[i]
<1>1. m \in Found(dir) /\ IsVersioned(m.type)
  BY DEF OneTimeInv, ListingInv, Phases, IsVersioned
<1>2. /\ m.entry \in dir /\ OneTimeFile(m.entry) /\ m = Migration(TypeIn(m.entry), m.entry)
      /\ m.type = TypeIn(m.entry) /\ m.version = m.entry.stamp /\ m.name = m.entry.name
  BY <1>1, FoundOneTime DEF OneTimeInv, DirInv
<1>3. Identity(m) \in Execution
  BY <1>2 DEF Identity, Execution, OneTimeInv, DirInv, DirEntry
<1>4. ASSUME NEW j \in DOMAIN ran, ran[j].version = m.version, ran[j].name = m.name
      PROVE  FALSE
  <2>1. PICK e \in dir : /\ OneTimeFile(e) /\ TypeIn(e) = ran[j].type
                         /\ e.stamp = ran[j].version /\ e.name = ran[j].name
    BY DEF OneTimeInv, HistoryInv
  <2>2. e = m.entry
    BY <1>2, <1>4, <2>1 DEF OneTimeInv, DirInv, Twins
  <2>3. ran[j].type = step
    BY <1>2, <2>1, <2>2
  <2> QED
    BY <1>4, <2>3 DEF OneTimeInv, ListingInv, Phases
<1>5. ASSUME NEW k \in 1..Len(listing), k # i, listing[k].type = step,
             listing[k].version = m.version, listing[k].name = m.name
      PROVE  FALSE
  <2>1. listing[k] \in Found(dir) /\ IsVersioned(listing[k].type)
    BY <1>5 DEF OneTimeInv, ListingInv, Phases, IsVersioned
  <2>2. /\ listing[k].entry \in dir /\ OneTimeFile(listing[k].entry)
        /\ listing[k] = Migration(TypeIn(listing[k].entry), listing[k].entry)
        /\ listing[k].version = listing[k].entry.stamp /\ listing[k].name = listing[k].entry.name
    BY <2>1, FoundOneTime DEF OneTimeInv, DirInv
  <2>3. listing[k].entry = m.entry
    BY <1>2, <1>5, <2>2 DEF OneTimeInv, DirInv, Twins
  <2>4. listing[k] = m
    BY <1>2, <2>2, <2>3
  <2> QED
    BY <1>5, <2>4 DEF OneTimeInv, ListingInv, Phases
<1> QED
  BY <1>2, <1>3, <1>4, <1>5

LEMMA RunOneTimeKeeps ==
    ASSUME OneTimeInv, RunOneTime
    PROVE  HistoryInv' /\ ListingInv'
<1> USE DEF OneTimeInv
<1>1. PICK i \in DOMAIN listing :
         /\ IsNext(i)
         /\ listing' = RemoveAt(listing, i)
         /\ \/ /\ listing[i].version \in applied
               /\ UNCHANGED <<step, temps, ran, recorded, faults>>
            \/ /\ listing[i].version \notin applied
               /\ ran' = Append(ran, Identity(listing[i]))
               /\ recorded' = recorded \cup {<<listing[i].type, listing[i].version>>}
               /\ UNCHANGED <<step, temps, faults>>
            \/ /\ listing[i].version \notin applied /\ faults < MaxFaults
               /\ faults' = faults + 1 /\ Leave
               /\ UNCHANGED <<ran, recorded>>
  BY DEF RunOneTime
<1>0. PICK m : m = listing[i]
  OBVIOUS
<1>2. /\ step \in {"ops", "data"} /\ UNCHANGED <<dir, toAdd, applied>> /\ [Next]_vars
  BY DEF RunOneTime, world, Next
<1>3. listing \in Seq(Found(dir)) /\ i \in 1..Len(listing) /\ m.type = step
  BY <1>0, <1>1, <1>2 DEF ListingInv, Phases, IsNext
<1>4. /\ listing' \in Seq(Found(dir)) /\ Len(listing') = Len(listing) - 1
      /\ \A j \in 1..(Len(listing) - 1) : listing'[j] = IF j < i THEN listing[j] ELSE listing[j + 1]
  BY <1>1, <1>3, RemoveAtFacts
<1>5. /\ \A j \in 1..Len(listing') : \E k \in 1..Len(listing) : k # i /\ listing'[j] = listing[k]
      /\ \A k \in 1..Len(listing) : k # i => \E j \in 1..Len(listing') : listing'[j] = listing[k]
  <2>1. ASSUME NEW j \in 1..Len(listing') PROVE \E k \in 1..Len(listing) : k # i /\ listing'[j] = listing[k]
    BY <1>3, <1>4
  <2>2. ASSUME NEW k \in 1..Len(listing), k # i PROVE \E j \in 1..Len(listing') : listing'[j] = listing[k]
    <3>1. CASE k < i
      BY <1>3, <1>4, <3>1
    <3>2. CASE k > i
      <4>1. k - 1 \in 1..Len(listing') /\ ~ (k - 1 < i) /\ (k - 1) + 1 = k
        BY <1>3, <1>4, <3>2
      <4> QED
        BY <1>4, <4>1
    <3> QED
      BY <1>3, <2>2, <3>1, <3>2
  <2> QED
    BY <2>1, <2>2
<1>6. /\ \A j, k \in 1..Len(listing') : j # k => listing'[j] # listing'[k]
      /\ \A j, k \in 1..Len(listing') : j < k => ~Less(listing'[k], listing'[j])
  <2> DEFINE at(j) == IF j < i THEN j ELSE j + 1
  <2>1. \A j \in 1..Len(listing') : at(j) \in 1..Len(listing) /\ listing'[j] = listing[at(j)]
    BY <1>3, <1>4
  <2>2. \A j, k \in 1..Len(listing') : j < k => at(j) < at(k)
    BY <1>3, <1>4
  <2>3. \A j, k \in 1..Len(listing') : j # k => at(j) # at(k)
    BY <1>3, <1>4
  <2>4. DOMAIN listing = 1..Len(listing)
    BY <1>3
  <2> HIDE DEF at
  <2>5. /\ \A j, k \in 1..Len(listing) : j # k => listing[j] # listing[k]
        /\ \A j, k \in 1..Len(listing) : j < k => ~Less(listing[k], listing[j])
    BY <1>2, <2>4 DEF ListingInv, Phases, Sorted
  <2> QED
    BY <2>1, <2>2, <2>3, <2>5
<1>7. Sorted(listing')
  <2>1. DOMAIN listing' = 1..Len(listing')
    BY <1>4
  <2> QED
    BY <1>6, <2>1 DEF Sorted
\* Whatever becomes of the command: what is left of the listing is in order.
<1>8. ASSUME step' = step, \A n : Ran(n) => Ran(n)', Ran(m)',
             applied \subseteq AppliedVersioned(step)',
             \A j \in DOMAIN ran', k \in 1..Len(listing') :
                    /\ ran'[j].type = step /\ listing'[k].type = step
                    /\ ran'[j].version = listing'[k].version /\ ran'[j].name = listing'[k].name
                    => ran'[j].version \in applied
      PROVE  ListingInv'
  <2>1. ASSUME NEW n \in Found(dir), IsVersioned(n.type)
        PROVE  (\E k \in 1..Len(listing') : listing'[k] = n) \/ Ran(n)'
    <3>1. CASE Ran(n)
      BY <1>8, <3>1
    <3>2. ASSUME NEW k \in 1..Len(listing), listing[k] = n
          PROVE  (\E j \in 1..Len(listing') : listing'[j] = n) \/ Ran(n)'
      <4>1. CASE k = i
        BY <1>0, <1>8, <3>2, <4>1
      <4>2. CASE k # i
        BY <1>5, <3>2, <4>2
      <4> QED
        BY <4>1, <4>2
    <3> QED
      BY <1>2, <2>1, <3>1, <3>2 DEF ListingInv, Phases
  <2>2. step # "ops" => \A k \in 1..Len(listing') : listing'[k].type # "ops"
    BY <1>2, <1>5 DEF ListingInv, Phases
  <2>3. step' = step /\ dir' = dir /\ applied' = applied
    BY <1>2, <1>8
  <2> QED
    BY <1>4, <1>6, <1>7, <1>8, <2>1, <2>2, <2>3 DEF ListingInv
<1>9. CASE listing[i].version \in applied /\ UNCHANGED <<step, temps, ran, recorded, faults>>
  <2>1. HistoryInv'
    BY <1>2, <1>9, HistoryStays DEF HistoryInv
  <2>2. \A n : Ran(n) => Ran(n)'
    BY <1>9 DEF Ran
  <2>3. applied \subseteq AppliedVersioned(step)
    BY <1>2 DEF ListingInv, Phases
  <2>4. <<step, m.version>> \in recorded
    <3>1. PICK r \in recorded : r[1] = step /\ r[2] = m.version
      BY <1>0, <1>9, <2>3 DEF AppliedVersioned
    <3>2. PICK j \in DOMAIN ran : r = <<ran[j].type, ran[j].version>>
      BY <3>1 DEF HistoryInv
    <3> QED
      BY <3>1, <3>2
  <2>5. Ran(m)
    BY <1>3, <2>4 DEF HistoryInv, Ran
  <2>6. applied \subseteq AppliedVersioned(step)'
    BY <1>9, <2>3 DEF AppliedVersioned
  <2>7. \A j \in DOMAIN ran, k \in 1..Len(listing') :
           /\ ran[j].type = step /\ listing'[k].type = step
           /\ ran[j].version = listing'[k].version /\ ran[j].name = listing'[k].name
           => ran[j].version \in applied
    <3>1. \A j \in DOMAIN ran, k \in 1..Len(listing) :
             /\ ran[j].type = step /\ listing[k].type = step
             /\ ran[j].version = listing[k].version /\ ran[j].name = listing[k].name
             => ran[j].version \in applied
      BY <1>2 DEF ListingInv, Phases
    <3> HIDE DEF OneTimeInv
    <3> QED
      BY <1>5, <3>1
  <2>8. Ran(m)'
    BY <2>2, <2>5
  <2>9. step' = step /\ ran' = ran
    BY <1>9
  <2> HIDE DEF OneTimeInv
  <2> QED
    BY <1>8, <2>1, <2>2, <2>6, <2>7, <2>8, <2>9
<1>10. CASE /\ listing[i].version \notin applied
            /\ ran' = Append(ran, Identity(listing[i]))
            /\ recorded' = recorded \cup {<<listing[i].type, listing[i].version>>}
            /\ UNCHANGED <<step, temps, faults>>
  <2>0. /\ m.entry \in dir /\ OneTimeFile(m.entry) /\ TypeIn(m.entry) = step
        /\ m.version = m.entry.stamp /\ m.name = m.entry.name /\ Identity(m) \in Execution
        /\ \A j \in DOMAIN ran : ~ (ran[j].version = m.version /\ ran[j].name = m.name)
        /\ \A k \in 1..Len(listing) : k # i /\ listing[k].type = step =>
              ~ (listing[k].version = m.version /\ listing[k].name = m.name)
    BY <1>0, <1>2, <1>3, <1>10, RunsForTheFirstTime
  <2>1. /\ ran' \in Seq(Execution) /\ DOMAIN ran' = 1..(Len(ran) + 1)
        /\ DOMAIN ran = 1..Len(ran) /\ Len(ran) \in Nat
        /\ \A j \in DOMAIN ran : ran'[j] = ran[j]
        /\ ran'[Len(ran) + 1] = Identity(m)
    BY <1>0, <1>10, <2>0 DEF HistoryInv
  <2>2. /\ Identity(m).type = step /\ Identity(m).version = m.version /\ Identity(m).name = m.name
    BY <1>0, <1>3 DEF Identity
  <2>3. \A j \in DOMAIN ran' : j \in DOMAIN ran \/ ran'[j] = Identity(m)
    BY <2>1
  <2> HIDE DEF OneTimeInv
  <2>4. HistoryInv'
    <3>1. \A j \in DOMAIN ran' : <<ran'[j].type, ran'[j].version>> \in recorded'
      BY <1>0, <1>3, <1>10, <2>1, <2>2, <2>3 DEF HistoryInv, OneTimeInv
    <3>2. \A r \in recorded' : \E j \in DOMAIN ran' : r = <<ran'[j].type, ran'[j].version>>
      <4>1. ASSUME NEW r \in recorded PROVE \E j \in DOMAIN ran' : r = <<ran'[j].type, ran'[j].version>>
        BY <2>1 DEF HistoryInv, OneTimeInv
      <4>2. recorded' = recorded \cup {<<step, m.version>>}
        BY <1>0, <1>3, <1>10
      <4>3. Len(ran) + 1 \in DOMAIN ran'
        BY <2>1
      <4> QED
        BY <2>1, <2>2, <4>1, <4>2, <4>3
    <3>3. \A j \in DOMAIN ran' : \E e \in dir' :
             /\ OneTimeFile(e) /\ TypeIn(e) = ran'[j].type
             /\ e.stamp = ran'[j].version /\ e.name = ran'[j].name
      BY <1>2, <2>0, <2>1, <2>2, <2>3 DEF HistoryInv, OneTimeInv
    <3>4. NeverTwice'
      <4>1. \A j, k \in DOMAIN ran : j # k =>
               ~ (ran[j].version = ran[k].version /\ ran[j].name = ran[k].name)
        BY DEF HistoryInv, OneTimeInv, NeverTwice
      <4>2. \A j, k \in DOMAIN ran' : j # k =>
               ~ (ran'[j].version = ran'[k].version /\ ran'[j].name = ran'[k].name)
        BY <2>0, <2>1, <2>2, <4>1
      <4> QED
        BY <4>2 DEF NeverTwice
    <3>5. faults' \in Nat
      BY <1>10 DEF HistoryInv, OneTimeInv
    <3> QED
      BY <2>1, <3>1, <3>2, <3>3, <3>4, <3>5 DEF HistoryInv
  <2>5. ASSUME NEW n, Ran(n) PROVE Ran(n)'
    BY <2>1, <2>5 DEF Ran
  <2>6. Ran(m)'
    <3>1. Len(ran) + 1 \in DOMAIN ran' /\ UNCHANGED step
      BY <1>10, <2>1
    <3>2. \E j \in DOMAIN ran' : ran'[j].type = step /\ ran'[j].version = m.version
      BY <2>1, <2>2, <3>1
    <3> QED
      BY <1>3, <3>2 DEF Ran
  <2>7. applied \subseteq AppliedVersioned(step)'
    BY <1>2, <1>10 DEF AppliedVersioned, ListingInv, Phases, OneTimeInv
  <2>8. ASSUME NEW j \in DOMAIN ran', NEW k \in 1..Len(listing'),
               ran'[j].type = step, listing'[k].type = step,
               ran'[j].version = listing'[k].version, ran'[j].name = listing'[k].name
        PROVE  ran'[j].version \in applied
    <3>1. PICK l \in 1..Len(listing) : l # i /\ listing'[k] = listing[l]
      BY <1>5
    <3>2. CASE j \in DOMAIN ran
      BY <1>2, <2>1, <2>8, <3>1, <3>2 DEF ListingInv, Phases, OneTimeInv
    <3>3. CASE ran'[j] = Identity(m)
      BY <2>0, <2>2, <2>8, <3>1, <3>3
    <3> QED
      BY <2>3, <3>2, <3>3
  <2> QED
    BY <1>8, <1>10, <2>4, <2>5, <2>6, <2>7, <2>8
<1>11. CASE faults' = faults + 1 /\ Leave /\ UNCHANGED <<ran, recorded>>
  <2>1. HistoryInv'
    BY <1>2, <1>11, HistoryStays DEF HistoryInv
  <2>2. ListingInv'
    BY <1>11 DEF Leave, ListingInv, Phases
  <2> QED
    BY <2>1, <2>2
<1> QED
  BY <1>1, <1>9, <1>10, <1>11

LEMMA LeastOf ==
    ASSUME NEW T, T \subseteq Nat, T # {}
    PROVE  \E n \in T : \A k \in T : ~ (k < n)
<1>1. PICK n \in T : \A k \in T : <<k, n>> \notin OpToRel(<, Nat)
  BY WFMin, NatLessThanWellFounded, Zenon
<1> QED
  BY <1>1, Zenon DEF OpToRel

\* A phase ends when nothing of its type is left.
LEMMA NothingLeft ==
    ASSUME NEW S, listing \in Seq(S), ~ \E i \in DOMAIN listing : IsNext(i)
    PROVE  \A k \in 1..Len(listing) : listing[k].type # step
<1> SUFFICES ASSUME NEW k \in 1..Len(listing), listing[k].type = step PROVE FALSE
  OBVIOUS
<1> DEFINE T == {j \in 1..Len(listing) : listing[j].type = step}
<1>1. PICK n \in T : \A j \in T : ~ (j < n)
  <2>1. T \subseteq Nat /\ T # {}
    OBVIOUS
  <2> HIDE DEF T
  <2> QED
    BY <2>1, LeastOf, Zenon
<1>2. \A j \in 1..(n - 1) : listing[j].type # step
  BY <1>1
<1> QED
  BY <1>1, <1>2 DEF IsNext

LEMMA RanIsApplied ==
    ASSUME HistoryInv, NEW i \in DOMAIN ran
    PROVE  ran[i].version \in AppliedVersioned(ran[i].type)
<1> DEFINE r == <<ran[i].type, ran[i].version>>
<1>1. r \in recorded /\ r[1] = ran[i].type /\ r[2] = ran[i].version
  BY DEF HistoryInv
<1> HIDE DEF r
<1> QED
  BY <1>1 DEF AppliedVersioned

LEMMA OneTimeStep == OneTimeInv /\ [Next]_vars => OneTimeInv'
<1> SUFFICES ASSUME OneTimeInv, [Next]_vars PROVE OneTimeInv'
  OBVIOUS
<1>1. DirInv'
  BY DirStep DEF OneTimeInv
<1>2. ASSUME UNCHANGED <<ran, recorded, faults>> PROVE HistoryInv'
  BY <1>2, HistoryStays DEF OneTimeInv, HistoryInv
<1>3. ASSUME step' \notin Phases PROVE ListingInv'
  BY <1>3 DEF ListingInv
<1>4. CASE RunOneTime
  BY <1>1, <1>4, RunOneTimeKeeps DEF OneTimeInv
<1>5. CASE DiscoverMigrations
  <2>1. /\ listing' \in Discover(dir) /\ step' = "ops" /\ applied' = AppliedVersioned("ops")
        /\ UNCHANGED <<dir, ran, recorded, faults>>
    BY <1>5 DEF DiscoverMigrations, world
  <2>2. HistoryInv'
    BY <1>2, <2>1
  <2>3. /\ listing' \in Seq(Found(dir))
        /\ \A j, k \in 1..Len(listing') : j # k => listing'[j] # listing'[k]
        /\ \A m \in Found(dir) : \E k \in 1..Len(listing') : listing'[k] = m
        /\ Sorted(listing')
    BY <2>1, DiscoverFacts DEF OneTimeInv, DirInv
  <2>4. /\ applied' \subseteq AppliedVersioned(step)'
        /\ \A i \in DOMAIN ran : ran[i].type = "ops" => ran[i].version \in applied'
    BY <2>1, RanIsApplied DEF AppliedVersioned, OneTimeInv
  <2>5. ListingInv'
    BY <2>1, <2>3, <2>4 DEF ListingInv
  <2> QED
    BY <1>1, <2>2, <2>5 DEF OneTimeInv
<1>6. CASE SchemaDone
  <2>1. /\ step = "schema" /\ step' = "data" /\ applied' = AppliedVersioned("data")
        /\ UNCHANGED <<dir, listing, ran, recorded, faults>>
    BY <1>6 DEF SchemaDone, world
  <2>2. HistoryInv'
    BY <1>2, <2>1
  <2>3. /\ applied' \subseteq AppliedVersioned(step)'
        /\ \A i \in DOMAIN ran : ran[i].type = "data" => ran[i].version \in applied'
    BY <2>1, RanIsApplied DEF AppliedVersioned, OneTimeInv
  <2>4. ListingInv'
    BY <2>1, <2>3 DEF ListingInv, OneTimeInv, Phases, Ran
  <2> QED
    BY <1>1, <2>2, <2>4 DEF OneTimeInv
<1>7. CASE OneTimeDone
  <2>1. /\ step \in {"ops", "data"} /\ ~ \E i \in DOMAIN listing : IsNext(i)
        /\ UNCHANGED <<dir, listing, applied, ran, recorded, faults>>
    BY <1>7 DEF OneTimeDone, world
  <2>2. HistoryInv'
    BY <1>2, <2>1
  <2>3. CASE step = "ops" /\ step' = "schema"
    <3>1. \A k \in 1..Len(listing) : listing[k].type # "ops"
      BY <2>1, <2>3, NothingLeft DEF ListingInv, OneTimeInv, Phases
    <3>2. ListingInv'
      BY <2>1, <2>3, <3>1 DEF ListingInv, OneTimeInv, Phases, Ran
    <3> QED
      BY <1>1, <2>2, <3>2 DEF OneTimeInv
  <2>4. CASE Leave
    BY <1>1, <1>3, <2>2, <2>4 DEF OneTimeInv, Leave, Phases
  <2> QED
    BY <1>7, <2>3, <2>4 DEF OneTimeDone
<1>8. ASSUME UNCHANGED <<ran, recorded, faults, dir, listing, applied, step>> PROVE OneTimeInv'
  BY <1>1, <1>2, <1>8 DEF OneTimeInv, ListingInv, Ran, AppliedVersioned
<1>9. ASSUME UNCHANGED <<ran, recorded, faults>>, step' \notin Phases PROVE OneTimeInv'
  BY <1>1, <1>2, <1>3, <1>9 DEF OneTimeInv
<1>10. CASE ExecStatement
  <2>1. UNCHANGED <<ran, recorded, faults, dir, listing, applied>> /\ (step' = step \/ Leave)
    BY <1>10 DEF ExecStatement, world
  <2> QED
    BY <1>8, <1>9, <2>1 DEF Leave, Phases
<1>11. ASSUME NEW c, Invoke(c) PROVE OneTimeInv'
  BY <1>9, <1>11 DEF Invoke, progress, Phases
<1>12. CASE ResolveSettings \/ Connect
  BY <1>9, <1>12 DEF ResolveSettings, Connect, Leave, progress, Phases
<1>13. CASE ResolveNames \/ DumpDone
  BY <1>9, <1>13 DEF ResolveNames, DumpDone, Leave, progress, Phases
<1>14. CASE WriteFile
  <2>1. HistoryInv'
    <3>1. UNCHANGED <<ran, recorded>> /\ faults' \in Nat
      BY <1>14 DEF WriteFile, OneTimeInv, HistoryInv
    <3> QED
      BY <3>1, HistoryStays
  <2>2. step' \notin Phases
    BY <1>14 DEF WriteFile, Leave, Phases
  <2> QED
    BY <1>1, <1>3, <2>1, <2>2 DEF OneTimeInv
<1>15. CASE AddFile \/ ConvertLayout \/ DropRoutine
  BY <1>9, <1>15 DEF AddFile, ConvertLayout, DropRoutine, progress, Phases
<1>16. CASE UNCHANGED vars
  BY <1>8, <1>16 DEF vars
<1> QED
  BY <1>4, <1>5, <1>6, <1>7, <1>10, <1>11, <1>12, <1>13, <1>14, <1>15, <1>16 DEF Next

LEMMA OneTimeInvariance == Spec => []OneTimeInv
<1>1. Init => OneTimeInv
  <2> SUFFICES ASSUME Init PROVE OneTimeInv
    OBVIOUS
  <2>1. PICK s \in Scenarios : dir = s.dir /\ toAdd = s.toAdd
    BY DEF Init
  <2>2. DirInv
    BY <2>1, CommandAssumption, TwinsAssumption DEF DirInv, Twins
  <2>3. HistoryInv /\ ListingInv
    BY DEF Init, HistoryInv, ListingInv, NeverTwice, Phases
  <2> QED
    BY <2>2, <2>3 DEF OneTimeInv
<1> QED
  BY <1>1, OneTimeStep, PTL DEF Spec

\* No one-time file runs twice, however often apply is repeated, whatever fails,
\* is added, or is moved from the flat layout to folders meanwhile
\* (applyVersioned, Discover).
THEOREM NothingRunsTwice == Spec => []NeverTwice
<1>1. OneTimeInv => NeverTwice
  BY DEF OneTimeInv, HistoryInv
<1> QED
  BY <1>1, OneTimeInvariance, PTL

\* An apply that gets to its end has run all it found, or a file of the same
\* version and folder in its place (applyVersioned, GetAppliedVersioned).
THEOREM OnlyTwinsAreSkipped == Spec => SkippedForTwinOnly
<1> DEFINE All == step = "data" /\ step' = "idle" /\ faults' = faults =>
                     \A m \in Found(dir) : IsVersioned(m.type) =>
                        \E i \in DOMAIN ran : ran[i].type = m.type /\ ran[i].version = m.version
<1>1. ASSUME OneTimeInv, [Next]_vars PROVE All
  <2> SUFFICES ASSUME step = "data", step' = "idle", faults' = faults,
                      NEW m \in Found(dir), IsVersioned(m.type)
               PROVE  Ran(m)
    BY DEF Ran
  <2>1. OneTimeDone
    <3>1. ~RunOneTime
      BY <1>1 DEF RunOneTime, OneTimeInv, HistoryInv
    <3>2. \A c : ~Invoke(c)
      BY DEF Invoke
    <3>3. ~ (ResolveSettings \/ Connect \/ DiscoverMigrations \/ ExecStatement \/ SchemaDone)
      BY DEF ResolveSettings, Connect, DiscoverMigrations, ExecStatement, SchemaDone
    <3>4. ~ (ResolveNames \/ WriteFile \/ DumpDone \/ AddFile \/ ConvertLayout \/ DropRoutine)
      BY DEF ResolveNames, WriteFile, DumpDone, AddFile, ConvertLayout, DropRoutine
    <3>5. ~UNCHANGED vars
      BY DEF vars
    <3> QED
      BY <1>1, <3>1, <3>2, <3>3, <3>4, <3>5 DEF Next
  <2>2. listing \in Seq(Found(dir)) /\ \A k \in 1..Len(listing) : listing[k].type # "ops"
    BY <1>1 DEF OneTimeInv, ListingInv, Phases
  <2>3. \A k \in 1..Len(listing) : listing[k].type # "data"
    BY <2>1, <2>2, NothingLeft DEF OneTimeDone
  <2> QED
    BY <1>1, <2>2, <2>3 DEF OneTimeInv, ListingInv, Phases, IsVersioned
<1>2. ASSUME OneTimeInv, [Next]_vars PROVE [All]_vars
  BY <1>1, <1>2
<1> QED
  BY <1>2, OneTimeInvariance, PTL DEF Spec, SkippedForTwinOnly

-----------------------------------------------------------------------------
(* Timestamps *)

\* Induction over the numbers, for a set.
LEMMA Induction ==
    ASSUME NEW T, 0 \in T, \A n \in Nat : n \in T => n + 1 \in T
    PROVE  Nat \subseteq T
<1> SUFFICES ASSUME Nat \ T # {} PROVE FALSE
  OBVIOUS
<1> DEFINE F == Nat \ T
<1>1. F \subseteq Nat /\ F # {}
  OBVIOUS
<1>2. PICK n \in F : \A k \in F : ~ (k < n)
  <2> HIDE DEF F
  <2> QED
    BY <1>1, LeastOf
<1>3. n \in Nat /\ n # 0 /\ n - 1 \in Nat /\ n - 1 < n
  BY <1>2
<1>4. n - 1 \in T
  BY <1>2, <1>3
<1> QED
  BY <1>2, <1>3, <1>4

\* What begins with b and goes on, at i, as the function G says.
Goes(f, b, G, n) == f[0] = b /\ \A i \in 1..n : f[i] = G[<<i, f[i - 1]>>]

\* and so there is such a sequence.
LEMMA Recursion ==
    ASSUME NEW S, NEW b \in S, NEW n \in Nat, NEW G \in [(1..n) \X S -> S]
    PROVE  \E f \in [0..n -> S] : Goes(f, b, G, n)
<1> DEFINE T == {k \in Nat : k <= n => \E f \in [0..k -> S] : Goes(f, b, G, k)}
<1>1. 0 \in T
  <2> DEFINE e == [i \in 0..0 |-> b]
  <2>1. e \in [0..0 -> S] /\ Goes(e, b, G, 0)
    BY DEF Goes
  <2> QED
    BY <2>1
<1>2. ASSUME NEW k \in Nat, k \in T PROVE k + 1 \in T
  <2> SUFFICES ASSUME k + 1 <= n
               PROVE  \E f \in [0..(k + 1) -> S] : Goes(f, b, G, k + 1)
    OBVIOUS
  <2>1. PICK f \in [0..k -> S] : Goes(f, b, G, k)
    BY <1>2
  <2> DEFINE x == G[<<k + 1, f[k]>>]
             g == [i \in 0..(k + 1) |-> IF i = k + 1 THEN x ELSE f[i]]
  <2>2. x \in S
    <3>1. <<k + 1, f[k]>> \in (1..n) \X S
      OBVIOUS
    <3> QED
      BY <3>1
  <2>3. g[k + 1] = x /\ \A i \in 0..k : g[i] = f[i] /\ i # k + 1
    OBVIOUS
  <2>4. g \in [0..(k + 1) -> S]
    <3> HIDE DEF x
    <3> QED
      BY <2>2
  <2> HIDE DEF g
  <2>5. ASSUME NEW i \in 1..(k + 1) PROVE g[i] = G[<<i, g[i - 1]>>]
    <3>1. i - 1 \in 0..k /\ (i # k + 1 => i \in 1..k /\ i \in 0..k)
      OBVIOUS
    <3> QED
      BY <2>1, <2>3, <3>1 DEF Goes
  <2>6. g[0] = b
    BY <2>1, <2>3 DEF Goes
  <2> QED
    BY <2>4, <2>5, <2>6 DEF Goes
<1> HIDE DEF T
<1>3. n \in T
  BY <1>1, <1>2, Induction
<1> QED
  BY <1>3 DEF T

\* Numbers of more and more digits of v.
Digits(f, v) == f[0] = 0 /\ \A i \in 1..Len(v) : f[i] = 10 * f[i - 1] + v[i]

LEMMA NumberIs ==
    ASSUME NEW v \in Seq(0..9)
    PROVE  \E f \in [0..Len(v) -> Nat] : Digits(f, v) /\ Number(v) = f[Len(v)]
<1> DEFINE n == Len(v)
           G == [p \in (1..n) \X Nat |-> 10 * p[2] + v[p[1]]]
           Is(f) == f = [i \in 0..n |-> IF i = 0 THEN 0 ELSE 10 * f[i - 1] + v[i]]
<1>1. n \in Nat /\ \A i \in 1..n : v[i] \in Nat
  OBVIOUS
<1> HIDE DEF n
<1>2. G \in [(1..n) \X Nat -> Nat]
  <2>1. ASSUME NEW p \in (1..n) \X Nat PROVE 10 * p[2] + v[p[1]] \in Nat
    BY <1>1
  <2> QED
    BY <2>1
<1>3. \E f \in [0..n -> Nat] : Goes(f, 0, G, n)
  <2> HIDE DEF G
  <2> QED
    BY <1>1, <1>2, Recursion
<1>4. PICK f \in [0..n -> Nat] : Goes(f, 0, G, n)
  BY <1>3
<1>5. ASSUME NEW i \in 1..n PROVE f[i] = 10 * f[i - 1] + v[i]
  <2>1. i - 1 \in 0..n
    BY <1>1
  <2>2. <<i, f[i - 1]>> \in (1..n) \X Nat
    BY <1>4, <2>1
  <2> QED
    BY <1>4, <2>2 DEF Goes
<1>6. f[0] = 0
  BY <1>4 DEF Goes
<1>7. Is(f)
  <2>1. \A i \in 0..n : i # 0 => i \in 1..n
    BY <1>1
  <2> QED
    BY <1>4, <1>5, <1>6, <2>1
<1>8. PICK g : g = CHOOSE h : Is(h)
  OBVIOUS
<1>9. Is(g)
  BY <1>7, <1>8
<1>10. Number(v) = g[n]
  BY <1>8 DEF Number, n
<1>11. ASSUME NEW i \in 0..n PROVE g[i] = IF i = 0 THEN 0 ELSE 10 * g[i - 1] + v[i]
  BY <1>9
<1>12. DOMAIN g = 0..n
  BY <1>9
<1> HIDE DEF Is
<1> DEFINE T == {k \in Nat : k <= n => g[k] = f[k]}
<1>13. 0 \in T
  BY <1>1, <1>6, <1>11
<1>14. ASSUME NEW k \in Nat, k \in T PROVE k + 1 \in T
  <2> SUFFICES ASSUME k + 1 <= n PROVE g[k + 1] = f[k + 1]
    OBVIOUS
  <2>1. g[k] = f[k] /\ k + 1 \in 1..n /\ k + 1 \in 0..n /\ (k + 1) - 1 = k /\ k + 1 # 0
    BY <1>1, <1>14
  <2>2. g[k + 1] = 10 * g[(k + 1) - 1] + v[k + 1]
    BY <1>11, <2>1
  <2>3. f[k + 1] = 10 * f[(k + 1) - 1] + v[k + 1]
    BY <1>5, <2>1
  <2> QED
    BY <2>1, <2>2, <2>3
<1> HIDE DEF T
<1>15. n \in T
  BY <1>1, <1>13, <1>14, Induction
<1>16. Number(v) = f[n]
  BY <1>1, <1>10, <1>15 DEF T
<1> QED
  BY <1>4, <1>5, <1>6, <1>16 DEF Digits, n

LEMMA MoreDigits ==
    ASSUME NEW x \in Nat, NEW y \in Nat, NEW c \in 0..9, NEW d \in 0..9, y < x \/ (y = x /\ d < c)
    PROVE  10 * y + d < 10 * x + c
OBVIOUS

\* Of two timestamps of one width the lesser number is the lesser string.
LEMMA OlderIsLess ==
    ASSUME NEW v \in Seq(0..Underscore), NEW w \in Seq(0..Underscore), Older(v, w)
    PROVE  StringLess(v, w)
<1> SUFFICES ASSUME ~StringLess(v, w) PROVE FALSE
  OBVIOUS
<1> DEFINE n == Len(v)
<1>1. n \in Nat /\ Len(w) = n /\ Number(v) < Number(w)
  BY DEF Older
<1>2. v \in Seq(0..9) /\ w \in Seq(0..9)
  <2>1. ASSUME NEW i \in 1..n PROVE v[i] \in 0..9 /\ w[i] \in 0..9
    <3>1. v[i] \in Range(v) /\ w[i] \in Range(w) /\ v[i] \in 0..10 /\ w[i] \in 0..10
      BY <1>1 DEF Range, Underscore
    <3> QED
      BY <3>1 DEF Older, Underscore
  <2> QED
    BY <1>1, <2>1
<1>3. PICK a \in [0..n -> Nat] : Digits(a, v) /\ Number(v) = a[n]
  BY <1>2, NumberIs
<1>4. \E f \in [0..n -> Nat] : Digits(f, w) /\ Number(w) = f[n]
  BY <1>1, <1>2, NumberIs
<1>5. PICK b \in [0..n -> Nat] : Digits(b, w) /\ Number(w) = b[n]
  BY <1>4
<1> DEFINE Level(k) == a[k] = b[k] /\ \A j \in 1..k : v[j] = w[j]
           T == {k \in Nat : k <= n => Level(k) \/ b[k] < a[k]}
<1>6. 0 \in T
  BY <1>3, <1>5 DEF Digits
<1>7. ASSUME NEW k \in Nat, k \in T PROVE k + 1 \in T
  <2> SUFFICES ASSUME k + 1 <= n PROVE Level(k + 1) \/ b[k + 1] < a[k + 1]
    OBVIOUS
  <2>1. k \in 0..n /\ k + 1 \in 1..n /\ (k + 1) - 1 = k
    BY <1>1
  <2>2. a[k] \in Nat /\ b[k] \in Nat /\ v[k + 1] \in 0..9 /\ w[k + 1] \in 0..9
    BY <1>1, <1>2, <1>3, <1>5, <2>1
  <2>3. a[k + 1] = 10 * a[(k + 1) - 1] + v[k + 1] /\ b[k + 1] = 10 * b[(k + 1) - 1] + w[k + 1]
    BY <1>1, <1>3, <1>5, <2>1 DEF Digits
  <2>4. a[k + 1] = 10 * a[k] + v[k + 1] /\ b[k + 1] = 10 * b[k] + w[k + 1]
    BY <2>1, <2>3
  <2>5. CASE b[k] < a[k]
    BY <2>2, <2>4, <2>5, MoreDigits
  <2>6. CASE Level(k)
    <3>1. ~ (v[k + 1] < w[k + 1])
      <4>1. k + 1 \in DOMAIN v \cap DOMAIN w /\ \A j \in 1..((k + 1) - 1) : v[j] = w[j]
        BY <1>1, <2>1, <2>6
      <4> QED
        BY <4>1 DEF StringLess
    <3>2. CASE v[k + 1] = w[k + 1]
      <4>1. \A j \in 1..(k + 1) : j = k + 1 \/ j \in 1..k
        OBVIOUS
      <4> QED
        BY <2>4, <2>6, <3>2, <4>1
    <3>3. CASE w[k + 1] < v[k + 1]
      BY <2>2, <2>4, <2>6, <3>3, MoreDigits
    <3> QED
      BY <2>2, <3>1, <3>2, <3>3
  <2> QED
    BY <1>7, <2>1, <2>5, <2>6
<1> HIDE DEF T
<1>8. n \in T
  BY <1>1, <1>6, <1>7, Induction
<1>9. a[n] \in Nat /\ b[n] \in Nat /\ ~ (a[n] < b[n])
  BY <1>1, <1>3, <1>5, <1>8 DEF T
<1> QED
  BY <1>1, <1>3, <1>5, <1>9

\* Before a one-time migration, whatever is older and of its folder was executed,
\* also when it was found only later (Discover, applyVersioned).
THEOREM OlderRunsFirst == Spec => OlderFirst
<1> DEFINE First == ran' # ran =>
        \A m \in Found(dir) :
            m.type = Last(ran').type /\ Older(m.version, Last(ran').version) =>
            <<m.type, m.version>> \in recorded
<1>1. ASSUME OneTimeInv, [Next]_vars PROVE First
  <2> SUFFICES ASSUME ran' # ran, NEW m \in Found(dir), m.type = Last(ran').type,
                      Older(m.version, Last(ran').version)
               PROVE  <<m.type, m.version>> \in recorded
    OBVIOUS
  <2>1. RunOneTime
    BY <1>1 DEF Next, vars, progress, Invoke, ResolveSettings, Connect, DiscoverMigrations, OneTimeDone,
           ExecStatement, SchemaDone, ResolveNames, WriteFile, DumpDone, AddFile, ConvertLayout,
           DropRoutine
  <2>2. PICK i \in DOMAIN listing : IsNext(i) /\ ran' = Append(ran, Identity(listing[i]))
    BY <2>1 DEF RunOneTime
  <2>3. step \in {"ops", "data"} /\ listing \in Seq(Found(dir)) /\ Sorted(listing) /\ ran \in Seq(Execution)
    BY <1>1, <2>1 DEF RunOneTime, OneTimeInv, ListingInv, HistoryInv, Phases
  <2>4. i \in 1..Len(listing) /\ listing[i] \in Found(dir) /\ listing[i].type = step
    BY <2>2, <2>3 DEF IsNext
  <2>5. Last(ran') = Identity(listing[i])
    BY <2>2, <2>3 DEF Last
  <2>6. m.type = step /\ Older(m.version, listing[i].version) /\ IsVersioned(step)
    BY <2>3, <2>4, <2>5 DEF Identity, IsVersioned
  <2>7. \A f \in Found(dir) : IsVersioned(f.type) => f.version \in Seq(0..Underscore)
    BY <1>1, FoundOneTime DEF OneTimeInv, DirInv, DirEntry
  <2>8. StringLess(m.version, listing[i].version)
    BY <2>4, <2>6, <2>7, OlderIsLess
  <2>9. (\E k \in 1..Len(listing) : listing[k] = m) \/ Ran(m)
    BY <1>1, <2>3, <2>6 DEF OneTimeInv, ListingInv, Phases
  <2>10. ASSUME NEW k \in 1..Len(listing), listing[k] = m PROVE FALSE
    <3>1. ~ (k < i)
      BY <2>2, <2>4, <2>6, <2>10 DEF IsNext
    <3>2. k # i
      <4>1. m.version \in Seq(0..Underscore)
        BY <2>6, <2>7
      <4> QED
        BY <2>4, <2>8, <2>10, <4>1 DEF StringLess, IsStrictPrefix, Underscore
    <3>3. i < k
      BY <2>4, <3>1, <3>2
    <3>4. ~Less(m, listing[i])
      BY <2>3, <2>4, <2>10, <3>3 DEF Sorted
    <3> QED
      BY <2>4, <2>6, <2>8, <3>4 DEF Less
  <2> QED
    BY <1>1, <2>9, <2>10 DEF Ran, OneTimeInv, HistoryInv
<1>2. ASSUME OneTimeInv, [Next]_vars PROVE [First]_vars
  BY <1>1, <1>2
<1> QED
  BY <1>2, OneTimeInvariance, PTL DEF Spec, OlderFirst

-----------------------------------------------------------------------------
(* The filter *)

\* The plan's statements are those of a difference that passed the filter, and
\* whatever something hangs off or needs is there or declared.
FilteredInv ==
    /\ live \cup files.declared \cup files.commented \subseteq Object
    /\ \A o \in files.declared : Needs[o] \cup {On[o]} \subseteq files.declared
    /\ \A o \in live : Needs[o] \cup {On[o]} \subseteq live \cup files.declared
    /\ step = "schema" =>
          \A s \in plan : \E l \in SUBSET Object :
              s \in Difference(files, l) /\ Kept(s, files, l, settings.strict)

\* What a difference is made of.
LEMMA DifferenceIs ==
    ASSUME NEW l \in SUBSET Object, NEW s \in Difference(files, l)
    PROVE  /\ Removes(s) => s.of \in l \ files.declared
           /\ ~Removes(s) => s.of \in files.declared
           /\ Kind[s.of] = "grant" => s.verb \in {"grant", "revoke"}
           /\ s.verb # "create" \/ ~Removes(s)
BY DEF Difference, Removes

LEMMA FilteredStep == FilteredInv /\ [Next]_vars => FilteredInv'
<1> SUFFICES ASSUME FilteredInv, [Next]_vars PROVE FilteredInv'
  OBVIOUS
<1>1. CASE OneTimeDone
  <2>1. UNCHANGED <<files, live, settings>>
    BY <1>1 DEF OneTimeDone, world
  <2>2. step' = "schema" =>
           plan' = {s \in Difference(files, live) : Kept(s, files, live, settings.strict)}
    BY <1>1 DEF OneTimeDone, Leave
  <2>3. live \in SUBSET Object
    BY DEF FilteredInv
  <2>4. step' = "schema" => \A s \in plan' : \E l \in SUBSET Object :
           s \in Difference(files', l) /\ Kept(s, files', l, settings'.strict)
    BY <2>1, <2>2, <2>3
  <2> QED
    BY <2>1, <2>4 DEF FilteredInv
<1>2. CASE ExecStatement
  <2>1. UNCHANGED <<files, settings>> /\ step = "schema" /\ plan' \subseteq plan
    BY <1>2 DEF ExecStatement, world
  <2>2. CASE live' = live
    BY <2>1, <2>2 DEF FilteredInv
  <2>3. ASSUME NEW s \in plan, Blockers(s, live) = {}, live' = Executed(s, files, live)
        PROVE  FilteredInv'
    <3>1. PICK l \in SUBSET Object : s \in Difference(files, l)
      BY <2>1 DEF FilteredInv
    <3>2. CASE Removes(s)
      <4>1. live' = live \ Dropped(s.of)
        BY <2>3, <3>2 DEF Executed
      <4>2. ASSUME NEW o \in live' PROVE Needs[o] \cup {On[o]} \subseteq live' \cup files.declared
        <5>1. Needs[o] \cap Dropped(s.of) = {}
          BY <2>3, <3>2, <4>1 DEF Blockers
        <5>2. On[o] \in Dropped(s.of) => On[o] = s.of
          <6>1. On[o] = o \/ (Kind[On[o]] = "table" /\ On[On[o]] = On[o])
            BY <4>1, FilterAssumption DEF FilteredInv
          <6> QED
            BY <4>1, <6>1 DEF Dropped
        <5>3. On[o] # s.of
          BY <4>1 DEF Dropped, FilteredInv
        <5> QED
          BY <4>1, <5>1, <5>2, <5>3 DEF FilteredInv
      <4> QED
        BY <2>1, <4>1, <4>2 DEF FilteredInv
    <3>3. CASE ~Removes(s)
      <4>1. live' = live \cup {s.of} \cup {o \in files.declared : Kind[o] = "column" /\ On[o] = s.of}
        BY <2>3, <3>3 DEF Executed
      <4>2. s.of \in files.declared
        BY <3>1, <3>3, DifferenceIs
      <4> QED
        BY <2>1, <4>1, <4>2 DEF FilteredInv
    <3> QED
      BY <3>2, <3>3
  <2> QED
    BY <1>2, <2>2, <2>3 DEF ExecStatement
<1>3. CASE UNCHANGED <<files, live>> /\ step' # "schema"
  BY <1>3 DEF FilteredInv
<1>4. CASE UNCHANGED <<files, live, plan, settings, step>>
  BY <1>4 DEF FilteredInv
<1>5. \/ OneTimeDone \/ ExecStatement
      \/ UNCHANGED <<files, live>> /\ step' # "schema"
      \/ UNCHANGED <<files, live, plan, settings, step>>
  <2>1. ASSUME NEW c, Invoke(c) PROVE UNCHANGED <<files, live>> /\ step' # "schema"
    BY <2>1 DEF Invoke, world
  <2>2. CASE ResolveSettings \/ Connect \/ DiscoverMigrations
    BY <2>2 DEF ResolveSettings, Connect, DiscoverMigrations, Leave, world
  <2>3. CASE SchemaDone \/ RunOneTime
    BY <2>3 DEF SchemaDone, RunOneTime, Leave, world
  <2>4. CASE ResolveNames \/ WriteFile \/ DumpDone
    BY <2>4 DEF ResolveNames, WriteFile, DumpDone, Leave, world
  <2>5. CASE AddFile \/ ConvertLayout \/ DropRoutine \/ UNCHANGED vars
    BY <2>5 DEF AddFile, ConvertLayout, DropRoutine, progress, vars
  <2> QED
    BY <2>1, <2>2, <2>3, <2>4, <2>5 DEF Next
<1> QED
  BY <1>1, <1>2, <1>3, <1>4, <1>5

LEMMA FilteredInvariance == Spec => []FilteredInv
<1>1. Init => FilteredInv
  BY CommandAssumption DEF Init, FilteredInv
<1> QED
  BY <1>1, FilteredStep, PTL DEF Spec

\* A statement that passes the filter removes no privilege, and only what is the
\* files' own or has a name in common with it.
LEMMA DropIsMeant ==
    ASSUME FilteredInv, NEW l \in SUBSET Object, NEW s \in Difference(files, l),
           Kept(s, files, l, FALSE), Removes(s)
    PROVE  /\ s.of \in Object /\ s.of \notin files.declared /\ Kind[s.of] # "grant"
           /\ Ours(s.of) \/ NamedByChance(s.of)
<1> DEFINE o == s.of
           owned == {q \in Object : Kind[q] = "sequence" /\ On[q] \in Named(files)}
<1>1. o \in l \ files.declared /\ o \in Object
  BY DifferenceIs
<1>2. /\ Kind[o] # "grant" /\ Kind[o] \notin UndeclaredAttachedClasses(files)
      /\ Words(s, files) \cap DefinedObjects(files, l) # {}
  BY DifferenceIs DEF Kept, StatementTargetsDefinedObject, Removes
<1>3. Named(files) \subseteq Relations /\ Named(files) \subseteq files.declared \cup files.commented
  BY DEF Named, Relations, FilteredInv
<1>4. \E q \in Named(files) \cup owned : NameOf[q] \in Words(s, files)
  <2>1. PICK w \in Words(s, files) : w \in DefinedObjects(files, l)
    BY <1>2
  <2>2. CASE w \in ExtractDefinedObjects(files)
    BY <2>1, <2>2 DEF ExtractDefinedObjects
  <2>3. CASE w \notin ExtractDefinedObjects(files)
    <3>1. PICK q \in OwnedSequences(l) : w = NameOf[q] /\ NameOf[On[q]] \in ExtractDefinedObjects(files)
      BY <2>1, <2>3 DEF DefinedObjects
    <3>2. PICK r \in Named(files) : NameOf[On[q]] = NameOf[r]
      BY <3>1 DEF ExtractDefinedObjects
    <3>3. q \in Object /\ Kind[q] = "sequence" /\ On[q] \in Relations
      BY <3>1, FilterAssumption DEF OwnedSequences, Relations
    <3>4. On[q] = r
      BY <1>3, <3>2, <3>3, FilterAssumption
    <3> QED
      BY <2>1, <3>1, <3>3, <3>4
  <2> QED
    BY <2>2, <2>3
<1>5. PICK q \in Named(files) \cup owned : NameOf[q] \in Words(s, files)
  BY <1>4
<1>6. CASE NameOf[q] \in {files.schema, NameOf[o]} \cup Mentions[o]
  BY <1>1, <1>2, <1>5, <1>6 DEF NamedByChance
<1>7. CASE Kind[o] \in ThroughTable /\ NameOf[q] = NameOf[On[o]] /\ On[o] = o
  BY <1>1, <1>2, <1>5, <1>7 DEF NamedByChance
<1>8. CASE Kind[o] \in ThroughTable /\ NameOf[q] = NameOf[On[o]] /\ On[o] # o
  <2>1. On[o] \in Relations /\ Kind[On[o]] = "table"
    BY <1>1, <1>8, FilterAssumption DEF Relations
  <2>2. On[o] = q
    BY <1>3, <1>5, <1>8, <2>1, FilterAssumption DEF Relations
  <2>3. On[o] \in Named(files)
    BY <1>5, <2>1, <2>2
  <2>4. \/ Kind[o] = "column"
        \/ Kind[o] \in Attached /\ \E r \in files.declared \cup files.commented : Kind[r] = Kind[o]
    BY <1>2, <1>8 DEF ThroughTable, UndeclaredAttachedClasses
  <2> QED
    BY <1>1, <1>2, <2>3, <2>4 DEF Ours
<1>9. \/ NameOf[q] \in {files.schema, NameOf[o]} \cup Mentions[o]
      \/ Kind[o] \in ThroughTable /\ NameOf[q] = NameOf[On[o]]
  BY <1>5 DEF Words
<1> QED
  BY <1>6, <1>7, <1>8, <1>9

\* What the files are not about is not dropped, unless with a table of theirs or
\* for its name; no privilege is revoked (Diff, statementTargetsDefinedObject).
THEOREM OthersAreSpared == Spec => UndeclaredSpared
<1> DEFINE Spares == ~settings.strict =>
        \A o \in live \ live' :
            \/ Ours(o) /\ Kind[o] # "grant"
            \/ NamedByChance(o)
            \/ \E q \in live \ live' : q # o /\ o \in Dropped(q) /\ (Ours(q) \/ NamedByChance(q))
<1>1. ASSUME FilteredInv, [Next]_vars PROVE [Spares]_live
  <2> SUFFICES ASSUME live' # live, ~settings.strict, NEW o \in live \ live'
               PROVE  \/ Ours(o) /\ Kind[o] # "grant"
                      \/ NamedByChance(o)
                      \/ \E q \in live \ live' : q # o /\ o \in Dropped(q) /\ (Ours(q) \/ NamedByChance(q))
    OBVIOUS
  <2>1. ExecStatement
    BY <1>1 DEF Next, vars, Invoke, ResolveSettings, Connect, DiscoverMigrations, RunOneTime,
           OneTimeDone, SchemaDone, ResolveNames, WriteFile, DumpDone, AddFile, ConvertLayout,
           DropRoutine
  <2>2. PICK s \in plan : live' = Executed(s, files, live)
    BY <2>1 DEF ExecStatement
  <2>3. PICK l \in SUBSET Object : s \in Difference(files, l) /\ Kept(s, files, l, FALSE)
    BY <1>1, <2>1 DEF ExecStatement, FilteredInv, Kept
  <2>4. Removes(s) /\ live' = live \ Dropped(s.of)
    BY <2>2 DEF Executed
  <2>5. /\ s.of \notin files.declared /\ Kind[s.of] # "grant" /\ s.of \in Object
        /\ Ours(s.of) \/ NamedByChance(s.of)
    BY <1>1, <2>3, <2>4, DropIsMeant
  <2>6. CASE o = s.of
    BY <2>5, <2>6
  <2>7. CASE o # s.of
    <3>1. o \in Dropped(s.of) /\ (On[o] = s.of \/ s.of \in Needs[o]) /\ s.of \in Dropped(s.of)
      BY <2>4, <2>5, <2>7 DEF Dropped
    <3>2. s.of \in live \ live'
      BY <1>1, <2>4, <2>5, <3>1 DEF FilteredInv
    <3> QED
      BY <2>5, <2>7, <3>1, <3>2
  <2> QED
    BY <2>6, <2>7
<1> QED
  BY <1>1, FilteredInvariance, PTL DEF Spec, UndeclaredSpared

\* Where a schema folder's apply stands, having begun with the catalog l: what
\* the plan has lost was executed, and nothing but declared objects has come.
Underway(l) ==
    /\ plan \subseteq {s \in Difference(files, l) : Kept(s, files, l, settings.strict)}
    /\ live \subseteq l \cup files.declared /\ l \cap files.declared \subseteq live
    /\ \A s \in Difference(files, l) \ plan :
          Kept(s, files, l, settings.strict) =>
              /\ Removes(s) => s.of \notin live
              /\ ~Removes(s) => /\ s.of \in live
                                /\ \A c \in files.declared : Kind[c] = "column" /\ On[c] = s.of => c \in live

ReachInv == step = "schema" => \E l \in SUBSET Object : Underway(l)

\* Nothing that is declared goes with what is not.
LEMMA DroppedIsUndeclared ==
    ASSUME FilteredInv, NEW o \in Object \ files.declared
    PROVE  Dropped(o) \cap files.declared = {} /\ o \in Dropped(o)
BY DEF FilteredInv, Dropped

\* What one statement does to what others have done.
LEMMA ExecutedIs ==
    ASSUME FilteredInv, NEW l \in SUBSET Object, NEW s \in Difference(files, l),
           live' = Executed(s, files, live)
    PROVE  /\ live \cap files.declared \subseteq live'
           /\ live' \subseteq live \cup files.declared
           /\ Removes(s) => s.of \notin live'
           /\ ~Removes(s) => /\ s.of \in live'
                             /\ \A c \in files.declared : Kind[c] = "column" /\ On[c] = s.of => c \in live'
<1>1. CASE Removes(s)
  <2>1. live' = live \ Dropped(s.of) /\ s.of \in Object \ files.declared
    BY <1>1, DifferenceIs DEF Executed
  <2>2. Dropped(s.of) \cap files.declared = {} /\ s.of \in Dropped(s.of)
    BY <2>1, DroppedIsUndeclared
  <2> QED
    BY <1>1, <2>1, <2>2
<1>2. CASE ~Removes(s)
  <2>1. /\ live' = live \cup {s.of} \cup {o \in files.declared : Kind[o] = "column" /\ On[o] = s.of}
        /\ s.of \in files.declared
    BY <1>2, DifferenceIs DEF Executed
  <2> QED
    BY <1>2, <2>1
<1> QED
  BY <1>1, <1>2

LEMMA ReachStep == FilteredInv /\ ReachInv /\ [Next]_vars => ReachInv'
<1> SUFFICES ASSUME FilteredInv, ReachInv, [Next]_vars, step' = "schema"
             PROVE  \E l \in SUBSET Object : Underway(l)'
  BY DEF ReachInv
<1>1. CASE OneTimeDone
  <2>1. UNCHANGED <<files, live, settings>> /\ live \in SUBSET Object
    BY <1>1 DEF OneTimeDone, world, FilteredInv
  <2>2. plan' = {s \in Difference(files, live) : Kept(s, files, live, settings.strict)}
    BY <1>1 DEF OneTimeDone, Leave
  <2>3. Underway(live)'
    BY <2>1, <2>2 DEF Underway
  <2>4. PICK l \in SUBSET Object : l = live
    BY <2>1
  <2>5. /\ plan' \subseteq {s \in Difference(files', l) : Kept(s, files', l, settings'.strict)}
        /\ live' \subseteq l \cup files'.declared /\ l \cap files'.declared \subseteq live'
        /\ \A s \in Difference(files', l) \ plan' : ~Kept(s, files', l, settings'.strict)
    BY <2>1, <2>2, <2>4
  <2> QED
    BY <2>5 DEF Underway
<1>2. CASE ExecStatement
  <2>1. UNCHANGED <<files, settings>> /\ step = "schema"
    BY <1>2 DEF ExecStatement, world
  <2>2. PICK s \in plan : live' = Executed(s, files, live) /\ plan' = plan \ {s}
    BY <1>2 DEF ExecStatement, Leave
  <2>3. PICK l \in SUBSET Object : Underway(l)
    BY <2>1 DEF ReachInv
  <2>4. s \in Difference(files, l)
    BY <2>3 DEF Underway
  <2>5. /\ live \cap files.declared \subseteq live'
        /\ live' \subseteq live \cup files.declared
        /\ Removes(s) => s.of \notin live'
        /\ ~Removes(s) => /\ s.of \in live'
                          /\ \A c \in files.declared : Kind[c] = "column" /\ On[c] = s.of => c \in live'
    BY <2>2, <2>4, ExecutedIs
  <2>6. ASSUME NEW t \in Difference(files, l) \ plan', Kept(t, files, l, settings.strict)
        PROVE  /\ Removes(t) => t.of \notin live'
               /\ ~Removes(t) => /\ t.of \in live'
                                 /\ \A c \in files.declared : Kind[c] = "column" /\ On[c] = t.of => c \in live'
    <3>1. CASE t = s
      BY <2>5, <3>1
    <3>2. CASE t # s
      <4>1. /\ Removes(t) => t.of \notin live
            /\ ~Removes(t) => /\ t.of \in live
                              /\ \A c \in files.declared : Kind[c] = "column" /\ On[c] = t.of => c \in live
        BY <2>2, <2>3, <2>6, <3>2 DEF Underway
      <4>2. /\ Removes(t) => t.of \notin files.declared
            /\ ~Removes(t) => t.of \in files.declared
        BY <2>6, DifferenceIs
      <4> QED
        BY <2>5, <4>1, <4>2
    <3> QED
      BY <3>1, <3>2
  <2>7. /\ plan' \subseteq {t \in Difference(files, l) : Kept(t, files, l, settings.strict)}
        /\ live' \subseteq l \cup files.declared /\ l \cap files.declared \subseteq live'
    BY <2>2, <2>3, <2>5 DEF Underway
  <2>8. /\ plan' \subseteq {t \in Difference(files', l) : Kept(t, files', l, settings'.strict)}
        /\ live' \subseteq l \cup files'.declared /\ l \cap files'.declared \subseteq live'
        /\ \A t \in Difference(files', l) \ plan' :
              Kept(t, files', l, settings'.strict) =>
              /\ Removes(t) => t.of \notin live'
              /\ ~Removes(t) => /\ t.of \in live'
                                /\ \A c \in files'.declared : Kind[c] = "column" /\ On[c] = t.of => c \in live'
    BY <2>1, <2>6, <2>7
  <2> QED
    BY <2>8 DEF Underway
<1>3. CASE UNCHANGED <<files, live, plan, settings, step>>
  <2>1. PICK l \in SUBSET Object : Underway(l)
    BY <1>3 DEF ReachInv
  <2>2. Underway(l)'
    BY <1>3, <2>1 DEF Underway
  <2> QED
    BY <2>2
<1>4. OneTimeDone \/ ExecStatement \/ UNCHANGED <<files, live, plan, settings, step>>
  <2>1. ASSUME NEW c, Invoke(c) PROVE FALSE
    BY <2>1 DEF Invoke
  <2>2. ~ (ResolveSettings \/ Connect \/ DiscoverMigrations \/ SchemaDone)
    BY DEF ResolveSettings, Connect, DiscoverMigrations, SchemaDone, Leave
  <2>3. CASE RunOneTime
    BY <2>3 DEF RunOneTime, Leave, world
  <2>4. ~ (ResolveNames \/ WriteFile \/ DumpDone)
    BY DEF ResolveNames, WriteFile, DumpDone, Leave
  <2>5. CASE AddFile \/ ConvertLayout \/ DropRoutine \/ UNCHANGED vars
    BY <2>5 DEF AddFile, ConvertLayout, DropRoutine, progress, vars
  <2> QED
    BY <2>1, <2>2, <2>3, <2>4, <2>5 DEF Next
<1> QED
  BY <1>1, <1>2, <1>3, <1>4

LEMMA ReachInvariance == Spec => []ReachInv
<1>1. Init => ReachInv
  BY DEF Init, ReachInv
<1> QED
  BY <1>1, ReachStep, FilteredInvariance, PTL DEF Spec

\* The filter keeps what makes a declared object, whatever it is called,
LEMMA CreatesAreKept ==
    ASSUME FilteredInv, ~TakenForInternal, NEW l \in SUBSET Object, NEW s \in Difference(files, l),
           ~Removes(s), Kind[s.of] # "grant", NEW strict
    PROVE  Kept(s, files, l, strict)
<1>1. s.of \in files.declared /\ s.of \in Object
  BY DifferenceIs DEF FilteredInv
<1>2. s.verb = "create"
  BY DEF Difference, Removes
<1>3. On[s.of] \in Object
  BY <1>1, FilterAssumption
<1>4. ~Internal(s, files)
  BY <1>1, <1>3 DEF Internal, Words, TakenForInternal
<1>5. Kind[s.of] \notin UndeclaredAttachedClasses(files)
  BY <1>1 DEF UndeclaredAttachedClasses
<1>6. StatementTargetsDefinedObject(s, files, l)
  BY <1>2 DEF StatementTargetsDefinedObject
<1> QED
  BY <1>4, <1>5, <1>6 DEF Kept

\* and what takes away something that its files are about.
LEMMA DropsOfOursAreKept ==
    ASSUME FilteredInv, ~TakenForInternal, NEW l \in SUBSET Object, NEW s \in Difference(files, l),
           Removes(s), Ours(s.of), NEW strict
    PROVE  Kept(s, files, l, strict)
<1> DEFINE o == s.of
           table == On[s.of]
<1>1. o \in l \ files.declared /\ o \in Object /\ table \in Object /\ table \in Named(files)
  BY DifferenceIs, FilterAssumption DEF Ours
<1>2. Kind[o] \in {"table", "index", "column", "sequence"} \cup Attached
  BY <1>1 DEF Ours, Named
<1>3. s.verb = "drop"
  <2>1. Kind[o] # "grant"
    BY <1>2 DEF Attached
  <2> QED
    BY <2>1 DEF Difference, Removes
<1>4. ~Internal(s, files)
  BY <1>1, <1>3 DEF Internal, Words, TakenForInternal
<1>5. Kind[o] \notin UndeclaredAttachedClasses(files)
  BY <1>1 DEF Ours, Named, UndeclaredAttachedClasses, Attached
<1>6. NameOf[table] \in ExtractDefinedObjects(files)
  BY <1>1 DEF ExtractDefinedObjects
<1>7. ASSUME Kind[o] \in ThroughTable PROVE Words(s, files) \cap DefinedObjects(files, l) # {}
  <2>1. NameOf[table] \in Words(s, files)
    BY <1>7 DEF Words
  <2>2. NameOf[table] \in DefinedObjects(files, l)
    BY <1>6 DEF DefinedObjects
  <2> QED
    BY <2>1, <2>2
<1>8. ASSUME Kind[o] = "sequence" PROVE Words(s, files) \cap DefinedObjects(files, l) # {}
  <2>1. table # o
    BY <1>1, <1>8 DEF Named
  <2>2. NameOf[o] \in DefinedObjects(files, l)
    BY <1>1, <1>6, <1>8, <2>1 DEF DefinedObjects, OwnedSequences
  <2>3. NameOf[o] \in Words(s, files)
    BY DEF Words
  <2> QED
    BY <2>2, <2>3
<1>9. ASSUME Kind[o] \in {"table", "index"} PROVE Words(s, files) \cap DefinedObjects(files, l) # {}
  <2>1. o \in Named(files)
    BY <1>1, <1>9 DEF Ours, Attached
  <2>2. NameOf[o] \in DefinedObjects(files, l)
    BY <2>1 DEF DefinedObjects, ExtractDefinedObjects
  <2>3. NameOf[o] \in Words(s, files)
    BY DEF Words
  <2> QED
    BY <2>2, <2>3
<1>10. Words(s, files) \cap DefinedObjects(files, l) # {}
  BY <1>2, <1>7, <1>8, <1>9 DEF ThroughTable
<1> QED
  BY <1>3, <1>4, <1>5, <1>10 DEF Kept, StatementTargetsDefinedObject

\* When the plan is executed, what is declared has been reached.
LEMMA ExecutedPlanReaches ==
    ASSUME FilteredInv, ~TakenForInternal, NEW l \in SUBSET Object, Underway(l), plan = {}
    PROVE  DeclaredIsThere
<1>1. ASSUME NEW s \in Difference(files, l), Kept(s, files, l, settings.strict)
      PROVE  /\ Removes(s) => s.of \notin live
             /\ ~Removes(s) => /\ s.of \in live
                               /\ \A c \in files.declared : Kind[c] = "column" /\ On[c] = s.of => c \in live
  BY <1>1 DEF Underway
<1>2. ASSUME NEW o \in files.declared, Kind[o] # "grant" PROVE o \in live
  <2>1. o \in Object /\ On[o] \in files.declared
    BY DEF FilteredInv
  <2>2. CASE o \in l
    BY <2>2 DEF Underway
  <2>3. CASE o \notin l /\ (Kind[o] = "column" => On[o] \in l)
    <3> DEFINE s == [verb |-> "create", of |-> o]
    <3>1. s \in Difference(files, l) /\ ~Removes(s) /\ s.of = o
      BY <1>2, <2>3 DEF Difference, Removes
    <3> HIDE DEF s
    <3>2. Kept(s, files, l, settings.strict)
      BY <1>2, <3>1, CreatesAreKept
    <3> QED
      BY <1>1, <3>1, <3>2
  <2>4. CASE o \notin l /\ Kind[o] = "column" /\ On[o] \notin l
    <3> DEFINE t == On[o]
               s == [verb |-> "create", of |-> t]
    <3>1. Kind[t] = "table"
      BY <2>1, <2>4, FilterAssumption
    <3>2. s \in Difference(files, l) /\ ~Removes(s) /\ s.of = t
      BY <2>1, <2>4, <3>1 DEF Difference, Removes
    <3> HIDE DEF s
    <3>3. Kept(s, files, l, settings.strict)
      BY <3>1, <3>2, CreatesAreKept
    <3> QED
      BY <1>1, <2>4, <3>2, <3>3
  <2> QED
    BY <2>2, <2>3, <2>4
<1>3. ASSUME NEW o \in live, Ours(o), On[o] \in files.declared, Kind[o] # "grant", o \notin files.declared
      PROVE  FALSE
  <2> DEFINE s == [verb |-> "drop", of |-> o]
  <2>1. o \in l
    BY <1>3 DEF Underway
  <2>2. s \in Difference(files, l) /\ Removes(s) /\ s.of = o
    BY <1>3, <2>1 DEF Difference, Removes
  <2> HIDE DEF s
  <2>3. Kept(s, files, l, settings.strict)
    BY <1>3, <2>2, DropsOfOursAreKept
  <2> QED
    BY <1>1, <1>3, <2>2, <2>3
<1> QED
  BY <1>2, <1>3 DEF DeclaredIsThere

\* What is in the way of a statement whose turn it is has been spared: its own
\* removal would have come before.
LEMMA BlockersWereSpared ==
    ASSUME FilteredInv, ~TakenForInternal, NEW l \in SUBSET Object, Underway(l),
           NEW s \in plan, \A t \in plan : ~Earlier(t, s), NEW o \in Blockers(s, live)
    PROVE  ~settings.strict /\ ~Ours(o)
<1> SUFFICES ASSUME settings.strict \/ Ours(o) PROVE FALSE
  OBVIOUS
<1>1. PICK n \in Needs[o] : n \in Dropped(s.of)
  BY DEF Blockers
<1>2. o \in live /\ o \in Object /\ o \notin Dropped(s.of) /\ Removes(s)
  BY DEF Blockers, FilteredInv
<1>3. s \in Difference(files, l) /\ s.of \in Object \ files.declared
  BY <1>2, DifferenceIs DEF Underway
<1>4. o \in l \ files.declared
  <2>1. Dropped(s.of) \cap files.declared = {}
    BY <1>3, DroppedIsUndeclared
  <2>2. o \notin files.declared
    BY <1>1, <2>1 DEF FilteredInv
  <2> QED
    BY <1>2, <2>2 DEF Underway
<1>5. \E d \in Difference(files, l) :
         Removes(d) /\ d.of \in live /\ o \in Dropped(d.of) /\ (Ours(o) => Ours(d.of))
  <2>1. CASE On[o] = o \/ On[o] \in files.declared \/ Kind[o] = "sequence"
    <3> DEFINE d == [verb |-> IF Kind[o] = "grant" THEN "revoke" ELSE "drop", of |-> o]
    <3>1. d \in Difference(files, l) /\ Removes(d) /\ d.of = o
      BY <1>4, <2>1 DEF Difference, Removes
    <3>2. o \in Dropped(o)
      BY <1>2 DEF Dropped
    <3> QED
      BY <1>2, <3>1, <3>2
  <2>2. CASE On[o] # o /\ On[o] \notin files.declared
    <3> DEFINE t == On[o]
               d == [verb |-> "drop", of |-> t]
    <3>1. t \in live /\ t \notin files.declared /\ Kind[t] = "table" /\ On[t] = t
      BY <1>2, <2>2, FilterAssumption DEF FilteredInv
    <3>2. t \in l
      BY <3>1 DEF Underway
    <3>3. d \in Difference(files, l) /\ Removes(d) /\ d.of = t
      BY <3>1, <3>2 DEF Difference, Removes
    <3>4. o \in Dropped(t)
      BY <1>2 DEF Dropped
    <3>5. Ours(o) => Ours(t)
      BY <1>4, <3>1 DEF Ours
    <3> QED
      BY <3>1, <3>3, <3>4, <3>5
  <2> QED
    BY <2>1, <2>2
<1>6. PICK d \in Difference(files, l) :
         Removes(d) /\ d.of \in live /\ o \in Dropped(d.of) /\ (Ours(o) => Ours(d.of))
  BY <1>5
<1>7. Kept(d, files, l, settings.strict)
  <2>1. CASE Ours(o)
    BY <1>6, <2>1, DropsOfOursAreKept
  <2>2. CASE settings.strict
    <3>1. d.of \in Object /\ On[d.of] \in Object /\ d.verb # "create"
      BY <1>6, DifferenceIs, FilterAssumption
    <3>2. ~Internal(d, files)
      BY <3>1 DEF Internal, Words, TakenForInternal
    <3> QED
      BY <2>2, <3>2 DEF Kept
  <2> QED
    BY <2>1, <2>2
<1>8. d \in plan
  BY <1>6, <1>7 DEF Underway
<1>9. Earlier(d, s)
  BY <1>1, <1>2, <1>6 DEF Earlier
<1> QED
  BY <1>8, <1>9

\* An apply that gets through the schema has reached what is declared there, and
\* one that ends within it was stopped by what the filter had spared (Diff,
\* statementTargetsDefinedObject).
THEOREM DeclaredIsReached == Spec => DeclaredReached
<1> DEFINE Reaching == step = "schema" /\ step' # "schema" /\ ~TakenForInternal =>
               \/ DeclaredIsThere
               \/ /\ step' = "idle" /\ ~settings.strict
                  /\ \E s \in plan : \E o \in Blockers(s, live) : ~Ours(o)
<1>1. ASSUME FilteredInv, ReachInv, [Next]_vars PROVE Reaching
  <2> SUFFICES ASSUME step = "schema", step' # "schema", ~TakenForInternal
               PROVE  \/ DeclaredIsThere
                      \/ /\ step' = "idle" /\ ~settings.strict
                         /\ \E s \in plan : \E o \in Blockers(s, live) : ~Ours(o)
    OBVIOUS
  <2>1. PICK l \in SUBSET Object : Underway(l)
    BY <1>1 DEF ReachInv
  <2>2. CASE SchemaDone
    BY <1>1, <2>1, <2>2, ExecutedPlanReaches DEF SchemaDone
  <2>3. CASE ExecStatement
    <3>1. PICK s \in plan : /\ \A t \in plan : ~Earlier(t, s)
                            /\ Blockers(s, live) # {} /\ Leave
      BY <2>3 DEF ExecStatement
    <3>2. PICK o \in Blockers(s, live) : TRUE
      BY <3>1
    <3>3. ~settings.strict /\ ~Ours(o)
      BY <1>1, <2>1, <3>1, BlockersWereSpared
    <3> QED
      BY <3>1, <3>3 DEF Leave
  <2>4. SchemaDone \/ ExecStatement
    BY <1>1 DEF Next, vars, Invoke, ResolveSettings, Connect, DiscoverMigrations, RunOneTime,
           OneTimeDone, ResolveNames, WriteFile, DumpDone, AddFile, ConvertLayout, DropRoutine
  <2> QED
    BY <2>2, <2>3, <2>4
<1> QED
  BY <1>1, FilteredInvariance, ReachInvariance, PTL DEF Spec, DeclaredReached
=============================================================================
