--------------------------- MODULE M8ParserProofs ---------------------------
(***************************************************************************)
(* The parser splits any text as it is meant: what has been read of a file  *)
(* as PostgreSQL and psql read it is, command for command, in the           *)
(* statements cut from it, whatever quotes and comments it is made of.      *)
(*                                                                         *)
(* Both readings are folds over a text.  The first part says what a fold    *)
(* and a concatenation are when one element is added, by induction from the *)
(* least number; the second what one lexeme does to a reading; the third    *)
(* what trimming a statement takes away; the last relates the scanner to    *)
(* the two readings, step by step.                                         *)
(***************************************************************************)
EXTENDS M8Parser, SequenceTheorems, WellFoundedInduction, TLAPS

-----------------------------------------------------------------------------
(* Induction.  A property of the naturals that fails somewhere fails at a    *)
(* least number.                                                           *)

LEMMA LeastOf ==
    ASSUME NEW T, T \subseteq Nat, T # {}
    PROVE  \E n \in T : \A k \in T : ~ (k < n)
<1>1. PICK n \in T : \A k \in T : <<k, n>> \notin OpToRel(<, Nat)
  BY WFMin, NatLessThanWellFounded, Zenon
<1> QED
  BY <1>1, Zenon DEF OpToRel

LEMMA Induction ==
    ASSUME NEW T, 0 \in T, \A n \in Nat : n \in T => n + 1 \in T
    PROVE  Nat \subseteq T
<1> SUFFICES ASSUME Nat \ T # {} PROVE FALSE
  OBVIOUS
<1> DEFINE F == Nat \ T
<1>1. F \subseteq Nat /\ F # {}
  OBVIOUS
<1>2. PICK n \in F : \A k \in F : ~ (k < n)
  <2> HIDE DEF F
  <2> QED
    BY <1>1, LeastOf
<1>3. n \in Nat /\ n # 0 /\ n - 1 \in Nat /\ n - 1 < n
  BY <1>2
<1>4. n - 1 \in T
  BY <1>2, <1>3
<1> QED
  BY <1>2, <1>3, <1>4

-----------------------------------------------------------------------------
(* What a fold over a text computes, lexeme by lexeme.                     *)

\* The reading of the lexemes of c whose places are in a subset of 1..n.
IsFold(f, b, c, n) ==
    f = [s \in SUBSET (1..n) |-> IF s = {} THEN b ELSE ReadNext(f[s \ {Max(s)}], c[Max(s)])]

LEMMA FoldIsFolding ==
    ASSUME NEW b, NEW S, NEW c \in Seq(S)
    PROVE  FoldLeft(ReadNext, b, c) = (CHOOSE f : IsFold(f, b, c, Len(c)))[1..Len(c)]
<1>1. DOMAIN c = 1..Len(c)
  OBVIOUS
<1> QED
  BY <1>1 DEF FoldLeft, MapThenFoldSet, IsFold

LEMMA MaxTop ==
    ASSUME NEW n \in Nat, NEW s, s \subseteq 1..(n + 1), n + 1 \in s
    PROVE  Max(s) = n + 1
<1>1. \A x \in s : n + 1 >= x
  OBVIOUS
<1>2. \A x \in s : (\A y \in s : x >= y) => x = n + 1
  OBVIOUS
<1> QED
  BY <1>1, <1>2, Zenon DEF Max

LEMMA FoldExtends ==
    ASSUME NEW b, NEW c, NEW n \in Nat, NEW f, IsFold(f, b, c, n)
    PROVE  \E g : IsFold(g, b, c, n + 1)
<1> DEFINE g == [s \in SUBSET (1..(n + 1)) |->
                   IF n + 1 \in s THEN ReadNext(f[s \ {n + 1}], c[n + 1]) ELSE f[s]]
           h == [s \in SUBSET (1..(n + 1)) |->
                   IF s = {} THEN b ELSE ReadNext(g[s \ {Max(s)}], c[Max(s)])]
<1>1. ASSUME NEW s \in SUBSET (1..(n + 1)) PROVE g[s] = h[s]
  <2>1. CASE n + 1 \in s
    <3>1. Max(s) = n + 1
      BY <2>1, MaxTop
    <3>2. s \ {n + 1} \in SUBSET (1..(n + 1)) /\ n + 1 \notin s \ {n + 1}
      OBVIOUS
    <3>3. g[s \ {n + 1}] = f[s \ {n + 1}]
      BY <3>2
    <3>4. g[s] = ReadNext(f[s \ {n + 1}], c[n + 1])
      BY <2>1
    <3>5. h[s] = ReadNext(g[s \ {n + 1}], c[n + 1])
      BY <2>1, <3>1
    <3> QED
      BY <3>3, <3>4, <3>5
  <2>2. CASE n + 1 \notin s
    <3> DEFINE m == Max(s)
    <3> HIDE DEF m
    <3>1. s \in SUBSET (1..n) /\ s \ {m} \in SUBSET (1..(n + 1)) /\ n + 1 \notin s \ {m}
      <4>1. s \in SUBSET (1..n)
        BY <2>2
      <4>2. s \ {m} \in SUBSET (1..(n + 1))
        OBVIOUS
      <4> QED
        BY <2>2, <4>1, <4>2
    <3> USE DEF m
    <3>2. g[s] = f[s] /\ g[s \ {Max(s)}] = f[s \ {Max(s)}]
      BY <2>2, <3>1
    <3>3. f[s] = IF s = {} THEN b ELSE ReadNext(f[s \ {Max(s)}], c[Max(s)])
      BY <3>1 DEF IsFold
    <3> QED
      BY <3>2, <3>3
  <2> QED
    BY <2>1, <2>2
<1>2. g = h
  <2> HIDE DEF Max
  <2> QED
    BY <1>1
<1>3. IsFold(g, b, c, n + 1)
  <2>1. h = [s \in SUBSET (1..(n + 1)) |->
                   IF s = {} THEN b ELSE ReadNext(g[s \ {Max(s)}], c[Max(s)])]
    OBVIOUS
  <2> HIDE DEF g, h
  <2> QED
    BY <1>2, <2>1 DEF IsFold
<1> HIDE DEF g, h
<1> QED
  BY <1>3

LEMMA FoldExists ==
    ASSUME NEW b, NEW c, NEW n \in Nat
    PROVE  \E f : IsFold(f, b, c, n)
<1> DEFINE T == {k \in Nat : \E f : IsFold(f, b, c, k)}
<1>1. 0 \in T
  <2> DEFINE e == [s \in SUBSET (1..0) |-> b]
  <2>1. \A s \in SUBSET (1..0) : s = {}
    OBVIOUS
  <2>2. e = [s \in SUBSET (1..0) |-> IF s = {} THEN b ELSE ReadNext(e[s \ {Max(s)}], c[Max(s)])]
    BY <2>1
  <2>3. IsFold(e, b, c, 0)
    BY <2>2 DEF IsFold
  <2> QED
    BY <2>3
<1>2. ASSUME NEW k \in Nat, k \in T PROVE k + 1 \in T
  BY <1>2, FoldExtends
<1> HIDE DEF T
<1>3. n \in T
  BY <1>1, <1>2, Induction
<1> QED
  BY <1>3 DEF T

\* The fold has taken the lexeme at i.
Takes(f, c, i) == f[1..i] = ReadNext(f[1..(i - 1)], c[i])

LEMMA FoldSteps ==
    ASSUME NEW b, NEW c, NEW n \in Nat, NEW f, IsFold(f, b, c, n)
    PROVE  f[1..0] = b /\ \A i \in 1..n : Takes(f, c, i)
<1>1. f[1..0] = b
  <2>1. 1..0 = {} /\ {} \in SUBSET (1..n)
    OBVIOUS
  <2> QED
    BY <2>1 DEF IsFold
<1>2. ASSUME NEW i \in 1..n PROVE Takes(f, c, i)
  <2>1. 1..i \in SUBSET (1..n) /\ 1..i # {} /\ (1..i) \ {i} = 1..(i - 1) /\ i - 1 \in Nat
    OBVIOUS
  <2>2. Max(1..i) = i
    <3>1. (i - 1) + 1 = i /\ i \in 1..i
      OBVIOUS
    <3> QED
      BY <2>1, <3>1, MaxTop
  <2> QED
    BY <2>1, <2>2 DEF IsFold, Takes
<1> QED
  BY <1>1, <1>2

LEMMA FoldsAgree ==
    ASSUME NEW b, NEW c, NEW d, NEW n \in Nat, NEW m \in Nat, n <= m,
           NEW f, IsFold(f, b, c, n), NEW g, IsFold(g, b, d, m), \A i \in 1..n : c[i] = d[i]
    PROVE  f[1..n] = g[1..n]
<1> DEFINE T == {k \in Nat : k <= n => f[1..k] = g[1..k]}
<1>1. 0 \in T
  <2>1. f[1..0] = b /\ g[1..0] = b
    BY FoldSteps
  <2> QED
    BY <2>1
<1>2. ASSUME NEW k \in Nat, k \in T PROVE k + 1 \in T
  <2> SUFFICES ASSUME k + 1 <= n PROVE f[1..(k + 1)] = g[1..(k + 1)]
    OBVIOUS
  <2>1. k + 1 \in 1..n /\ k + 1 \in 1..m /\ (k + 1) - 1 = k /\ f[1..k] = g[1..k]
    BY <1>2
  <2>2. Takes(f, c, k + 1) /\ Takes(g, d, k + 1)
    BY <2>1, FoldSteps
  <2> QED
    BY <2>1, <2>2 DEF Takes
<1> HIDE DEF T
<1>3. n \in T
  BY <1>1, <1>2, Induction
<1> QED
  BY <1>3 DEF T

LEMMA ReadingOfNothing ==
    ASSUME NEW b
    PROVE  FoldLeft(ReadNext, b, <<>>) = b
<1>1. <<>> \in Seq({}) /\ Len(<<>>) = 0
  OBVIOUS
<1>2. PICK f : f = CHOOSE g : IsFold(g, b, <<>>, 0)
  OBVIOUS
<1>3. IsFold(f, b, <<>>, 0)
  BY <1>2, FoldExists
<1>4. f[1..0] = b
  BY <1>3, FoldSteps
<1>5. FoldLeft(ReadNext, b, <<>>) = f[1..0]
  BY <1>1, <1>2, FoldIsFolding
<1> QED
  BY <1>4, <1>5

LEMMA ReadingGrows ==
    ASSUME NEW b, NEW S, NEW c \in Seq(S), NEW l \in S
    PROVE  FoldLeft(ReadNext, b, Append(c, l)) = ReadNext(FoldLeft(ReadNext, b, c), l)
<1> DEFINE n == Len(c)
           d == Append(c, l)
<1>1. n \in Nat /\ d \in Seq(S) /\ Len(d) = n + 1 /\ d[n + 1] = l /\ \A i \in 1..n : c[i] = d[i]
  OBVIOUS
<1>2. PICK f : f = CHOOSE h : IsFold(h, b, c, n)
  OBVIOUS
<1>3. PICK g : g = CHOOSE h : IsFold(h, b, d, n + 1)
  OBVIOUS
<1>4. IsFold(f, b, c, n)
  BY <1>1, <1>2, FoldExists
<1> HIDE DEF d
<1>5. IsFold(g, b, d, n + 1)
  BY <1>1, <1>3, FoldExists
<1>6. FoldLeft(ReadNext, b, c) = f[1..n]
  BY <1>2, FoldIsFolding
<1>7. FoldLeft(ReadNext, b, d) = g[1..(n + 1)]
  BY <1>1, <1>3, FoldIsFolding
<1> HIDE DEF n
<1>8. f[1..n] = g[1..n]
  BY <1>1, <1>4, <1>5, FoldsAgree
<1>9. g[1..(n + 1)] = ReadNext(g[1..n], l)
  <2>1. n + 1 \in Nat /\ n + 1 \in 1..(n + 1) /\ (n + 1) - 1 = n
    BY <1>1
  <2>2. Takes(g, d, n + 1)
    BY <1>5, <2>1, FoldSteps
  <2> QED
    BY <1>1, <2>1, <2>2 DEF Takes
<1> QED
  BY <1>6, <1>7, <1>8, <1>9 DEF d

\* The same of the concatenation of sequences.
IsFlat(f, ss) == f = [i \in 1..Len(ss) |-> IF i = 1 THEN ss[i] ELSE f[i - 1] \o ss[i]]

LEMMA FlatIsFlattening ==
    ASSUME NEW V, NEW ss \in Seq(V), Len(ss) # 0
    PROVE  FlattenSeq(ss) = (CHOOSE f : IsFlat(f, ss))[Len(ss)]
BY DEF FlattenSeq, IsFlat

LEMMA FlatExtends ==
    ASSUME NEW V, NEW ss \in Seq(V), NEW s \in V, NEW f, IsFlat(f, ss)
    PROVE  \E g : IsFlat(g, Append(ss, s))
<1> DEFINE n == Len(ss)
           tt == Append(ss, s)
<1>1. n \in Nat /\ tt \in Seq(V) /\ Len(tt) = n + 1 /\ tt[n + 1] = s /\ \A i \in 1..n : tt[i] = ss[i]
  OBVIOUS
<1>2. f = [i \in 1..n |-> IF i = 1 THEN ss[i] ELSE f[i - 1] \o ss[i]]
  BY DEF IsFlat
<1> HIDE DEF n, tt
<1> DEFINE g == [i \in 1..(n + 1) |->
                   IF i = n + 1 THEN (IF i = 1 THEN s ELSE f[n] \o s) ELSE f[i]]
           h == [i \in 1..(n + 1) |-> IF i = 1 THEN tt[i] ELSE g[i - 1] \o tt[i]]
<1>3. ASSUME NEW i \in 1..(n + 1) PROVE g[i] = h[i]
  <2>1. CASE i = n + 1 /\ i = 1
    BY <1>1, <2>1
  <2>2. CASE i = n + 1 /\ i # 1
    <3>1. n \in 1..(n + 1) /\ n # n + 1 /\ i - 1 = n
      BY <1>1, <2>2
    <3>2. g[n] = f[n] /\ g[i] = f[n] \o s
      BY <2>2, <3>1
    <3>3. h[i] = g[n] \o tt[n + 1]
      BY <2>2, <3>1
    <3> QED
      BY <1>1, <3>2, <3>3
  <2>3. CASE i # n + 1
    <3>1. i \in 1..n /\ (i # 1 => i - 1 \in 1..(n + 1) /\ i - 1 # n + 1)
      BY <1>1, <2>3
    <3>2. g[i] = f[i] /\ (i # 1 => g[i - 1] = f[i - 1])
      BY <2>3, <3>1
    <3>3. f[i] = IF i = 1 THEN ss[i] ELSE f[i - 1] \o ss[i]
      BY <1>2, <3>1
    <3>4. tt[i] = ss[i]
      BY <1>1, <3>1
    <3>5. h[i] = IF i = 1 THEN tt[i] ELSE g[i - 1] \o tt[i]
      OBVIOUS
    <3> HIDE DEF g, h
    <3> QED
      BY <3>2, <3>3, <3>4, <3>5
  <2> QED
    BY <2>1, <2>2, <2>3
<1>4. g = h
  BY <1>3
<1>5. IsFlat(g, tt)
  <2>1. h = [i \in 1..Len(tt) |-> IF i = 1 THEN tt[i] ELSE g[i - 1] \o tt[i]]
    BY <1>1
  <2> HIDE DEF g, h
  <2> QED
    BY <1>4, <2>1 DEF IsFlat
<1> HIDE DEF g, h
<1> QED
  BY <1>5 DEF tt

LEMMA LastApart ==
    ASSUME NEW V, NEW k \in Nat, NEW ss \in Seq(V), Len(ss) = k + 1
    PROVE  /\ SubSeq(ss, 1, k) \in Seq(V) /\ Len(SubSeq(ss, 1, k)) = k /\ ss[k + 1] \in V
           /\ ss = Append(SubSeq(ss, 1, k), ss[k + 1])
OBVIOUS

LEMMA FlatExists ==
    ASSUME NEW V, NEW ss \in Seq(V)
    PROVE  \E f : IsFlat(f, ss)
<1> DEFINE T == {k \in Nat : \A tt \in Seq(V) : Len(tt) = k => \E f : IsFlat(f, tt)}
<1>1. 0 \in T
  <2> SUFFICES ASSUME NEW tt \in Seq(V), Len(tt) = 0 PROVE \E f : IsFlat(f, tt)
    OBVIOUS
  <2> DEFINE e == [i \in 1..Len(tt) |-> {}]
  <2>1. e = [i \in 1..Len(tt) |-> IF i = 1 THEN tt[i] ELSE e[i - 1] \o tt[i]]
    OBVIOUS
  <2> HIDE DEF e
  <2> QED
    BY <2>1 DEF IsFlat
<1>2. ASSUME NEW k \in Nat, k \in T PROVE k + 1 \in T
  <2> SUFFICES ASSUME NEW tt \in Seq(V), Len(tt) = k + 1 PROVE \E f : IsFlat(f, tt)
    OBVIOUS
  <2> DEFINE uu == SubSeq(tt, 1, k)
             u == tt[k + 1]
  <2>1. uu \in Seq(V) /\ Len(uu) = k /\ u \in V /\ tt = Append(uu, u)
    BY LastApart
  <2> HIDE DEF uu, u
  <2>2. \E f : IsFlat(f, uu)
    BY <1>2, <2>1
  <2> QED
    BY <2>1, <2>2, FlatExtends
<1> HIDE DEF T
<1>3. Len(ss) \in T
  <2>1. Len(ss) \in Nat
    OBVIOUS
  <2> QED
    BY <1>1, <1>2, <2>1, Induction
<1> QED
  BY <1>3 DEF T

\* The concatenation has taken the sequence at i.
Joins(f, ss, i) == f[i] = IF i = 1 THEN ss[i] ELSE f[i - 1] \o ss[i]

Begins(ss, tt) == Len(ss) <= Len(tt) /\ \A i \in 1..Len(ss) : tt[i] = ss[i]

LEMMA FlatsAgree ==
    ASSUME NEW V, NEW ss \in Seq(V), NEW tt \in Seq(V), Begins(ss, tt),
           NEW f, IsFlat(f, ss), NEW g, IsFlat(g, tt)
    PROVE  \A i \in 1..Len(ss) : f[i] = g[i]
<1> DEFINE T == {k \in Nat : k \in 1..Len(ss) => f[k] = g[k]}
<1>0. /\ \A i \in 1..Len(ss) : Joins(f, ss, i)
      /\ \A i \in 1..Len(tt) : Joins(g, tt, i)
  BY DEF IsFlat, Joins
<1>1. 0 \in T
  OBVIOUS
<1>2. ASSUME NEW k \in Nat, k \in T PROVE k + 1 \in T
  <2> SUFFICES ASSUME k + 1 \in 1..Len(ss) PROVE f[k + 1] = g[k + 1]
    OBVIOUS
  <2>1. k + 1 \in 1..Len(tt) /\ (k + 1) - 1 = k /\ (k + 1 # 1 => k \in 1..Len(ss) /\ f[k] = g[k])
    BY <1>2 DEF Begins
  <2>2. Joins(f, ss, k + 1) /\ Joins(g, tt, k + 1) /\ ss[k + 1] = tt[k + 1]
    BY <1>0, <2>1 DEF Begins
  <2> QED
    BY <2>1, <2>2 DEF Joins
<1> HIDE DEF T
<1>3. Nat \subseteq T
  BY <1>1, <1>2, Induction
<1> QED
  BY <1>3 DEF T

LEMMA FlatOfNothing == FlattenSeq(<<>>) = <<>>
BY DEF FlattenSeq

LEMMA FlatGrows ==
    ASSUME NEW W, NEW ss \in Seq(Seq(W)), NEW s \in Seq(W)
    PROVE  FlattenSeq(Append(ss, s)) = FlattenSeq(ss) \o s
<1> DEFINE n == Len(ss)
           tt == Append(ss, s)
<1>1. n \in Nat /\ tt \in Seq(Seq(W)) /\ Len(tt) = n + 1 /\ tt[n + 1] = s /\ \A i \in 1..n : tt[i] = ss[i]
  OBVIOUS
<1>2. PICK f : f = CHOOSE h : IsFlat(h, ss)
  OBVIOUS
<1>3. PICK g : g = CHOOSE h : IsFlat(h, tt)
  OBVIOUS
<1>4. IsFlat(f, ss)
  BY <1>2, FlatExists
<1> HIDE DEF tt
<1>5. IsFlat(g, tt)
  BY <1>1, <1>3, FlatExists
<1> HIDE DEF n
<1>6. Joins(g, tt, n + 1)
  <2>1. n + 1 \in 1..Len(tt)
    BY <1>1
  <2> QED
    BY <1>5, <2>1 DEF IsFlat, Joins
<1>7. FlattenSeq(tt) = g[n + 1]
  <2>1. Len(tt) # 0
    BY <1>1
  <2> QED
    BY <1>1, <1>3, <2>1, FlatIsFlattening
<1>8. CASE n = 0
  <2>1. ss = <<>> /\ FlattenSeq(ss) = <<>>
    BY <1>8, FlatOfNothing DEF n
  <2>2. g[n + 1] = s
    BY <1>1, <1>6, <1>8 DEF Joins
  <2>3. <<>> \o s = s
    OBVIOUS
  <2> QED
    BY <1>7, <2>1, <2>2, <2>3 DEF tt
<1>9. CASE n # 0
  <2>1. FlattenSeq(ss) = f[n]
    BY <1>2, <1>9, FlatIsFlattening DEF n
  <2>2. f[n] = g[n]
    <3>1. Begins(ss, tt)
      BY <1>1 DEF n, Begins
    <3>2. \A i \in 1..Len(ss) : f[i] = g[i]
      BY <1>1, <1>4, <1>5, <3>1, FlatsAgree
    <3> QED
      BY <1>1, <1>9, <3>2 DEF n
  <2>3. g[n + 1] = g[n] \o s
    BY <1>1, <1>6, <1>9 DEF Joins
  <2> QED
    BY <1>7, <2>1, <2>2, <2>3 DEF tt
<1> QED
  BY <1>8, <1>9

LEMMA FlatTypes ==
    ASSUME NEW W, NEW ss \in Seq(Seq(W))
    PROVE  FlattenSeq(ss) \in Seq(W)
<1> DEFINE T == {k \in Nat : \A tt \in Seq(Seq(W)) : Len(tt) = k => FlattenSeq(tt) \in Seq(W)}
<1>1. 0 \in T
  <2> SUFFICES ASSUME NEW tt \in Seq(Seq(W)), Len(tt) = 0 PROVE FlattenSeq(tt) \in Seq(W)
    OBVIOUS
  <2>1. tt = <<>> /\ <<>> \in Seq(W)
    OBVIOUS
  <2> QED
    BY <2>1, FlatOfNothing
<1>2. ASSUME NEW k \in Nat, k \in T PROVE k + 1 \in T
  <2> SUFFICES ASSUME NEW tt \in Seq(Seq(W)), Len(tt) = k + 1 PROVE FlattenSeq(tt) \in Seq(W)
    OBVIOUS
  <2> DEFINE uu == SubSeq(tt, 1, k)
             u == tt[k + 1]
  <2>1. uu \in Seq(Seq(W)) /\ Len(uu) = k /\ u \in Seq(W) /\ tt = Append(uu, u)
    BY LastApart
  <2> HIDE DEF uu, u
  <2>2. FlattenSeq(uu) \in Seq(W)
    BY <1>2, <2>1
  <2>3. FlattenSeq(tt) = FlattenSeq(uu) \o u
    BY <2>1, FlatGrows
  <2> QED
    BY <2>1, <2>2, <2>3
<1> HIDE DEF T
<1>3. Len(ss) \in T
  <2>1. Len(ss) \in Nat
    OBVIOUS
  <2> QED
    BY <1>1, <1>2, <2>1, Induction
<1> QED
  BY <1>3 DEF T

-----------------------------------------------------------------------------
(* What one lexeme does to a reading.                                      *)

LEMMA LexemesDiffer ==
    /\ NL \notin Comment \cup {";", "\\", "/*", "*/", "'", "\""}
    /\ Comment \cap {";", "\\", "/*", "*/", "'", "\""} = {}
    /\ Tags \cap (Comment \cup {NL, ";", "\\", "/*", "*/", "'", "\""}) = {}
<1>1. NL \notin Comment \cup {";", "\\", "/*", "*/", "'", "\""}
  BY DEF NL, Comment, Directive
<1>2. Comment \cap {";", "\\", "/*", "*/", "'", "\""} = {}
  BY DEF Comment, Directive
<1>3. Tags \cap (Comment \cup {NL, ";", "\\", "/*", "*/", "'", "\""}) = {}
  BY ParserAssumption DEF Signs
<1> QED
  BY <1>1, <1>2, <1>3

Stamped(r, l) == [r EXCEPT !.fresh = l = NL]
InMode(r, m) == [r EXCEPT !.mode = m]
InBlock(r, m, d) == [r EXCEPT !.mode = m, !.depth = d]
InDollar(r, m, l) == [r EXCEPT !.mode = m, !.tag = l]

\* Text that stands for itself.
Text(l) == l \notin Comment \cup Tags \cup {";", NL, "/*", "'", "\""}

LEMMA NormalReads ==
    ASSUME NEW s, NEW l
    PROVE  /\ l = ";" => ReadNormal(s, l) = Ended(s)
           /\ l = NL => ReadNormal(s, l) = s
           /\ l = "\\" /\ s.psql /\ s.fresh => ReadNormal(s, l) = InMode(s, "lineComment")
           /\ l \in Comment => ReadNormal(s, l) = InMode(s, "lineComment")
           /\ l = "/*" => ReadNormal(s, l) = InBlock(s, "blockComment", 1)
           /\ l = "'" => ReadNormal(s, l) = InMode(Taken(s, l), "literal")
           /\ l = "\"" => ReadNormal(s, l) = InMode(Taken(s, l), "identifier")
           /\ l \in Tags => ReadNormal(s, l) = InDollar(Taken(s, l), "dollarQuote", l)
           /\ Text(l) /\ ~(l = "\\" /\ s.psql /\ s.fresh) => ReadNormal(s, l) = Taken(s, l)
<1> USE LexemesDiffer
<1>1. l = ";" => ReadNormal(s, l) = Ended(s)
  BY DEF ReadNormal, InMode, InBlock, InDollar
<1>2. l = NL => ReadNormal(s, l) = s
  BY DEF ReadNormal, InMode, InBlock, InDollar
<1>3. l = "\\" /\ s.psql /\ s.fresh => ReadNormal(s, l) = InMode(s, "lineComment")
  BY DEF ReadNormal, InMode, InBlock, InDollar
<1>4. l \in Comment => ReadNormal(s, l) = InMode(s, "lineComment")
  BY DEF ReadNormal, InMode, InBlock, InDollar
<1>5. l = "/*" => ReadNormal(s, l) = InBlock(s, "blockComment", 1)
  BY DEF ReadNormal, InMode, InBlock, InDollar
<1>6. l = "'" => ReadNormal(s, l) = InMode(Taken(s, l), "literal")
  BY DEF ReadNormal, InMode, InBlock, InDollar
<1>7. l = "\"" => ReadNormal(s, l) = InMode(Taken(s, l), "identifier")
  BY DEF ReadNormal, InMode, InBlock, InDollar
<1>8. l \in Tags => ReadNormal(s, l) = InDollar(Taken(s, l), "dollarQuote", l)
  BY DEF ReadNormal, InMode, InBlock, InDollar
<1>9. Text(l) /\ ~(l = "\\" /\ s.psql /\ s.fresh) => ReadNormal(s, l) = Taken(s, l)
  BY DEF ReadNormal, Text
<1> QED
  BY <1>1, <1>2, <1>3, <1>4, <1>5, <1>6, <1>7, <1>8, <1>9

Readings ==
    [psql : BOOLEAN, fresh : BOOLEAN, mode : Modes, tag : Tags \cup {"none"}, depth : Int,
     command : Seq(Lexeme), commands : Seq(Seq(Lexeme)), inner : Seq(Tags), paired : BOOLEAN]

LEMMA ModeReads ==
    ASSUME NEW s, NEW l
    PROVE  /\ s.mode = "normal" => ReadNext(s, l) = Stamped(ReadNormal(s, l), l)
           /\ s.mode = "lineComment" =>
                 ReadNext(s, l) = Stamped(IF l = NL THEN InMode(s, "normal") ELSE s, l)
           /\ s.mode = "blockComment" => ReadNext(s, l) = Stamped(ReadBlock(s, l), l)
           /\ s.mode = "literal" => ReadNext(s, l) = Stamped(ReadQuoted(s, l, "'"), l)
           /\ s.mode = "identifier" => ReadNext(s, l) = Stamped(ReadQuoted(s, l, "\""), l)
           /\ s.mode = "dollarQuote" => ReadNext(s, l) = Stamped(ReadDollar(s, l), l)
BY DEF ReadNext, Stamped, InMode

\* r is s but for its mode, tag, depth, command, commands and inner.
Kept(s, r) == r.psql = s.psql /\ r.fresh = s.fresh /\ r.paired = s.paired
SameDollar(s, r) == r.tag = s.tag /\ r.inner = s.inner
SameText(s, r) == r.command = s.command /\ r.commands = s.commands

LEMMA StampedFacts ==
    ASSUME NEW r \in Readings, NEW l
    PROVE  LET t == Stamped(r, l) IN
           /\ t \in Readings
           /\ t.mode = r.mode /\ t.depth = r.depth /\ t.psql = r.psql /\ t.paired = r.paired
           /\ t.fresh = (l = NL)
           /\ SameDollar(r, t) /\ SameText(r, t)
BY DEF Readings, Stamped, SameDollar, SameText

LEMMA InModeFacts ==
    ASSUME NEW r \in Readings, NEW m \in Modes
    PROVE  LET t == InMode(r, m) IN
           /\ t \in Readings
           /\ t.mode = m /\ t.depth = r.depth
           /\ Kept(r, t) /\ SameDollar(r, t) /\ SameText(r, t)
BY DEF Readings, InMode, Kept, SameDollar, SameText

LEMMA InBlockFacts ==
    ASSUME NEW r \in Readings, NEW m \in Modes, NEW d \in Int
    PROVE  LET t == InBlock(r, m, d) IN
           /\ t \in Readings
           /\ t.mode = m /\ t.depth = d
           /\ Kept(r, t) /\ SameDollar(r, t) /\ SameText(r, t)
BY DEF Readings, InBlock, Kept, SameDollar, SameText

LEMMA InDollarFacts ==
    ASSUME NEW r \in Readings, NEW m \in Modes, NEW l \in Tags
    PROVE  LET t == InDollar(r, m, l) IN
           /\ t \in Readings
           /\ t.mode = m /\ t.tag = l /\ t.inner = r.inner
           /\ Kept(r, t) /\ SameText(r, t)
BY DEF Readings, InDollar, Kept, SameText

LEMMA TakenFacts ==
    ASSUME NEW r \in Readings, NEW l \in Lexeme
    PROVE  LET t == Taken(r, l) IN
           /\ t \in Readings
           /\ t.mode = r.mode /\ t.depth = r.depth
           /\ Kept(r, t) /\ SameDollar(r, t)
           /\ t.command = Append(r.command, l) /\ t.commands = r.commands
<1>1. Append(r.command, l) \in Seq(Lexeme)
  BY DEF Readings
<1> QED
  BY <1>1 DEF Readings, Taken, Kept, SameDollar

LEMMA EndedFacts ==
    ASSUME NEW r \in Readings
    PROVE  LET t == Ended(r) IN
           /\ t \in Readings
           /\ t.mode = r.mode /\ t.depth = r.depth
           /\ Kept(r, t) /\ SameDollar(r, t)
           /\ t.command = <<>>
           /\ t.commands = IF r.command = <<>> THEN r.commands ELSE Append(r.commands, r.command)
<1>1. r.command \in Seq(Lexeme) /\ r.commands \in Seq(Seq(Lexeme))
  BY DEF Readings
<1>2. Append(r.commands, r.command) \in Seq(Seq(Lexeme)) /\ <<>> \in Seq(Lexeme)
  BY <1>1
<1>3. (IF r.command = <<>> THEN r.commands ELSE Append(r.commands, r.command)) \in Seq(Seq(Lexeme))
  BY <1>1, <1>2
<1> QED
  BY <1>2, <1>3 DEF Readings, Ended, Kept, SameDollar

Grows(s, t, l) == t.command = Append(s.command, l) /\ t.commands = s.commands

NormalStepped(s, t, l) ==
    /\ t \in Readings
    /\ t.psql = s.psql /\ t.fresh = (l = NL) /\ t.paired = s.paired /\ t.inner = s.inner
    /\ l = ";" =>
          /\ t.mode = "normal" /\ t.command = <<>>
          /\ t.commands = IF s.command = <<>> THEN s.commands ELSE Append(s.commands, s.command)
    /\ l = NL => t.mode = "normal" /\ SameText(s, t)
    /\ l \in Comment \/ (l = "\\" /\ s.psql /\ s.fresh) => t.mode = "lineComment" /\ SameText(s, t)
    /\ l = "/*" => t.mode = "blockComment" /\ t.depth = 1 /\ SameText(s, t)
    /\ l = "'" => t.mode = "literal" /\ Grows(s, t, l)
    /\ l = "\"" => t.mode = "identifier" /\ Grows(s, t, l)
    /\ l \in Tags => t.mode = "dollarQuote" /\ t.tag = l /\ Grows(s, t, l)
    /\ Text(l) /\ ~(l = "\\" /\ s.psql /\ s.fresh) => t.mode = "normal" /\ Grows(s, t, l)

LEMMA NormalStep ==
    ASSUME NEW s \in Readings, NEW l \in Lexeme, s.mode = "normal"
    PROVE  NormalStepped(s, ReadNext(s, l), l)
<1> DEFINE r == ReadNormal(s, l)
           t == ReadNext(s, l)
           Done == r \in Readings /\ r.psql = s.psql /\ r.paired = s.paired /\ r.inner = s.inner
<1>1. t = Stamped(r, l)
  BY ModeReads
<1>2. r \in Readings =>
        /\ t \in Readings
        /\ t.mode = r.mode /\ t.depth = r.depth /\ t.psql = r.psql /\ t.paired = r.paired
        /\ t.fresh = (l = NL)
        /\ t.tag = r.tag /\ t.inner = r.inner /\ t.command = r.command /\ t.commands = r.commands
  <2> HIDE DEF r, t
  <2> QED
    BY <1>1, StampedFacts DEF SameDollar, SameText
<1>3. ASSUME l = ";"
      PROVE  /\ Done /\ r.mode = "normal" /\ r.command = <<>>
             /\ r.commands = IF s.command = <<>> THEN s.commands ELSE Append(s.commands, s.command)
  <2>1. r = Ended(s)
    BY <1>3, NormalReads
  <2> HIDE DEF r
  <2> QED
    BY <2>1, EndedFacts DEF SameDollar, Kept
<1>4. ASSUME l = NL PROVE Done /\ r.mode = "normal" /\ SameText(s, r)
  <2>1. r = s
    BY <1>4, NormalReads
  <2> QED
    BY <2>1 DEF SameText
<1>5. ASSUME l \in Comment \/ (l = "\\" /\ s.psql /\ s.fresh)
      PROVE  Done /\ r.mode = "lineComment" /\ SameText(s, r)
  <2>1. r = InMode(s, "lineComment")
    BY <1>5, NormalReads
  <2>2. "lineComment" \in Modes
    BY DEF Modes
  <2> HIDE DEF r
  <2> QED
    BY <2>1, <2>2, InModeFacts DEF SameDollar, Kept
<1>6. ASSUME l = "/*" PROVE Done /\ r.mode = "blockComment" /\ r.depth = 1 /\ SameText(s, r)
  <2>1. r = InBlock(s, "blockComment", 1)
    BY <1>6, NormalReads
  <2>2. "blockComment" \in Modes
    BY DEF Modes
  <2> HIDE DEF r
  <2> QED
    BY <2>1, <2>2, InBlockFacts DEF Kept, SameDollar
<1>7. ASSUME l \in {"'", "\""}
      PROVE  Done /\ r.mode = (IF l = "'" THEN "literal" ELSE "identifier") /\ Grows(s, r, l)
  <2> DEFINE m == IF l = "'" THEN "literal" ELSE "identifier"
             u == Taken(s, l)
  <2>1. r = InMode(u, m)
    BY <1>7, NormalReads
  <2>2. m \in Modes
    BY DEF Modes
  <2>3. u \in Readings /\ Kept(s, u) /\ SameDollar(s, u) /\ Grows(s, u, l)
    BY TakenFacts DEF Grows
  <2> HIDE DEF r, m, u
  <2>4. r \in Readings /\ r.mode = m /\ Kept(u, r) /\ SameDollar(u, r) /\ SameText(u, r)
    BY <2>1, <2>2, <2>3, InModeFacts
  <2> QED
    BY <2>3, <2>4 DEF Kept, SameDollar, SameText, Grows, m
<1>8. ASSUME l \in Tags PROVE Done /\ r.mode = "dollarQuote" /\ r.tag = l /\ Grows(s, r, l)
  <2> DEFINE u == Taken(s, l)
  <2>1. r = InDollar(u, "dollarQuote", l)
    BY <1>8, NormalReads
  <2>4. "dollarQuote" \in Modes
    BY DEF Modes
  <2>2. u \in Readings /\ Kept(s, u) /\ SameDollar(s, u) /\ Grows(s, u, l)
    BY TakenFacts DEF Grows
  <2> HIDE DEF r, u
  <2>3. /\ r \in Readings /\ r.mode = "dollarQuote" /\ r.tag = l
        /\ Kept(u, r) /\ SameText(u, r) /\ r.inner = u.inner
    BY <1>8, <2>1, <2>2, <2>4, InDollarFacts
  <2> QED
    BY <2>2, <2>3 DEF Kept, SameDollar, SameText, Grows
<1>9. ASSUME Text(l), ~(l = "\\" /\ s.psql /\ s.fresh)
      PROVE  Done /\ r.mode = "normal" /\ Grows(s, r, l)
  <2>1. r = Taken(s, l)
    BY <1>9, NormalReads
  <2> HIDE DEF r
  <2> QED
    BY <2>1, TakenFacts DEF Kept, SameDollar, Grows
<1>10. Text(l) \/ l \in Comment \cup Tags \cup {";", NL, "/*", "'", "\""}
  BY DEF Text
<1>11. Done
  BY <1>3, <1>4, <1>5, <1>6, <1>7, <1>8, <1>9, <1>10
<1>12. /\ t \in Readings
       /\ t.psql = s.psql /\ t.fresh = (l = NL) /\ t.paired = s.paired /\ t.inner = s.inner
  BY <1>2, <1>11
<1>13. SameText(s, r) => SameText(s, t)
  BY <1>2, <1>11 DEF SameText
<1>14. Grows(s, r, l) => Grows(s, t, l)
  BY <1>2, <1>11 DEF Grows
<1>15. t.mode = r.mode /\ t.depth = r.depth /\ t.tag = r.tag /\ t.command = r.command /\ t.commands = r.commands
  BY <1>2, <1>11
<1> HIDE DEF t, r, Done
<1> QED
  BY <1>3, <1>4, <1>5, <1>6, <1>7, <1>8, <1>9, <1>12, <1>13, <1>14, <1>15 DEF t, NormalStepped

LineStepped(s, t, l) ==
    /\ t \in Readings
    /\ t.psql = s.psql /\ t.fresh = (l = NL) /\ t.paired = s.paired /\ t.inner = s.inner
    /\ t.mode = IF l = NL THEN "normal" ELSE "lineComment"
    /\ SameText(s, t)

LEMMA LineStep ==
    ASSUME NEW s \in Readings, NEW l \in Lexeme, s.mode = "lineComment"
    PROVE  LineStepped(s, ReadNext(s, l), l)
<1> DEFINE r == IF l = NL THEN InMode(s, "normal") ELSE s
<1>1. ReadNext(s, l) = Stamped(r, l)
  BY ModeReads
<1>2. "normal" \in Modes
  BY DEF Modes
<1>3. /\ r \in Readings /\ r.mode = IF l = NL THEN "normal" ELSE "lineComment"
      /\ Kept(s, r) /\ SameDollar(s, r) /\ SameText(s, r)
  BY <1>2, InModeFacts DEF Kept, SameDollar, SameText
<1> HIDE DEF r
<1> QED
  BY <1>1, <1>3, StampedFacts DEF Kept, SameDollar, SameText, LineStepped

BlockStepped(s, t, l) ==
    /\ t \in Readings
    /\ t.psql = s.psql /\ t.fresh = (l = NL) /\ t.paired = s.paired /\ t.inner = s.inner
    /\ t.depth = IF l = "/*" THEN s.depth + 1 ELSE IF l = "*/" THEN s.depth - 1 ELSE s.depth
    /\ t.mode = IF t.depth = 0 THEN "normal" ELSE "blockComment"
    /\ SameText(s, t)

LEMMA BlockStep ==
    ASSUME NEW s \in Readings, NEW l \in Lexeme, s.mode = "blockComment"
    PROVE  BlockStepped(s, ReadNext(s, l), l)
<1> DEFINE d == IF l = "/*" THEN s.depth + 1 ELSE IF l = "*/" THEN s.depth - 1 ELSE s.depth
           m == IF d = 0 THEN "normal" ELSE "blockComment"
           r == InBlock(s, m, d)
<1>1. ReadBlock(s, l) = r
  BY DEF ReadBlock, InBlock
<1>2. ReadNext(s, l) = Stamped(r, l)
  <2> HIDE DEF r
  <2> QED
    BY <1>1, ModeReads
<1>3. m \in Modes /\ d \in Int
  BY DEF Modes, Readings
<1> HIDE DEF d, m
<1>4. r \in Readings /\ r.mode = m /\ r.depth = d /\ Kept(s, r) /\ SameDollar(s, r) /\ SameText(s, r)
  BY <1>3, InBlockFacts
<1> HIDE DEF r
<1>5. LET t == Stamped(r, l) IN
      /\ t \in Readings /\ t.psql = s.psql /\ t.fresh = (l = NL) /\ t.paired = s.paired
      /\ t.inner = s.inner /\ t.depth = d /\ t.mode = m /\ SameText(s, t)
  BY <1>4, StampedFacts DEF Kept, SameDollar, SameText
<1> QED
  BY <1>2, <1>5 DEF d, m, BlockStepped

QuoteOf(m) == IF m = "literal" THEN "'" ELSE "\""

QuotedStepped(s, t, l) ==
    /\ t \in Readings
    /\ t.psql = s.psql /\ t.fresh = (l = NL) /\ t.paired = s.paired /\ t.inner = s.inner
    /\ t.mode = IF l = QuoteOf(s.mode) THEN "normal" ELSE s.mode
    /\ Grows(s, t, l)

LEMMA QuotedStep ==
    ASSUME NEW s \in Readings, NEW l \in Lexeme, s.mode \in {"literal", "identifier"}
    PROVE  QuotedStepped(s, ReadNext(s, l), l)
<1> DEFINE m == IF l = QuoteOf(s.mode) THEN "normal" ELSE s.mode
           u == Taken(s, l)
           r == InMode(u, m)
<1>1. u.mode = s.mode /\ u \in Readings /\ Kept(s, u) /\ SameDollar(s, u) /\ Grows(s, u, l)
  BY TakenFacts DEF Grows
<1>2. ReadQuoted(s, l, QuoteOf(s.mode)) = r
  BY <1>1 DEF ReadQuoted, InMode
<1>3. ReadNext(s, l) = Stamped(r, l)
  <2>1. CASE s.mode = "literal"
    <3>1. ReadQuoted(s, l, "'") = r
      BY <1>2, <2>1 DEF QuoteOf
    <3> HIDE DEF r
    <3> QED
      BY <2>1, <3>1, ModeReads
  <2>2. CASE s.mode = "identifier"
    <3>1. ReadQuoted(s, l, "\"") = r
      BY <1>2, <2>2 DEF QuoteOf
    <3> HIDE DEF r
    <3> QED
      BY <2>2, <3>1, ModeReads
  <2> QED
    BY <2>1, <2>2
<1>4. m \in Modes
  BY DEF Modes
<1> HIDE DEF u, m
<1>5. r \in Readings /\ r.mode = m /\ Kept(u, r) /\ SameDollar(u, r) /\ SameText(u, r)
  BY <1>1, <1>4, InModeFacts
<1> HIDE DEF r
<1> QED
  BY <1>1, <1>3, <1>5, StampedFacts DEF Kept, SameDollar, SameText, Grows, m, QuotedStepped

\* A tag met inside a dollar quote, as m8 pairs them.
Nested(inner, l) == IF inner # <<>> /\ Last(inner) = l THEN Front(inner) ELSE Append(inner, l)

OutOfDollar(r, m) == [r EXCEPT !.mode = m, !.inner = <<>>, !.paired = r.paired /\ r.inner = <<>>]
WithInner(r, i) == [r EXCEPT !.inner = i]

LEMMA OutOfDollarFacts ==
    ASSUME NEW r \in Readings, NEW m \in Modes
    PROVE  LET t == OutOfDollar(r, m) IN
           /\ t \in Readings
           /\ t.mode = m /\ t.inner = <<>> /\ t.paired = (r.paired /\ r.inner = <<>>)
           /\ t.psql = r.psql /\ SameText(r, t)
<1>1. <<>> \in Seq(Tags) /\ (r.paired /\ r.inner = <<>>) \in BOOLEAN
  OBVIOUS
<1> QED
  BY <1>1 DEF Readings, OutOfDollar, SameText

LEMMA WithInnerFacts ==
    ASSUME NEW r \in Readings, NEW i \in Seq(Tags)
    PROVE  LET t == WithInner(r, i) IN
           /\ t \in Readings
           /\ t.inner = i /\ t.mode = r.mode /\ t.tag = r.tag /\ Kept(r, t) /\ SameText(r, t)
BY DEF Readings, WithInner, Kept, SameText

DollarStepped(s, t, l) ==
    /\ t \in Readings
    /\ t.psql = s.psql /\ t.fresh = (l = NL)
    /\ Grows(s, t, l)
    /\ l = s.tag => /\ t.mode = "normal" /\ t.inner = <<>>
                    /\ t.paired = (s.paired /\ s.inner = <<>>)
    /\ l # s.tag => /\ t.mode = "dollarQuote" /\ t.tag = s.tag /\ t.paired = s.paired
                    /\ t.inner = IF l \in Tags THEN Nested(s.inner, l) ELSE s.inner

LEMMA DollarStep ==
    ASSUME NEW s \in Readings, NEW l \in Lexeme, s.mode = "dollarQuote", s.tag \in Tags
    PROVE  DollarStepped(s, ReadNext(s, l), l)
<1> DEFINE u == Taken(s, l)
           r == ReadDollar(s, l)
           t == ReadNext(s, l)
<1>1. /\ u \in Readings /\ u.mode = "dollarQuote" /\ Kept(s, u) /\ SameDollar(s, u) /\ Grows(s, u, l)
  BY TakenFacts DEF Grows
<1>2. t = Stamped(r, l)
  BY ModeReads
<1>3. r \in Readings =>
        /\ t \in Readings
        /\ t.mode = r.mode /\ t.psql = r.psql /\ t.paired = r.paired /\ t.fresh = (l = NL)
        /\ t.tag = r.tag /\ t.inner = r.inner /\ (Grows(s, r, l) => Grows(s, t, l))
  <2> HIDE DEF r, t
  <2> QED
    BY <1>2, StampedFacts DEF SameDollar, SameText, Grows
<1>4. CASE l = s.tag
  <2>1. r = OutOfDollar(u, "normal")
    BY <1>1, <1>4 DEF ReadDollar, Kept, OutOfDollar, SameDollar
  <2>2. "normal" \in Modes
    BY DEF Modes
  <2> HIDE DEF r, u
  <2>3. /\ r \in Readings /\ r.mode = "normal" /\ r.inner = <<>> /\ r.psql = s.psql
        /\ r.paired = (s.paired /\ s.inner = <<>>) /\ Grows(s, r, l)
    BY <1>1, <2>1, <2>2, OutOfDollarFacts DEF Kept, SameDollar, SameText, Grows
  <2> QED
    BY <1>3, <1>4, <2>3 DEF DollarStepped
<1>5. CASE l \in Tags \ {s.tag}
  <2>1. r = WithInner(u, Nested(s.inner, l))
    BY <1>1, <1>5 DEF ReadDollar, Nested, SameDollar, WithInner
  <2>2. Nested(s.inner, l) \in Seq(Tags)
    <3>1. s.inner \in Seq(Tags)
      BY DEF Readings
    <3>2. s.inner # <<>> => Front(s.inner) \in Seq(Tags)
      <4>1. s.inner # <<>> => Len(s.inner) - 1 \in 0..Len(s.inner)
        BY <3>1
      <4> QED
        BY <3>1, <4>1 DEF Front
    <3>3. Append(s.inner, l) \in Seq(Tags)
      BY <1>5, <3>1
    <3> QED
      BY <3>2, <3>3 DEF Nested
  <2> HIDE DEF r, u
  <2>3. /\ r \in Readings /\ r.mode = "dollarQuote" /\ r.inner = Nested(s.inner, l) /\ r.psql = s.psql
        /\ r.paired = s.paired /\ r.tag = s.tag /\ Grows(s, r, l)
    BY <1>1, <2>1, <2>2, WithInnerFacts DEF Kept, SameDollar, SameText, Grows
  <2> QED
    BY <1>3, <1>5, <2>3 DEF DollarStepped
<1>6. CASE l \notin Tags
  <2>1. r = u
    BY <1>6 DEF ReadDollar
  <2> HIDE DEF r, u
  <2> QED
    BY <1>1, <1>3, <1>6, <2>1 DEF Kept, SameDollar, DollarStepped
<1> QED
  BY <1>4, <1>5, <1>6

\* A reading is inside the quote of some tag, and inside some block comment,
\* when its mode says so.
Sound(s) ==
    /\ s \in Readings
    /\ s.mode = "dollarQuote" => s.tag \in Tags
    /\ s.mode = "blockComment" => s.depth # 0

AnyStepped(s, t, l) ==
    /\ Sound(t)
    /\ t.psql = s.psql /\ t.fresh = (l = NL)
    /\ t.paired => s.paired
    /\ \/ SameText(s, t)
       \/ Grows(s, t, l)
       \/ s.mode = "normal" /\ l = ";"

\* One more lexeme, whatever the mode.
LEMMA AnyStep ==
    ASSUME NEW s, Sound(s), NEW l \in Lexeme
    PROVE  AnyStepped(s, ReadNext(s, l), l)
<1> DEFINE t == ReadNext(s, l)
<1>1. s \in Readings /\ s.mode \in Modes
  BY DEF Sound, Readings
<1>0. Text(l) \/ l \in Comment \cup Tags \cup {";", NL, "/*", "'", "\""}
  BY DEF Text
<1>2. CASE s.mode = "normal"
  <2>1. NormalStepped(s, t, l)
    BY <1>1, <1>2, NormalStep
  <2> HIDE DEF t
  <2>2. t.mode = "dollarQuote" => t.tag \in Tags
    BY <1>0, <2>1, LexemesDiffer DEF NormalStepped
  <2>4. t.mode = "blockComment" => t.depth # 0
    <3>1. CASE l = "/*"
      BY <2>1, <3>1 DEF NormalStepped
    <3>2. CASE l # "/*"
      BY <1>0, <2>1, <3>2 DEF NormalStepped
    <3> QED
      BY <3>1, <3>2
  <2>3. SameText(s, t) \/ Grows(s, t, l) \/ l = ";"
    BY <1>0, <2>1 DEF NormalStepped
  <2> QED
    BY <1>2, <2>1, <2>2, <2>3, <2>4 DEF Sound, NormalStepped, AnyStepped, t
<1>3. CASE s.mode = "lineComment"
  <2>1. LineStepped(s, t, l)
    BY <1>1, <1>3, LineStep
  <2> HIDE DEF t
  <2> QED
    BY <2>1 DEF Sound, LineStepped, AnyStepped, t
<1>4. CASE s.mode = "blockComment"
  <2>1. BlockStepped(s, t, l)
    BY <1>1, <1>4, BlockStep
  <2> HIDE DEF t
  <2> QED
    BY <2>1 DEF Sound, BlockStepped, AnyStepped, t
<1>5. CASE s.mode \in {"literal", "identifier"}
  <2>1. QuotedStepped(s, t, l)
    BY <1>1, <1>5, QuotedStep
  <2> HIDE DEF t
  <2> QED
    BY <1>5, <2>1 DEF Sound, QuotedStepped, AnyStepped, t
<1>6. CASE s.mode = "dollarQuote"
  <2>1. DollarStepped(s, t, l)
    BY <1>1, <1>6, DollarStep DEF Sound
  <2> HIDE DEF t
  <2> QED
    BY <1>6, <2>1 DEF Sound, DollarStepped, AnyStepped, t
<1> QED
  BY <1>1, <1>2, <1>3, <1>4, <1>5, <1>6 DEF Modes

\* Two readings that are at the same point of a command.
Alike(s, t) ==
    /\ s.mode = t.mode /\ s.command = t.command /\ s.inner = t.inner
    /\ s.mode = "blockComment" => s.depth = t.depth
    /\ s.mode = "dollarQuote" => s.tag = t.tag

\* What the two have in common they keep, but where a statement or a line of
\* psql's begins or ends.
LEMMA BothStep ==
    ASSUME NEW s, Sound(s), NEW t, Sound(t), Alike(s, t), ~t.psql, NEW l \in Lexeme,
           s.mode = "normal" => l # ";" /\ ~(l = "\\" /\ s.psql /\ s.fresh)
    PROVE  /\ Alike(ReadNext(s, l), ReadNext(t, l))
           /\ ReadNext(s, l).commands = s.commands
           /\ ReadNext(t, l).commands = t.commands
<1> DEFINE u == ReadNext(s, l)
           v == ReadNext(t, l)
<1>1. s \in Readings /\ s.mode \in Modes /\ t \in Readings /\ t.mode = s.mode
  BY DEF Sound, Readings, Alike
<1>2. CASE s.mode = "normal"
  <2>1. Text(l) \/ l \in Comment \cup Tags \cup {NL, "/*", "'", "\""}
    BY <1>2 DEF Text
  <2>2. NormalStepped(s, u, l) /\ NormalStepped(t, v, l)
    BY <1>1, <1>2, NormalStep
  <2> HIDE DEF u, v
  <2>3. u.mode = v.mode /\ (u.mode = "blockComment" => u.depth = v.depth)
        /\ (u.mode = "dollarQuote" => u.tag = v.tag)
    BY <1>2, <2>1, <2>2, LexemesDiffer DEF NormalStepped
  <2>4. \/ SameText(s, u) /\ SameText(t, v)
        \/ Grows(s, u, l) /\ Grows(t, v, l)
    BY <1>2, <2>1, <2>2 DEF NormalStepped
  <2>5. u.inner = v.inner
    BY <2>2 DEF NormalStepped, Alike
  <2> QED
    BY <2>3, <2>4, <2>5 DEF Alike, SameText, Grows, u, v
<1>3. CASE s.mode = "lineComment"
  <2>1. LineStepped(s, u, l) /\ LineStepped(t, v, l)
    BY <1>1, <1>3, LineStep
  <2> HIDE DEF u, v
  <2> QED
    BY <2>1 DEF LineStepped, Alike, SameText, u, v
<1>4. CASE s.mode = "blockComment"
  <2>1. BlockStepped(s, u, l) /\ BlockStepped(t, v, l)
    BY <1>1, <1>4, BlockStep
  <2> HIDE DEF u, v
  <2> QED
    BY <1>4, <2>1 DEF BlockStepped, Alike, SameText, u, v
<1>5. CASE s.mode \in {"literal", "identifier"}
  <2>1. QuotedStepped(s, u, l) /\ QuotedStepped(t, v, l)
    BY <1>1, <1>5, QuotedStep
  <2> HIDE DEF u, v
  <2> QED
    BY <1>5, <2>1 DEF QuotedStepped, Alike, Grows, u, v
<1>6. CASE s.mode = "dollarQuote"
  <2>1. DollarStepped(s, u, l) /\ DollarStepped(t, v, l)
    BY <1>1, <1>6, DollarStep DEF Sound
  <2> HIDE DEF u, v
  <2> QED
    BY <1>6, <2>1 DEF DollarStepped, Alike, Grows, u, v
<1> QED
  BY <1>1, <1>2, <1>3, <1>4, <1>5, <1>6 DEF Modes

-----------------------------------------------------------------------------
(* A text grows lexeme by lexeme, and so does its reading.                 *)

LEMMA ReadingIsSound ==
    ASSUME NEW b, Sound(b), NEW c \in Seq(Lexeme)
    PROVE  Sound(FoldLeft(ReadNext, b, c)) /\ FoldLeft(ReadNext, b, c).psql = b.psql
<1> DEFINE Good(d) == Sound(FoldLeft(ReadNext, b, d)) /\ FoldLeft(ReadNext, b, d).psql = b.psql
           T == {k \in Nat : \A d \in Seq(Lexeme) : Len(d) = k => Good(d)}
<1>1. 0 \in T
  <2> SUFFICES ASSUME NEW d \in Seq(Lexeme), Len(d) = 0 PROVE Good(d)
    OBVIOUS
  <2>1. d = <<>>
    OBVIOUS
  <2> QED
    BY <2>1, ReadingOfNothing
<1>2. ASSUME NEW k \in Nat, k \in T PROVE k + 1 \in T
  <2> SUFFICES ASSUME NEW d \in Seq(Lexeme), Len(d) = k + 1 PROVE Good(d)
    OBVIOUS
  <2> DEFINE e == SubSeq(d, 1, k)
             l == d[k + 1]
  <2>1. e \in Seq(Lexeme) /\ Len(e) = k /\ l \in Lexeme /\ d = Append(e, l)
    BY LastApart
  <2> HIDE DEF e, l
  <2>2. Good(e)
    BY <1>2, <2>1
  <2>3. PICK s : s = FoldLeft(ReadNext, b, e)
    OBVIOUS
  <2>4. FoldLeft(ReadNext, b, d) = ReadNext(s, l)
    BY <2>1, <2>3, ReadingGrows
  <2>5. AnyStepped(s, ReadNext(s, l), l) /\ s.psql = b.psql
    BY <2>1, <2>2, <2>3, AnyStep
  <2> QED
    BY <2>4, <2>5 DEF AnyStepped
<1> HIDE DEF T
<1>3. Len(c) \in T
  <2>1. Len(c) \in Nat
    OBVIOUS
  <2> QED
    BY <1>1, <1>2, <2>1, Induction
<1> QED
  BY <1>3 DEF T

LEMMA SoundBeginning ==
    ASSUME NEW p \in BOOLEAN
    PROVE  Sound(Beginning(p)) /\ Beginning(p).psql = p
<1>1. <<>> \in Seq(Lexeme) /\ <<>> \in Seq(Seq(Lexeme)) /\ <<>> \in Seq(Tags) /\ "normal" \in Modes
  BY DEF Modes
<1> QED
  BY <1>1 DEF Sound, Beginning, Readings

LEMMA BothSound ==
    ASSUME NEW c \in Seq(Lexeme)
    PROVE  /\ Sound(AsWritten(c)) /\ AsWritten(c).psql
           /\ Sound(AsSent(c)) /\ ~AsSent(c).psql
BY SoundBeginning, ReadingIsSound DEF AsWritten, AsSent

LEMMA SentStep ==
    ASSUME NEW s \in Seq(Lexeme), NEW l \in Lexeme
    PROVE  AsSent(Append(s, l)) = ReadNext(AsSent(s), l)
BY ReadingGrows DEF AsSent

\* What was written before p.
WrittenTo(c, p) == AsWritten(SubSeq(c, 1, p - 1))

LEMMA WrittenGrows ==
    ASSUME NEW d \in Seq(Lexeme), NEW l \in Lexeme
    PROVE  AsWritten(Append(d, l)) = ReadNext(AsWritten(d), l)
BY ReadingGrows DEF AsWritten

LEMMA WrittenStep ==
    ASSUME NEW c \in Seq(Lexeme), NEW p \in 1..Len(c)
    PROVE  /\ c[p] \in Lexeme
           /\ WrittenTo(c, p + 1) = ReadNext(WrittenTo(c, p), c[p])
<1>1. PICK k \in Nat : p = k + 1
  <2>1. p - 1 \in Nat /\ p = (p - 1) + 1
    OBVIOUS
  <2> QED
    BY <2>1
<1>2. PICK d : d = SubSeq(c, 1, k)
  OBVIOUS
<1>3. d \in Seq(Lexeme) /\ c[p] \in Lexeme /\ SubSeq(c, 1, p) = Append(d, c[p])
  BY <1>1, <1>2
<1>4. p - 1 = k /\ (p + 1) - 1 = p
  BY <1>1
<1>5. WrittenTo(c, p + 1) = AsWritten(Append(d, c[p])) /\ WrittenTo(c, p) = AsWritten(d)
  BY <1>2, <1>3, <1>4 DEF WrittenTo
<1> QED
  BY <1>3, <1>5, WrittenGrows

LEMMA WrittenAll ==
    ASSUME NEW c \in Seq(Lexeme)
    PROVE  WrittenTo(c, Len(c) + 1) = AsWritten(c)
<1>1. (Len(c) + 1) - 1 = Len(c) /\ SubSeq(c, 1, Len(c)) = c
  OBVIOUS
<1> QED
  BY <1>1 DEF WrittenTo

LEMMA WrittenSound ==
    ASSUME NEW c \in Seq(Lexeme), NEW p \in 1..(Len(c) + 1)
    PROVE  Sound(WrittenTo(c, p)) /\ WrittenTo(c, p).psql
<1>1. SubSeq(c, 1, p - 1) \in Seq(Lexeme)
  OBVIOUS
<1> QED
  BY <1>1, BothSound DEF WrittenTo

LEMMA NothingRead ==
    ASSUME NEW c \in Seq(Lexeme)
    PROVE  WrittenTo(c, 1) = Beginning(TRUE) /\ AsSent(<<>>) = Beginning(FALSE)
<1>1. SubSeq(c, 1, 1 - 1) = <<>>
  OBVIOUS
<1> QED
  BY <1>1, ReadingOfNothing DEF WrittenTo, AsWritten, AsSent

-----------------------------------------------------------------------------
(* Trim takes the line ends off the end of a statement, and no more.       *)

LEMMA HasLast ==
    ASSUME NEW n \in Nat, NEW S \in SUBSET (1..n), S # {}
    PROVE  \E i \in S : \A j \in S : i >= j
<1> DEFINE T == {k \in Nat : \A R \in SUBSET (1..k) : R # {} => \E i \in R : \A j \in R : i >= j}
<1>1. 0 \in T
  <2>1. \A R \in SUBSET (1..0) : R = {}
    OBVIOUS
  <2> QED
    BY <2>1
<1>2. ASSUME NEW k \in Nat, k \in T PROVE k + 1 \in T
  <2> SUFFICES ASSUME NEW R \in SUBSET (1..(k + 1)), R # {} PROVE \E i \in R : \A j \in R : i >= j
    OBVIOUS
  <2>1. CASE k + 1 \in R
    BY <2>1
  <2>2. CASE k + 1 \notin R
    <3>1. R \in SUBSET (1..k)
      BY <2>2
    <3> QED
      BY <1>2, <3>1
  <2> QED
    BY <2>1, <2>2
<1> HIDE DEF T
<1>3. n \in T
  BY <1>1, <1>2, Induction
<1> QED
  BY <1>3 DEF T

\* A statement begins with no line end.
Begun(s) == s # <<>> => s[1] # NL

LeastIn(S) == CHOOSE i \in S : \A j \in S : i <= j
GreatestIn(S) == CHOOSE i \in S : \A j \in S : i >= j
Places(s) == {i \in DOMAIN s : ~IsBreak(s[i])}

LEMMA TrimCuts ==
    ASSUME NEW s
    PROVE  Trim(s) = IF Places(s) = {} THEN <<>>
                     ELSE SubSeq(s, LeastIn(Places(s)), GreatestIn(Places(s)))
BY Zenon DEF Trim, Places, LeastIn, GreatestIn

LEMMA TrimOfNothing == Trim(<<>>) = <<>>
<1>1. Places(<<>>) = {}
  BY DEF Places
<1> QED
  BY <1>1, TrimCuts

LEMMA TrimEnds ==
    ASSUME NEW s \in Seq(Lexeme), s # <<>>, Begun(s), s[Len(s)] # NL
    PROVE  Trim(s) = s
<1>1. 1 \in Places(s) /\ Len(s) \in Places(s) /\ Places(s) \subseteq 1..Len(s)
  BY DEF IsBreak, Begun, Places
<1>2. LeastIn(Places(s)) = 1
  <2>1. \A j \in Places(s) : 1 <= j
    BY <1>1
  <2>2. \A i \in Places(s) : (\A j \in Places(s) : i <= j) => i = 1
    BY <1>1
  <2> QED
    BY <1>1, <2>1, <2>2 DEF LeastIn
<1>3. GreatestIn(Places(s)) = Len(s)
  <2>1. \A j \in Places(s) : Len(s) >= j
    BY <1>1
  <2>2. \A i \in Places(s) : (\A j \in Places(s) : i >= j) => i = Len(s)
    BY <1>1
  <2> QED
    BY <1>1, <2>1, <2>2 DEF GreatestIn
<1>4. Trim(s) = SubSeq(s, 1, Len(s))
  BY <1>1, <1>2, <1>3, TrimCuts
<1> QED
  BY <1>4

LEMMA TrimDrops ==
    ASSUME NEW s \in Seq(Lexeme)
    PROVE  Trim(Append(s, NL)) = Trim(s)
<1> DEFINE t == Append(s, NL)
<1>1. PICK kept : kept = Places(s)
  OBVIOUS
<1>2. Places(t) = kept
  BY <1>1 DEF IsBreak, Places
<1>3. PICK lo, hi : lo = LeastIn(kept) /\ hi = GreatestIn(kept)
  OBVIOUS
<1>4. /\ Trim(t) = IF kept = {} THEN <<>> ELSE SubSeq(t, lo, hi)
      /\ Trim(s) = IF kept = {} THEN <<>> ELSE SubSeq(s, lo, hi)
  BY <1>1, <1>2, <1>3, TrimCuts
<1>5. ASSUME kept # {} PROVE SubSeq(t, lo, hi) = SubSeq(s, lo, hi)
  <2>1. kept \in SUBSET (1..Len(s)) /\ Len(s) \in Nat
    BY <1>1 DEF Places
  <2>2. hi \in kept
    <3>1. \E i \in kept : \A j \in kept : i >= j
      BY <1>5, <2>1, HasLast
    <3> QED
      BY <1>3, <3>1 DEF GreatestIn
  <2>3. lo \in kept
    <3>1. kept \subseteq Nat
      BY <2>1
    <3>2. PICK n \in kept : \A k \in kept : ~(k < n)
      BY <1>5, <3>1, LeastOf
    <3>3. \A j \in kept : n <= j
      BY <3>1, <3>2
    <3> QED
      BY <1>3, <3>2, <3>3 DEF LeastIn
  <2> QED
    BY <2>1, <2>2, <2>3
<1> HIDE DEF t
<1>6. Trim(t) = Trim(s)
  <2>1. CASE kept = {}
    BY <1>4, <2>1, Zenon
  <2>2. CASE kept # {}
    BY <1>4, <1>5, <2>2, Zenon
  <2> QED
    BY <2>1, <2>2
<1> QED
  BY <1>6 DEF t

\* What is sent of a statement that ends outside quotes and block comments is
\* what was read of it.
Trimmed(s) ==
    /\ Trim(s) \in Seq(Lexeme)
    /\ HasContent(Trim(s)) = HasContent(s)
    /\ Closed(AsSent(s)) => Closed(AsSent(Trim(s))) /\ SameText(AsSent(s), AsSent(Trim(s)))

LEMMA ContentDrops ==
    ASSUME NEW s \in Seq(Lexeme)
    PROVE  HasContent(Append(s, NL)) = HasContent(s)
<1> DEFINE t == Append(s, NL)
<1>1. HasContent(t) => HasContent(s)
  BY DEF HasContent, IsBreak
<1>2. HasContent(s) => HasContent(t)
  <2> SUFFICES ASSUME HasContent(s) PROVE HasContent(t)
    OBVIOUS
  <2>1. PICK i \in DOMAIN s : ~IsBreak(s[i]) /\ s[i] \notin Comment /\ (i = 1 \/ IsBreak(s[i - 1]))
    BY DEF HasContent
  <2>2. i \in DOMAIN t /\ t[i] = s[i] /\ (i # 1 => t[i - 1] = s[i - 1])
    OBVIOUS
  <2> HIDE DEF t
  <2> QED
    BY <2>1, <2>2 DEF HasContent
<1> QED
  BY <1>1, <1>2 DEF HasContent

LEMMA LineEndLast ==
    ASSUME NEW s \in Seq(Lexeme), Closed(AsSent(Append(s, NL)))
    PROVE  Closed(AsSent(s)) /\ SameText(AsSent(s), AsSent(Append(s, NL)))
<1>1. NL \in Lexeme
  BY DEF Lexeme, Signs
<1>2. PICK r : r = AsSent(s)
  OBVIOUS
<1>3. PICK t : t = AsSent(Append(s, NL))
  OBVIOUS
<1>4. t = ReadNext(r, NL)
  BY <1>1, <1>2, <1>3, SentStep
<1>5. Sound(r) /\ t.mode \in {"normal", "lineComment"}
  BY <1>2, <1>3, BothSound DEF Closed
<1>6. r \in Readings /\ r.mode \in Modes
  BY <1>5 DEF Sound, Readings
<1>7. CASE r.mode = "normal"
  <2>1. NormalStepped(r, t, NL)
    BY <1>1, <1>4, <1>6, <1>7, NormalStep
  <2> QED
    BY <1>2, <1>3, <1>7, <2>1 DEF NormalStepped, Closed
<1>8. CASE r.mode = "lineComment"
  <2>1. LineStepped(r, t, NL)
    BY <1>1, <1>4, <1>6, <1>8, LineStep
  <2> QED
    BY <1>2, <1>3, <1>8, <2>1 DEF LineStepped, Closed
<1>9. CASE r.mode = "blockComment"
  <2>1. BlockStepped(r, t, NL) /\ NL # "/*" /\ NL # "*/"
    BY <1>1, <1>4, <1>6, <1>9, BlockStep, LexemesDiffer
  <2> QED
    BY <1>5, <1>9, <2>1 DEF BlockStepped, Sound
<1>10. CASE r.mode \in {"literal", "identifier"}
  <2>1. QuotedStepped(r, t, NL)
    BY <1>1, <1>4, <1>6, <1>10, QuotedStep
  <2>2. NL # QuoteOf(r.mode)
    BY LexemesDiffer DEF QuoteOf
  <2> QED
    BY <1>5, <1>10, <2>1, <2>2 DEF QuotedStepped
<1>11. CASE r.mode = "dollarQuote"
  <2>1. DollarStepped(r, t, NL) /\ NL # r.tag
    BY <1>1, <1>4, <1>5, <1>6, <1>11, DollarStep, LexemesDiffer DEF Sound
  <2> QED
    BY <1>5, <1>11, <2>1 DEF DollarStepped
<1> QED
  BY <1>6, <1>7, <1>8, <1>9, <1>10, <1>11 DEF Modes

LEMMA TrimIsFaithful ==
    ASSUME NEW s \in Seq(Lexeme), Begun(s)
    PROVE  Trimmed(s)
<1> DEFINE T == {k \in Nat : \A r \in Seq(Lexeme) : Len(r) = k /\ Begun(r) => Trimmed(r)}
<1>1. ASSUME NEW r \in Seq(Lexeme), Trim(r) = r PROVE Trimmed(r)
  BY <1>1 DEF Trimmed, SameText
<1>2. 0 \in T
  <2> SUFFICES ASSUME NEW r \in Seq(Lexeme), Len(r) = 0 PROVE Trimmed(r)
    OBVIOUS
  <2>1. r = <<>>
    OBVIOUS
  <2> QED
    BY <1>1, <2>1, TrimOfNothing
<1>3. ASSUME NEW k \in Nat, k \in T PROVE k + 1 \in T
  <2> SUFFICES ASSUME NEW r \in Seq(Lexeme), Len(r) = k + 1, Begun(r) PROVE Trimmed(r)
    OBVIOUS
  <2>1. CASE r[Len(r)] # NL
    <3>1. r # <<>>
      OBVIOUS
    <3> QED
      BY <1>1, <2>1, <3>1, TrimEnds
  <2>2. CASE r[Len(r)] = NL
    <3> DEFINE q == SubSeq(r, 1, k)
    <3>1. q \in Seq(Lexeme) /\ Len(q) = k /\ r = Append(q, NL)
      BY <2>2, LastApart
    <3>2. Begun(q)
      BY <3>1 DEF Begun
    <3> HIDE DEF q
    <3>3. Trimmed(q)
      BY <1>3, <3>1, <3>2
    <3>4. Trim(r) = Trim(q) /\ HasContent(r) = HasContent(q)
      BY <3>1, TrimDrops, ContentDrops
    <3>5. Closed(AsSent(r)) => Closed(AsSent(q)) /\ SameText(AsSent(q), AsSent(r))
      BY <3>1, LineEndLast
    <3> QED
      BY <3>3, <3>4, <3>5 DEF Trimmed, SameText
  <2> QED
    BY <2>1, <2>2
<1> HIDE DEF T
<1>4. Len(s) \in T
  <2>1. Len(s) \in Nat
    OBVIOUS
  <2> QED
    BY <1>2, <1>3, <2>1, Induction
<1> QED
  BY <1>4 DEF T

-----------------------------------------------------------------------------
(* The scanner knows where it is.                                          *)

\* The scanner: its mode says whether it is inside dollar quotes or comments.
PosInv ==
    /\ pos \in 1..(Len(content) + 1) /\ content \in Seq(Lexeme)
    /\ parsed \in {"no", "yes", "error"}
StackInv == dollarStack \in Seq(Tags) /\ ((state = "dollarQuote") <=> dollarStack # <<>>)
DepthInv == blockDepth \in Nat /\ ((state = "blockComment") <=> blockDepth > 0)
ScanInv == PosInv /\ state \in Modes /\ StackInv /\ DepthInv


LEMMA ConsumingStays ==
    ASSUME PosInv, More, NEW n \in {1, 2}, Advance(n), n = 2 => pos < Len(content)
    PROVE  PosInv'
<1>1. pos' = pos + n /\ content' = content /\ parsed' = parsed
  BY DEF Advance
<1> QED
  BY <1>1 DEF PosInv, More

\* What happens outside dollar quotes, and outside block comments.
LEMMA OtherModes ==
    ASSUME ScanInv, state' \in Modes
    PROVE  /\ UNCHANGED dollarStack /\ state # "dollarQuote" /\ state' # "dollarQuote" => StackInv'
           /\ UNCHANGED blockDepth /\ state # "blockComment" /\ state' # "blockComment" => DepthInv'
BY DEF ScanInv, StackInv, DepthInv

LEMMA ScanStep == ASSUME ScanInv, Parse PROVE ScanInv'
<1> USE DEF Modes
<1>0. PosInv /\ StackInv /\ DepthInv /\ state \in Modes
  BY DEF ScanInv
<1>1. CASE ScanPsqlMetaCommand
  <2>1. PICK e \in pos..Len(content) : pos' = e + 1
    BY <1>1 DEF ScanPsqlMetaCommand
  <2>2. UNCHANGED <<content, state, dollarStack, blockDepth, parsed>>
    BY <1>1 DEF ScanPsqlMetaCommand, scannerVars
  <2>3. PosInv'
    BY <1>0, <2>1, <2>2 DEF PosInv
  <2> QED
    BY <1>0, <2>2, <2>3 DEF ScanInv, StackInv, DepthInv
<1>2. CASE Terminate \/ ScanText
  <2>1. Advance(1) /\ More /\ UNCHANGED <<state, dollarStack, blockDepth>>
    BY <1>2 DEF Terminate, ScanText, Keep, scannerVars
  <2> QED
    BY <1>0, <2>1, ConsumingStays DEF ScanInv, StackInv, DepthInv
<1>3. CASE OpenComment
  <2>1. /\ Advance(1) /\ More /\ UNCHANGED dollarStack
        /\ state = "normal" /\ state' \in {"blockComment", "lineComment"}
        /\ blockDepth' = IF state' = "blockComment" THEN 1 ELSE blockDepth
    BY <1>3 DEF OpenComment, Keep
  <2>2. PosInv' /\ StackInv'
    BY <1>0, <2>1, ConsumingStays, OtherModes
  <2>3. DepthInv'
    BY <1>0, <2>1 DEF DepthInv
  <2> QED
    BY <2>1, <2>2, <2>3 DEF ScanInv
<1>4. CASE OpenQuote
  <2>1. Advance(1) /\ More /\ state = "normal" /\ UNCHANGED blockDepth
    BY <1>4 DEF OpenQuote, Keep
  <2>2. CASE Here \in Tags
    <3>1. Here # "'" /\ Here # "\""
      BY <2>2, ParserAssumption DEF Signs
    <3>2. state' = "dollarQuote" /\ dollarStack' = <<Here>>
      BY <1>4, <2>2, <3>1 DEF OpenQuote
    <3>3. StackInv'
      BY <2>2, <3>2 DEF StackInv
    <3> QED
      BY <1>0, <2>1, <3>2, <3>3, ConsumingStays, OtherModes DEF ScanInv
  <2>3. CASE Here \notin Tags
    <3>1. state' \in {"literal", "identifier"} /\ UNCHANGED dollarStack
      BY <1>4, <2>3 DEF OpenQuote
    <3> QED
      BY <1>0, <2>1, <3>1, ConsumingStays, OtherModes DEF ScanInv
  <2> QED
    BY <2>2, <2>3
<1>5. CASE ScanSingleLineComment
  <2>1. Advance(1) /\ More /\ UNCHANGED <<dollarStack, blockDepth>>
        /\ state = "lineComment" /\ state' \in {"lineComment", "normal"}
    BY <1>5 DEF ScanSingleLineComment, Keep
  <2> QED
    BY <1>0, <2>1, ConsumingStays, OtherModes DEF ScanInv
<1>6. CASE ScanBlockComment
  <2>1. Advance(1) /\ More /\ UNCHANGED dollarStack /\ state = "blockComment"
    BY <1>6 DEF ScanBlockComment, Keep
  <2>2. blockDepth \in Nat /\ blockDepth > 0
    BY <1>0, <2>1 DEF DepthInv
  <2>3. blockDepth' \in Nat
    BY <1>6, <2>2 DEF ScanBlockComment
  <2>4. state' = IF blockDepth' = 0 THEN "normal" ELSE "blockComment"
    BY <1>6, <2>1 DEF ScanBlockComment
  <2>5. DepthInv'
    BY <2>3, <2>4 DEF DepthInv
  <2> QED
    BY <1>0, <2>1, <2>4, <2>5, ConsumingStays, OtherModes DEF ScanInv
<1>7. ASSUME NEW mode \in {"literal", "identifier"}, NEW quote, quote # "nothing",
             ScanQuoted(mode, quote)
      PROVE  ScanInv'
  <2>1. More /\ state = mode /\ state' \in {mode, "normal"} /\ UNCHANGED <<dollarStack, blockDepth>>
    BY <1>7 DEF ScanQuoted
  <2>2. PosInv'
    <3>1. CASE Here = quote /\ Peek = quote
      <4>1. pos < Len(content)
        BY <1>7, <3>1 DEF Peek
      <4>2. Advance(2)
        BY <1>7, <3>1 DEF ScanQuoted, Keep
      <4> QED
        BY <1>0, <2>1, <4>1, <4>2, ConsumingStays
    <3>2. CASE ~(Here = quote /\ Peek = quote)
      <4>1. Advance(1)
        BY <1>7, <3>2 DEF ScanQuoted, Keep
      <4> QED
        BY <1>0, <2>1, <4>1, ConsumingStays
    <3> QED
      BY <3>1, <3>2
  <2> QED
    BY <2>1, <2>2, OtherModes DEF ScanInv
<1>8. CASE ScanDollarQuote
  <2>1. Advance(1) /\ More /\ UNCHANGED blockDepth /\ state = "dollarQuote"
    BY <1>8 DEF ScanDollarQuote, Keep
  <2>2. dollarStack \in Seq(Tags) /\ dollarStack # <<>>
    BY <1>0, <2>1 DEF StackInv
  <2>3. dollarStack' \in Seq(Tags)
    <3>1. \/ dollarStack' = dollarStack
          \/ dollarStack' = Front(dollarStack)
          \/ Here \in Tags /\ dollarStack' = Append(dollarStack, Here)
      BY <1>8 DEF ScanDollarQuote
    <3>2. Front(dollarStack) \in Seq(Tags)
      <4>1. Len(dollarStack) - 1 \in 0..Len(dollarStack)
        BY <2>2
      <4> QED
        BY <2>2, <4>1 DEF Front
    <3>3. Here \in Tags => Append(dollarStack, Here) \in Seq(Tags)
      BY <2>2
    <3> QED
      BY <2>2, <3>1, <3>2, <3>3
  <2>4. state' = IF dollarStack' = <<>> THEN "normal" ELSE "dollarQuote"
    BY <1>8, <2>1 DEF ScanDollarQuote
  <2>5. StackInv'
    BY <2>3, <2>4 DEF StackInv
  <2> QED
    BY <1>0, <2>1, <2>4, <2>5, ConsumingStays, OtherModes DEF ScanInv
<1>9. CASE EndOfFile
  BY <1>0, <1>9 DEF EndOfFile, scannerVars, ScanInv, PosInv, StackInv, DepthInv
<1> QED
  BY <1>1, <1>2, <1>3, <1>4, <1>5, <1>6, <1>7, <1>8, <1>9
     DEF Parse, ScanStringLiteral, ScanIdentifierQuote

-----------------------------------------------------------------------------
(* The scanner and the two readings.                                       *)

\* What has been read of the file, and what would be sent of the statement.
Written == WrittenTo(content, pos)
Sending == AsSent(current)

\* What is sent of a number of statements.
SentOf(ss) == FlattenSeq([i \in DOMAIN ss |-> CommandsOf(AsSent(ss[i]))])
WellSent(s) == Closed(AsSent(s)) /\ Len(CommandsOf(AsSent(s))) <= 1

\* The scanner is where the reading is.
Tracks(w) ==
    /\ w.mode = state
    /\ w.fresh = lineStart
    /\ state = "blockComment" => w.depth = blockDepth
    /\ dollarStack = IF state = "dollarQuote" THEN <<w.tag>> \o w.inner ELSE <<>>
    /\ state # "dollarQuote" => w.inner = <<>>

\* Only a line of psql's that ends the file leaves it elsewhere.
LastLine(w) == pos > Len(content) /\ state = "normal" /\ w.mode = "lineComment"

\* A statement of comments only has no command.
Bare ==
    \/ HasContent(current)
    \/ /\ Sending.command = <<>>
       /\ \/ state = "lineComment"
          \/ state = "normal" /\ (current = <<>> \/ current[Len(current)] = NL)

\* What was read of the file is in the statements and in the one being read.
Synced(w, k) ==
    /\ k.commands = <<>> /\ w.command = k.command /\ w.commands = SentOf(statements)
    /\ k.mode = state
    /\ (Alike(w, k) /\ Tracks(w)) \/ LastLine(w)

WellSplit == \A i \in DOMAIN statements : WellSent(statements[i])

\* What the parser promises of the statements.
Split ==
    Paired(AsWritten(content)) =>
        /\ (parsed = "yes") <=> Closed(AsWritten(content))
        /\ parsed = "yes" =>
              CommandsOf(AsWritten(content)) = SentOf(statements) /\ WellSplit

TextInv ==
    /\ current \in Seq(Lexeme) /\ statements \in Seq(Seq(Lexeme))
    /\ Begun(current)
    /\ parsed = "no" /\ state # "normal" => current # <<>>

SyncInv ==
    /\ parsed = "no" /\ Written.paired => Synced(Written, Sending) /\ Bare /\ WellSplit
    /\ parsed # "no" => Split

SplitInv == TextInv /\ SyncInv

\* The commands a statement adds to those sent.
Adds(k) == IF k.command = <<>> THEN k.commands ELSE Append(k.commands, k.command)

LEMMA CommandsAre ==
    ASSUME NEW s \in Seq(Lexeme)
    PROVE  CommandsOf(AsSent(s)) = Adds(AsSent(s)) /\ CommandsOf(AsSent(s)) \in Seq(Seq(Lexeme))
<1>1. AsSent(s) \in Readings
  BY BothSound DEF Sound
<1>2. Ended(AsSent(s)).commands = Adds(AsSent(s)) /\ Ended(AsSent(s)) \in Readings
  BY <1>1, EndedFacts DEF Adds
<1> QED
  BY <1>2 DEF CommandsOf, Readings

LEMMA SentOfNothing == SentOf(<<>>) = <<>>
<1>1. [i \in DOMAIN <<>> |-> CommandsOf(AsSent(<<>>[i]))] = <<>>
  OBVIOUS
<1> QED
  BY <1>1, FlatOfNothing DEF SentOf

LEMMA FunctionIsSeq ==
    ASSUME NEW V, NEW n \in Nat, NEW f \in [1..n -> V]
    PROVE  f \in Seq(V) /\ Len(f) = n
<1>1. f \in Seq(V)
  BY SeqDef
<1>2. DOMAIN f = 1..n /\ DOMAIN f = 1..Len(f) /\ Len(f) \in Nat
  BY <1>1
<1> QED
  BY <1>1, <1>2

LEMMA SequenceOf ==
    ASSUME NEW V, NEW U, NEW ss \in Seq(U), NEW f \in [DOMAIN ss -> V]
    PROVE  f \in Seq(V) /\ Len(f) = Len(ss)
<1>1. DOMAIN ss = 1..Len(ss) /\ Len(ss) \in Nat
  OBVIOUS
<1> QED
  BY <1>1, FunctionIsSeq

LEMMA SentOfMore ==
    ASSUME NEW ss \in Seq(Seq(Lexeme)), NEW s \in Seq(Lexeme)
    PROVE  SentOf(Append(ss, s)) = SentOf(ss) \o CommandsOf(AsSent(s))
<1> DEFINE Q(i) == CommandsOf(AsSent(ss[i]))
           f == [i \in DOMAIN ss |-> Q(i)]
           g == [i \in DOMAIN Append(ss, s) |-> CommandsOf(AsSent(Append(ss, s)[i]))]
           c == CommandsOf(AsSent(s))
           V == Seq(Seq(Lexeme))
<1>1. c \in V /\ \A i \in DOMAIN ss : Q(i) \in V
  BY CommandsAre
<1>2. f \in Seq(V) /\ Len(f) = Len(ss)
  <2> HIDE DEF Q, V
  <2>1. f \in [DOMAIN ss -> V]
    BY <1>1
  <2> HIDE DEF f
  <2> QED
    BY <2>1, SequenceOf
<1>3. g = Append(f, c)
  <2>1. DOMAIN Append(ss, s) = 1..(Len(ss) + 1) /\ DOMAIN ss = 1..Len(ss) /\ Len(ss) \in Nat
    OBVIOUS
  <2>2. \A i \in 1..Len(ss) : Append(ss, s)[i] = ss[i]
    OBVIOUS
  <2>3. Append(ss, s)[Len(ss) + 1] = s
    OBVIOUS
  <2>4. \A i \in 1..(Len(ss) + 1) : g[i] = Append(f, c)[i]
    <3> SUFFICES ASSUME NEW i \in 1..(Len(ss) + 1) PROVE g[i] = Append(f, c)[i]
      OBVIOUS
    <3>1. CASE i = Len(ss) + 1
      <4>1. g[i] = c
        BY <2>1, <2>3, <3>1
      <4> HIDE DEF f, c, g
      <4> QED
        BY <1>1, <1>2, <3>1, <4>1
    <3>2. CASE i # Len(ss) + 1
      <4>1. i \in 1..Len(ss)
        BY <2>1, <3>2
      <4>2. g[i] = Q(i) /\ f[i] = Q(i)
        BY <2>1, <2>2, <4>1
      <4> HIDE DEF f, c, g, Q
      <4> QED
        BY <1>1, <1>2, <2>1, <4>1, <4>2
    <3> QED
      BY <3>1, <3>2
  <2>5. g = [i \in 1..(Len(ss) + 1) |-> g[i]]
    BY <2>1
  <2>6. Append(f, c) = [i \in 1..(Len(ss) + 1) |-> Append(f, c)[i]]
    <3> HIDE DEF f, c, V
    <3>1. Append(f, c) \in Seq(V) /\ Len(Append(f, c)) = Len(ss) + 1
      BY <1>1, <1>2
    <3>2. Append(f, c) \in [1..Len(Append(f, c)) -> V]
      BY <3>1, LenProperties
    <3>3. PICK x : x = Append(f, c)
      OBVIOUS
    <3>4. x \in [1..(Len(ss) + 1) -> V]
      BY <3>1, <3>2, <3>3
    <3>5. x = [i \in 1..(Len(ss) + 1) |-> x[i]]
      BY <3>4
    <3> QED
      BY <3>3, <3>5
  <2> HIDE DEF f, g, c
  <2> QED
    BY <2>4, <2>5, <2>6
<1>4. FlattenSeq(Append(f, c)) = FlattenSeq(f) \o c
  <2> HIDE DEF f, c
  <2> QED
    BY <1>1, <1>2, FlatGrows
<1> QED
  BY <1>3, <1>4 DEF SentOf

\* The statement that ends adds its command, if it has one, and nothing else.
LEMMA EmitSends ==
    ASSUME TextInv, WellSplit, Closed(Sending), Sending.commands = <<>>,
           HasContent(current) \/ Sending.command = <<>>
    PROVE  /\ Emit(current) \in Seq(Seq(Lexeme))
           /\ SentOf(Emit(current)) = IF Sending.command = <<>> THEN SentOf(statements)
                                      ELSE Append(SentOf(statements), Sending.command)
           /\ \A i \in DOMAIN Emit(current) : WellSent(Emit(current)[i])
<1> DEFINE s == Trim(current)
<1>1. /\ current \in Seq(Lexeme) /\ statements \in Seq(Seq(Lexeme))
      /\ Trimmed(current)
  BY TrimIsFaithful DEF TextInv
<1>2. /\ s \in Seq(Lexeme) /\ HasContent(s) = HasContent(current)
      /\ Closed(AsSent(s)) /\ AsSent(s).command = Sending.command /\ AsSent(s).commands = <<>>
  BY <1>1 DEF Trimmed, Sending, SameText
<1>3. Sending.command \in Seq(Lexeme)
  BY <1>1, BothSound DEF Sound, Readings, Sending
<1>4. SentOf(statements) \in Seq(Seq(Lexeme))
  <2>1. \A i \in DOMAIN statements : CommandsOf(AsSent(statements[i])) \in Seq(Seq(Lexeme))
    BY <1>1, CommandsAre
  <2>2. [i \in DOMAIN statements |-> CommandsOf(AsSent(statements[i]))] \in Seq(Seq(Seq(Lexeme)))
    <3>1. [i \in DOMAIN statements |-> CommandsOf(AsSent(statements[i]))]
              \in [DOMAIN statements -> Seq(Seq(Lexeme))]
      BY <2>1
    <3> QED
      BY <1>1, <3>1, SequenceOf
  <2> QED
    BY <2>2, FlatTypes DEF SentOf
<1> HIDE DEF s
<1>5. CommandsOf(AsSent(s)) = IF Sending.command = <<>> THEN <<>> ELSE <<Sending.command>>
  <2>1. Append(<<>>, Sending.command) = <<Sending.command>>
    BY <1>3
  <2> QED
    BY <1>2, <2>1, CommandsAre DEF Adds
<1>6. CASE HasContent(s)
  <2>1. Emit(current) = Append(statements, s)
    BY <1>6 DEF Emit, s
  <2>2. SentOf(Emit(current)) = SentOf(statements) \o CommandsOf(AsSent(s))
    BY <1>1, <1>2, <2>1, SentOfMore
  <2>3. SentOf(Emit(current)) = IF Sending.command = <<>> THEN SentOf(statements)
                                ELSE Append(SentOf(statements), Sending.command)
    <3>1. SentOf(statements) \o <<>> = SentOf(statements)
      BY <1>4
    <3>2. SentOf(statements) \o <<Sending.command>> = Append(SentOf(statements), Sending.command)
      BY <1>3, <1>4
    <3> QED
      BY <1>5, <2>2, <3>1, <3>2
  <2>4. WellSent(s)
    BY <1>2, <1>5 DEF WellSent
  <2>5. \A i \in DOMAIN Append(statements, s) :
            (i \in DOMAIN statements /\ Append(statements, s)[i] = statements[i]) \/ Append(statements, s)[i] = s
    BY <1>1, <1>2
  <2>6. Append(statements, s) \in Seq(Seq(Lexeme))
    BY <1>1, <1>2
  <2> QED
    BY <2>1, <2>3, <2>4, <2>5, <2>6 DEF WellSplit
<1>7. CASE ~HasContent(s)
  <2>1. Emit(current) = statements
    BY <1>7 DEF Emit, s
  <2> QED
    BY <1>1, <1>2, <1>7, <2>1 DEF WellSplit
<1> QED
  BY <1>6, <1>7

LEMMA OneApart ==
    ASSUME NEW c \in Seq(Lexeme), NEW p \in 1..Len(c), NEW s \in Seq(Lexeme)
    PROVE  s \o SubSeq(c, p, p + 1 - 1) = Append(s, c[p])
<1>1. PICK q : q = SubSeq(c, p, p + 1 - 1)
  OBVIOUS
<1>2. q \in Seq(Lexeme) /\ Len(q) = 1 /\ q[1] = c[p]
  BY <1>1
<1>3. q = <<c[p]>>
  BY <1>2
<1>4. s \o <<c[p]>> = Append(s, c[p])
  OBVIOUS
<1> QED
  BY <1>1, <1>3, <1>4

LEMMA ReadOne ==
    ASSUME PosInv, More, Advance(1)
    PROVE  /\ Here \in Lexeme
           /\ Sound(Written) /\ Written.psql
           /\ Written' = ReadNext(Written, Here)
           /\ AnyStepped(Written, Written', Here)
           /\ lineStart' = (Here = NL)
           /\ parsed' = "no" /\ content' = content /\ pos' = pos + 1
<1>1. content \in Seq(Lexeme) /\ pos \in 1..Len(content) /\ pos \in 1..(Len(content) + 1)
  BY DEF PosInv, More
<1>2. content' = content /\ pos' = pos + 1 /\ parsed' = "no" /\ lineStart' = (Here = NL)
  <2>1. pos + 1 - 1 = pos
    BY <1>1
  <2> QED
    BY <2>1 DEF Advance, More, IsBreak, Here
<1>3. Here \in Lexeme /\ Written' = ReadNext(Written, Here)
  BY <1>1, <1>2, WrittenStep DEF Here, Written
<1>4. Sound(Written) /\ Written.psql
  BY <1>1, WrittenSound DEF Written
<1>5. AnyStepped(Written, ReadNext(Written, Here), Here)
  BY <1>3, <1>4, AnyStep
<1> QED
  BY <1>2, <1>3, <1>4, <1>5

LEMMA KeepOne ==
    ASSUME PosInv, TextInv, More, Keep(1)
    PROVE  /\ current' = Append(current, Here) /\ current \in Seq(Lexeme)
           /\ statements' = statements
           /\ Sound(Sending) /\ ~Sending.psql
           /\ Sending' = ReadNext(Sending, Here)
           /\ Advance(1)
<1>1. Advance(1) /\ Here \in Lexeme /\ current \in Seq(Lexeme)
  BY ReadOne DEF Keep, TextInv
<1>2. current' = Append(current, Here) /\ statements' = statements
  <2>1. content \in Seq(Lexeme) /\ pos \in 1..Len(content)
    BY DEF PosInv, More
  <2>2. current \o SubSeq(content, pos, pos + 1 - 1) = Append(current, Here)
    BY <1>1, <2>1, OneApart DEF Here
  <2> QED
    BY <2>2 DEF Keep
<1>3. Sound(Sending) /\ ~Sending.psql
  BY <1>1, BothSound DEF Sending
<1>4. Sending' = ReadNext(Sending, Here)
  BY <1>1, <1>2, SentStep DEF Sending
<1> QED
  BY <1>1, <1>2, <1>3, <1>4

\* Where nothing was mistaken for the end of a statement or for psql's, and the
\* scanner has turned to the reading's mode.
Proper ==
    /\ state = "normal" => /\ Here # ";" /\ ~(Here = "\\" /\ lineStart)
                           /\ current = <<>> => Here # NL
                           /\ Here \in Comment => state' = "lineComment"
                           /\ Here = NL => state' = "normal"
    /\ state = "lineComment" => state' = IF Here = NL THEN "normal" ELSE "lineComment"

TracksNext ==
    /\ Written'.mode = state'
    /\ state' = "blockComment" => Written'.depth = blockDepth'
    /\ dollarStack' = IF state' = "dollarQuote" THEN <<Written'.tag>> \o Written'.inner ELSE <<>>
    /\ state' # "dollarQuote" => Written'.inner = <<>>

LEMMA Tracking ==
    ASSUME SyncInv, More, Written.paired, PosInv
    PROVE  /\ Synced(Written, Sending) /\ Bare /\ WellSplit
           /\ Alike(Written, Sending) /\ Tracks(Written)
BY DEF SyncInv, More, Synced, LastLine, PosInv

LEMMA ContentGrows ==
    ASSUME NEW s \in Seq(Lexeme), NEW l \in Lexeme
    PROVE  /\ HasContent(s) => HasContent(Append(s, l))
           /\ l # NL /\ l \notin Comment /\ (s = <<>> \/ s[Len(s)] = NL) => HasContent(Append(s, l))
<1>1. ASSUME HasContent(s) PROVE HasContent(Append(s, l))
  <2>1. PICK i \in DOMAIN s : ~IsBreak(s[i]) /\ s[i] \notin Comment /\ (i = 1 \/ IsBreak(s[i - 1]))
    BY <1>1 DEF HasContent
  <2>2. PICK t : t = Append(s, l)
    OBVIOUS
  <2>3. i \in DOMAIN t /\ t[i] = s[i] /\ (i # 1 => t[i - 1] = s[i - 1])
    BY <2>2
  <2> QED
    BY <2>1, <2>2, <2>3 DEF HasContent
<1>2. ASSUME l # NL, l \notin Comment, s = <<>> \/ s[Len(s)] = NL PROVE HasContent(Append(s, l))
  <2>1. PICK t : t = Append(s, l)
    OBVIOUS
  <2>2. PICK n : n = Len(s) + 1
    OBVIOUS
  <2>3. n \in DOMAIN t /\ t[n] = l /\ (n = 1 \/ t[n - 1] = NL)
    BY <1>2, <2>1, <2>2
  <2> QED
    BY <1>2, <2>1, <2>3 DEF HasContent, IsBreak
<1> QED
  BY <1>1, <1>2

LEMMA BareKeeps ==
    ASSUME PosInv, TextInv, More, Keep(1), Proper, Bare, Sending.mode = state
    PROVE  Bare'
<1>1. /\ Here \in Lexeme /\ current \in Seq(Lexeme) /\ current' = Append(current, Here)
      /\ Sound(Sending) /\ Sending' = ReadNext(Sending, Here)
  BY KeepOne, ReadOne
<1>2. current' # <<>> /\ current'[Len(current')] = Here
  BY <1>1
<1>3. CASE HasContent(current)
  BY <1>1, <1>3, ContentGrows DEF Bare
<1>4. CASE Sending.command = <<>> /\ state = "lineComment"
  <2>1. LineStepped(Sending, Sending', Here)
    BY <1>1, <1>4, LineStep DEF Sound
  <2> QED
    BY <1>2, <1>4, <2>1 DEF Bare, Proper, LineStepped, SameText
<1>5. CASE /\ Sending.command = <<>> /\ state = "normal"
           /\ current = <<>> \/ current[Len(current)] = NL
  <2>1. CASE Here # NL /\ Here \notin Comment
    BY <1>1, <1>5, <2>1, ContentGrows DEF Bare
  <2>2. CASE Here = NL \/ Here \in Comment
    <3>1. NormalStepped(Sending, Sending', Here)
      BY <1>1, <1>5, NormalStep DEF Sound
    <3>2. Sending'.command = <<>>
      BY <1>5, <2>2, <3>1 DEF NormalStepped, SameText
    <3> QED
      BY <1>2, <1>5, <2>2, <3>2 DEF Bare, Proper
  <2> QED
    BY <2>1, <2>2
<1> QED
  BY <1>3, <1>4, <1>5 DEF Bare

\* What becomes part of the statement.
LEMMA KeepSyncs ==
    ASSUME PosInv, SplitInv, More, Keep(1), Proper, Written'.paired => TracksNext
    PROVE  SplitInv'
<1>0. TextInv /\ SyncInv
  BY DEF SplitInv
<1>1. /\ Here \in Lexeme /\ Sound(Written) /\ Written.psql
      /\ Written' = ReadNext(Written, Here) /\ AnyStepped(Written, Written', Here)
      /\ lineStart' = (Here = NL) /\ parsed' = "no"
  <2>1. Advance(1)
    BY DEF Keep
  <2> QED
    BY <2>1, ReadOne
<1>2. /\ current' = Append(current, Here) /\ current \in Seq(Lexeme) /\ statements' = statements
      /\ Sound(Sending) /\ ~Sending.psql /\ Sending' = ReadNext(Sending, Here)
  BY <1>0, KeepOne
<1>3. TextInv'
  <2>1. current' \in Seq(Lexeme) /\ current' # <<>> /\ statements' \in Seq(Seq(Lexeme))
    BY <1>0, <1>1, <1>2 DEF TextInv
  <2>2. Begun(current')
    <3>1. current = <<>> => Here # NL
      BY <1>0 DEF TextInv, Proper, More
    <3> QED
      BY <1>0, <1>2, <3>1 DEF TextInv, Begun
  <2> QED
    BY <2>1, <2>2 DEF TextInv
<1>4. ASSUME Written'.paired PROVE (Synced(Written, Sending) /\ Bare /\ WellSplit)'
  <2>1. Written.paired /\ TracksNext
    BY <1>1, <1>4 DEF AnyStepped
  <2>2. /\ Synced(Written, Sending) /\ Bare /\ WellSplit
        /\ Alike(Written, Sending) /\ Tracks(Written)
    BY <1>0, <2>1, Tracking
  <2>3. Sending.mode = state /\ Written.mode = state /\ Written.fresh = lineStart
    BY <2>2 DEF Synced, Tracks
  <2>4. /\ Alike(Written', Sending')
        /\ Written'.commands = Written.commands
        /\ Sending'.commands = Sending.commands
    BY <1>1, <1>2, <2>2, <2>3, BothStep DEF Proper
  <2>5. Bare'
    BY <1>0, <2>2, <2>3, BareKeeps
  <2>6. WellSplit'
    BY <1>2, <2>2 DEF WellSplit
  <2>7. Tracks(Written)'
    BY <1>1, <2>1 DEF Tracks, TracksNext, AnyStepped
  <2>8. SentOf(statements') = SentOf(statements)
    BY <1>2
  <2>9. Synced(Written, Sending)'
    BY <2>1, <2>2, <2>4, <2>7, <2>8 DEF Synced, Alike, TracksNext
  <2> QED
    BY <2>5, <2>6, <2>9
<1>5. SyncInv'
  BY <1>1, <1>4 DEF SyncInv
<1> QED
  BY <1>3, <1>5 DEF SplitInv

-----------------------------------------------------------------------------
(* One step of the scanner.                                                *)

LEMMA OpenCommentSplits == ASSUME ScanInv, SplitInv, OpenComment PROVE SplitInv'
<1>0. /\ PosInv /\ TextInv /\ SyncInv /\ More /\ Keep(1) /\ Advance(1) /\ state = "normal"
      /\ Here \in Comment \cup {"/*"} /\ UNCHANGED dollarStack
      /\ state' = IF Here = "/*" THEN "blockComment" ELSE "lineComment"
      /\ blockDepth' = IF Here = "/*" THEN 1 ELSE blockDepth
  BY DEF ScanInv, SplitInv, OpenComment, Keep
<1>1. Here # ";" /\ Here # "\\" /\ Here # NL /\ ("/*" \notin Comment)
  BY <1>0, LexemesDiffer
<1>2. Proper
  BY <1>0, <1>1 DEF Proper
<1>3. ASSUME Written'.paired PROVE TracksNext
  <2>1. /\ Here \in Lexeme /\ Sound(Written) /\ Written' = ReadNext(Written, Here)
        /\ AnyStepped(Written, Written', Here)
    BY <1>0, ReadOne
  <2>2. Tracks(Written)
    BY <1>0, <1>3, <2>1, Tracking DEF AnyStepped
  <2>3. NormalStepped(Written, Written', Here)
    BY <1>0, <2>1, <2>2, NormalStep DEF Tracks, Sound
  <2> QED
    BY <1>0, <1>1, <2>2, <2>3 DEF Tracks, TracksNext, NormalStepped
<1> QED
  BY <1>0, <1>2, <1>3, KeepSyncs

LEMMA OpenQuoteSplits == ASSUME ScanInv, SplitInv, OpenQuote PROVE SplitInv'
<1>0. /\ PosInv /\ TextInv /\ SyncInv /\ More /\ Keep(1) /\ Advance(1) /\ state = "normal"
      /\ Here \in {"'", "\""} \cup Tags /\ UNCHANGED blockDepth
      /\ dollarStack' = IF Here \in Tags THEN <<Here>> ELSE dollarStack
  BY DEF ScanInv, SplitInv, OpenQuote, Keep
<1>1. /\ Here # ";" /\ Here # "\\" /\ Here # NL /\ Here \notin Comment
      /\ Here \in Tags => Here # "'" /\ Here # "\""
  BY <1>0, LexemesDiffer
<1>2. Proper
  BY <1>0, <1>1 DEF Proper
<1>4. /\ Here = "'" => state' = "literal"
      /\ Here = "\"" => state' = "identifier"
      /\ Here \in Tags => state' = "dollarQuote"
  BY <1>0, <1>1 DEF OpenQuote
<1>3. ASSUME Written'.paired PROVE TracksNext
  <2>1. /\ Here \in Lexeme /\ Sound(Written) /\ Written' = ReadNext(Written, Here)
        /\ AnyStepped(Written, Written', Here)
    BY <1>0, ReadOne
  <2>2. Tracks(Written)
    BY <1>0, <1>3, <2>1, Tracking DEF AnyStepped
  <2>3. NormalStepped(Written, Written', Here)
    BY <1>0, <2>1, <2>2, NormalStep DEF Tracks, Sound
  <2>4. Written.inner = <<>> /\ dollarStack = <<>>
    BY <1>0, <2>2 DEF Tracks
  <2>5. <<Here>> \o <<>> = <<Here>>
    BY <2>1
  <2>6. CASE Here \in Tags
    BY <1>0, <1>4, <2>3, <2>4, <2>5, <2>6 DEF TracksNext, NormalStepped
  <2>7. CASE Here \in {"'", "\""}
    BY <1>0, <1>1, <1>4, <2>3, <2>4, <2>7 DEF TracksNext, NormalStepped
  <2> QED
    BY <1>0, <2>6, <2>7
<1> QED
  BY <1>0, <1>2, <1>3, KeepSyncs

LEMMA ScanTextSplits == ASSUME ScanInv, SplitInv, ScanText PROVE SplitInv'
<1>0. /\ PosInv /\ TextInv /\ SyncInv /\ More /\ Advance(1) /\ state = "normal"
      /\ Here \notin Comment \cup Tags \cup {";", "/*", "'", "\""} /\ ~(Here = "\\" /\ lineStart)
      /\ UNCHANGED <<state, dollarStack, blockDepth>>
      /\ IF current = <<>> /\ Here = NL THEN UNCHANGED <<current, statements>> ELSE Keep(1)
  BY DEF ScanInv, SplitInv, ScanText, Keep, scannerVars, IsBreak
<1>1. /\ Here \in Lexeme /\ Sound(Written) /\ Written' = ReadNext(Written, Here)
      /\ AnyStepped(Written, Written', Here) /\ lineStart' = (Here = NL)
      /\ parsed' = "no"
  BY <1>0, ReadOne
<1>2. ASSUME Written'.paired
      PROVE  /\ NormalStepped(Written, Written', Here) /\ Written'.mode = "normal"
             /\ Synced(Written, Sending) /\ Bare /\ WellSplit
             /\ Alike(Written, Sending) /\ Tracks(Written)
  <2>1. /\ Synced(Written, Sending) /\ Bare /\ WellSplit
        /\ Alike(Written, Sending) /\ Tracks(Written)
    BY <1>0, <1>1, <1>2, Tracking DEF AnyStepped
  <2>2. NormalStepped(Written, Written', Here)
    BY <1>0, <1>1, <2>1, NormalStep DEF Tracks, Sound
  <2>3. Here = NL \/ Text(Here)
    BY <1>0 DEF Text
  <2>4. Written'.mode = "normal"
    BY <1>0, <2>1, <2>2, <2>3 DEF NormalStepped, Tracks
  <2> QED
    BY <2>1, <2>2, <2>4
<1>3. CASE current = <<>> /\ Here = NL
  <2>1. UNCHANGED <<current, statements>> /\ Sending' = Sending
    BY <1>0, <1>3 DEF Sending
  <2>2. TextInv'
    BY <1>0, <2>1 DEF TextInv, Begun
  <2>3. ASSUME Written'.paired PROVE (Synced(Written, Sending) /\ Bare /\ WellSplit)'
    <3>1. Bare' /\ WellSplit' /\ SentOf(statements') = SentOf(statements)
      BY <1>0, <1>2, <2>1, <2>3 DEF Bare, WellSplit
    <3>2. SameText(Written, Written') /\ Written'.inner = Written.inner
      BY <1>2, <1>3, <2>3 DEF NormalStepped
    <3>3. Alike(Written', Sending')
      BY <1>0, <1>2, <2>1, <2>3, <3>2 DEF Alike, Tracks, SameText
    <3>4. Tracks(Written)'
      BY <1>0, <1>1, <1>2, <2>3, <3>2 DEF Tracks, NormalStepped
    <3>5. Synced(Written, Sending)'
      BY <1>0, <1>2, <2>1, <2>3, <3>1, <3>2, <3>3, <3>4 DEF Synced, SameText
    <3> QED
      BY <3>1, <3>5
  <2> QED
    BY <1>1, <2>2, <2>3 DEF SplitInv, SyncInv
<1>4. CASE ~(current = <<>> /\ Here = NL)
  <2>1. Keep(1)
    BY <1>0, <1>4
  <2>2. Proper
    BY <1>0, <1>4 DEF Proper
  <2>3. ASSUME Written'.paired PROVE TracksNext
    BY <1>0, <1>2, <2>3 DEF Tracks, TracksNext, NormalStepped
  <2> QED
    BY <1>0, <2>1, <2>2, <2>3, KeepSyncs
<1> QED
  BY <1>3, <1>4

LEMMA LineCommentSplits == ASSUME ScanInv, SplitInv, ScanSingleLineComment PROVE SplitInv'
<1>0. /\ PosInv /\ TextInv /\ SyncInv /\ More /\ Keep(1) /\ Advance(1) /\ state = "lineComment"
      /\ state' = IF Here = NL THEN "normal" ELSE "lineComment"
      /\ UNCHANGED <<dollarStack, blockDepth>>
  BY DEF ScanInv, SplitInv, ScanSingleLineComment, Keep, IsBreak
<1>2. Proper
  BY <1>0 DEF Proper
<1>3. ASSUME Written'.paired PROVE TracksNext
  <2>1. /\ Here \in Lexeme /\ Sound(Written) /\ Written' = ReadNext(Written, Here)
        /\ AnyStepped(Written, Written', Here)
    BY <1>0, ReadOne
  <2>2. Tracks(Written)
    BY <1>0, <1>3, <2>1, Tracking DEF AnyStepped
  <2>3. LineStepped(Written, Written', Here)
    BY <1>0, <2>1, <2>2, LineStep DEF Tracks, Sound
  <2> QED
    BY <1>0, <2>2, <2>3 DEF Tracks, TracksNext, LineStepped
<1> QED
  BY <1>0, <1>2, <1>3, KeepSyncs

LEMMA BlockCommentSplits == ASSUME ScanInv, SplitInv, ScanBlockComment PROVE SplitInv'
<1>0. /\ PosInv /\ TextInv /\ SyncInv /\ More /\ Keep(1) /\ Advance(1) /\ state = "blockComment"
      /\ state' = IF blockDepth' = 0 THEN "normal" ELSE "blockComment"
      /\ UNCHANGED dollarStack
  BY DEF ScanInv, SplitInv, ScanBlockComment, Keep
<1>1. blockDepth' = IF Here = "/*" THEN blockDepth + 1 ELSE IF Here = "*/" THEN blockDepth - 1 ELSE blockDepth
  BY DEF ScanBlockComment
<1>2. Proper
  BY <1>0 DEF Proper
<1>3. ASSUME Written'.paired PROVE TracksNext
  <2>1. /\ Here \in Lexeme /\ Sound(Written) /\ Written' = ReadNext(Written, Here)
        /\ AnyStepped(Written, Written', Here)
    BY <1>0, ReadOne
  <2>2. Tracks(Written)
    BY <1>0, <1>3, <2>1, Tracking DEF AnyStepped
  <2>3. BlockStepped(Written, Written', Here)
    BY <1>0, <2>1, <2>2, BlockStep DEF Tracks, Sound
  <2>4. Written'.depth = blockDepth'
    BY <1>0, <1>1, <2>2, <2>3 DEF Tracks, BlockStepped
  <2> QED
    BY <1>0, <2>2, <2>3, <2>4 DEF Tracks, TracksNext, BlockStepped
<1> QED
  BY <1>0, <1>2, <1>3, KeepSyncs

\* What dollarStack is of a tag and of those met inside its quote.
Moved(stack, l) == IF l = Last(stack) THEN Front(stack) ELSE Append(stack, l)

LEMMA StackMoves ==
    ASSUME NEW tag \in Tags, NEW inner \in Seq(Tags), NEW stack, stack = <<tag>> \o inner, NEW l \in Tags
    PROVE  /\ l = tag /\ inner = <<>> => Moved(stack, l) = <<>>
           /\ l # tag => Moved(stack, l) = <<tag>> \o Nested(inner, l)
           /\ \A i \in Seq(Tags) : <<tag>> \o i # <<>>
<1>1. /\ stack \in Seq(Tags) /\ Len(stack) = Len(inner) + 1 /\ stack[1] = tag
      /\ \A i \in 1..Len(inner) : stack[i + 1] = inner[i]
  OBVIOUS
<1>2. \A i \in Seq(Tags) : <<tag>> \o i # <<>>
  OBVIOUS
<1>3. ASSUME inner = <<>> PROVE Last(stack) = tag /\ Front(stack) = <<>> /\ stack = <<tag>>
  BY <1>1, <1>3 DEF Last, Front
<1>4. ASSUME inner # <<>> PROVE Last(stack) = Last(inner) /\ Front(stack) = <<tag>> \o Front(inner)
  <2>1. PICK n \in Nat : Len(inner) = n + 1
    <3>1. Len(inner) \in Nat /\ Len(inner) # 0
      BY <1>4
    <3>2. Len(inner) - 1 \in Nat /\ Len(inner) = (Len(inner) - 1) + 1
      BY <3>1
    <3> QED
      BY <3>2
  <2>2. Last(stack) = Last(inner)
    BY <1>1, <2>1 DEF Last
  <2>3. PICK f : f = Front(stack)
    OBVIOUS
  <2>4. PICK g : g = Front(inner)
    OBVIOUS
  <2>5. f \in Seq(Tags) /\ Len(f) = n + 1 /\ \A i \in 1..(n + 1) : f[i] = stack[i]
    BY <1>1, <2>1, <2>3 DEF Front
  <2>6. g \in Seq(Tags) /\ Len(g) = n /\ \A i \in 1..n : g[i] = inner[i]
    BY <2>1, <2>4 DEF Front
  <2>7. PICK h : h = <<tag>> \o g
    OBVIOUS
  <2>8. h \in Seq(Tags) /\ Len(h) = n + 1 /\ h[1] = tag /\ \A i \in 2..(n + 1) : h[i] = g[i - 1]
    BY <2>6, <2>7
  <2>9. \A i \in 1..(n + 1) : f[i] = h[i]
    <3> SUFFICES ASSUME NEW i \in 1..(n + 1) PROVE f[i] = h[i]
      OBVIOUS
    <3>1. CASE i = 1
      BY <1>1, <2>5, <2>8, <3>1
    <3>2. CASE i # 1
      <4>1. PICK j \in 1..n : i = j + 1
        <5>1. i - 1 \in 1..n /\ i = (i - 1) + 1
          BY <3>2
        <5> QED
          BY <5>1
      <4>2. i \in 2..(n + 1) /\ i - 1 = j /\ j \in 1..Len(inner)
        BY <2>1, <4>1
      <4>3. h[i] = g[j] /\ g[j] = inner[j]
        BY <2>6, <2>8, <4>1, <4>2
      <4>4. f[i] = stack[j + 1] /\ stack[j + 1] = inner[j]
        BY <1>1, <2>5, <4>1, <4>2
      <4> QED
        BY <4>3, <4>4
    <3> QED
      BY <3>1, <3>2
  <2>10. f = h
    BY <2>5, <2>8, <2>9, SeqEqual
  <2> QED
    BY <2>2, <2>3, <2>4, <2>7, <2>10
<1>5. Append(stack, l) = <<tag>> \o Append(inner, l)
  OBVIOUS
<1>6. <<tag>> \o <<l>> = Append(<<tag>>, l) /\ Append(inner, l) \in Seq(Tags)
  OBVIOUS
<1>7. ASSUME l # tag
      PROVE  Moved(stack, l) = <<tag>> \o Nested(inner, l)
  <2>1. CASE inner = <<>>
    BY <1>3, <1>5, <1>7, <2>1 DEF Nested, Moved
  <2>2. CASE inner # <<>>
    BY <1>4, <1>5, <2>2 DEF Nested, Moved
  <2> QED
    BY <2>1, <2>2
<1> QED
  BY <1>2, <1>3, <1>7 DEF Moved

LEMMA DollarSplits == ASSUME ScanInv, SplitInv, ScanDollarQuote PROVE SplitInv'
<1>0. /\ PosInv /\ TextInv /\ SyncInv /\ More /\ Keep(1) /\ Advance(1) /\ state = "dollarQuote"
      /\ dollarStack \in Seq(Tags) /\ dollarStack # <<>>
      /\ state' = IF dollarStack' = <<>> THEN "normal" ELSE "dollarQuote"
      /\ UNCHANGED blockDepth
  BY DEF ScanInv, SplitInv, ScanDollarQuote, Keep, StackInv
<1>1. /\ Here \notin Tags => dollarStack' = dollarStack
      /\ Here \in Tags => dollarStack' = Moved(dollarStack, Here)
  <2>1. Last(dollarStack) \in Tags
    BY <1>0 DEF Last
  <2> QED
    BY <2>1 DEF ScanDollarQuote, Moved
<1>2. Proper
  BY <1>0 DEF Proper
<1>3. ASSUME Written'.paired PROVE TracksNext
  <2>1. /\ Here \in Lexeme /\ Sound(Written) /\ Written' = ReadNext(Written, Here)
        /\ AnyStepped(Written, Written', Here)
    BY <1>0, ReadOne
  <2>2. Tracks(Written)
    BY <1>0, <1>3, <2>1, Tracking DEF AnyStepped
  <2>3. Written.mode = "dollarQuote" /\ dollarStack = <<Written.tag>> \o Written.inner
    BY <1>0, <2>2 DEF Tracks
  <2>4. Written.tag \in Tags /\ Written.inner \in Seq(Tags)
    BY <2>1, <2>3 DEF Sound, Readings
  <2>5. DollarStepped(Written, Written', Here)
    BY <2>1, <2>3, <2>4, DollarStep DEF Sound
  <2>6. PICK tag, inner, stack : tag = Written.tag /\ inner = Written.inner /\ stack = dollarStack
    OBVIOUS
  <2>7. CASE Here = Written.tag
    <3>1. Written.inner = <<>> /\ Written'.mode = "normal" /\ Written'.inner = <<>>
      BY <1>3, <2>5, <2>7 DEF DollarStepped
    <3>2. Moved(stack, Here) = <<>>
      <4>1. /\ tag \in Tags /\ inner \in Seq(Tags) /\ stack = <<tag>> \o inner
            /\ Here = tag /\ inner = <<>>
        BY <2>3, <2>4, <2>6, <2>7, <3>1
      <4> QED
        BY <4>1, StackMoves
    <3> QED
      BY <1>0, <1>1, <2>4, <2>6, <2>7, <3>1, <3>2 DEF TracksNext
  <2>8. CASE Here \in Tags /\ Here # Written.tag
    <3>1. /\ Written'.mode = "dollarQuote" /\ Written'.tag = tag
          /\ Written'.inner = Nested(inner, Here)
      BY <2>5, <2>6, <2>8 DEF DollarStepped
    <3>2. dollarStack' = <<tag>> \o Nested(inner, Here)
      <4>1. /\ tag \in Tags /\ inner \in Seq(Tags) /\ stack = <<tag>> \o inner
            /\ Here \in Tags /\ Here # tag
        BY <2>3, <2>4, <2>6, <2>8
      <4>2. Moved(stack, Here) = <<tag>> \o Nested(inner, Here)
        BY <4>1, StackMoves
      <4> QED
        BY <1>1, <2>6, <2>8, <4>2
    <3>3. Written'.inner \in Seq(Tags)
      BY <2>5 DEF DollarStepped, Readings
    <3>4. dollarStack' # <<>>
      BY <2>3, <2>4, <2>6, <3>1, <3>2, <3>3, StackMoves
    <3> QED
      BY <1>0, <3>1, <3>2, <3>4 DEF TracksNext
  <2>9. CASE Here \notin Tags
    <3>1. Here # Written.tag
      BY <2>4, <2>9
    <3>2. /\ Written'.mode = "dollarQuote" /\ Written'.tag = Written.tag
          /\ Written'.inner = Written.inner
      BY <2>5, <2>9, <3>1 DEF DollarStepped
    <3> QED
      BY <1>0, <1>1, <2>3, <2>9, <3>2 DEF TracksNext
  <2> QED
    BY <2>7, <2>8, <2>9
<1> QED
  BY <1>0, <1>2, <1>3, KeepSyncs

LEMMA TwoApart ==
    ASSUME NEW c \in Seq(Lexeme), NEW p \in 1..Len(c), p < Len(c), NEW s \in Seq(Lexeme)
    PROVE  s \o SubSeq(c, p, p + 2 - 1) = Append(Append(s, c[p]), c[p + 1])
<1>1. PICK q : q = SubSeq(c, p, p + 2 - 1)
  OBVIOUS
<1>2. PICK x, y : x = c[p] /\ y = c[p + 1]
  OBVIOUS
<1>3. q \in Seq(Lexeme) /\ Len(q) = 2 /\ q[1] = x /\ q[2] = y /\ x \in Lexeme /\ y \in Lexeme
  BY <1>1, <1>2
<1>4. q = <<x, y>>
  BY <1>3
<1>5. s \o <<x, y>> = Append(Append(s, x), y)
  BY <1>3
<1> QED
  BY <1>1, <1>2, <1>4, <1>5

\* One lexeme of a quoted text, or the quote that ends it.
LEMMA QuotedOnce ==
    ASSUME PosInv, SplitInv, More, Keep(1), NEW mode \in {"literal", "identifier"}, state = mode,
           state' = IF Here = QuoteOf(mode) THEN "normal" ELSE mode,
           UNCHANGED <<dollarStack, blockDepth>>
    PROVE  SplitInv'
<1>0. TextInv /\ SyncInv /\ Advance(1) /\ state \notin {"normal", "lineComment"}
  BY DEF SplitInv, Keep
<1>2. Proper
  BY <1>0 DEF Proper
<1>3. ASSUME Written'.paired PROVE TracksNext
  <2>1. /\ Here \in Lexeme /\ Sound(Written) /\ Written' = ReadNext(Written, Here)
        /\ AnyStepped(Written, Written', Here)
    BY <1>0, ReadOne
  <2>2. Tracks(Written)
    BY <1>0, <1>3, <2>1, Tracking DEF AnyStepped
  <2>3. Written.mode = mode /\ Written.inner = <<>> /\ dollarStack = <<>>
    BY <2>2 DEF Tracks
  <2>4. QuotedStepped(Written, Written', Here)
    BY <2>1, <2>3, QuotedStep DEF Sound
  <2> QED
    BY <2>3, <2>4 DEF TracksNext, QuotedStepped
<1> QED
  BY <1>0, <1>2, <1>3, KeepSyncs

\* A doubled quote ends the quoted text and begins it anew.
LEMMA QuotedTwice ==
    ASSUME PosInv, SplitInv, More, Keep(2), NEW mode \in {"literal", "identifier"},
           Here = QuoteOf(mode), Peek = QuoteOf(mode), state = mode,
           UNCHANGED <<state, dollarStack, blockDepth>>
    PROVE  SplitInv'
<1>10. PICK q : q = QuoteOf(mode)
  OBVIOUS
<1>0. TextInv /\ SyncInv /\ current \in Seq(Lexeme) /\ current # <<>>
  BY DEF SplitInv, TextInv, More
<1>1. /\ content \in Seq(Lexeme) /\ pos \in 1..Len(content) /\ pos < Len(content)
      /\ content[pos] = q /\ content[pos + 1] = q
      /\ pos + 1 \in 1..Len(content)
  <2>1. content \in Seq(Lexeme) /\ pos \in 1..Len(content)
    BY DEF PosInv, More
  <2>2. q # "nothing"
    BY <1>10 DEF QuoteOf
  <2>3. pos < Len(content)
    BY <1>10, <2>2 DEF Peek
  <2> QED
    BY <1>10, <2>1, <2>3 DEF Here, Peek
<1>2. /\ q \in {"'", "\""} /\ q # NL /\ q # "\\" /\ q # ";"
      /\ q = "'" <=> mode = "literal"
  BY <1>10, LexemesDiffer DEF QuoteOf
<1>11. q \in Lexeme
  BY <1>2 DEF Lexeme, Signs
<1>3. /\ content' = content /\ pos' = pos + 2 /\ parsed' = "no" /\ lineStart' = FALSE
      /\ statements' = statements /\ current' = Append(Append(current, q), q)
  <2>1. content[pos + 2 - 1] = q
    BY <1>1
  <2>2. lineStart' = FALSE
    BY <1>2, <2>1 DEF Keep, Advance, IsBreak
  <2>3. current \o SubSeq(content, pos, pos + 2 - 1) = Append(Append(current, q), q)
    BY <1>0, <1>1, TwoApart
  <2> QED
    BY <2>2, <2>3 DEF Keep, Advance, More
<1>4. PICK w : w = ReadNext(Written, q)
  OBVIOUS
<1>5. PICK k : k = ReadNext(Sending, q)
  OBVIOUS
<1>6. Sound(Written) /\ Sound(w) /\ Written' = ReadNext(w, q) /\ (Written'.paired => w.paired /\ Written.paired)
  <2>1. w = WrittenTo(content, pos + 1) /\ WrittenTo(content, (pos + 1) + 1) = ReadNext(w, q)
    BY <1>1, <1>4, WrittenStep DEF Written
  <2>2. (pos + 1) + 1 = pos + 2
    BY <1>1
  <2>3. Written' = ReadNext(w, q)
    BY <1>3, <2>1, <2>2 DEF Written
  <2>4. pos \in 1..(Len(content) + 1) /\ pos + 1 \in 1..(Len(content) + 1)
    BY <1>1
  <2>5. Sound(Written) /\ Sound(w)
    BY <1>1, <2>1, <2>4, WrittenSound DEF Written
  <2>6. AnyStepped(w, Written', q) /\ AnyStepped(Written, w, q)
    BY <1>2, <1>11, <1>4, <2>3, <2>5, AnyStep
  <2> QED
    BY <2>3, <2>5, <2>6 DEF AnyStepped
<1>7. Sound(Sending) /\ ~Sending.psql /\ Sound(k) /\ ~k.psql /\ Sending' = ReadNext(k, q)
  <2>1. k = AsSent(Append(current, q)) /\ Append(current, q) \in Seq(Lexeme)
    BY <1>0, <1>11, <1>5, SentStep DEF Sending
  <2>2. Sending' = ReadNext(k, q)
    BY <1>11, <1>3, <2>1, SentStep DEF Sending
  <2> QED
    BY <1>0, <2>1, <2>2, BothSound DEF Sending
<1>8. TextInv'
  <2>1. Append(current, q) \in Seq(Lexeme) /\ Append(current, q) # <<>> /\ Append(current, q)[1] = current[1]
    BY <1>0, <1>11
  <2>2. current' \in Seq(Lexeme) /\ current' # <<>> /\ current'[1] = current[1]
    BY <1>11, <1>3, <2>1
  <2> QED
    BY <1>0, <1>3, <2>2 DEF TextInv, Begun
<1>9. ASSUME Written'.paired PROVE (Synced(Written, Sending) /\ Bare /\ WellSplit)'
  <2>1. /\ Synced(Written, Sending) /\ Bare /\ WellSplit
        /\ Alike(Written, Sending) /\ Tracks(Written)
    BY <1>0, <1>6, <1>9, Tracking
  <2>2. Written.mode = mode /\ Written.inner = <<>> /\ dollarStack = <<>>
    BY <2>1 DEF Tracks
  <2>3. QuotedStepped(Written, w, q)
    BY <1>2, <1>11, <1>4, <1>6, <2>2, QuotedStep DEF Sound
  <2>4. w.mode = "normal"
    BY <1>10, <2>2, <2>3 DEF QuotedStepped
  <2>5. /\ Alike(w, k) /\ w.commands = Written.commands /\ k.commands = Sending.commands
    BY <1>2, <1>11, <1>4, <1>5, <1>6, <1>7, <2>1, <2>2, BothStep
  <2>6. NormalStepped(w, Written', q)
    BY <1>2, <1>11, <1>6, <2>4, NormalStep DEF Sound
  <2>7. Written'.mode = mode /\ Written'.inner = <<>> /\ Written'.fresh = FALSE
    BY <1>2, <2>2, <2>3, <2>6 DEF NormalStepped, QuotedStepped
  <2>8. /\ Alike(Written', Sending') /\ Written'.commands = w.commands /\ Sending'.commands = k.commands
    BY <1>2, <1>11, <1>6, <1>7, <2>5, BothStep
  <2>9. HasContent(current')
    <3>1. HasContent(current)
      BY <2>1 DEF Bare
    <3>2. Append(current, q) \in Seq(Lexeme)
      BY <1>0, <1>11
    <3> QED
      BY <1>0, <1>2, <1>11, <1>3, <3>1, <3>2, ContentGrows
  <2>10. Tracks(Written)'
    BY <1>3, <2>2, <2>7 DEF Tracks
  <2>11. SentOf(statements') = SentOf(statements) /\ WellSplit'
    BY <1>3, <2>1 DEF WellSplit
  <2>12. Synced(Written, Sending)'
    BY <2>1, <2>5, <2>7, <2>8, <2>10, <2>11 DEF Synced, Alike
  <2> QED
    BY <2>9, <2>11, <2>12 DEF Bare
<1> QED
  BY <1>3, <1>8, <1>9 DEF SplitInv, SyncInv

LEMMA QuotedSplits ==
    ASSUME ScanInv, SplitInv, NEW mode \in {"literal", "identifier"}, ScanQuoted(mode, QuoteOf(mode))
    PROVE  SplitInv'
<1>1. PosInv /\ More /\ state = mode /\ UNCHANGED <<dollarStack, blockDepth>>
  BY DEF ScanInv, ScanQuoted
<1>2. CASE Here = QuoteOf(mode) /\ Peek = QuoteOf(mode)
  BY <1>1, <1>2, QuotedTwice DEF ScanQuoted
<1>3. CASE ~(Here = QuoteOf(mode) /\ Peek = QuoteOf(mode))
  BY <1>1, <1>3, QuotedOnce DEF ScanQuoted
<1> QED
  BY <1>2, <1>3

LEMMA EmitTypes == ASSUME TextInv PROVE Emit(current) \in Seq(Seq(Lexeme))
<1>1. PICK s : s = Trim(current)
  OBVIOUS
<1>2. s \in Seq(Lexeme) /\ statements \in Seq(Seq(Lexeme))
  BY <1>1, TrimIsFaithful DEF TextInv, Trimmed
<1>3. Append(statements, s) \in Seq(Seq(Lexeme))
  BY <1>2
<1> QED
  BY <1>1, <1>2, <1>3 DEF Emit

LEMMA TerminateSplits == ASSUME ScanInv, SplitInv, Terminate PROVE SplitInv'
<1>0. /\ PosInv /\ TextInv /\ SyncInv /\ More /\ Advance(1) /\ state = "normal" /\ Here = ";"
      /\ current' = <<>> /\ statements' = Emit(current)
      /\ UNCHANGED <<state, dollarStack, blockDepth>>
  BY DEF ScanInv, SplitInv, Terminate, scannerVars
<1>1. /\ Here \in Lexeme /\ Sound(Written) /\ Written' = ReadNext(Written, Here)
      /\ AnyStepped(Written, Written', Here) /\ lineStart' = (Here = NL)
      /\ parsed' = "no"
  BY <1>0, ReadOne
<1>2. Emit(current) \in Seq(Seq(Lexeme))
  BY <1>0, EmitTypes
<1>3. TextInv'
  <2>1. <<>> \in Seq(Lexeme)
    OBVIOUS
  <2> QED
    BY <1>0, <1>2, <2>1 DEF TextInv, Begun
<1>4. Sending' = Beginning(FALSE)
  <2>1. AsSent(<<>>) = Beginning(FALSE)
    BY ReadingOfNothing DEF AsSent
  <2> QED
    BY <1>0, <2>1 DEF Sending
<1>5. ASSUME Written'.paired PROVE (Synced(Written, Sending) /\ Bare /\ WellSplit)'
  <2>1. /\ Synced(Written, Sending) /\ Bare /\ WellSplit
        /\ Alike(Written, Sending) /\ Tracks(Written)
    BY <1>0, <1>1, <1>5, Tracking DEF AnyStepped
  <2>2. NormalStepped(Written, Written', ";")
    BY <1>0, <1>1, <2>1, NormalStep DEF Tracks, Sound
  <2>3. /\ Closed(Sending) /\ Sending.commands = <<>>
        /\ HasContent(current) \/ Sending.command = <<>>
    BY <1>0, <2>1 DEF Synced, Closed, Bare
  <2>4. /\ SentOf(statements') = IF Sending.command = <<>> THEN SentOf(statements)
                                 ELSE Append(SentOf(statements), Sending.command)
        /\ WellSplit'
    BY <1>0, <2>1, <2>3, EmitSends DEF WellSplit
  <2>5. /\ Written'.mode = "normal" /\ Written'.command = <<>> /\ Written'.inner = <<>>
        /\ Written'.fresh = lineStart'
        /\ Written'.commands = SentOf(statements')
    BY <1>0, <1>1, <2>1, <2>2, <2>4 DEF NormalStepped, Tracks, Synced
  <2>6. /\ Sending'.mode = "normal" /\ Sending'.command = <<>> /\ Sending'.inner = <<>>
        /\ Sending'.commands = <<>>
    BY <1>4 DEF Beginning
  <2>7. Alike(Written', Sending')
    BY <2>5, <2>6 DEF Alike
  <2>8. Tracks(Written)'
    BY <1>0, <2>1, <2>5 DEF Tracks
  <2>9. Bare'
    BY <1>0, <2>6 DEF Bare
  <2> QED
    BY <1>0, <2>4, <2>5, <2>6, <2>7, <2>8, <2>9 DEF Synced
<1> QED
  BY <1>1, <1>3, <1>5 DEF SplitInv, SyncInv

LEMMA EndOfFileSplits == ASSUME ScanInv, SplitInv, EndOfFile PROVE SplitInv'
<1>0. /\ PosInv /\ TextInv /\ SyncInv /\ parsed = "no" /\ pos = Len(content) + 1
      /\ UNCHANGED <<content, state>>
      /\ content \in Seq(Lexeme)
  BY DEF ScanInv, SplitInv, EndOfFile, PosInv, scannerVars
<1>1. IF state \in {"normal", "lineComment"}
      THEN parsed' = "yes" /\ statements' = Emit(current) /\ current' = <<>>
      ELSE parsed' = "error" /\ UNCHANGED <<statements, current>>
  BY DEF EndOfFile
<1>2. Written = AsWritten(content)
  BY <1>0, WrittenAll DEF Written
<1>3. TextInv'
  <2>1. <<>> \in Seq(Lexeme)
    OBVIOUS
  <2>2. Emit(current) \in Seq(Seq(Lexeme))
    BY <1>0, EmitTypes
  <2> QED
    BY <1>0, <1>1, <2>1, <2>2 DEF TextInv, Begun
<1>4. ASSUME Paired(AsWritten(content))
      PROVE  /\ (parsed' = "yes") <=> Closed(AsWritten(content))
             /\ parsed' = "yes" => /\ CommandsOf(AsWritten(content)) = SentOf(statements')
                                   /\ WellSplit'
  <2>1. Synced(Written, Sending) /\ Bare /\ WellSplit
    BY <1>0, <1>2, <1>4 DEF SyncInv, Paired
  <2>2. Written.mode = state \/ (state = "normal" /\ Written.mode = "lineComment")
    BY <2>1 DEF Synced, Alike, Tracks, LastLine
  <2>3. (parsed' = "yes") <=> Closed(AsWritten(content))
    BY <1>1, <1>2, <2>2 DEF Closed
  <2>4. ASSUME parsed' = "yes"
        PROVE  CommandsOf(AsWritten(content)) = SentOf(statements') /\ WellSplit'
    <3>1. state \in {"normal", "lineComment"} /\ statements' = Emit(current)
      BY <1>1, <2>4
    <3>2. /\ Closed(Sending) /\ Sending.commands = <<>>
          /\ HasContent(current) \/ Sending.command = <<>>
      BY <2>1, <3>1 DEF Synced, Closed, Bare
    <3>3. /\ SentOf(statements') = IF Sending.command = <<>> THEN SentOf(statements)
                                   ELSE Append(SentOf(statements), Sending.command)
          /\ WellSplit'
      BY <1>0, <2>1, <3>1, <3>2, EmitSends DEF WellSplit
    <3>4. CommandsOf(Written) = IF Written.command = <<>> THEN Written.commands
                                ELSE Append(Written.commands, Written.command)
      <4>1. Sound(Written)
        BY <1>0, <1>2, BothSound
      <4> QED
        BY <4>1, EndedFacts DEF CommandsOf, Sound
    <3> QED
      BY <1>2, <2>1, <3>3, <3>4 DEF Synced
  <2> QED
    BY <2>3, <2>4
<1>5. Split'
  BY <1>0, <1>4 DEF Split
<1> QED
  BY <1>1, <1>3, <1>5 DEF SplitInv, SyncInv

\* The reading is inside psql's line.
InLine(w, v, l) ==
    /\ w.mode = IF l = NL THEN "normal" ELSE "lineComment"
    /\ w.fresh = (l = NL)
    /\ w.paired = v.paired /\ w.inner = v.inner /\ SameText(v, w)

\* psql's line is read as a comment, to its end or the file's.
LEMMA PsqlLine ==
    ASSUME NEW c \in Seq(Lexeme), NEW p \in 1..Len(c), NEW e \in p..Len(c),
           c[p] = "\\", \A i \in p..(e - 1) : c[i] # NL,
           NEW v, v = WrittenTo(c, p), v.mode = "normal", v.fresh
    PROVE  InLine(WrittenTo(c, e + 1), v, c[e])
<1> DEFINE T == {k \in Nat : p + k <= e => InLine(WrittenTo(c, p + k + 1), v, c[p + k])}
<1>1. 0 \in T
  <2>1. Sound(v) /\ v.psql
    <3>1. p \in 1..(Len(c) + 1)
      OBVIOUS
    <3> QED
      BY <3>1, WrittenSound
  <2>2. c[p] \in Lexeme /\ WrittenTo(c, p + 1) = ReadNext(v, c[p])
    BY WrittenStep
  <2>3. NormalStepped(v, WrittenTo(c, p + 1), c[p])
    BY <2>1, <2>2, NormalStep DEF Sound
  <2>4. c[p] # NL
    BY LexemesDiffer
  <2>5. InLine(WrittenTo(c, p + 1), v, c[p])
    BY <2>1, <2>3, <2>4 DEF NormalStepped, InLine
  <2>6. p + 0 = p
    OBVIOUS
  <2> QED
    BY <2>5, <2>6
<1>2. ASSUME NEW k \in Nat, k \in T PROVE k + 1 \in T
  <2> SUFFICES ASSUME p + (k + 1) <= e
               PROVE  InLine(WrittenTo(c, p + (k + 1) + 1), v, c[p + (k + 1)])
    OBVIOUS
  <2>1. PICK i : i = p + k + 1
    OBVIOUS
  <2>2. /\ i \in 1..Len(c) /\ i = p + (k + 1) /\ p + k <= e /\ p + k \in p..(e - 1)
        /\ i \in 1..(Len(c) + 1)
    BY <2>1
  <2>3. PICK w : w = WrittenTo(c, i)
    OBVIOUS
  <2>4. InLine(w, v, c[p + k]) /\ c[p + k] # NL
    BY <1>2, <2>1, <2>2, <2>3
  <2>5. Sound(w) /\ c[i] \in Lexeme /\ WrittenTo(c, i + 1) = ReadNext(w, c[i])
    BY <2>2, <2>3, WrittenSound, WrittenStep
  <2>6. LineStepped(w, WrittenTo(c, i + 1), c[i])
    BY <2>4, <2>5, LineStep DEF InLine, Sound
  <2>7. InLine(WrittenTo(c, i + 1), v, c[i])
    BY <2>4, <2>6 DEF InLine, LineStepped, SameText
  <2> QED
    BY <2>2, <2>7
<1> HIDE DEF T
<1>3. e - p \in T
  <2>1. e - p \in Nat
    OBVIOUS
  <2> QED
    BY <1>1, <1>2, <2>1, Induction
<1>4. p + (e - p) = e /\ p + (e - p) + 1 = e + 1
  OBVIOUS
<1> QED
  BY <1>3, <1>4 DEF T

\* A tag that broke its pair stays broken.
LEMMA PairsOnlyLost ==
    ASSUME NEW c \in Seq(Lexeme), NEW p \in 1..Len(c), NEW k \in Nat, p + k \in 1..(Len(c) + 1)
    PROVE  WrittenTo(c, p + k).paired => WrittenTo(c, p).paired
<1> DEFINE T == {n \in Nat : p + n \in 1..(Len(c) + 1) =>
                   (WrittenTo(c, p + n).paired => WrittenTo(c, p).paired)}
<1>1. 0 \in T
  <2>1. p + 0 = p
    OBVIOUS
  <2> QED
    BY <2>1
<1>2. ASSUME NEW n \in Nat, n \in T PROVE n + 1 \in T
  <2> SUFFICES ASSUME p + (n + 1) \in 1..(Len(c) + 1)
               PROVE  WrittenTo(c, p + (n + 1)).paired => WrittenTo(c, p).paired
    OBVIOUS
  <2>1. PICK i : i = p + n
    OBVIOUS
  <2>2. i \in 1..Len(c) /\ i \in 1..(Len(c) + 1) /\ p + (n + 1) = i + 1
    BY <2>1
  <2>3. AnyStepped(WrittenTo(c, i), WrittenTo(c, i + 1), c[i])
    BY <2>2, WrittenSound, WrittenStep, AnyStep
  <2> QED
    BY <1>2, <2>1, <2>2, <2>3 DEF AnyStepped
<1> HIDE DEF T
<1>3. k \in T
  BY <1>1, <1>2, Induction
<1> QED
  BY <1>3 DEF T

LEMMA PsqlSplits == ASSUME ScanInv, SplitInv, ScanPsqlMetaCommand PROVE SplitInv'
<1>0. /\ PosInv /\ TextInv /\ SyncInv /\ More /\ state = "normal" /\ lineStart /\ Here = "\\"
      /\ UNCHANGED <<content, state, dollarStack, blockDepth, lineStart, current, statements, parsed>>
  BY DEF ScanInv, SplitInv, ScanPsqlMetaCommand, scannerVars
<1>1. PICK e \in pos..Len(content) :
          /\ content[e] = NL \/ e = Len(content)
          /\ \A i \in pos..(e - 1) : content[i] # NL
          /\ pos' = e + 1
  BY DEF ScanPsqlMetaCommand, IsBreak
<1>2. content \in Seq(Lexeme) /\ pos \in 1..Len(content) /\ content[pos] = "\\"
  BY <1>0 DEF PosInv, More, Here
<1>3. PICK w : w = WrittenTo(content, e + 1)
  OBVIOUS
<1>4. Written' = w /\ Sending' = Sending /\ SentOf(statements') = SentOf(statements)
  BY <1>0, <1>1, <1>3 DEF Written, Sending
<1>5. parsed' = "no" /\ TextInv'
  BY <1>0 DEF More, TextInv, Begun
<1>6. w.paired => Written.paired
  <2>1. e + 1 - pos \in Nat /\ pos + (e + 1 - pos) = e + 1 /\ e + 1 \in 1..(Len(content) + 1)
    BY <1>2
  <2> QED
    BY <1>2, <1>3, <2>1, PairsOnlyLost DEF Written
<1>7. ASSUME w.paired PROVE (Synced(Written, Sending) /\ Bare /\ WellSplit)'
  <2>1. /\ Synced(Written, Sending) /\ Bare /\ WellSplit
        /\ Alike(Written, Sending) /\ Tracks(Written)
    BY <1>0, <1>6, <1>7, Tracking
  <2>2. Written.mode = "normal" /\ Written.fresh /\ Written.inner = <<>> /\ dollarStack = <<>>
    BY <1>0, <2>1 DEF Tracks
  <2>3. InLine(w, Written, content[e])
    <3>1. PICK v : v = Written
      OBVIOUS
    <3>2. v = WrittenTo(content, pos) /\ v.mode = "normal" /\ v.fresh
      BY <2>2, <3>1 DEF Written
    <3>3. InLine(WrittenTo(content, e + 1), v, content[e])
      BY <1>1, <1>2, <3>2, PsqlLine
    <3> QED
      BY <1>3, <3>1, <3>3
  <2>4. Bare' /\ WellSplit'
    BY <1>0, <1>4, <2>1 DEF Bare, WellSplit
  <2>5. CASE content[e] = NL
    <3>1. w.mode = "normal" /\ w.fresh = TRUE /\ w.inner = <<>> /\ SameText(Written, w)
      BY <2>2, <2>3, <2>5 DEF InLine
    <3>2. Tracks(Written)'
      BY <1>0, <1>4, <2>1, <2>2, <3>1 DEF Tracks
    <3>3. Alike(Written', Sending')
      BY <1>4, <2>1, <2>2, <3>1 DEF Alike, SameText
    <3>4. Synced(Written, Sending)'
      BY <1>0, <1>4, <2>1, <3>1, <3>2, <3>3 DEF Synced, SameText
    <3> QED
      BY <2>4, <3>4
  <2>6. CASE content[e] # NL
    <3>1. w.mode = "lineComment" /\ SameText(Written, w) /\ e = Len(content)
      BY <1>1, <2>3, <2>6 DEF InLine
    <3>2. LastLine(Written)'
      BY <1>0, <1>1, <1>2, <1>4, <3>1 DEF LastLine
    <3>3. Synced(Written, Sending)'
      BY <1>0, <1>4, <2>1, <3>1, <3>2 DEF Synced, SameText
    <3> QED
      BY <2>4, <3>3
  <2> QED
    BY <2>5, <2>6
<1> QED
  BY <1>4, <1>5, <1>7 DEF SplitInv, SyncInv

LEMMA SplitStep == ASSUME ScanInv, SplitInv, Parse PROVE SplitInv'
<1>1. ScanStringLiteral => SplitInv'
  <2>1. QuoteOf("literal") = "'"
    BY DEF QuoteOf
  <2> QED
    BY <2>1, QuotedSplits DEF ScanStringLiteral
<1>2. ScanIdentifierQuote => SplitInv'
  <2>1. QuoteOf("identifier") = "\""
    BY DEF QuoteOf
  <2> QED
    BY <2>1, QuotedSplits DEF ScanIdentifierQuote
<1> QED
  BY <1>1, <1>2, PsqlSplits, TerminateSplits, OpenCommentSplits, OpenQuoteSplits, ScanTextSplits,
     LineCommentSplits, BlockCommentSplits, DollarSplits, EndOfFileSplits DEF Parse

\* Before anything of a file is read.
LEMMA UnreadSplits == ASSUME content \in Seq(Lexeme), Unread PROVE SplitInv
<1>1. /\ pos = 1 /\ state = "normal" /\ dollarStack = <<>> /\ blockDepth = 0 /\ lineStart = TRUE
      /\ current = <<>> /\ statements = <<>> /\ parsed = "no"
  BY DEF Unread
<1>2. Written = Beginning(TRUE) /\ Sending = Beginning(FALSE)
  BY <1>1, NothingRead DEF Written, Sending
<1>3. TextInv
  BY <1>1 DEF TextInv, Begun
<1>4. SentOf(statements) = <<>>
  BY <1>1, SentOfNothing
<1>5. Alike(Written, Sending) /\ Tracks(Written)
  BY <1>1, <1>2 DEF Alike, Tracks, Beginning
<1>6. Synced(Written, Sending)
  BY <1>1, <1>2, <1>4, <1>5 DEF Synced, Beginning
<1>7. Bare
  BY <1>1, <1>2 DEF Bare, Beginning
<1>8. WellSplit
  BY <1>1 DEF WellSplit
<1> QED
  BY <1>1, <1>3, <1>6, <1>7, <1>8 DEF SplitInv, SyncInv

-----------------------------------------------------------------------------
(* What is sent, and what is meant *)

\* The commands of a statement, the statements with one, and its first word.
Said(ss, i) == CommandsOf(AsSent(ss[i]))
Speaks(ss) == {i \in DOMAIN ss : Said(ss, i) # <<>>}
Word(ss, i) == Head(Head(Said(ss, i)))

\* The commands of the statements in their order, one for each that has one.
InOrder(f, ss) ==
    /\ f \in [Speaks(ss) -> 1..Len(SentOf(ss))]
    /\ \A k \in 1..Len(SentOf(ss)) : \E i \in Speaks(ss) : f[i] = k
    /\ \A i \in Speaks(ss), j \in Speaks(ss) : i < j => f[i] < f[j]
    /\ \A i \in Speaks(ss) : SentOf(ss)[f[i]] = Head(Said(ss, i))

AllWellSent(ss) == \A i \in DOMAIN ss : WellSent(ss[i])

LEMMA SaidTypes ==
    ASSUME NEW ss \in Seq(Seq(Lexeme)), NEW i \in DOMAIN ss
    PROVE  Said(ss, i) \in Seq(Seq(Lexeme))
<1>1. ss[i] \in Seq(Lexeme)
  OBVIOUS
<1> QED
  BY <1>1, CommandsAre DEF Said

LEMMA SentTypes ==
    ASSUME NEW ss \in Seq(Seq(Lexeme))
    PROVE  SentOf(ss) \in Seq(Seq(Lexeme))
<1> DEFINE f == [i \in DOMAIN ss |-> CommandsOf(AsSent(ss[i]))]
<1>1. f \in [DOMAIN ss -> Seq(Seq(Lexeme))]
  BY CommandsAre
<1>2. f \in Seq(Seq(Seq(Lexeme)))
  BY <1>1, SequenceOf
<1> QED
  BY <1>2, FlatTypes DEF SentOf

LEMMA OneJoined ==
    ASSUME NEW V, NEW a \in Seq(V), NEW c \in Seq(V), c # <<>>, Len(c) <= 1
    PROVE  /\ Len(a \o c) = Len(a) + 1 /\ (a \o c)[Len(a) + 1] = Head(c)
           /\ \A k \in 1..Len(a) : (a \o c)[k] = a[k]
<1>1. Len(c) = 1
  <2> DEFINE n == Len(c)
  <2>1. n \in Nat /\ n # 0 /\ n <= 1
    BY EmptySeq
  <2> HIDE DEF n
  <2>2. n = 1
    BY <2>1
  <2> QED
    BY <2>2 DEF n
<1>2. c[1] = Head(c)
  BY HeadTailProperties
<1>3. Len(a) \in Nat /\ Len(a \o c) = Len(a) + Len(c)
  BY ConcatProperties, LenProperties
<1>4. (a \o c)[Len(a) + 1] = c[1]
  BY <1>1, <1>3
<1>5. \A k \in 1..Len(a) : (a \o c)[k] = a[k]
  BY <1>3
<1> QED
  BY <1>1, <1>2, <1>3, <1>4, <1>5

LEMMA OneMoreInOrder ==
    ASSUME NEW ss \in Seq(Seq(Lexeme)), NEW s \in Seq(Lexeme), AllWellSent(Append(ss, s)),
           NEW f, InOrder(f, ss)
    PROVE  \E g : InOrder(g, Append(ss, s))
<1> DEFINE tt == Append(ss, s)
           n == Len(ss)
           c == CommandsOf(AsSent(s))
<1>1. /\ tt \in Seq(Seq(Lexeme)) /\ Len(tt) = n + 1 /\ tt[n + 1] = s
      /\ \A i \in 1..n : tt[i] = ss[i]
      /\ DOMAIN ss = 1..n /\ DOMAIN tt = 1..(n + 1) /\ n \in Nat
  OBVIOUS
<1>2. /\ \A i \in 1..n : Said(tt, i) = Said(ss, i)
      /\ Said(tt, n + 1) = c
  BY <1>1 DEF Said
<1>3. SentOf(tt) = SentOf(ss) \o c
  BY SentOfMore
<1>4. SentOf(ss) \in Seq(Seq(Lexeme)) /\ c \in Seq(Seq(Lexeme)) /\ Len(c) <= 1
  <2>1. WellSent(s)
    <3>1. AllWellSent(tt) /\ n + 1 \in DOMAIN tt
      BY <1>1
    <3> QED
      BY <1>1, <3>1 DEF AllWellSent
  <2> QED
    BY <2>1, SentTypes, CommandsAre DEF WellSent
<1> HIDE DEF tt, n, c
<1>5. CASE c = <<>>
  <2>1. SentOf(tt) = SentOf(ss) /\ Speaks(tt) = Speaks(ss)
    BY <1>1, <1>2, <1>3, <1>4, <1>5 DEF Speaks
  <2>2. \A i \in Speaks(ss) : Said(tt, i) = Said(ss, i)
    BY <1>1, <1>2 DEF Speaks
  <2>3. InOrder(f, tt)
    BY <2>1, <2>2 DEF InOrder
  <2> QED
    BY <2>3 DEF tt
<1>6. CASE c # <<>>
  <2> DEFINE m == Len(SentOf(ss))
             g == [i \in Speaks(tt) |-> IF i = n + 1 THEN m + 1 ELSE f[i]]
  <2>2. /\ Len(SentOf(tt)) = m + 1 /\ SentOf(tt)[m + 1] = Head(c)
        /\ \A k \in 1..m : SentOf(tt)[k] = SentOf(ss)[k]
    BY <1>3, <1>4, <1>6, OneJoined
  <2>3. Speaks(tt) = Speaks(ss) \cup {n + 1} /\ Speaks(ss) \subseteq 1..n
    BY <1>1, <1>2, <1>6 DEF Speaks
  <2>4. m \in Nat
    BY <1>4
  <2> HIDE DEF m
  <2>5. \A i \in Speaks(ss) : g[i] = f[i] /\ f[i] \in 1..m
    BY <1>1, <2>3, <2>4 DEF InOrder, m
  <2>6. g[n + 1] = m + 1
    BY <2>3
  <2>7. g \in [Speaks(tt) -> 1..Len(SentOf(tt))]
    BY <2>2, <2>3, <2>4, <2>5, <2>6
  <2> HIDE DEF g
  <2>8. \A k \in 1..Len(SentOf(tt)) : \E i \in Speaks(tt) : g[i] = k
    <3> SUFFICES ASSUME NEW k \in 1..(m + 1) PROVE \E i \in Speaks(tt) : g[i] = k
      BY <2>2
    <3>1. CASE k = m + 1
      BY <2>3, <2>6, <3>1
    <3>2. CASE k \in 1..m
      BY <2>3, <2>5, <3>2 DEF InOrder, m
    <3> QED
      BY <3>1, <3>2, <2>4
  <2>9. \A i \in Speaks(tt), j \in Speaks(tt) : i < j => g[i] < g[j]
    <3> SUFFICES ASSUME NEW i \in Speaks(tt), NEW j \in Speaks(tt), i < j PROVE g[i] < g[j]
      OBVIOUS
    <3>1. i \in Speaks(ss)
      BY <1>1, <2>3
    <3>2. CASE j = n + 1
      BY <2>4, <2>5, <2>6, <3>1, <3>2
    <3>3. CASE j \in Speaks(ss)
      BY <2>5, <3>1, <3>3 DEF InOrder
    <3> QED
      BY <2>3, <3>2, <3>3
  <2>10. \A i \in Speaks(tt) : SentOf(tt)[g[i]] = Head(Said(tt, i))
    <3> SUFFICES ASSUME NEW i \in Speaks(tt) PROVE SentOf(tt)[g[i]] = Head(Said(tt, i))
      OBVIOUS
    <3>1. CASE i = n + 1
      BY <1>2, <2>2, <2>6, <3>1
    <3>2. CASE i \in Speaks(ss)
      <4>1. g[i] = f[i] /\ f[i] \in 1..m /\ i \in 1..n
        BY <2>3, <2>5, <3>2
      <4>2. SentOf(ss)[f[i]] = Head(Said(ss, i))
        BY <3>2 DEF InOrder
      <4> QED
        BY <1>2, <2>2, <4>1, <4>2
    <3> QED
      BY <2>3, <3>1, <3>2
  <2>11. InOrder(g, tt)
    BY <2>7, <2>8, <2>9, <2>10 DEF InOrder
  <2> QED
    BY <2>11 DEF tt
<1> QED
  BY <1>5, <1>6

\* In statements of at most one command each.
LEMMA SentInOrder ==
    ASSUME NEW ss \in Seq(Seq(Lexeme)), AllWellSent(ss)
    PROVE  \E f : InOrder(f, ss)
<1> DEFINE P(n) == \A tt \in Seq(Seq(Lexeme)) :
                      Len(tt) = n /\ AllWellSent(tt) => \E f : InOrder(f, tt)
           T == {n \in Nat : P(n)}
<1>1. 0 \in T
  <2> SUFFICES ASSUME NEW tt \in Seq(Seq(Lexeme)), Len(tt) = 0 PROVE \E f : InOrder(f, tt)
    OBVIOUS
  <2>1. tt = <<>> /\ DOMAIN tt = {}
    OBVIOUS
  <2>2. SentOf(tt) = <<>> /\ Len(SentOf(tt)) = 0 /\ Speaks(tt) = {}
    BY <2>1, SentOfNothing DEF Speaks
  <2>3. InOrder([i \in {} |-> 0], tt)
    BY <2>2 DEF InOrder
  <2> QED
    BY <2>3
<1>2. ASSUME NEW n \in Nat, n \in T PROVE n + 1 \in T
  <2> SUFFICES ASSUME NEW tt \in Seq(Seq(Lexeme)), Len(tt) = n + 1, AllWellSent(tt)
               PROVE  \E f : InOrder(f, tt)
    OBVIOUS
  <2>0. P(n)
    BY <1>2
  <2>1. PICK rr : rr = SubSeq(tt, 1, n)
    OBVIOUS
  <2>2. PICK s : s = tt[n + 1]
    OBVIOUS
  <2>3. rr \in Seq(Seq(Lexeme)) /\ Len(rr) = n /\ s \in Seq(Lexeme) /\ tt = Append(rr, s)
    BY <2>1, <2>2, LastApart
  <2>4. AllWellSent(rr)
    <3>1. \A i \in 1..n : rr[i] = tt[i]
      BY <2>3
    <3>2. DOMAIN rr = 1..n /\ DOMAIN tt = 1..(n + 1)
      BY <2>3
    <3> QED
      BY <3>1, <3>2 DEF AllWellSent
  <2>5. PICK f : InOrder(f, rr)
    BY <2>0, <2>3, <2>4
  <2>6. AllWellSent(Append(rr, s))
    BY <2>3
  <2>7. \E g : InOrder(g, Append(rr, s))
    BY <2>3, <2>5, <2>6, OneMoreInOrder
  <2> QED
    BY <2>3, <2>7
<1>3. Nat \subseteq T
  <2> HIDE DEF T
  <2> QED
    BY <1>1, <1>2, Induction
<1>4. Len(ss) \in T
  BY <1>3
<1> QED
  BY <1>4

-----------------------------------------------------------------------------
(* How a statement begins *)

\* A reading whose first command begins with a word.
BeginsWith(k, l) ==
    /\ k.commands = <<>> => k.command # <<>> /\ k.command[1] = l
    /\ k.commands # <<>> => k.commands[1] # <<>> /\ k.commands[1][1] = l

LEMMA Lengthens ==
    ASSUME NEW V, NEW s \in Seq(V), NEW x \in V
    PROVE  Append(s, x) # <<>> /\ (s # <<>> => Append(s, x)[1] = s[1]) /\ (s = <<>> => Append(s, x)[1] = x)
OBVIOUS

LEMMA AddsBeginsWith ==
    ASSUME NEW k \in Readings, NEW l, BeginsWith(k, l)
    PROVE  Adds(k) # <<>> /\ Adds(k)[1] # <<>> /\ Adds(k)[1][1] = l
<1>1. k.command \in Seq(Lexeme) /\ k.commands \in Seq(Seq(Lexeme))
  BY DEF Readings
<1>2. CASE k.command = <<>>
  BY <1>2 DEF BeginsWith, Adds
<1>3. CASE k.command # <<>>
  <2>1. Adds(k) = Append(k.commands, k.command)
    BY <1>3 DEF Adds
  <2>2. /\ Adds(k) # <<>> /\ (k.commands # <<>> => Adds(k)[1] = k.commands[1])
        /\ k.commands = <<>> => Adds(k)[1] = k.command
    BY <1>1, <2>1, Lengthens
  <2> QED
    BY <1>3, <2>2 DEF BeginsWith
<1> QED
  BY <1>2, <1>3

LEMMA BeginningStays ==
    ASSUME NEW s, Sound(s), NEW l \in Lexeme, NEW w, BeginsWith(s, w)
    PROVE  BeginsWith(ReadNext(s, l), w)
<1> SUFFICES ASSUME NEW t, t = ReadNext(s, l) PROVE BeginsWith(t, w)
  OBVIOUS
<1>0. s \in Readings /\ s.command \in Seq(Lexeme)
  BY DEF Sound, Readings
<1>1. AnyStepped(s, t, l)
  BY AnyStep
<1>2. CASE SameText(s, t)
  BY <1>2 DEF SameText, BeginsWith
<1>3. CASE Grows(s, t, l)
  <2>1. t.command = Append(s.command, l) /\ t.commands = s.commands
    BY <1>3 DEF Grows
  <2>2. t.command # <<>> /\ (s.command # <<>> => t.command[1] = s.command[1])
    BY <1>0, <2>1, Lengthens
  <2> QED
    BY <2>1, <2>2 DEF BeginsWith
<1>4. CASE s.mode = "normal" /\ l = ";"
  <2>1. NormalStepped(s, t, l)
    BY <1>0, <1>4, NormalStep
  <2>2. t.commands = Adds(s)
    BY <1>4, <2>1 DEF NormalStepped, Adds
  <2>3. Adds(s) # <<>> /\ Adds(s)[1] # <<>> /\ Adds(s)[1][1] = w
    BY <1>0, AddsBeginsWith
  <2> QED
    BY <2>2, <2>3 DEF BeginsWith
<1> QED
  BY <1>1, <1>2, <1>3, <1>4 DEF AnyStepped

LEMMA FirstWord ==
    ASSUME NEW s \in Seq(Lexeme), s # <<>>, Text(s[1])
    PROVE  CommandsOf(AsSent(s)) # <<>> /\ Head(Head(CommandsOf(AsSent(s)))) = s[1]
<1> DEFINE P(n) == \A r \in Seq(Lexeme) : Len(r) = n + 1 /\ Text(r[1]) => BeginsWith(AsSent(r), r[1])
           T == {n \in Nat : P(n)}
<1>1. 0 \in T
  <2> SUFFICES ASSUME NEW r \in Seq(Lexeme), Len(r) = 1, Text(r[1]) PROVE BeginsWith(AsSent(r), r[1])
    OBVIOUS
  <2>1. PICK l : l = r[1]
    OBVIOUS
  <2>2. l \in Lexeme /\ r = Append(<<>>, l)
    BY <2>1
  <2>3. AsSent(r) = ReadNext(Beginning(FALSE), l)
    <3>1. <<>> \in Seq(Lexeme)
      OBVIOUS
    <3>2. AsSent(Append(<<>>, l)) = ReadNext(AsSent(<<>>), l)
      BY <2>2, <3>1, SentStep
    <3>3. AsSent(<<>>) = Beginning(FALSE)
      BY <3>1, NothingRead
    <3> QED
      BY <2>2, <3>2, <3>3
  <2>4. /\ Beginning(FALSE) \in Readings /\ Beginning(FALSE).mode = "normal"
        /\ ~Beginning(FALSE).psql
        /\ Beginning(FALSE).command = <<>> /\ Beginning(FALSE).commands = <<>>
    <3>1. Beginning(FALSE) \in Readings
      BY SoundBeginning DEF Sound
    <3> QED
      BY <3>1 DEF Beginning
  <2>5. NormalStepped(Beginning(FALSE), AsSent(r), l)
    BY <2>2, <2>3, <2>4, NormalStep
  <2>6. Grows(Beginning(FALSE), AsSent(r), l)
    BY <2>1, <2>4, <2>5 DEF NormalStepped
  <2>7. AsSent(r).commands = <<>> /\ AsSent(r).command = Append(<<>>, l)
    BY <2>4, <2>6 DEF Grows
  <2>8. Append(<<>>, l) # <<>> /\ Append(<<>>, l)[1] = l
    BY <2>2
  <2> QED
    BY <2>1, <2>7, <2>8 DEF BeginsWith
<1>2. ASSUME NEW n \in Nat, n \in T PROVE n + 1 \in T
  <2> SUFFICES ASSUME NEW r \in Seq(Lexeme), Len(r) = n + 1 + 1, Text(r[1]) PROVE BeginsWith(AsSent(r), r[1])
    OBVIOUS
  <2>1. PICK q : q = SubSeq(r, 1, n + 1)
    OBVIOUS
  <2>2. PICK l : l = r[n + 1 + 1]
    OBVIOUS
  <2>3. q \in Seq(Lexeme) /\ Len(q) = n + 1 /\ l \in Lexeme /\ r = Append(q, l)
    BY <2>1, <2>2, LastApart
  <2>4. q[1] = r[1]
    BY <2>3
  <2>5. BeginsWith(AsSent(q), r[1])
    BY <1>2, <2>3, <2>4
  <2>6. AsSent(r) = ReadNext(AsSent(q), l) /\ Sound(AsSent(q))
    BY <2>3, SentStep, BothSound
  <2> QED
    BY <2>3, <2>5, <2>6, BeginningStays
<1>3. Nat \subseteq T
  <2> HIDE DEF T
  <2> QED
    BY <1>1, <1>2, Induction
<1>4. Len(s) \in Nat \ {0}
  BY EmptySeq
<1>5. Len(s) - 1 \in T /\ Len(s) = (Len(s) - 1) + 1
  BY <1>3, <1>4
<1>6. BeginsWith(AsSent(s), s[1])
  BY <1>5
<1>7. AsSent(s) \in Readings
  BY BothSound DEF Sound
<1>8. CommandsOf(AsSent(s)) = Adds(AsSent(s)) /\ CommandsOf(AsSent(s)) \in Seq(Seq(Lexeme))
  BY CommandsAre
<1> DEFINE a == Adds(AsSent(s))
<1>9. a \in Seq(Seq(Lexeme)) /\ a # <<>> /\ a[1] # <<>> /\ a[1][1] = s[1]
  BY <1>6, <1>7, <1>8, AddsBeginsWith
<1> HIDE DEF a
<1>10. Head(a) = a[1] /\ a[1] \in Seq(Lexeme)
  BY <1>9
<1>11. Head(a[1]) = a[1][1]
  BY <1>9, <1>10
<1> QED
  BY <1>8, <1>9, <1>10, <1>11 DEF a
=============================================================================
