-------------------------- MODULE M8ReferenceProofs --------------------------
(***************************************************************************)
(* What a reconciliation leaves behind, for any tables, keys, files,       *)
(* foreign keys, failures and applications: nothing before its commit, a   *)
(* sequence that goes back only where it was drawn from in between - and,  *)
(* with the commit, tables that are as their files declare them, no row    *)
(* written but those reported, none deleted but where a file prunes, and   *)
(* the sequences ahead of what was inserted.                               *)
(***************************************************************************)
EXTENDS M8Reference, SequenceTheorems, WellFoundedInduction, TLAPS

-----------------------------------------------------------------------------
(* Sequences.  Induction from the least number, what a recursion over      *)
(* numbers yields, and what a concatenation holds.                         *)

LEMMA LeastOf ==
    ASSUME NEW T, T \subseteq Nat, T # {}
    PROVE  \E n \in T : \A k \in T : ~ (k < n)
<1>1. PICK n \in T : \A k \in T : <<k, n>> \notin OpToRel(<, Nat)
  BY WFMin, NatLessThanWellFounded, Zenon
<1> QED
  BY <1>1, Zenon DEF OpToRel

LEMMA Induction ==
    ASSUME NEW T, 0 \in T, \A n \in Nat : n \in T => n + 1 \in T
    PROVE  Nat \subseteq T
<1> SUFFICES ASSUME Nat \ T # {} PROVE FALSE
  OBVIOUS
<1> DEFINE F == Nat \ T
<1>1. F \subseteq Nat /\ F # {}
  OBVIOUS
<1>2. PICK n \in F : \A k \in F : ~ (k < n)
  <2> HIDE DEF F
  <2> QED
    BY <1>1, LeastOf
<1>3. n \in Nat /\ n # 0 /\ n - 1 \in Nat /\ n - 1 < n
  BY <1>2
<1>4. n - 1 \in T
  BY <1>2, <1>3
<1> QED
  BY <1>2, <1>3, <1>4

\* What begins with b and goes on, at i, as the function G says.
Goes(f, b, G, n) == f[0] = b /\ \A i \in 1..n : f[i] = G[<<i, f[i - 1]>>]

LEMMA Recursion ==
    ASSUME NEW S, NEW b \in S, NEW n \in Nat, NEW G \in [(1..n) \X S -> S]
    PROVE  \E f \in [0..n -> S] : Goes(f, b, G, n)
<1> DEFINE T == {k \in Nat : k <= n => \E f \in [0..k -> S] : Goes(f, b, G, k)}
<1>1. 0 \in T
  <2> DEFINE e == [i \in 0..0 |-> b]
  <2>1. e \in [0..0 -> S] /\ Goes(e, b, G, 0)
    BY DEF Goes
  <2> QED
    BY <2>1
<1>2. ASSUME NEW k \in Nat, k \in T PROVE k + 1 \in T
  <2> SUFFICES ASSUME k + 1 <= n
               PROVE  \E f \in [0..(k + 1) -> S] : Goes(f, b, G, k + 1)
    OBVIOUS
  <2>1. PICK f \in [0..k -> S] : Goes(f, b, G, k)
    BY <1>2
  <2> DEFINE x == G[<<k + 1, f[k]>>]
             g == [i \in 0..(k + 1) |-> IF i = k + 1 THEN x ELSE f[i]]
  <2>2. x \in S
    <3>1. <<k + 1, f[k]>> \in (1..n) \X S
      OBVIOUS
    <3> QED
      BY <3>1
  <2>3. g[k + 1] = x /\ \A i \in 0..k : g[i] = f[i] /\ i # k + 1
    OBVIOUS
  <2>4. g \in [0..(k + 1) -> S]
    <3> HIDE DEF x
    <3> QED
      BY <2>2
  <2> HIDE DEF g
  <2>5. ASSUME NEW i \in 1..(k + 1) PROVE g[i] = G[<<i, g[i - 1]>>]
    <3>1. i - 1 \in 0..k /\ (i # k + 1 => i \in 1..k /\ i \in 0..k)
      OBVIOUS
    <3> QED
      BY <2>1, <2>3, <3>1 DEF Goes
  <2>6. g[0] = b
    BY <2>1, <2>3 DEF Goes
  <2> QED
    BY <2>4, <2>5, <2>6 DEF Goes
<1> HIDE DEF T
<1>3. n \in T
  BY <1>1, <1>2, Induction
<1> QED
  BY <1>3 DEF T

\* f concatenates ss.
IsFlat(f, ss) == f = [i \in 1..Len(ss) |-> IF i = 1 THEN ss[i] ELSE f[i - 1] \o ss[i]]
Joins(f, ss, i) == f[i] = IF i = 1 THEN ss[i] ELSE f[i - 1] \o ss[i]

LEMMA FlatExists ==
    ASSUME NEW V, NEW ss \in Seq(Seq(V))
    PROVE  \E f : IsFlat(f, ss)
<1> DEFINE n == Len(ss)
           S == Seq(V)
           G == [p \in (1..n) \X S |-> p[2] \o ss[p[1]]]
<1>1. n \in Nat /\ <<>> \in S /\ \A i \in 1..n : ss[i] \in S
  OBVIOUS
<1>2. G \in [(1..n) \X S -> S]
  <2>1. ASSUME NEW p \in (1..n) \X S PROVE p[2] \o ss[p[1]] \in S
    <3>1. p[1] \in 1..n /\ p[2] \in Seq(V) /\ ss[p[1]] \in Seq(V)
      BY <1>1
    <3> QED
      BY <3>1
  <2> HIDE DEF S, n
  <2> QED
    BY <2>1
<1>3. \E f \in [0..n -> S] : Goes(f, <<>>, G, n)
  <2> HIDE DEF S, n, G
  <2> QED
    BY <1>1, <1>2, Recursion
<1>4. PICK f \in [0..n -> S] : Goes(f, <<>>, G, n)
  BY <1>3
<1> DEFINE g == [i \in 1..n |-> f[i]]
           h == [i \in 1..n |-> IF i = 1 THEN ss[i] ELSE g[i - 1] \o ss[i]]
<1>5. ASSUME NEW i \in 1..n PROVE g[i] = h[i]
  <2>1. i - 1 \in 0..n /\ f[i - 1] \in S /\ <<i, f[i - 1]>> \in (1..n) \X S
    <3> HIDE DEF S, n
    <3>1. i - 1 \in 0..n
      BY <1>1
    <3> QED
      BY <1>4, <3>1
  <2>2. f[i] = G[<<i, f[i - 1]>>]
    BY <1>4 DEF Goes
  <2>3. G[<<i, f[i - 1]>>] = f[i - 1] \o ss[i]
    <3> HIDE DEF S, n
    <3> QED
      BY <2>1
  <2>4. CASE i = 1
    <3>1. f[i - 1] = <<>> /\ ss[i] \in Seq(V)
      BY <1>1, <1>4, <2>4 DEF Goes
    <3>2. <<>> \o ss[i] = ss[i]
      BY <3>1
    <3> QED
      BY <2>2, <2>3, <2>4, <3>1, <3>2
  <2>5. CASE i # 1
    <3>1. i - 1 \in 1..n
      BY <1>1, <2>5
    <3> HIDE DEF n, G
    <3> QED
      BY <2>2, <2>3, <2>5, <3>1
  <2> QED
    BY <2>4, <2>5
<1>6. g = h
  <2> HIDE DEF n
  <2> QED
    BY <1>5
<1>7. h = [i \in 1..Len(ss) |-> IF i = 1 THEN ss[i] ELSE g[i - 1] \o ss[i]]
  OBVIOUS
<1> HIDE DEF g, h
<1>8. IsFlat(g, ss)
  BY <1>6, <1>7 DEF IsFlat
<1> QED
  BY <1>8

\* The concatenation of at least one sequence, sequence by sequence.
LEMMA FlatIsFlat ==
    ASSUME NEW V, NEW ss \in Seq(Seq(V)), Len(ss) # 0
    PROVE  \E f : FlattenSeq(ss) = f[Len(ss)] /\ \A i \in 1..Len(ss) : Joins(f, ss, i)
<1>1. PICK f : f = CHOOSE g : IsFlat(g, ss)
  OBVIOUS
<1>2. IsFlat(f, ss)
  BY <1>1, FlatExists
<1>3. FlattenSeq(ss) = f[Len(ss)]
  BY <1>1 DEF FlattenSeq, IsFlat
<1>4. \A i \in 1..Len(ss) : Joins(f, ss, i)
  BY <1>2 DEF IsFlat, Joins
<1> QED
  BY <1>3, <1>4

\* A concatenation stays in a set that is closed under concatenation,
LEMMA FlatStays ==
    ASSUME NEW V, NEW S, S \subseteq Seq(V), <<>> \in S, \A p, q \in S : p \o q \in S,
           NEW ss \in Seq(S)
    PROVE  FlattenSeq(ss) \in S
<1>0. ss \in Seq(Seq(V)) /\ Len(ss) \in Nat /\ \A i \in 1..Len(ss) : ss[i] \in S
  OBVIOUS
<1>1. CASE Len(ss) = 0
  BY <1>0, <1>1 DEF FlattenSeq
<1>2. CASE Len(ss) # 0
  <2>1. PICK f : FlattenSeq(ss) = f[Len(ss)] /\ \A i \in 1..Len(ss) : Joins(f, ss, i)
    BY <1>0, <1>2, FlatIsFlat
  <2> DEFINE T == {k \in Nat : k \in 1..Len(ss) => f[k] \in S}
  <2>2. 0 \in T
    OBVIOUS
  <2>3. ASSUME NEW k \in Nat, k \in T PROVE k + 1 \in T
    <3> SUFFICES ASSUME k + 1 \in 1..Len(ss) PROVE f[k + 1] \in S
      OBVIOUS
    <3>1. (k + 1) - 1 = k /\ (k + 1 # 1 => f[k] \in S)
      BY <1>0, <2>3
    <3> QED
      BY <1>0, <2>1, <3>1 DEF Joins
  <2> HIDE DEF T
  <2>4. Len(ss) \in T
    BY <1>0, <2>2, <2>3, Induction
  <2> QED
    BY <1>0, <1>2, <2>1, <2>4 DEF T
<1> QED
  BY <1>1, <1>2

LEMMA JoinHas ==
    ASSUME NEW V, NEW p \in Seq(V), NEW q \in Seq(V)
    PROVE  ToSet(p \o q) = ToSet(p) \cup ToSet(q) /\ p \o q \in Seq(V)
<1>1. /\ p \o q \in Seq(V) /\ Len(p \o q) = Len(p) + Len(q)
      /\ Len(p) \in Nat /\ Len(q) \in Nat
      /\ DOMAIN p = 1..Len(p) /\ DOMAIN q = 1..Len(q) /\ DOMAIN (p \o q) = 1..(Len(p) + Len(q))
      /\ \A i \in 1..Len(p) : (p \o q)[i] = p[i]
      /\ \A i \in 1..Len(q) : (p \o q)[Len(p) + i] = q[i]
  OBVIOUS
<1>2. ASSUME NEW x \in ToSet(p \o q) PROVE x \in ToSet(p) \cup ToSet(q)
  <2>1. PICK i \in 1..(Len(p) + Len(q)) : x = (p \o q)[i]
    BY <1>1 DEF ToSet
  <2>2. CASE i <= Len(p)
    BY <1>1, <2>1, <2>2 DEF ToSet
  <2>3. CASE i > Len(p)
    <3>1. i - Len(p) \in 1..Len(q) /\ Len(p) + (i - Len(p)) = i
      BY <1>1, <2>3
    <3>2. x = q[i - Len(p)]
      BY <1>1, <2>1, <3>1
    <3> QED
      BY <1>1, <3>1, <3>2 DEF ToSet
  <2> QED
    BY <1>1, <2>2, <2>3
<1>3. ASSUME NEW x \in ToSet(p) PROVE x \in ToSet(p \o q)
  BY <1>1, <1>3 DEF ToSet
<1>4. ASSUME NEW x \in ToSet(q) PROVE x \in ToSet(p \o q)
  <2>1. PICK i \in 1..Len(q) : x = q[i]
    BY <1>1, <1>4 DEF ToSet
  <2>2. Len(p) + i \in 1..(Len(p) + Len(q)) /\ x = (p \o q)[Len(p) + i]
    BY <1>1, <2>1
  <2> QED
    BY <1>1, <2>2 DEF ToSet
<1> QED
  BY <1>1, <1>2, <1>3, <1>4

\* and holds what each part holds.
LEMMA FlatHas ==
    ASSUME NEW V, NEW ss \in Seq(Seq(V)), NEW j \in 1..Len(ss)
    PROVE  ToSet(ss[j]) \subseteq ToSet(FlattenSeq(ss))
<1>0. Len(ss) \in Nat /\ Len(ss) # 0 /\ \A i \in 1..Len(ss) : ss[i] \in Seq(V)
  OBVIOUS
<1>1. PICK f : FlattenSeq(ss) = f[Len(ss)] /\ \A i \in 1..Len(ss) : Joins(f, ss, i)
  BY <1>0, FlatIsFlat
<1> DEFINE T == {k \in Nat : k \in 1..Len(ss) =>
                    f[k] \in Seq(V) /\ (j <= k => ToSet(ss[j]) \subseteq ToSet(f[k]))}
<1>2. 0 \in T
  OBVIOUS
<1>3. ASSUME NEW k \in Nat, k \in T PROVE k + 1 \in T
  <2> SUFFICES ASSUME k + 1 \in 1..Len(ss)
               PROVE  f[k + 1] \in Seq(V)
                      /\ (j <= k + 1 => ToSet(ss[j]) \subseteq ToSet(f[k + 1]))
    OBVIOUS
  <2>1. CASE k = 0
    <3>1. f[k + 1] = ss[k + 1] /\ (j <= k + 1 => j = k + 1)
      BY <1>1, <2>1 DEF Joins
    <3> QED
      BY <1>0, <3>1
  <2>2. CASE k # 0
    <3>1. k \in 1..Len(ss) /\ (k + 1) - 1 = k /\ k + 1 # 1
      BY <1>0, <2>2
    <3>2. f[k + 1] = f[k] \o ss[k + 1]
      BY <1>1, <3>1 DEF Joins
    <3>3. f[k] \in Seq(V) /\ ss[k + 1] \in Seq(V) /\ (j <= k => ToSet(ss[j]) \subseteq ToSet(f[k]))
      BY <1>0, <1>3, <3>1
    <3>4. ToSet(f[k + 1]) = ToSet(f[k]) \cup ToSet(ss[k + 1]) /\ f[k + 1] \in Seq(V)
      BY <3>2, <3>3, JoinHas
    <3>5. j <= k + 1 => j <= k \/ j = k + 1
      OBVIOUS
    <3> QED
      BY <3>3, <3>4, <3>5
  <2> QED
    BY <2>1, <2>2
<1> HIDE DEF T
<1>4. Len(ss) \in T
  BY <1>0, <1>2, <1>3, Induction
<1> QED
  BY <1>0, <1>1, <1>4 DEF T

\* The files are put in order, and none is made up.
LEMMA OrderIsOfFiles ==
    ASSUME NEW W, NEW fs \in Seq(W)
    PROVE  FkOrder(fs) \in Seq(W)
<1> DEFINE n == Len(fs)
           At(i) == fs[((i - 1) % n) + 1]
           S == Seq(W)
           G == [p \in (1..(n * n)) \X S |-> Place(fs, p[2], At(p[1]))]
           IsAfter(f) == f = [i \in 0..(n * n) |-> IF i = 0 THEN <<>> ELSE Place(fs, f[i - 1], At(i))]
<1>1. n \in Nat /\ n * n \in Nat /\ <<>> \in S
  OBVIOUS
<1>2. ASSUME NEW i \in 1..(n * n) PROVE At(i) \in W
  <2>1. n # 0 /\ i - 1 \in Nat
    OBVIOUS
  <2>2. ((i - 1) % n) + 1 \in 1..n
    BY <1>1, <2>1
  <2> HIDE DEF n
  <2> QED
    BY <2>2 DEF n
<1>3. ASSUME NEW q \in S, NEW x \in W PROVE Place(fs, q, x) \in S
  BY <1>3 DEF Place
<1> HIDE DEF n, At, S
<1>4. G \in [(1..(n * n)) \X S -> S]
  BY <1>2, <1>3
<1>5. \E f \in [0..(n * n) -> S] : Goes(f, <<>>, G, n * n)
  <2> HIDE DEF G
  <2> QED
    BY <1>1, <1>4, Recursion
<1>6. PICK f \in [0..(n * n) -> S] : Goes(f, <<>>, G, n * n)
  BY <1>5
<1>7. IsAfter(f)
  <2>1. ASSUME NEW i \in 1..(n * n) PROVE f[i] = Place(fs, f[i - 1], At(i))
    <3>1. i - 1 \in 0..(n * n)
      BY <1>1
    <3>2. <<i, f[i - 1]>> \in (1..(n * n)) \X S
      BY <3>1
    <3> QED
      BY <1>6, <3>2 DEF Goes
  <2>2. f[0] = <<>>
    BY <1>6 DEF Goes
  <2>3. \A i \in 0..(n * n) : i # 0 => i \in 1..(n * n)
    BY <1>1
  <2> HIDE DEF G
  <2> QED
    BY <2>1, <2>2, <2>3
<1>8. PICK g : g = CHOOSE h : IsAfter(h)
  OBVIOUS
<1>9. IsAfter(g)
  BY <1>7, <1>8
<1>10. FkOrder(fs) = g[n * n]
  BY <1>8 DEF FkOrder, n, At
<1> DEFINE T == {k \in Nat : k <= n * n => g[k] \in S}
<1>11. 0 \in T
  <2>1. 0 \in 0..(n * n)
    BY <1>1
  <2> QED
    BY <1>1, <1>9, <2>1
<1>12. ASSUME NEW k \in Nat, k \in T PROVE k + 1 \in T
  <2> SUFFICES ASSUME k + 1 <= n * n PROVE g[k + 1] \in S
    OBVIOUS
  <2>1. k + 1 \in 0..(n * n) /\ k + 1 \in 1..(n * n) /\ k + 1 # 0 /\ (k + 1) - 1 = k /\ g[k] \in S
    BY <1>1, <1>12
  <2>2. g[k + 1] = Place(fs, g[k], At(k + 1))
    BY <1>9, <2>1
  <2>3. At(k + 1) \in W
    BY <1>2, <2>1
  <2> QED
    BY <1>3, <2>1, <2>2, <2>3
<1> HIDE DEF T
<1>13. n * n \in T
  BY <1>1, <1>11, <1>12, Induction
<1> QED
  BY <1>1, <1>10, <1>13 DEF T, S

-----------------------------------------------------------------------------
(* A plan writes nothing, and a setval() is only ever due for good reason *)

\* A plan never comes to the statements that write.
PlanInv == command = "plan" => pc \in {"resolve", "plan"}

\* setval() is called in the last part only, and unless the sequence was drawn
\* from since the comparison, with a number that is not behind it.
AimInv ==
    /\ seq \in [Table -> Nat] /\ aim \in Nat /\ writes \in Nat
    /\ aim # 0 => pc = "advance"
    /\ aim # 0 /\ ~drawn => \A t \in Table : Head(todo) = <<"advance", t>> => seq[t] < aim

TraceInv == PlanInv /\ AimInv

-----------------------------------------------------------------------------
(* The parts that many actions share *)

\* A run that ends leaves a state with nothing in progress.
LEMMA CloseKeeps ==
    ASSUME TraceInv, NEW v, Close(v), UNCHANGED <<seq, writes>>
    PROVE  TraceInv'
BY DEF TraceInv, PlanInv, AimInv, Close

\* A draw moves one sequence, and forwards.
LEMMA DrawAdvances ==
    ASSUME seq \in [Table -> Nat], NEW t \in Table, Draw(t)
    PROVE  seq' \in [Table -> Nat] /\ \A s \in Table : seq[s] <= seq'[s]
<1>1. DOMAIN seq = Table /\ \A s \in Table : seq[s] \in Nat
  OBVIOUS
<1>2. seq'[t] \in Nat /\ seq[t] <= seq'[t]
  BY <1>1 DEF Draw
<1>3. \A s \in Table \ {t} : seq'[s] = seq[s]
  BY DEF Draw
<1>4. seq' \in [Table -> Nat]
  BY <1>2, <1>3 DEF Draw
<1> QED
  BY <1>1, <1>2, <1>3, <1>4

\* The highest key in use is a key, when there is one.
LEMMA HighestIsNat == ASSUME NEW t \in Table PROVE Highest(t) \in Nat
<1> DEFINE used == {k \in Key : work[t][k] # Absent}
<1>1. CASE used = {}
  BY <1>1 DEF Highest
<1>2. CASE used # {}
  <2>1. \E k \in used : \A j \in used : j <= k
    BY <1>2, ReferenceAssumption
  <2>2. (CHOOSE k \in used : \A j \in used : j <= k) \in used
    BY <2>1
  <2>3. Highest(t) \in used
    BY <1>2, <2>2 DEF Highest
  <2> QED
    BY <2>3, ReferenceAssumption
<1> QED
  BY <1>1, <1>2

\* Neither a step of Plan nor one of write touches what the invariant is about
\* but for the place where the run stands.
LEMMA ElsewhereKeeps ==
    ASSUME TraceInv, UNCHANGED <<seq, writes, aim>>, aim = 0,
           command' = "plan" => pc' \in {"resolve", "plan"}
    PROVE  TraceInv'
BY DEF TraceInv, PlanInv, AimInv

-----------------------------------------------------------------------------
(* Every step keeps that invariant *)

LEMMA TraceStep == TraceInv /\ [Next]_vars => TraceInv'
<1> SUFFICES ASSUME TraceInv, [Next]_vars
             PROVE  TraceInv'
  OBVIOUS
<1> USE DEF TraceInv
<1>1. CASE \E cmd \in {"plan", "apply"} : Start(cmd)
  <2>1. PICK cmd \in {"plan", "apply"} : Start(cmd)
    BY <1>1
  <2>2. aim = 0 /\ pc' = "resolve" /\ UNCHANGED <<seq, writes, aim>>
    BY <2>1 DEF Start, AimInv, tables, write
  <2> QED
    BY <2>2, ElsewhereKeeps
<1>2. CASE Refuse \/ PlanDone \/ Fail
  BY <1>2, CloseKeeps DEF Refuse, PlanDone, Fail, Abort
<1>3. CASE Resolve \/ BeginWrites \/ BeginAdvance
  <2>1. aim = 0 /\ UNCHANGED <<seq, writes, aim>>
    BY <1>3 DEF Resolve, BeginWrites, BeginAdvance, AimInv, tables, write
  <2>2. command' = "plan" => pc' \in {"resolve", "plan"}
    BY <1>3 DEF Resolve, BeginWrites, BeginAdvance, PlanInv
  <2> QED
    BY <2>1, <2>2, ElsewhereKeeps
<1>4. CASE Commit
  BY <1>4, CloseKeeps DEF Commit
<1>5. ASSUME NEW t \in Table, Load(t)
      PROVE  TraceInv'
  <2>1. aim = 0 /\ UNCHANGED <<writes, aim, pc, command>>
    BY <1>5 DEF Load, Due, AimInv
  <2>2. seq' \in [Table -> Nat]
    BY <1>5, DrawAdvances DEF Load, AimInv
  <2> QED
    BY <2>1, <2>2 DEF PlanInv, AimInv
<1>6. ASSUME NEW t \in Table, LoadFails(t) \/ BothOrdersFail(t)
      PROVE  TraceInv'
  BY <1>6, CloseKeeps DEF LoadFails, BothOrdersFail, Abort
<1>7. ASSUME NEW t \in Table, Compute(t)
      PROVE  TraceInv'
  <2>1. aim = 0 /\ UNCHANGED <<seq, writes, aim, pc, command>>
    BY <1>7 DEF Compute, Due, AimInv, tables
  <2> QED
    BY <2>1, ElsewhereKeeps DEF PlanInv
<1>8. ASSUME NEW t \in Table,
             Delete(t) \/ Update(t) \/ InsertScan(t) \/ InsertRows(t) \/ SecondOrder(t)
      PROVE  TraceInv'
  <2>1. pc \in {"write", "insert"} /\ UNCHANGED <<seq, writes, aim, command>>
    BY <1>8 DEF Delete, Update, InsertScan, InsertRows, SecondOrder, Violates, Due, tables
  <2> QED
    BY <2>1, ElsewhereKeeps DEF PlanInv, AimInv
<1>9. ASSUME NEW t \in Table, AdvanceScan(t)
      PROVE  TraceInv'
  <2>1. pc = "advance" /\ UNCHANGED <<seq, writes, pc, command>>
    BY <1>9 DEF AdvanceScan, Due, tables
  <2>2. Head(todo) = <<"advance", t>> /\ aim = 0
    BY <1>9 DEF AdvanceScan, Due
  <2>3. CASE Highest(t) > seq[t]
    <3>1. aim' = Highest(t) /\ todo' = todo
      BY <1>9, <2>3 DEF AdvanceScan
    <3>2. \A s \in Table : Head(todo) = <<"advance", s>> => s = t
      BY <2>2
    <3> QED
      BY <2>1, <2>3, <3>1, <3>2, HighestIsNat DEF PlanInv, AimInv
  <2>4. CASE ~(Highest(t) > seq[t])
    <3>1. aim' = 0
      BY <1>9, <2>2, <2>4 DEF AdvanceScan
    <3> QED
      BY <2>1, <3>1 DEF PlanInv, AimInv
  <2> QED
    BY <2>3, <2>4
<1>10. ASSUME NEW t \in Table, AdvanceSet(t)
       PROVE  TraceInv'
  <2>1. aim' = 0 /\ UNCHANGED <<writes, pc, command>> /\ seq' = [seq EXCEPT ![t] = aim]
    BY <1>10 DEF AdvanceSet
  <2> QED
    BY <2>1 DEF PlanInv, AimInv
<1>11. CASE App
  <2>1. PICK t \in Table, k \in Key :
            (\E v \in Key : AppPut(t, k, v)) \/ AppDelete(t, k) \/ AppDefault(t, k)
    BY <1>11 DEF App
  <2>2. writes' \in Nat /\ UNCHANGED <<pc, command, aim, todo>>
    BY <2>1 DEF AppPut, AppDelete, AppDefault, AppWrites, AimInv, write
  <2>3. CASE (\E v \in Key : AppPut(t, k, v)) \/ AppDelete(t, k)
    <3>1. UNCHANGED <<seq, drawn>>
      BY <2>3 DEF AppPut, AppDelete
    <3> QED
      BY <2>2, <3>1 DEF PlanInv, AimInv
  <2>4. CASE AppDefault(t, k)
    <3>1. seq' \in [Table -> Nat]
      BY <2>4, DrawAdvances DEF AppDefault, AimInv
    <3>2. aim # 0 => drawn'
      BY <2>4 DEF AppDefault
    <3> QED
      BY <2>2, <3>1, <3>2 DEF PlanInv, AimInv
  <2> QED
    BY <2>1, <2>3, <2>4
<1>12. CASE UNCHANGED vars
  BY <1>12 DEF vars, tables, write, ghosts, PlanInv, AimInv
<1> QED
  BY <1>1, <1>2, <1>3, <1>4, <1>5, <1>6, <1>7, <1>8, <1>9, <1>10, <1>11, <1>12 DEF Next, Step

LEMMA TraceInvariance == Spec => []TraceInv
<1>1. Init => TraceInv
  BY DEF Init, TraceInv, PlanInv, AimInv
<1> QED
  BY <1>1, TraceStep, PTL DEF Spec

-----------------------------------------------------------------------------
(* Nothing before the commit *)

\* What others see changes with a commit and with nothing else that m8 does,
\* and a plan moves no sequence, whatever its queries call and however it ends
\* (reconcileReference, Plan).
THEOREM NoTraceIsLeft == Spec => LeavesNoTrace
<1> DEFINE Quiet == ~Outside => /\ ~Commit => UNCHANGED committed
                                /\ command = "plan" => UNCHANGED seq
<1>1. TraceInv /\ [Next]_vars => [Quiet]_vars
  <2> SUFFICES ASSUME TraceInv, Next
               PROVE  Quiet
    BY DEF vars
  <2>1. CASE \E cmd \in {"plan", "apply"} : Start(cmd)
    BY <2>1 DEF Start, tables
  <2>2. CASE Refuse \/ Resolve \/ PlanDone \/ BeginWrites \/ BeginAdvance \/ Fail
    BY <2>2 DEF Refuse, Resolve, PlanDone, BeginWrites, BeginAdvance, Fail, tables
  <2>3. CASE Commit
    BY <2>3 DEF Commit
  <2>4. ASSUME NEW t \in Table, Load(t)
        PROVE  Quiet
    <3>1. UNCHANGED committed
      BY <2>4 DEF Load
    <3>2. CASE FileOf(t).draws
      BY <2>4, <3>1, <3>2 DEF Load, Unloadable, MayDraw
    <3>3. CASE ~FileOf(t).draws
      BY <2>4, <3>1, <3>3 DEF Load
    <3> QED
      BY <3>2, <3>3
  <2>5. ASSUME NEW t \in Table, LoadFails(t) \/ Compute(t) \/ BothOrdersFail(t)
        PROVE  Quiet
    BY <2>5 DEF LoadFails, Compute, BothOrdersFail, tables
  <2>6. ASSUME NEW t \in Table,
               Delete(t) \/ Update(t) \/ InsertScan(t) \/ InsertRows(t) \/ SecondOrder(t)
               \/ AdvanceScan(t)
        PROVE  Quiet
    BY <2>6 DEF Delete, Update, InsertScan, InsertRows, SecondOrder, AdvanceScan, tables
  <2>7. ASSUME NEW t \in Table, AdvanceSet(t)
        PROVE  Quiet
    BY <2>7 DEF AdvanceSet, Due, TraceInv, PlanInv
  <2>8. CASE App
    <3>1. writes' = writes + 1
      BY <2>8 DEF App, AppPut, AppDelete, AppDefault, AppWrites
    <3> QED
      BY <3>1 DEF Outside, TraceInv, AimInv
  <2> QED
    BY <2>1, <2>2, <2>3, <2>4, <2>5, <2>6, <2>7, <2>8 DEF Next, Step
<1> QED
  BY <1>1, TraceInvariance, PTL DEF Spec, LeavesNoTrace

\* A sequence goes back only if an application draws from it between the
\* comparison and the call of setval() (advanceSequences).
THEOREM OnlyARaceRetreats == Spec => RetreatsOnlyInRace
<1> DEFINE Forward == \A t \in Table : seq'[t] < seq[t] => drawn
<1>1. TraceInv /\ [Next]_vars => [Forward]_vars
  <2> SUFFICES ASSUME TraceInv, Next
               PROVE  Forward
    BY DEF vars
  <2>1. CASE UNCHANGED seq
    BY <2>1 DEF TraceInv, AimInv
  <2>2. ASSUME NEW t \in Table, Draw(t)
        PROVE  Forward
    BY <2>2, DrawAdvances DEF TraceInv, AimInv
  <2>3. ASSUME NEW t \in Table, AdvanceSet(t)
        PROVE  Forward
    <3>1. aim # 0 /\ Head(todo) = <<"advance", t>> /\ seq' = [seq EXCEPT ![t] = aim]
      BY <2>3 DEF AdvanceSet, Due
    <3>2. ~drawn => seq[t] < aim
      BY <3>1 DEF TraceInv, AimInv
    <3> QED
      BY <3>1, <3>2 DEF TraceInv, AimInv
  <2>4. UNCHANGED seq \/ \E t \in Table : Draw(t) \/ AdvanceSet(t)
    BY ReferenceAssumption
       DEF Next, Step, App, Start, Refuse, Resolve, PlanDone, BeginWrites, BeginAdvance, Commit,
           Fail, Load, LoadFails, Compute, Delete, Update, InsertScan, InsertRows, SecondOrder,
           BothOrdersFail, AdvanceScan, AppPut, AppDelete, AppDefault, tables
  <2> QED
    BY <2>1, <2>2, <2>3, <2>4
<1> QED
  BY <1>1, TraceInvariance, PTL DEF Spec, RetreatsOnlyInRace

-----------------------------------------------------------------------------
(* What an apply knows.  A run is a list of statements; what the invariant *)
(* says of a table is true of it once the statements about it are behind.  *)
(* Rows that applications have written since the reading began - "meddled" *)
(* - are exempt.                                                           *)

\* What one statement of the list is about.
Pends(op, t) == <<op, t>> \in ToSet(todo)

\* The kinds of state a run is in, and what its variables range over.
BaseInv ==
    /\ ForeignKeys \in Catalogs /\ files \in Seq(Declaration)
    /\ committed \in [Table -> Rows] /\ work \in [Table -> Rows] /\ held \subseteq Table \X Key
    /\ pc \in {"idle", "resolve", "plan", "write", "insert", "advance"}
    /\ (pc = "idle" <=> command = "none") /\ command \in {"none", "plan", "apply"}
    /\ pc \in {"idle", "resolve", "plan"} => held = {}
    /\ \A t \in Table, k \in Key : <<t, k>> \notin held => work[t][k] = committed[t][k]

DiffTypes ==
    /\ temp \in [Table -> Rows] /\ meddled \subseteq Table \X Key
    /\ inserts \in [Table -> SUBSET Key] /\ updates \in [Table -> SUBSET Key]
    /\ deletes \in [Table -> SUBSET Key] /\ missing \subseteq Key
    /\ pc \in {"idle", "resolve"} => inserts = None /\ updates = None /\ deletes = None

\* Files that are not refused, and all of them, in their order.
Sorted ==
    /\ order \in Seq(Declaration) /\ ToSet(order) = ToSet(files)
    /\ \A f, g \in ToSet(files) : f.table = g.table => f = g
    /\ \A f \in ToSet(files) : f.reads \cap TablesOf(files) = {} /\ (f.prune => Contained(f))

\* How a row of a table is, compared to its declaration.
Lacks(now, t, k)   == temp[t][k] # Absent /\ now[t][k] = Absent
Differs(now, t, k) == temp[t][k] # Absent /\ now[t][k] # Absent /\ now[t][k] # temp[t][k]
Exceeds(now, t, k) == temp[t][k] = Absent /\ now[t][k] # Absent

Meddled(t, k) == <<t, k>> \in meddled

\* What the reading half has established of a file's table, once it has come to
\* each of its statements.
Loaded(f) ==
    ~ReadsUnseen(f) /\ (\A m \in meddled : m[1] \notin Sources(f)) =>
        temp[f.table] = RowsOf(f, committed)
InsertsKnown(t) == \A k \in Key : Meddled(t, k) \/ (Lacks(committed, t, k) => k \in inserts[t])
UpdatesKnown(t) == \A k \in Key : Meddled(t, k) \/ (Differs(committed, t, k) => k \in updates[t])
DeletesKnown(t) == \A k \in Key : Meddled(t, k) \/ (Exceeds(committed, t, k) => k \in deletes[t])

Gathered(f) ==
    /\ Pends("load", f.table) \/ Loaded(f)
    /\ Pends("inserts", f.table) \/ InsertsKnown(f.table)
    /\ Pends("updates", f.table) \/ UpdatesKnown(f.table)
    /\ f.prune => Pends("deletes", f.table) \/ DeletesKnown(f.table)

Known(f) ==
    /\ Loaded(f) /\ InsertsKnown(f.table) /\ UpdatesKnown(f.table)
    /\ f.prune => DeletesKnown(f.table)

\* The list of a plan's statements: a load is followed by the reads of its table.
Later(q, i, op, t) == \E j \in DOMAIN q : j > i /\ q[j] = <<op, t>>
Follows(q, i, f) ==
    /\ q[i][2] = f.table
    /\ q[i][1] = "deletes" => f.prune
    /\ q[i][1] = "load" => /\ Later(q, i, "inserts", f.table) /\ Later(q, i, "updates", f.table)
                           /\ f.prune => Later(q, i, "deletes", f.table)
ReadOps  == {"load", "inserts", "updates", "deletes"} \X Table
Readings == {q \in Seq(ReadOps) : \A i \in DOMAIN q : \E f \in ToSet(files) : Follows(q, i, f)}

\* A diff finds rows of declared tables only, and superfluous ones only where
\* the file prunes.
Prunes(t) == \E f \in ToSet(files) : f.table = t /\ f.prune
Found ==
    /\ \A t \in Table : inserts[t] # {} \/ updates[t] # {} => t \in TablesOf(files)
    /\ \A t \in Table : deletes[t] # {} => Prunes(t)

\* What the writing half has still to do in a file's table.
Left(f) ==
    \A k \in Key : Meddled(f.table, k) \/
        /\ Lacks(work, f.table, k) => /\ Pends("insert", f.table)
                                      /\ pc = "insert" /\ Head(todo) = <<"insert", f.table>> => k \in missing
        /\ Differs(work, f.table, k) => Pends("update", f.table)
        /\ f.prune /\ Exceeds(work, f.table, k) => Pends("delete", f.table)

Listed(t, k) == k \in inserts[t] \cup updates[t] \cup deletes[t] \/ Meddled(t, k)

\* The rows that have been written, and those about to be inserted.
Accounted ==
    /\ \A t \in Table, k \in Key : <<t, k>> \in held =>
         /\ t \in TablesOf(files) /\ Listed(t, k)
         /\ work[t][k] = Absent => Prunes(t) /\ temp[t][k] = Absent
    /\ pc = "insert" => \A t \in Table : Head(todo) = <<"insert", t>> =>
         \A k \in missing : temp[t][k] # Absent /\ Listed(t, k)

\* The statements of the writing half are about what the diff has found.
WriteOps == {"delete", "update", "insert"} \X Table
Warranted(s) ==
    /\ s = <<"delete", s[2]>> => deletes[s[2]] # {}
    /\ s = <<"update", s[2]>> => updates[s[2]] # {}
    /\ s = <<"insert", s[2]>> => inserts[s[2]] # {}
Writings == {q \in Seq(WriteOps) : \A i \in DOMAIN q : Warranted(q[i])}

ReadInv ==
    command = "apply" /\ pc = "plan" =>
        /\ todo \in Readings /\ Sorted /\ Found /\ \A f \in ToSet(files) : Gathered(f)

WriteInv ==
    command = "apply" /\ pc \in {"write", "insert"} =>
        /\ todo \in Writings /\ Sorted /\ Found /\ Accounted
        /\ \A f \in ToSet(files) : Known(f) /\ Left(f)

\* The rows are written: nothing is left to do but to advance the sequences.
Covered(t) == \A k \in Key : <<t, k>> \in held /\ work[t][k] # Absent => k <= seq[t]
AdvanceInv ==
    command = "apply" /\ pc = "advance" =>
        /\ todo \in Seq({"advance"} \X Table) /\ Sorted /\ Accounted
        /\ \A f \in ToSet(files) : Known(f) /\ Left(f)
        /\ \A t \in Serial : inserts[t] # {} => Pends("advance", t) \/ Covered(t)
        /\ aim # 0 => \A t \in Table : Head(todo) = <<"advance", t>> =>
             \A k \in Key : <<t, k>> \in held /\ work[t][k] # Absent => k <= aim

ApplyInv ==
    BaseInv /\ (command # "plan" => DiffTypes) /\ ReadInv /\ WriteInv /\ AdvanceInv
-----------------------------------------------------------------------------
(* Lists of statements *)

LEMMA FileFacts ==
    ASSUME NEW f \in Declaration
    PROVE  /\ f.table \in Table /\ f.rows \in Rows /\ f.prune \in BOOLEAN
           /\ f.reads \subseteq Table /\ Sources(f) \subseteq Table
           /\ \A k \in Key : f.rows[k] \in Key \cup {Absent}
BY DEF Declaration, Rows, Sources

LEMMA RowsOfType == ASSUME NEW f \in Declaration, NEW now PROVE RowsOf(f, now) \in Rows
BY FileFacts DEF RowsOf, Rows

LEMMA DeclaredFiles ==
    ASSUME files \in Seq(Declaration), NEW f \in ToSet(files)
    PROVE  f \in Declaration /\ f.table \in Table /\ f.table \in TablesOf(files)
<1>1. f \in Declaration
  BY DEF ToSet
<1> QED
  BY <1>1, FileFacts DEF TablesOf

\* A table has one file.
LEMMA FileOfIs == ASSUME Sorted, NEW f \in ToSet(files) PROVE FileOf(f.table) = f
BY DEF Sorted, FileOf

\* A list and its tail.
LEMMA TailApart ==
    ASSUME NEW S, NEW q \in Seq(S), q # <<>>
    PROVE  /\ Tail(q) \in Seq(S) /\ Head(q) \in S /\ ToSet(q) = {Head(q)} \cup ToSet(Tail(q))
           /\ Len(Tail(q)) \in Nat /\ Len(q) = Len(Tail(q)) + 1 /\ Head(q) = q[1]
           /\ \A i \in 1..Len(Tail(q)) : Tail(q)[i] = q[i + 1]
<1>1. /\ Tail(q) \in Seq(S) /\ Head(q) \in S /\ Len(Tail(q)) = Len(q) - 1 /\ Len(q) \in Nat \ {0}
      /\ Head(q) = q[1] /\ \A i \in 1..Len(Tail(q)) : Tail(q)[i] = q[i + 1]
  BY HeadTailProperties
<1>2. DOMAIN q = 1..Len(q) /\ DOMAIN Tail(q) = 1..Len(Tail(q))
  BY <1>1
<1>3. ASSUME NEW x \in ToSet(q) PROVE x \in {Head(q)} \cup ToSet(Tail(q))
  <2>1. PICK i \in 1..Len(q) : x = q[i]
    BY <1>2 DEF ToSet
  <2>2. CASE i = 1
    BY <1>1, <2>1, <2>2
  <2>3. CASE i # 1
    <3>1. i - 1 \in 1..Len(Tail(q)) /\ (i - 1) + 1 = i
      BY <1>1, <2>3
    <3> QED
      BY <1>1, <1>2, <2>1, <3>1 DEF ToSet
  <2> QED
    BY <2>2, <2>3
<1>4. ASSUME NEW x \in {Head(q)} \cup ToSet(Tail(q)) PROVE x \in ToSet(q)
  <2>1. CASE x = Head(q)
    BY <1>1, <1>2, <2>1 DEF ToSet
  <2>2. CASE x \in ToSet(Tail(q))
    <3>1. PICK i \in 1..Len(Tail(q)) : x = Tail(q)[i]
      BY <1>2, <2>2 DEF ToSet
    <3>2. i + 1 \in 1..Len(q)
      BY <1>1
    <3> QED
      BY <1>1, <1>2, <3>1, <3>2 DEF ToSet
  <2> QED
    BY <1>4, <2>1, <2>2
<1> QED
  BY <1>1, <1>3, <1>4

\* What a list goes on with after its head.
LEMMA LaterInTail ==
    ASSUME NEW S, NEW q \in Seq(S), q # <<>>, NEW i \in 1..Len(Tail(q)), NEW op, NEW t,
           Later(q, i + 1, op, t)
    PROVE  Later(Tail(q), i, op, t)
<1>1. PICK j \in DOMAIN q : j > i + 1 /\ q[j] = <<op, t>>
  BY DEF Later
<1>2. j - 1 \in 1..Len(Tail(q)) /\ j - 1 > i /\ (j - 1) + 1 = j
  BY <1>1, TailApart
<1>3. Tail(q)[j - 1] = <<op, t>>
  BY <1>1, <1>2, TailApart
<1>4. j - 1 \in DOMAIN Tail(q)
  <2>1. Tail(q) \in Seq(S)
    BY TailApart
  <2> QED
    BY <1>2, <2>1
<1> QED
  BY <1>2, <1>3, <1>4 DEF Later

LEMMA AfterHead ==
    ASSUME NEW S, NEW q \in Seq(S), q # <<>>, NEW op, NEW t, Later(q, 1, op, t)
    PROVE  <<op, t>> \in ToSet(Tail(q))
<1>1. PICK j \in DOMAIN q : j > 1 /\ q[j] = <<op, t>>
  BY DEF Later
<1>2. j - 1 \in 1..Len(Tail(q)) /\ (j - 1) + 1 = j
  BY <1>1, TailApart
<1>3. Tail(q)[j - 1] = <<op, t>> /\ j - 1 \in DOMAIN Tail(q)
  BY <1>1, <1>2, TailApart
<1> QED
  BY <1>3 DEF ToSet

LEMMA FollowsInTail ==
    ASSUME NEW S, NEW q \in Seq(S), q # <<>>, NEW i \in 1..Len(Tail(q)), NEW f, Follows(q, i + 1, f)
    PROVE  Follows(Tail(q), i, f)
<1>1. Tail(q)[i] = q[i + 1]
  BY TailApart
<1> QED
  BY <1>1, LaterInTail DEF Follows

LEMMA ReadingTail ==
    ASSUME NEW q \in Readings, q # <<>>
    PROVE  Tail(q) \in Readings /\ \E f \in ToSet(files) : Follows(q, 1, f)
<1>1. q \in Seq(ReadOps) /\ \A i \in DOMAIN q : \E f \in ToSet(files) : Follows(q, i, f)
  BY DEF Readings
<1>2. Tail(q) \in Seq(ReadOps) /\ DOMAIN Tail(q) = 1..Len(Tail(q)) /\ 1 \in DOMAIN q
  BY <1>1, TailApart
<1>3. ASSUME NEW i \in 1..Len(Tail(q)) PROVE \E f \in ToSet(files) : Follows(Tail(q), i, f)
  <2>1. i + 1 \in DOMAIN q
    BY <1>1, TailApart
  <2> QED
    BY <1>1, <2>1, FollowsInTail
<1> QED
  BY <1>1, <1>2, <1>3 DEF Readings

\* A list of reads after another is one, too.
LEMMA LaterKept ==
    ASSUME NEW S, NEW p \in Seq(S), NEW q \in Seq(S), NEW op, NEW t
    PROVE  /\ \A i \in 1..Len(p) : Later(p, i, op, t) => Later(p \o q, i, op, t)
           /\ \A i \in 1..Len(q) : Later(q, i, op, t) => Later(p \o q, Len(p) + i, op, t)
<1>1. /\ DOMAIN p = 1..Len(p) /\ DOMAIN q = 1..Len(q) /\ DOMAIN (p \o q) = 1..(Len(p) + Len(q))
      /\ \A i \in 1..Len(p) : (p \o q)[i] = p[i]
      /\ \A i \in 1..Len(q) : (p \o q)[Len(p) + i] = q[i]
      /\ Len(p) \in Nat /\ Len(q) \in Nat
  OBVIOUS
<1>2. ASSUME NEW i \in 1..Len(p), Later(p, i, op, t) PROVE Later(p \o q, i, op, t)
  <2>1. PICK j \in 1..Len(p) : j > i /\ p[j] = <<op, t>>
    BY <1>1, <1>2 DEF Later
  <2>2. j \in 1..(Len(p) + Len(q))
    BY <1>1
  <2> QED
    BY <1>1, <2>1, <2>2 DEF Later
<1>3. ASSUME NEW i \in 1..Len(q), Later(q, i, op, t) PROVE Later(p \o q, Len(p) + i, op, t)
  <2>1. PICK j \in 1..Len(q) : j > i /\ q[j] = <<op, t>>
    BY <1>1, <1>3 DEF Later
  <2>2. Len(p) + j \in 1..(Len(p) + Len(q)) /\ Len(p) + j > Len(p) + i
    BY <1>1, <2>1
  <2>3. (p \o q)[Len(p) + j] = <<op, t>>
    BY <1>1, <2>1
  <2> QED
    BY <1>1, <2>2, <2>3 DEF Later
<1> QED
  BY <1>2, <1>3

LEMMA ReadingsJoin == \A p, q \in Readings : p \o q \in Readings
<1> SUFFICES ASSUME NEW p \in Readings, NEW q \in Readings PROVE p \o q \in Readings
  OBVIOUS
<1>1. /\ p \in Seq(ReadOps) /\ q \in Seq(ReadOps)
      /\ \A i \in DOMAIN p : \E f \in ToSet(files) : Follows(p, i, f)
      /\ \A i \in DOMAIN q : \E f \in ToSet(files) : Follows(q, i, f)
  BY DEF Readings
<1>2. /\ DOMAIN p = 1..Len(p) /\ DOMAIN q = 1..Len(q) /\ DOMAIN (p \o q) = 1..(Len(p) + Len(q))
      /\ \A i \in 1..Len(p) : (p \o q)[i] = p[i]
      /\ \A i \in 1..Len(q) : (p \o q)[Len(p) + i] = q[i]
      /\ Len(p) \in Nat /\ Len(q) \in Nat /\ p \o q \in Seq(ReadOps)
  BY <1>1
<1>3. ASSUME NEW i \in 1..(Len(p) + Len(q)) PROVE \E f \in ToSet(files) : Follows(p \o q, i, f)
  <2>1. CASE i <= Len(p)
    <3>1. i \in 1..Len(p)
      BY <1>2, <2>1
    <3>2. PICK f \in ToSet(files) : Follows(p, i, f)
      BY <1>1, <1>2, <3>1
    <3>3. (p \o q)[i] = p[i]
      BY <1>2, <3>1
    <3>4. Follows(p \o q, i, f)
      BY <1>1, <3>1, <3>2, <3>3, LaterKept DEF Follows
    <3> QED
      BY <3>4
  <2>2. CASE ~ (i <= Len(p))
    <3>1. i - Len(p) \in 1..Len(q) /\ Len(p) + (i - Len(p)) = i
      BY <1>2, <2>2
    <3>2. PICK f \in ToSet(files) : Follows(q, i - Len(p), f)
      BY <1>1, <1>2, <3>1
    <3>3. (p \o q)[i] = q[i - Len(p)]
      BY <1>2, <3>1
    <3>4. \A op, t : Later(q, i - Len(p), op, t) => Later(p \o q, i, op, t)
      BY <1>1, <3>1, LaterKept
    <3>5. Follows(p \o q, i, f)
      BY <3>2, <3>3, <3>4 DEF Follows
    <3> QED
      BY <3>5
  <2> QED
    BY <2>1, <2>2
<1> QED
  BY <1>2, <1>3 DEF Readings

\* The reads of one file.
LEMMA ReadingIs ==
    ASSUME files \in Seq(Declaration), NEW f \in ToSet(files)
    PROVE  /\ Reading(f) \in Readings
           /\ <<"load", f.table>> \in ToSet(Reading(f)) /\ <<"inserts", f.table>> \in ToSet(Reading(f))
           /\ <<"updates", f.table>> \in ToSet(Reading(f))
           /\ f.prune => <<"deletes", f.table>> \in ToSet(Reading(f))
<1> DEFINE a == <<"load", f.table>>
           b == <<"inserts", f.table>>
           c == <<"updates", f.table>>
           d == <<"deletes", f.table>>
           t == f.table
<1>1. a \in ReadOps /\ b \in ReadOps /\ c \in ReadOps /\ d \in ReadOps /\ f.prune \in BOOLEAN
  BY DeclaredFiles, FileFacts DEF ReadOps
<1>2. Reading(f) = IF f.prune THEN <<a, b, c, d>> ELSE <<a, b, c>>
  <2>1. <<a, b, c>> \o <<d>> = <<a, b, c, d>> /\ <<a, b, c>> \o <<>> = <<a, b, c>>
    <3> DEFINE p == <<a, b, c>>
               r == <<a, b, c, d>>
    <3> HIDE DEF a, b, c, d
    <3>1. /\ p \in Seq(ReadOps) /\ Len(p) = 3 /\ <<d>> \in Seq(ReadOps) /\ <<>> \in Seq(ReadOps)
          /\ r \in Seq(ReadOps) /\ Len(r) = 4 /\ Len(<<d>>) = 1 /\ <<d>>[1] = d
          /\ p[1] = a /\ p[2] = b /\ p[3] = c /\ r[1] = a /\ r[2] = b /\ r[3] = c /\ r[4] = d
      BY <1>1
    <3> HIDE DEF p, r
    <3>2. p \o <<>> = p
      BY <3>1, ConcatEmptySeq
    <3>3. p \o <<d>> \in Seq(ReadOps) /\ Len(p \o <<d>>) = 4
          /\ \A i \in 1..4 : (p \o <<d>>)[i] = IF i <= 3 THEN p[i] ELSE <<d>>[i - 3]
      <4> DEFINE e == <<d>>
      <4>1. e \in Seq(ReadOps) /\ Len(e) = 1
        BY <3>1
      <4> HIDE DEF e
      <4>2. /\ p \o e \in Seq(ReadOps) /\ Len(p \o e) = Len(p) + Len(e)
            /\ \A i \in 1..(Len(p) + Len(e)) : (p \o e)[i] = IF i <= Len(p) THEN p[i] ELSE e[i - Len(p)]
        BY <3>1, <4>1, ConcatProperties
      <4>3. Len(p) + Len(e) = 4
        BY <3>1, <4>1
      <4> QED
        BY <3>1, <4>2, <4>3 DEF e
    <3>4. ASSUME NEW i \in 1..4 PROVE (p \o <<d>>)[i] = r[i]
      <4>1. i = 1 \/ i = 2 \/ i = 3 \/ i = 4
        OBVIOUS
      <4>2. 4 - 3 = 1 /\ 1 <= 3 /\ 2 <= 3 /\ 3 <= 3 /\ ~ (4 <= 3) /\ <<d>>[1] = d
        BY <3>1
      <4> QED
        BY <3>1, <3>3, <4>1, <4>2
    <3>5. p \o <<d>> = r
      BY <3>1, <3>3, <3>4, SeqEqual
    <3> QED
      BY <3>2, <3>5 DEF p, r
  <2> QED
    BY <2>1 DEF Reading
<1>3. a[1] = "load" /\ b[1] = "inserts" /\ c[1] = "updates" /\ d[1] = "deletes"
      /\ a[2] = t /\ b[2] = t /\ c[2] = t /\ d[2] = t
  OBVIOUS
<1>4. CASE f.prune
  <2> DEFINE q == <<a, b, c, d>>
  <2>1. q \in Seq(ReadOps) /\ DOMAIN q = 1..4 /\ q[1] = a /\ q[2] = b /\ q[3] = c /\ q[4] = d
    BY <1>1
  <2>2. Reading(f) = q
    BY <1>2, <1>4
  <2> HIDE DEF q
  <2>3. Later(q, 1, "inserts", t) /\ Later(q, 1, "updates", t) /\ Later(q, 1, "deletes", t)
    <3>1. 2 \in 1..4 /\ 3 \in 1..4 /\ 4 \in 1..4 /\ 2 > 1 /\ 3 > 1 /\ 4 > 1
      OBVIOUS
    <3> QED
      BY <2>1, <3>1 DEF Later
  <2>4. ASSUME NEW i \in 1..4 PROVE Follows(q, i, f)
    <3>1. i = 1 \/ i = 2 \/ i = 3 \/ i = 4
      OBVIOUS
    <3> HIDE DEF a, b, c, d
    <3> QED
      BY <1>3, <1>4, <2>1, <2>3, <3>1 DEF Follows
  <2>5. a \in ToSet(q) /\ b \in ToSet(q) /\ c \in ToSet(q) /\ d \in ToSet(q)
    <3> HIDE DEF a, b, c, d
    <3>1. 1 \in 1..4 /\ 2 \in 1..4 /\ 3 \in 1..4 /\ 4 \in 1..4
      OBVIOUS
    <3> QED
      BY <2>1, <3>1 DEF ToSet
  <2>6. q \in Readings
    BY <2>1, <2>4 DEF Readings
  <2> QED
    BY <2>2, <2>5, <2>6
<1>5. CASE ~f.prune
  <2> DEFINE q == <<a, b, c>>
  <2>1. q \in Seq(ReadOps) /\ DOMAIN q = 1..3 /\ q[1] = a /\ q[2] = b /\ q[3] = c
    BY <1>1
  <2>2. Reading(f) = q
    BY <1>2, <1>5
  <2> HIDE DEF q
  <2>3. Later(q, 1, "inserts", t) /\ Later(q, 1, "updates", t)
    <3>1. 2 \in 1..3 /\ 3 \in 1..3 /\ 2 > 1 /\ 3 > 1
      OBVIOUS
    <3> QED
      BY <2>1, <3>1 DEF Later
  <2>4. ASSUME NEW i \in 1..3 PROVE Follows(q, i, f)
    <3>1. i = 1 \/ i = 2 \/ i = 3
      OBVIOUS
    <3> HIDE DEF a, b, c
    <3> QED
      BY <1>3, <1>5, <2>1, <2>3, <3>1 DEF Follows
  <2>5. a \in ToSet(q) /\ b \in ToSet(q) /\ c \in ToSet(q)
    <3> HIDE DEF a, b, c
    <3>1. 1 \in 1..3 /\ 2 \in 1..3 /\ 3 \in 1..3
      OBVIOUS
    <3> QED
      BY <2>1, <3>1 DEF ToSet
  <2>6. q \in Readings
    BY <2>1, <2>4 DEF Readings
  <2> QED
    BY <1>5, <2>2, <2>5, <2>6
<1> QED
  BY <1>1, <1>4, <1>5

\* The list of a plan reads each table as it should, and all of them.
LEMMA ReadingOfAll ==
    ASSUME files \in Seq(Declaration), NEW o \in Seq(Declaration), ToSet(o) = ToSet(files)
    PROVE  LET q == FlattenSeq([i \in DOMAIN o |-> Reading(o[i])]) IN
           /\ q \in Readings
           /\ \A f \in ToSet(files) :
                /\ <<"load", f.table>> \in ToSet(q) /\ <<"inserts", f.table>> \in ToSet(q)
                /\ <<"updates", f.table>> \in ToSet(q)
                /\ f.prune => <<"deletes", f.table>> \in ToSet(q)
<1> DEFINE ss == [i \in DOMAIN o |-> Reading(o[i])]
<1>1. DOMAIN o = 1..Len(o) /\ Len(o) \in Nat /\ \A i \in 1..Len(o) : o[i] \in ToSet(files)
  <2>1. \A i \in DOMAIN o : o[i] \in ToSet(o)
    BY DEF ToSet
  <2> QED
    BY <2>1
<1>2. ss \in Seq(Readings) /\ Len(ss) = Len(o) /\ \A i \in 1..Len(o) : ss[i] = Reading(o[i])
  <2>1. \A i \in 1..Len(o) : Reading(o[i]) \in Readings
    BY <1>1, ReadingIs
  <2> QED
    BY <1>1, <2>1
<1> HIDE DEF ss
<1>3. Readings \subseteq Seq(ReadOps)
  BY DEF Readings
<1>4. <<>> \in Readings
  BY DEF Readings
<1>5. FlattenSeq(ss) \in Readings
  BY <1>2, <1>3, <1>4, ReadingsJoin, FlatStays
<1>6. ss \in Seq(Seq(ReadOps))
  BY <1>2, <1>3
<1>7. ASSUME NEW f \in ToSet(files) PROVE ToSet(Reading(f)) \subseteq ToSet(FlattenSeq(ss))
  <2>1. PICK i \in 1..Len(o) : o[i] = f
    BY <1>1 DEF ToSet
  <2> QED
    BY <1>2, <1>6, <2>1, FlatHas
<1> QED
  BY <1>5, <1>7, ReadingIs DEF ss

\* The statements of the writing half: only what is warranted, and all of it.
LEMMA WritingTail ==
    ASSUME NEW q \in Writings, q # <<>>
    PROVE  Tail(q) \in Writings /\ Head(q) \in WriteOps /\ Warranted(Head(q))
<1>1. q \in Seq(WriteOps) /\ \A i \in DOMAIN q : Warranted(q[i])
  BY DEF Writings
<1>2. Tail(q) \in Seq(WriteOps) /\ DOMAIN Tail(q) = 1..Len(Tail(q)) /\ Head(q) = q[1]
      /\ 1 \in DOMAIN q /\ Head(q) \in WriteOps
  BY <1>1, TailApart
<1>3. ASSUME NEW i \in 1..Len(Tail(q)) PROVE Warranted(Tail(q)[i])
  <2>1. i + 1 \in DOMAIN q /\ Tail(q)[i] = q[i + 1]
    BY <1>1, TailApart
  <2> QED
    BY <1>1, <2>1
<1> QED
  BY <1>1, <1>2, <1>3 DEF Writings

LEMMA WritingsJoin == \A p, q \in Writings : p \o q \in Writings
<1> SUFFICES ASSUME NEW p \in Writings, NEW q \in Writings PROVE p \o q \in Writings
  OBVIOUS
<1>1. /\ p \in Seq(WriteOps) /\ q \in Seq(WriteOps)
      /\ \A i \in DOMAIN p : Warranted(p[i])
      /\ \A i \in DOMAIN q : Warranted(q[i])
  BY DEF Writings
<1>2. p \o q \in Seq(WriteOps) /\ ToSet(p \o q) = ToSet(p) \cup ToSet(q)
  BY <1>1, JoinHas
<1>3. \A s \in ToSet(p) \cup ToSet(q) : Warranted(s)
  BY <1>1 DEF ToSet
<1>4. \A i \in DOMAIN (p \o q) : (p \o q)[i] \in ToSet(p \o q)
  BY DEF ToSet
<1> QED
  BY <1>2, <1>3, <1>4 DEF Writings

LEMMA NoWritings == <<>> \in Writings /\ Writings \subseteq Seq(WriteOps)
BY DEF Writings

LEMMA OneWriting ==
    ASSUME NEW t \in Table
    PROVE  /\ When(deletes, "delete", t) \in Writings /\ When(updates, "update", t) \in Writings
           /\ When(inserts, "insert", t) \in Writings
           /\ deletes[t] # {} => <<"delete", t>> \in ToSet(When(deletes, "delete", t))
           /\ updates[t] # {} => <<"update", t>> \in ToSet(When(updates, "update", t))
           /\ inserts[t] # {} => <<"insert", t>> \in ToSet(When(inserts, "insert", t))
<1>1. ASSUME NEW s \in WriteOps, Warranted(s) PROVE <<s>> \in Writings /\ s \in ToSet(<<s>>)
  <2>1. <<s>> \in Seq(WriteOps) /\ DOMAIN <<s>> = {1} /\ <<s>>[1] = s
    OBVIOUS
  <2> QED
    BY <1>1, <2>1 DEF Writings, ToSet
<1>2. <<"delete", t>> \in WriteOps /\ <<"update", t>> \in WriteOps /\ <<"insert", t>> \in WriteOps
  BY DEF WriteOps
<1>3. /\ deletes[t] # {} => Warranted(<<"delete", t>>)
      /\ updates[t] # {} => Warranted(<<"update", t>>)
      /\ inserts[t] # {} => Warranted(<<"insert", t>>)
  BY DEF Warranted
<1>4. deletes[t] # {} => /\ When(deletes, "delete", t) \in Writings
                         /\ <<"delete", t>> \in ToSet(When(deletes, "delete", t))
  BY <1>1, <1>2, <1>3 DEF When
<1>5. updates[t] # {} => /\ When(updates, "update", t) \in Writings
                         /\ <<"update", t>> \in ToSet(When(updates, "update", t))
  BY <1>1, <1>2, <1>3 DEF When
<1>6. inserts[t] # {} => /\ When(inserts, "insert", t) \in Writings
                         /\ <<"insert", t>> \in ToSet(When(inserts, "insert", t))
  BY <1>1, <1>2, <1>3 DEF When
<1>7. /\ deletes[t] = {} => When(deletes, "delete", t) \in Writings
      /\ updates[t] = {} => When(updates, "update", t) \in Writings
      /\ inserts[t] = {} => When(inserts, "insert", t) \in Writings
  BY NoWritings DEF When
<1> QED
  BY <1>4, <1>5, <1>6, <1>7

\* Either list of statements, over the files in any order.
LEMMA PartOfWritings ==
    ASSUME files \in Seq(Declaration), NEW o \in Seq(Declaration), ToSet(o) = ToSet(files)
    PROVE  /\ Deletions(o) \in Writings /\ Upserts(o) \in Writings
           /\ \A f \in ToSet(files) :
                /\ deletes[f.table] # {} => <<"delete", f.table>> \in ToSet(Deletions(o))
                /\ updates[f.table] # {} => <<"update", f.table>> \in ToSet(Upserts(o))
                /\ inserts[f.table] # {} => <<"insert", f.table>> \in ToSet(Upserts(o))
<1> DEFINE D(t) == When(deletes, "delete", t)
           U(t) == When(updates, "update", t) \o When(inserts, "insert", t)
           dd == [i \in DOMAIN o |-> D(o[i].table)]
           uu == [i \in DOMAIN o |-> U(o[i].table)]
<1>1. DOMAIN o = 1..Len(o) /\ Len(o) \in Nat /\ \A i \in 1..Len(o) : o[i].table \in Table
  BY FileFacts
<1>2. ASSUME NEW t \in Table
      PROVE  /\ D(t) \in Writings /\ U(t) \in Writings
             /\ deletes[t] # {} => <<"delete", t>> \in ToSet(D(t))
             /\ updates[t] # {} => <<"update", t>> \in ToSet(U(t))
             /\ inserts[t] # {} => <<"insert", t>> \in ToSet(U(t))
  <2>1. U(t) \in Writings
    BY OneWriting, WritingsJoin
  <2>2. ToSet(U(t)) = ToSet(When(updates, "update", t)) \cup ToSet(When(inserts, "insert", t))
    <3>1. When(updates, "update", t) \in Seq(WriteOps) /\ When(inserts, "insert", t) \in Seq(WriteOps)
      BY OneWriting, NoWritings
    <3> QED
      BY <3>1, JoinHas
  <2> QED
    BY <2>1, <2>2, OneWriting
<1> HIDE DEF D, U
<1>3. /\ dd \in Seq(Writings) /\ Len(dd) = Len(o) /\ \A i \in 1..Len(o) : dd[i] = D(o[i].table)
      /\ uu \in Seq(Writings) /\ Len(uu) = Len(o) /\ \A i \in 1..Len(o) : uu[i] = U(o[i].table)
  <2> DEFINE n == Len(o)
  <2>1. \A i \in 1..n : D(o[i].table) \in Writings /\ U(o[i].table) \in Writings
    BY <1>1, <1>2
  <2>2. /\ dd = [i \in 1..n |-> D(o[i].table)] /\ uu = [i \in 1..n |-> U(o[i].table)]
        /\ n \in Nat
    BY <1>1
  <2> HIDE DEF n, dd, uu
  <2>3. dd \in Seq(Writings) /\ Len(dd) = n /\ \A i \in 1..n : dd[i] = D(o[i].table)
    BY <2>1, <2>2
  <2>4. uu \in Seq(Writings) /\ Len(uu) = n /\ \A i \in 1..n : uu[i] = U(o[i].table)
    BY <2>1, <2>2
  <2> QED
    BY <2>3, <2>4 DEF n
<1>4. Deletions(o) = FlattenSeq(dd) /\ Upserts(o) = FlattenSeq(uu)
  BY DEF Deletions, Upserts, D, U
<1> HIDE DEF dd, uu
<1>5. FlattenSeq(dd) \in Writings /\ FlattenSeq(uu) \in Writings
  BY <1>3, NoWritings, WritingsJoin, FlatStays
<1>6. dd \in Seq(Seq(WriteOps)) /\ uu \in Seq(Seq(WriteOps))
  BY <1>3, NoWritings
<1>7. ASSUME NEW f \in ToSet(files)
      PROVE  f.table \in Table /\ ToSet(D(f.table)) \subseteq ToSet(FlattenSeq(dd))
             /\ ToSet(U(f.table)) \subseteq ToSet(FlattenSeq(uu))
  <2>1. PICK i \in 1..Len(o) : o[i] = f
    BY <1>1 DEF ToSet
  <2> QED
    BY <1>1, <1>3, <1>6, <2>1, FlatHas
<1> QED
  BY <1>2, <1>4, <1>5, <1>7

LEMMA ReverseHas ==
    ASSUME NEW W, NEW o \in Seq(W)
    PROVE  Reverse(o) \in Seq(W) /\ ToSet(Reverse(o)) = ToSet(o)
<1>1. DOMAIN o = 1..Len(o) /\ Len(o) \in Nat /\ DOMAIN Reverse(o) = 1..Len(o)
      /\ \A i \in 1..Len(o) : Reverse(o)[i] = o[(Len(o) - i) + 1] /\ (Len(o) - i) + 1 \in 1..Len(o)
  BY DEF Reverse
<1>2. Reverse(o) \in Seq(W)
  BY <1>1 DEF Reverse
<1>3. ASSUME NEW i \in 1..Len(o)
      PROVE  (Len(o) - i) + 1 \in 1..Len(o) /\ (Len(o) - ((Len(o) - i) + 1)) + 1 = i
  BY <1>1
<1> QED
  BY <1>1, <1>2, <1>3 DEF ToSet

\* Either order has a statement for whatever the diff has found, and no other.
LEMMA StatementsAre ==
    ASSUME files \in Seq(Declaration), Sorted, NEW first \in BOOLEAN
    PROVE  /\ Statements(first) \in Writings
           /\ \A f \in ToSet(files) :
                /\ deletes[f.table] # {} => <<"delete", f.table>> \in ToSet(Statements(first))
                /\ updates[f.table] # {} => <<"update", f.table>> \in ToSet(Statements(first))
                /\ inserts[f.table] # {} => <<"insert", f.table>> \in ToSet(Statements(first))
<1>1. order \in Seq(Declaration) /\ ToSet(order) = ToSet(files)
  BY DEF Sorted
<1> DEFINE r == Reverse(order)
<1>2. r \in Seq(Declaration) /\ ToSet(r) = ToSet(files)
  BY <1>1, ReverseHas
<1> HIDE DEF r
<1>3. /\ Upserts(order) \in Writings
      /\ \A f \in ToSet(files) :
           /\ updates[f.table] # {} => <<"update", f.table>> \in ToSet(Upserts(order))
           /\ inserts[f.table] # {} => <<"insert", f.table>> \in ToSet(Upserts(order))
  BY <1>1, PartOfWritings
<1>4. /\ Deletions(r) \in Writings
      /\ \A f \in ToSet(files) :
           deletes[f.table] # {} => <<"delete", f.table>> \in ToSet(Deletions(r))
  BY <1>2, PartOfWritings
<1>5. Statements(first) = Deletions(r) \o Upserts(order) \/ Statements(first) = Upserts(order) \o Deletions(r)
  BY DEF Statements, r
<1>6. /\ Deletions(r) \o Upserts(order) \in Writings
      /\ Upserts(order) \o Deletions(r) \in Writings
  BY <1>3, <1>4, WritingsJoin
<1>7. ToSet(Statements(first)) = ToSet(Deletions(r)) \cup ToSet(Upserts(order))
  <2>1. Deletions(r) \in Seq(WriteOps) /\ Upserts(order) \in Seq(WriteOps)
    BY <1>3, <1>4, NoWritings
  <2>2. /\ ToSet(Deletions(r) \o Upserts(order)) = ToSet(Deletions(r)) \cup ToSet(Upserts(order))
        /\ ToSet(Upserts(order) \o Deletions(r)) = ToSet(Deletions(r)) \cup ToSet(Upserts(order))
    BY <2>1, JoinHas
  <2> QED
    BY <1>5, <2>2
<1> QED
  BY <1>3, <1>4, <1>5, <1>6, <1>7

\* The sequences of the tables that rows were missing from.
LEMMA SequencesAre ==
    ASSUME files \in Seq(Declaration), Sorted
    PROVE  /\ Sequences \in Seq({"advance"} \X Table)
           /\ \A f \in ToSet(files) : f.table \in Serial /\ inserts[f.table] # {} =>
                                        <<"advance", f.table>> \in ToSet(Sequences)
<1> DEFINE A == {"advance"} \X Table
           Q(t) == IF t \in Serial THEN When(inserts, "advance", t) ELSE <<>>
           ss == [i \in DOMAIN order |-> Q(order[i].table)]
<1>1. /\ order \in Seq(Declaration) /\ ToSet(order) = ToSet(files)
      /\ DOMAIN order = 1..Len(order) /\ Len(order) \in Nat
      /\ \A i \in 1..Len(order) : order[i].table \in Table
  BY FileFacts DEF Sorted
<1>2. ASSUME NEW t \in Table
      PROVE  /\ Q(t) \in Seq(A)
             /\ t \in Serial /\ inserts[t] # {} => <<"advance", t>> \in ToSet(Q(t))
  <2>1. <<"advance", t>> \in A
    OBVIOUS
  <2>2. <<<<"advance", t>>>> \in Seq(A) /\ <<>> \in Seq(A)
    BY <2>1
  <2>3. <<"advance", t>> \in ToSet(<<<<"advance", t>>>>)
    <3>1. DOMAIN <<<<"advance", t>>>> = {1} /\ <<<<"advance", t>>>>[1] = <<"advance", t>>
      OBVIOUS
    <3> QED
      BY <3>1 DEF ToSet
  <2> QED
    BY <2>2, <2>3 DEF When
<1> HIDE DEF Q
<1>3. ss \in Seq(Seq(A)) /\ Len(ss) = Len(order) /\ \A i \in 1..Len(order) : ss[i] = Q(order[i].table)
  <2> DEFINE n == Len(order)
             B == Seq(A)
  <2>1. \A i \in 1..n : Q(order[i].table) \in B
    BY <1>1, <1>2
  <2>2. ss = [i \in 1..n |-> Q(order[i].table)] /\ n \in Nat
    BY <1>1
  <2> HIDE DEF n, B, ss
  <2>3. ss \in Seq(B) /\ Len(ss) = n /\ \A i \in 1..n : ss[i] = Q(order[i].table)
    BY <2>1, <2>2
  <2> QED
    BY <2>3 DEF n, B
<1>4. Sequences = FlattenSeq(ss)
  BY DEF Sequences, Q
<1> HIDE DEF ss
<1>5. FlattenSeq(ss) \in Seq(A)
  <2>1. Seq(A) \subseteq Seq(A) /\ <<>> \in Seq(A) /\ \A p, q \in Seq(A) : p \o q \in Seq(A)
    OBVIOUS
  <2> HIDE DEF A
  <2> QED
    BY <1>3, <2>1, FlatStays
<1>6. ASSUME NEW f \in ToSet(files)
      PROVE  f.table \in Table /\ ToSet(Q(f.table)) \subseteq ToSet(FlattenSeq(ss))
  <2>1. PICK i \in 1..Len(order) : order[i] = f
    BY <1>1 DEF ToSet
  <2> HIDE DEF A
  <2> QED
    BY <1>1, <1>3, <2>1, FlatHas
<1> QED
  BY <1>2, <1>4, <1>5, <1>6

-----------------------------------------------------------------------------
(* Applications, and what one step of theirs can change *)

\* What an application leaves alone: whatever m8 has written, and the rows it
\* is not seen to have meddled with.
AppSpares ==
    /\ UNCHANGED <<ForeignKeys, files, held, pc, command, changing, diff, write>>
    /\ committed' \in [Table -> Rows] /\ work' \in [Table -> Rows]
    /\ \A t \in Table, k \in Key : <<t, k>> \in held => work'[t][k] = work[t][k]
    /\ \A t \in Table, k \in Key : <<t, k>> \notin held => work'[t][k] = committed'[t][k]
    /\ pc # "idle" => /\ meddled \subseteq meddled'
                      /\ meddled \subseteq Table \X Key => meddled' \subseteq Table \X Key
                      /\ \A t \in Table, k \in Key : <<t, k>> \notin meddled' =>
                           committed'[t][k] = committed[t][k] /\ work'[t][k] = work[t][k]

\* A write of an application changes one row that is not locked, and is seen.
LEMMA AppSetsSpares ==
    ASSUME BaseInv, NEW t \in Table, NEW k \in Key, NEW v \in Key \cup {Absent}, <<t, k>> \notin held,
           AppSets(t, k, v), AppWrites
    PROVE  AppSpares
<1>1. /\ committed \in [Table -> Rows] /\ work \in [Table -> Rows]
      /\ \A s \in Table, j \in Key : <<s, j>> \notin held => work[s][j] = committed[s][j]
  BY DEF BaseInv
<1>2. /\ committed' = [committed EXCEPT ![t] = [committed[t] EXCEPT ![k] = v]]
      /\ work' = [work EXCEPT ![t] = [work[t] EXCEPT ![k] = v]]
  BY DEF AppSets
<1>3. committed[t] \in [Key -> Key \cup {Absent}] /\ work[t] \in [Key -> Key \cup {Absent}]
  BY <1>1 DEF Rows
<1> DEFINE c == [committed[t] EXCEPT ![k] = v]
           w == [work[t] EXCEPT ![k] = v]
<1>4. /\ c \in [Key -> Key \cup {Absent}] /\ w \in [Key -> Key \cup {Absent}] /\ c[k] = v /\ w[k] = v
      /\ \A j \in Key : j # k => c[j] = committed[t][j] /\ w[j] = work[t][j]
  BY <1>3
<1> HIDE DEF c, w
<1>5. /\ committed' \in [Table -> Rows] /\ work' \in [Table -> Rows]
      /\ committed'[t] = c /\ work'[t] = w
      /\ \A s \in Table : s # t => committed'[s] = committed[s] /\ work'[s] = work[s]
  BY <1>1, <1>2, <1>4 DEF Rows, c, w
<1>6. ASSUME NEW s \in Table, NEW j \in Key, <<s, j>> # <<t, k>>
      PROVE  committed'[s][j] = committed[s][j] /\ work'[s][j] = work[s][j]
  <2>1. CASE s = t
    <3>1. j # k
      BY <1>6, <2>1
    <3> QED
      BY <1>4, <1>5, <2>1, <3>1
  <2>2. CASE s # t
    BY <1>5, <2>2
  <2> QED
    BY <2>1, <2>2
<1>7. committed'[t][k] = work'[t][k]
  BY <1>4, <1>5
<1>8. \A s \in Table, j \in Key : <<s, j>> \in held => work'[s][j] = work[s][j]
  <2> SUFFICES ASSUME NEW s \in Table, NEW j \in Key, <<s, j>> \in held
               PROVE  work'[s][j] = work[s][j]
    OBVIOUS
  <2>1. <<s, j>> # <<t, k>>
    OBVIOUS
  <2> QED
    BY <1>6, <2>1
<1>9. \A s \in Table, j \in Key : <<s, j>> \notin held => work'[s][j] = committed'[s][j]
  <2> SUFFICES ASSUME NEW s \in Table, NEW j \in Key, <<s, j>> \notin held
               PROVE  work'[s][j] = committed'[s][j]
    OBVIOUS
  <2>1. CASE <<s, j>> = <<t, k>>
    <3>1. s = t /\ j = k
      BY <2>1
    <3> QED
      BY <1>7, <3>1
  <2>2. CASE <<s, j>> # <<t, k>>
    BY <1>1, <1>6, <2>2
  <2> QED
    BY <2>1, <2>2
<1>10. ASSUME pc # "idle"
       PROVE  /\ meddled \subseteq meddled'
              /\ meddled \subseteq Table \X Key => meddled' \subseteq Table \X Key
              /\ \A s \in Table, j \in Key : <<s, j>> \notin meddled' =>
                   committed'[s][j] = committed[s][j] /\ work'[s][j] = work[s][j]
  <2>1. meddled' = meddled \cup {<<t, k>>}
    BY <1>10 DEF AppSets
  <2>2. <<t, k>> \in Table \X Key
    OBVIOUS
  <2>3. \A s \in Table, j \in Key : <<s, j>> \notin meddled' => <<s, j>> # <<t, k>>
    BY <2>1
  <2> QED
    BY <1>6, <2>1, <2>2, <2>3
<1>11. UNCHANGED <<ForeignKeys, files, held, pc, command, changing, diff, write>>
  BY DEF AppWrites
<1> QED
  BY <1>5, <1>8, <1>9, <1>10, <1>11 DEF AppSpares

\* So does any step of an application, one that collides included.
LEMMA AppsSpare == ASSUME BaseInv, App PROVE AppSpares
<1>1. PICK t \in Table, k \in Key :
          (\E v \in Key : AppPut(t, k, v)) \/ AppDelete(t, k) \/ AppDefault(t, k)
  BY DEF App
<1>2. ASSUME NEW v \in Key, AppPut(t, k, v) PROVE AppSpares
  <2>1. <<t, k>> \notin held /\ AppSets(t, k, v) /\ AppWrites
    BY <1>2 DEF AppPut, Settable
  <2> QED
    BY <2>1, AppSetsSpares
<1>3. CASE AppDelete(t, k)
  <2>1. <<t, k>> \notin held /\ AppSets(t, k, Absent) /\ AppWrites
    BY <1>3 DEF AppDelete
  <2> QED
    BY <2>1, AppSetsSpares
<1>4. CASE AppDefault(t, k)
  <2> DEFINE n == seq[t] + 1
  <2>1. AppWrites /\ n \in Key
    BY <1>4 DEF AppDefault
  <2>2. CASE work[t][n] = Absent /\ committed[t][n] = Absent /\ Settable(t, n, k)
    <3>1. AppSets(t, n, k)
      BY <1>4, <2>2 DEF AppDefault
    <3>2. <<t, n>> \notin held
      BY <2>2 DEF Settable
    <3> HIDE DEF n
    <3> QED
      BY <2>1, <3>1, <3>2, AppSetsSpares
  <2>3. CASE ~ (work[t][n] = Absent /\ committed[t][n] = Absent /\ Settable(t, n, k))
    <3>1. UNCHANGED <<committed, work, meddled>>
      BY <1>4, <2>3 DEF AppDefault
    <3> QED
      BY <2>1, <3>1 DEF AppWrites, AppSpares, BaseInv
  <2> QED
    BY <2>2, <2>3
<1> QED
  BY <1>1, <1>2, <1>3, <1>4

-----------------------------------------------------------------------------
(* What one statement of the writing half does: rows of one table become   *)
(* as declared.                                                            *)

WritesRows(t, S) ==
    /\ work' = Written(t, S) /\ held' = held \cup ({t} \X S)
    /\ UNCHANGED <<ForeignKeys, files, committed, seq, command, order, temp, inserts, updates, deletes,
                   meddled, aim>>

\* Rows of S are as loaded afterwards, others as they were.
LEMMA WrittenIs ==
    ASSUME BaseInv, temp \in [Table -> Rows], NEW t \in Table, NEW S \in SUBSET Key, WritesRows(t, S)
    PROVE  /\ work' \in [Table -> Rows] /\ held' \subseteq Table \X Key
           /\ \A s \in Table : s # t => work'[s] = work[s]
           /\ \A k \in Key : work'[t][k] = IF k \in S THEN temp[t][k] ELSE work[t][k]
           /\ \A s \in Table, k \in Key : <<s, k>> \in held' <=> <<s, k>> \in held \/ (s = t /\ k \in S)
<1> DEFINE w == [k \in Key |-> IF k \in S THEN temp[t][k] ELSE work[t][k]]
<1>1. work \in [Table -> Rows] /\ held \subseteq Table \X Key
  BY DEF BaseInv
<1>2. work' = [work EXCEPT ![t] = w] /\ held' = held \cup ({t} \X S)
  BY DEF WritesRows, Written
<1>3. w \in Rows
  BY <1>1 DEF Rows
<1>4. \A k \in Key : w[k] = IF k \in S THEN temp[t][k] ELSE work[t][k]
  OBVIOUS
<1> HIDE DEF w
<1> QED
  BY <1>1, <1>2, <1>3, <1>4

\* A file that prunes is of a table whose rows take nothing with them.
LEMMA DeletesAreContained ==
    ASSUME BaseInv, temp \in [Table -> Rows], Sorted, NEW t \in Table, Prunes(t), Delete(t)
    PROVE  WritesRows(t, Surplus(t))
<1> DEFINE S == Surplus(t)
<1>1. PICK f \in ToSet(files) : f.table = t /\ f.prune
  BY DEF Prunes
<1>2. \A fk \in ForeignKeys : fk.to = t => fk.on = "restrict"
  BY <1>1 DEF Sorted, Contained
<1>3. Dragged(t, S) = {}
  BY <1>2 DEF Dragged
<1>4. /\ work' = [c \in Table |-> [k \in Key |-> IF <<c, k>> \in ({t} \X S) \cup Dragged(t, S)
                                                 THEN Absent ELSE work[c][k]]]
      /\ held' = held \cup ({t} \X S) \cup Dragged(t, S)
  BY DEF Delete, Lock
<1>5. S \in SUBSET Key /\ \A k \in S : temp[t][k] = Absent
  BY DEF Surplus
<1>6. work \in [Table -> [Key -> Key \cup {Absent}]]
  BY DEF BaseInv, Rows
<1> HIDE DEF S
<1>7. work' = [c \in Table |-> [k \in Key |-> IF c = t /\ k \in S THEN Absent ELSE work[c][k]]]
  <2>1. \A c \in Table, k \in Key : <<c, k>> \in ({t} \X S) \cup Dragged(t, S) <=> c = t /\ k \in S
    BY <1>3
  <2> QED
    BY <1>4, <2>1
<1>8. work' = Written(t, S)
  <2> DEFINE w == [k \in Key |-> IF k \in S THEN temp[t][k] ELSE work[t][k]]
  <2>1. Written(t, S) = [work EXCEPT ![t] = w]
    BY DEF Written
  <2>2. [k \in Key |-> IF t = t /\ k \in S THEN Absent ELSE work[t][k]] = w
    BY <1>5
  <2> HIDE DEF w
  <2>3. ASSUME NEW c \in Table
        PROVE  [k \in Key |-> IF c = t /\ k \in S THEN Absent ELSE work[c][k]] = [work EXCEPT ![t] = w][c]
    <3>1. CASE c = t
      BY <1>6, <2>2, <3>1
    <3>2. CASE c # t
      <4>1. work[c] = [k \in Key |-> work[c][k]]
        BY <1>6
      <4>2. [k \in Key |-> IF c = t /\ k \in S THEN Absent ELSE work[c][k]] = [k \in Key |-> work[c][k]]
        BY <3>2
      <4> QED
        BY <1>6, <3>2, <4>1, <4>2
    <3> QED
      BY <3>1, <3>2
  <2>4. [work EXCEPT ![t] = w] = [c \in Table |-> [work EXCEPT ![t] = w][c]]
    BY <1>6
  <2>5. [c \in Table |-> [k \in Key |-> IF c = t /\ k \in S THEN Absent ELSE work[c][k]]]
        = [c \in Table |-> [work EXCEPT ![t] = w][c]]
    BY <2>3
  <2> QED
    BY <1>7, <2>1, <2>4, <2>5
<1>9. held' = held \cup ({t} \X S)
  BY <1>3, <1>4
<1>10. UNCHANGED <<ForeignKeys, files, committed, seq, command, order, temp, inserts, updates, deletes,
                   meddled, aim>>
  BY DEF Delete, diff, ghosts
<1> QED
  BY <1>8, <1>9, <1>10 DEF WritesRows, S

-----------------------------------------------------------------------------
(* Runs begin and end *)

\* A run that writes is an apply.
LEMMA Applying ==
    ASSUME BaseInv, TraceInv, pc \in {"write", "insert", "advance"}
    PROVE  command = "apply"
BY DEF BaseInv, TraceInv, PlanInv

\* A run that ends leaves others and itself with the same rows, and nothing else.
LEMMA ClosingKeeps ==
    ASSUME ApplyInv, NEW v, Close(v), UNCHANGED <<ForeignKeys, files>>, committed' = work',
           work' \in [Table -> Rows]
    PROVE  ApplyInv'
<1>1. BaseInv'
  BY DEF ApplyInv, BaseInv, Close
<1>2. DiffTypes'
  <2>1. [t \in Table |-> NoRows] \in [Table -> Rows] /\ None \in [Table -> SUBSET Key]
    BY DEF NoRows, Rows, None
  <2> QED
    BY <2>1 DEF DiffTypes, Close
<1>3. command' = "none"
  BY DEF Close
<1> QED
  BY <1>1, <1>2, <1>3 DEF ApplyInv, ReadInv, WriteInv, AdvanceInv

\* However it ends.
LEMMA EndKeeps ==
    ASSUME ApplyInv, TraceInv,
           Refuse \/ PlanDone \/ Fail \/ Commit \/ \E t \in Table : LoadFails(t) \/ BothOrdersFail(t)
    PROVE  ApplyInv'
<1>1. committed \in [Table -> Rows] /\ work \in [Table -> Rows]
  BY DEF ApplyInv, BaseInv
<1>2. CASE Commit
  <2>1. Close("applied") /\ UNCHANGED <<ForeignKeys, files>> /\ committed' = work' /\ work' = work
    BY <1>2 DEF Commit
  <2> QED
    BY <1>1, <2>1, ClosingKeeps
<1>3. ASSUME NEW v, Abort(v), UNCHANGED <<ForeignKeys, files, committed>> PROVE ApplyInv'
  <2>1. Close(v) /\ committed' = work' /\ work' = committed
    BY <1>3 DEF Abort
  <2> QED
    BY <1>1, <1>3, <2>1, ClosingKeeps
<1> QED
  BY <1>2, <1>3 DEF Refuse, PlanDone, Fail, LoadFails, BothOrdersFail

\* A run begins with nothing read.
LEMMA StartKeeps ==
    ASSUME ApplyInv, NEW cmd \in {"plan", "apply"}, Start(cmd)
    PROVE  ApplyInv'
<1>1. /\ pc = "idle" /\ pc' = "resolve" /\ command' = cmd
      /\ UNCHANGED <<ForeignKeys, files, committed, work, held, order, temp, inserts, updates, deletes,
                     missing, meddled>>
  BY DEF Start, tables, diff, write, ghosts
<1>2. BaseInv'
  BY <1>1 DEF ApplyInv, BaseInv
<1>3. DiffTypes'
  <2>1. command = "none"
    BY <1>1 DEF ApplyInv, BaseInv
  <2> QED
    BY <1>1, <2>1 DEF ApplyInv, DiffTypes
<1> QED
  BY <1>1, <1>2, <1>3 DEF ApplyInv, ReadInv, WriteInv, AdvanceInv

\* An apply that is not refused has all its files, each of its own table, and
\* none reads what another declares.
LEMMA ResolveSorts ==
    ASSUME ApplyInv, command = "apply", Resolve
    PROVE  Sorted'
<1>1. files \in Seq(Declaration)
  BY DEF ApplyInv, BaseInv
<1>2. Diffed = files
  BY DEF Diffed
<1>3. order' = FkOrder(files) /\ ~Refused /\ UNCHANGED <<ForeignKeys, files>>
  BY <1>2 DEF Resolve
<1>4. order' \in Seq(Declaration)
  BY <1>1, <1>3, OrderIsOfFiles
<1>5. ToSet(order') = ToSet(files)
  BY <1>2, <1>3 DEF Refused, Cyclic
<1>6. \A f, g \in ToSet(files) : f.table = g.table => f = g
  <2> SUFFICES ASSUME NEW f \in ToSet(files), NEW g \in ToSet(files), f.table = g.table
               PROVE  f = g
    OBVIOUS
  <2>1. PICK i \in DOMAIN files : files[i] = f
    BY DEF ToSet
  <2>2. PICK j \in DOMAIN files : files[j] = g
    BY DEF ToSet
  <2>3. i = j
    BY <1>2, <1>3, <2>1, <2>2 DEF Refused, DeclaredTwice
  <2> QED
    BY <2>1, <2>2, <2>3
<1>7. \A f \in ToSet(files) : f.reads \cap TablesOf(files) = {} /\ (f.prune => Contained(f))
  BY <1>2, <1>3 DEF Refused, Misfit, ReadsDeclared
<1>8. \A f \in ToSet(files) : Contained(f)' <=> Contained(f)
  BY <1>3 DEF Contained
<1>9. ToSet(files)' = ToSet(files) /\ TablesOf(files)' = TablesOf(files) /\ ToSet(order)' = ToSet(order')
  BY <1>3
<1> QED
  BY <1>4, <1>5, <1>6, <1>7, <1>8, <1>9 DEF Sorted

\* The list of reads owes every file everything.
LEMMA ResolveKeeps == ASSUME ApplyInv, Resolve PROVE ApplyInv'
<1>1. /\ pc = "resolve" /\ pc' = "plan"
      /\ UNCHANGED <<ForeignKeys, files, committed, work, held, command, temp, inserts, updates, deletes,
                     missing, meddled>>
  BY DEF Resolve, tables, ghosts
<1>2. BaseInv'
  BY <1>1 DEF ApplyInv, BaseInv
<1>3. command # "plan" => DiffTypes'
  BY <1>1 DEF ApplyInv, DiffTypes
<1>4. ASSUME command = "apply" PROVE ReadInv'
  <2>1. Sorted'
    BY <1>4, ResolveSorts
  <2>2. files \in Seq(Declaration) /\ order' \in Seq(Declaration) /\ ToSet(order') = ToSet(files)
    BY <1>1, <2>1 DEF Sorted, ApplyInv, BaseInv
  <2>3. todo' = FlattenSeq([i \in DOMAIN order' |-> Reading(order'[i])])
    BY DEF Resolve
  <2>4. /\ todo' \in Readings
        /\ \A f \in ToSet(files) :
             /\ <<"load", f.table>> \in ToSet(todo') /\ <<"inserts", f.table>> \in ToSet(todo')
             /\ <<"updates", f.table>> \in ToSet(todo')
             /\ f.prune => <<"deletes", f.table>> \in ToSet(todo')
    BY <2>2, <2>3, ReadingOfAll
  <2>5. (todo \in Readings)'
    BY <1>1, <2>4 DEF Readings, Follows
  <2>6. Found'
    <3>1. inserts = None /\ updates = None /\ deletes = None
      BY <1>1, <1>4 DEF ApplyInv, DiffTypes
    <3>2. \A t \in Table : None[t] = {}
      BY DEF None
    <3> QED
      BY <1>1, <3>1, <3>2 DEF Found
  <2>7. \A f \in ToSet(files) : Gathered(f)'
    BY <2>4 DEF Gathered, Pends
  <2> QED
    BY <1>1, <2>1, <2>5, <2>6, <2>7 DEF ReadInv
<1> QED
  BY <1>1, <1>2, <1>3, <1>4 DEF ApplyInv, ReadInv, WriteInv, AdvanceInv

-----------------------------------------------------------------------------
(* The reading half *)

\* A row is joined to the same rows wherever the tables a query reads are the
\* same.
LEMMA RowsOfSame ==
    ASSUME NEW f \in Declaration, NEW now, NEW then,
           \A s \in Sources(f), k \in Key : now[s][k] = then[s][k]
    PROVE  RowsOf(f, now) = RowsOf(f, then)
<1>1. \A k \in Key : f.rows[k] # Absent => f.rows[k] \in Key
  BY FileFacts
<1> QED
  BY <1>1 DEF RowsOf

\* A load makes the declared rows known, before anything is compared with them.
LEMMA LoadKeeps ==
    ASSUME ApplyInv, NEW t \in Table, Load(t)
    PROVE  ApplyInv'
<1>1. /\ pc = "plan" /\ todo # <<>> /\ Head(todo) = <<"load", t>> /\ todo' = Tail(todo)
      /\ UNCHANGED <<ForeignKeys, files, committed, work, held, pc, command, order, inserts, updates,
                     deletes, missing>>
      /\ temp' = [temp EXCEPT ![t] = RowsOf(FileOf(t), work)]
      /\ meddled' = {m \in meddled : m[1] # t}
  BY DEF Load, Due
<1>2. BaseInv'
  BY <1>1 DEF ApplyInv, BaseInv
<1>3. CASE command = "plan"
  BY <1>1, <1>2, <1>3 DEF ApplyInv, ReadInv, WriteInv, AdvanceInv
<1>4. CASE command # "plan"
  <2>1. command = "apply"
    BY <1>1, <1>4 DEF ApplyInv, BaseInv
  <2>2. /\ DiffTypes /\ todo \in Readings /\ Sorted /\ Found
        /\ \A f \in ToSet(files) : Gathered(f)
        /\ files \in Seq(Declaration) /\ held = {}
        /\ \A s \in Table, k \in Key : work[s][k] = committed[s][k]
    BY <1>1, <2>1 DEF ApplyInv, ReadInv, BaseInv
  <2>3. PICK f \in ToSet(files) : Follows(todo, 1, f)
    BY <1>1, <2>2, ReadingTail
  <2>4. f \in Declaration /\ f.table = t /\ FileOf(t) = f /\ todo[1] = <<"load", t>>
        /\ todo \in Seq(ReadOps)
    <3>1. todo \in Seq(ReadOps) /\ todo[1] = Head(todo)
      BY <1>1, <2>2, TailApart DEF Readings
    <3>2. f.table = t
      BY <1>1, <2>3, <3>1 DEF Follows
    <3> QED
      BY <1>1, <2>2, <3>1, <3>2, DeclaredFiles, FileOfIs
  <2>5. /\ <<"inserts", t>> \in ToSet(Tail(todo)) /\ <<"updates", t>> \in ToSet(Tail(todo))
        /\ f.prune => <<"deletes", t>> \in ToSet(Tail(todo))
    <3>1. /\ Later(todo, 1, "inserts", t) /\ Later(todo, 1, "updates", t)
          /\ f.prune => Later(todo, 1, "deletes", t)
      BY <2>3, <2>4 DEF Follows
    <3> QED
      BY <1>1, <2>4, <3>1, AfterHead
  <2>6. ToSet(todo) = {<<"load", t>>} \cup ToSet(Tail(todo))
    BY <1>1, <2>4, TailApart
  <2>7. RowsOf(f, work) \in Rows /\ RowsOf(f, work) = RowsOf(f, committed)
    <3>1. Sources(f) \subseteq Table
      BY <2>4, FileFacts
    <3>2. \A s \in Sources(f), k \in Key : work[s][k] = committed[s][k]
      BY <2>2, <3>1
    <3> QED
      BY <2>4, <3>2, RowsOfSame, RowsOfType
  <2>8. /\ temp' \in [Table -> Rows] /\ temp'[t] = RowsOf(f, committed)
        /\ \A s \in Table : s # t => temp'[s] = temp[s]
    BY <1>1, <2>2, <2>4, <2>7 DEF DiffTypes
  <2>9. DiffTypes'
    BY <1>1, <2>2, <2>8 DEF DiffTypes
  <2>10. (todo \in Readings)'
    <3>1. Tail(todo) \in Readings
      BY <1>1, <2>2, ReadingTail
    <3> QED
      BY <1>1, <3>1 DEF Readings, Follows
  <2>11. Sorted' /\ Found'
    BY <1>1, <2>2 DEF Sorted, Found, Contained, Prunes
  <2>12. Gathered(f)'
    <3>1. Loaded(f)'
      <4>1. RowsOf(f, committed)' = RowsOf(f, committed)
        BY <1>1 DEF RowsOf, Sources
      <4> QED
        BY <2>4, <2>8, <4>1 DEF Loaded
    <3> QED
      BY <1>1, <2>4, <2>5, <3>1 DEF Gathered, Pends
  <2>13. ASSUME NEW g \in ToSet(files), g # f PROVE Gathered(g)'
    <3>0. ReadsUnseen(g) \/ t \notin Sources(g)
      <4>1. t \in TablesOf(files)
        BY <2>2, <2>4, DeclaredFiles
      <4> QED
        BY <2>2, <2>13, <4>1 DEF Sorted, ReadsUnseen, Sources
    <3>1. g \in Declaration /\ g.table \in Table /\ g.table # t
      <4>1. g \in Declaration /\ g.table \in Table
        BY <2>2, DeclaredFiles
      <4>2. g.table # t
        BY <2>2, <2>4, <2>13 DEF Sorted
      <4> QED
        BY <4>1, <4>2
    <3>2. /\ Pends("load", g.table) => Pends("load", g.table)'
          /\ Pends("inserts", g.table) => Pends("inserts", g.table)'
          /\ Pends("updates", g.table) => Pends("updates", g.table)'
          /\ Pends("deletes", g.table) => Pends("deletes", g.table)'
      <4>1. \A op : <<op, g.table>> # <<"load", t>>
        BY <3>1
      <4>2. ToSet(todo') = ToSet(Tail(todo))
        BY <1>1
      <4> QED
        BY <2>6, <4>1, <4>2 DEF Pends
    <3>3. temp'[g.table] = temp[g.table] /\ \A k \in Key : Meddled(g.table, k) => Meddled(g.table, k)'
      BY <1>1, <2>8, <3>1 DEF Meddled
    <3>4. Loaded(g) => Loaded(g)'
      <4>1. RowsOf(g, committed)' = RowsOf(g, committed)
        BY <1>1 DEF RowsOf, Sources
      <4>2. ReadsUnseen(g)' = ReadsUnseen(g) /\ Sources(g)' = Sources(g)
        BY <1>1 DEF ReadsUnseen, TablesOf, Sources
      <4>3. (\A m \in meddled' : m[1] \notin Sources(g)) /\ ~ReadsUnseen(g) =>
                \A m \in meddled : m[1] \notin Sources(g)
        BY <1>1, <3>0
      <4> QED
        BY <3>3, <4>1, <4>2, <4>3 DEF Loaded
    <3>5. InsertsKnown(g.table) => InsertsKnown(g.table)'
      BY <1>1, <3>3 DEF InsertsKnown, Lacks
    <3>6. UpdatesKnown(g.table) => UpdatesKnown(g.table)'
      BY <1>1, <3>3 DEF UpdatesKnown, Differs
    <3>7. DeletesKnown(g.table) => DeletesKnown(g.table)'
      BY <1>1, <3>3 DEF DeletesKnown, Exceeds
    <3>8. /\ Pends("load", g.table) \/ Loaded(g)
          /\ Pends("inserts", g.table) \/ InsertsKnown(g.table)
          /\ Pends("updates", g.table) \/ UpdatesKnown(g.table)
          /\ g.prune => Pends("deletes", g.table) \/ DeletesKnown(g.table)
      BY <2>2 DEF Gathered
    <3>9. /\ Pends("load", g.table)' \/ Loaded(g)'
          /\ Pends("inserts", g.table)' \/ InsertsKnown(g.table)'
          /\ Pends("updates", g.table)' \/ UpdatesKnown(g.table)'
          /\ g.prune => Pends("deletes", g.table)' \/ DeletesKnown(g.table)'
      BY <3>4, <3>5, <3>6, <3>7, <3>2, <3>8
    <3> QED
      BY <3>9 DEF Gathered
  <2>14. ReadInv'
    BY <1>1, <2>10, <2>11, <2>12, <2>13 DEF ReadInv
  <2> QED
    BY <1>1, <1>2, <2>9, <2>14 DEF ApplyInv, WriteInv, AdvanceInv
<1> QED
  BY <1>3, <1>4

\* A SELECT finds what is unlike the declaration, meddled rows aside.
LEMMA ComputeKeeps ==
    ASSUME ApplyInv, NEW t \in Table, Compute(t)
    PROVE  ApplyInv'
<1>1. /\ pc = "plan" /\ todo # <<>> /\ todo' = Tail(todo)
      /\ UNCHANGED <<ForeignKeys, files, committed, work, held, pc, command, order, temp, missing, meddled>>
      /\ \/ /\ Head(todo) = <<"inserts", t>> /\ inserts' = [inserts EXCEPT ![t] = Lacking(t)]
            /\ UNCHANGED <<updates, deletes>>
         \/ /\ Head(todo) = <<"updates", t>> /\ updates' = [updates EXCEPT ![t] = Differing(t)]
            /\ UNCHANGED <<inserts, deletes>>
         \/ /\ Head(todo) = <<"deletes", t>> /\ deletes' = [deletes EXCEPT ![t] = Surplus(t)]
            /\ UNCHANGED <<inserts, updates>>
  BY DEF Compute, Due, tables, ghosts
<1>2. BaseInv'
  BY <1>1 DEF ApplyInv, BaseInv
<1>3. CASE command = "plan"
  BY <1>1, <1>2, <1>3 DEF ApplyInv, ReadInv, WriteInv, AdvanceInv
<1>4. CASE command # "plan"
  <2>1. command = "apply"
    BY <1>1, <1>4 DEF ApplyInv, BaseInv
  <2>2. /\ DiffTypes /\ todo \in Readings /\ Sorted /\ Found
        /\ \A f \in ToSet(files) : Gathered(f)
        /\ files \in Seq(Declaration) /\ held = {}
        /\ \A s \in Table, k \in Key : work[s][k] = committed[s][k]
    BY <1>1, <2>1 DEF ApplyInv, ReadInv, BaseInv
  <2>3. PICK f \in ToSet(files) : Follows(todo, 1, f)
    BY <1>1, <2>2, ReadingTail
  <2>4. /\ todo \in Seq(ReadOps) /\ todo[1] = Head(todo)
        /\ ToSet(todo) = {Head(todo)} \cup ToSet(Tail(todo))
    <3>1. todo \in Seq(ReadOps)
      BY <2>2 DEF Readings
    <3> QED
      BY <1>1, <3>1, TailApart
  <2>5. f.table = t /\ (Head(todo) = <<"deletes", t>> => f.prune) /\ t \in TablesOf(files)
    BY <1>1, <2>2, <2>3, <2>4, DeclaredFiles DEF Follows
  <2>6. Lacking(t) \in SUBSET Key /\ Differing(t) \in SUBSET Key /\ Surplus(t) \in SUBSET Key
    BY DEF Lacking, Differing, Surplus
  <2>7. DiffTypes'
    BY <1>1, <2>2, <2>6 DEF DiffTypes
  <2>8. (todo \in Readings)' /\ Sorted'
    <3>1. Tail(todo) \in Readings
      BY <1>1, <2>2, ReadingTail
    <3> QED
      BY <1>1, <2>2, <3>1 DEF Readings, Follows, Sorted, Contained
  <2>9. Found'
    <3>1. Prunes(t) \/ Head(todo) # <<"deletes", t>>
      BY <2>5 DEF Prunes
    <3>2. \A s \in Table : Prunes(s)' <=> Prunes(s)
      BY <1>1 DEF Prunes
    <3>3. TablesOf(files)' = TablesOf(files)
      BY <1>1
    <3>4. /\ \A s \in Table : inserts'[s] # {} => inserts[s] # {} \/ s = t
          /\ \A s \in Table : updates'[s] # {} => updates[s] # {} \/ s = t
          /\ \A s \in Table : deletes'[s] # {} => deletes[s] # {} \/ (s = t /\ Head(todo) = <<"deletes", t>>)
      BY <1>1, <2>2 DEF DiffTypes
    <3> QED
      BY <2>2, <2>5, <3>1, <3>2, <3>3, <3>4 DEF Found
  <2>10. ASSUME NEW g \in ToSet(files) PROVE Gathered(g)'
    <3>1. g.table \in Table
      BY <2>2, DeclaredFiles
    <3>2. /\ Pends("load", g.table) \/ Loaded(g)
          /\ Pends("inserts", g.table) \/ InsertsKnown(g.table)
          /\ Pends("updates", g.table) \/ UpdatesKnown(g.table)
          /\ g.prune => Pends("deletes", g.table) \/ DeletesKnown(g.table)
      BY <2>2 DEF Gathered
    <3>3. \A op : Pends(op, g.table) => <<op, g.table>> \in ToSet(todo') \/ <<op, g.table>> = Head(todo)
      BY <1>1, <2>4 DEF Pends
    <3>4. Loaded(g) => Loaded(g)'
      BY <1>1 DEF Loaded, ReadsUnseen, TablesOf, Sources, RowsOf
    <3>5. Pends("load", g.table)' \/ Loaded(g)'
      <4>1. <<"load", g.table>> # Head(todo)
        BY <1>1
      <4> QED
        BY <3>2, <3>3, <3>4, <4>1 DEF Pends
    <3>6. Pends("inserts", g.table)' \/ InsertsKnown(g.table)'
      <4>1. CASE <<"inserts", g.table>> = Head(todo)
        <5>1. g.table = t /\ inserts'[t] = Lacking(t)
          BY <1>1, <2>2, <4>1 DEF DiffTypes
        <5>2. ASSUME NEW k \in Key PROVE Lacks(committed, t, k)' => k \in inserts'[t]
          BY <1>1, <2>2, <5>1 DEF Lacks, Lacking
        <5> QED
          BY <5>1, <5>2 DEF InsertsKnown
      <4>2. CASE <<"inserts", g.table>> # Head(todo)
        <5>1. InsertsKnown(g.table) => InsertsKnown(g.table)'
          <6>1. inserts'[g.table] = inserts[g.table]
            BY <1>1, <2>2, <3>1, <4>2 DEF DiffTypes
          <6> QED
            BY <1>1, <6>1 DEF InsertsKnown, Lacks, Meddled
        <5> QED
          BY <3>2, <3>3, <4>2, <5>1 DEF Pends
      <4> QED
        BY <4>1, <4>2
    <3>7. Pends("updates", g.table)' \/ UpdatesKnown(g.table)'
      <4>1. CASE <<"updates", g.table>> = Head(todo)
        <5>1. g.table = t /\ updates'[t] = Differing(t)
          BY <1>1, <2>2, <4>1 DEF DiffTypes
        <5>2. ASSUME NEW k \in Key PROVE Differs(committed, t, k)' => k \in updates'[t]
          BY <1>1, <2>2, <5>1 DEF Differs, Differing
        <5> QED
          BY <5>1, <5>2 DEF UpdatesKnown
      <4>2. CASE <<"updates", g.table>> # Head(todo)
        <5>1. UpdatesKnown(g.table) => UpdatesKnown(g.table)'
          <6>1. updates'[g.table] = updates[g.table]
            BY <1>1, <2>2, <3>1, <4>2 DEF DiffTypes
          <6> QED
            BY <1>1, <6>1 DEF UpdatesKnown, Differs, Meddled
        <5> QED
          BY <3>2, <3>3, <4>2, <5>1 DEF Pends
      <4> QED
        BY <4>1, <4>2
    <3>8. g.prune => Pends("deletes", g.table)' \/ DeletesKnown(g.table)'
      <4>1. CASE <<"deletes", g.table>> = Head(todo)
        <5>1. g.table = t /\ deletes'[t] = Surplus(t)
          BY <1>1, <2>2, <4>1 DEF DiffTypes
        <5>2. ASSUME NEW k \in Key PROVE Exceeds(committed, t, k)' => k \in deletes'[t]
          BY <1>1, <2>2, <5>1 DEF Exceeds, Surplus
        <5> QED
          BY <5>1, <5>2 DEF DeletesKnown
      <4>2. CASE <<"deletes", g.table>> # Head(todo)
        <5>1. DeletesKnown(g.table) => DeletesKnown(g.table)'
          <6>1. deletes'[g.table] = deletes[g.table]
            BY <1>1, <2>2, <3>1, <4>2 DEF DiffTypes
          <6> QED
            BY <1>1, <6>1 DEF DeletesKnown, Exceeds, Meddled
        <5> QED
          BY <3>2, <3>3, <4>2, <5>1 DEF Pends
      <4> QED
        BY <4>1, <4>2
    <3> QED
      BY <3>5, <3>6, <3>7, <3>8 DEF Gathered
  <2>11. ReadInv'
    <3>1. ToSet(files)' = ToSet(files)
      BY <1>1
    <3> QED
      BY <2>8, <2>9, <2>10, <3>1 DEF ReadInv
  <2> QED
    BY <1>1, <1>2, <2>7, <2>11 DEF ApplyInv, WriteInv, AdvanceInv
<1> QED
  BY <1>3, <1>4

-----------------------------------------------------------------------------
(* The writing half *)

\* Whichever order is tried, it begins with what has been committed, and what
\* is not as declared there is on the list.
LEMMA WritingBegins ==
    ASSUME BaseInv, Sorted, Found, \A f \in ToSet(files) : Known(f), NEW first \in BOOLEAN,
           UNCHANGED <<ForeignKeys, files, committed, order, temp, inserts, updates, deletes, meddled>>,
           pc' = "write", todo' = Statements(first), held' = {},
           \A t \in Table, k \in Key : work'[t][k] = committed[t][k]
    PROVE  WriteInv'
<1>1. files \in Seq(Declaration)
  BY DEF BaseInv
<1>2. /\ todo' \in Writings
      /\ \A f \in ToSet(files) :
           /\ deletes[f.table] # {} => <<"delete", f.table>> \in ToSet(todo')
           /\ updates[f.table] # {} => <<"update", f.table>> \in ToSet(todo')
           /\ inserts[f.table] # {} => <<"insert", f.table>> \in ToSet(todo')
  BY <1>1, StatementsAre
<1>3. (todo \in Writings)' /\ Sorted' /\ Found'
  BY <1>2 DEF Writings, Warranted, Sorted, Contained, Found, Prunes
<1>4. Accounted'
  BY DEF Accounted
<1>5. ASSUME NEW f \in ToSet(files) PROVE Known(f)'
  <2>1. Known(f)
    OBVIOUS
  <2> QED
    BY <2>1 DEF Known, Loaded, ReadsUnseen, TablesOf, Sources, RowsOf, InsertsKnown, UpdatesKnown, DeletesKnown, Lacks, Differs,
                Exceeds, Meddled
<1>6. ASSUME NEW f \in ToSet(files) PROVE Left(f)'
  <2> SUFFICES ASSUME NEW k \in Key, ~ Meddled(f.table, k)'
               PROVE  /\ Lacks(work, f.table, k)' => Pends("insert", f.table)'
                      /\ Differs(work, f.table, k)' => Pends("update", f.table)'
                      /\ f.prune /\ Exceeds(work, f.table, k)' => Pends("delete", f.table)'
    BY DEF Left
  <2>1. f.table \in Table /\ ~ Meddled(f.table, k)
    BY <1>1, DeclaredFiles DEF Meddled
  <2>2. work'[f.table][k] = committed[f.table][k]
    BY <2>1
  <2>3. /\ Lacks(committed, f.table, k) => k \in inserts[f.table]
        /\ Differs(committed, f.table, k) => k \in updates[f.table]
        /\ f.prune /\ Exceeds(committed, f.table, k) => k \in deletes[f.table]
    BY <2>1 DEF Known, InsertsKnown, UpdatesKnown, DeletesKnown
  <2>4. Lacks(work, f.table, k)' => Pends("insert", f.table)'
    BY <1>2, <2>2, <2>3 DEF Lacks, Pends
  <2>5. Differs(work, f.table, k)' => Pends("update", f.table)'
    BY <1>2, <2>2, <2>3 DEF Differs, Pends
  <2>6. f.prune /\ Exceeds(work, f.table, k)' => Pends("delete", f.table)'
    BY <1>2, <2>2, <2>3 DEF Exceeds, Pends
  <2> QED
    BY <2>4, <2>5, <2>6
<1>7. ToSet(files)' = ToSet(files)
  OBVIOUS
<1> QED
  BY <1>3, <1>4, <1>5, <1>6, <1>7 DEF WriteInv

\* With the reads done, all is known.
LEMMA BeginWritesKeeps == ASSUME ApplyInv, BeginWrites PROVE ApplyInv'
<1>1. /\ pc = "plan" /\ todo = <<>> /\ command = "apply" /\ pc' = "write" /\ todo' = Statements(TRUE)
      /\ UNCHANGED <<ForeignKeys, files, committed, work, held, command, order, temp, inserts, updates,
                     deletes, missing, meddled>>
  BY DEF BeginWrites, tables, diff, ghosts
<1>2. BaseInv'
  BY <1>1 DEF ApplyInv, BaseInv
<1>3. DiffTypes'
  BY <1>1 DEF ApplyInv, DiffTypes
<1>4. BaseInv /\ Sorted /\ Found /\ \A f \in ToSet(files) : Known(f)
  <2>1. Sorted /\ Found /\ \A f \in ToSet(files) : Gathered(f)
    BY <1>1 DEF ApplyInv, ReadInv
  <2>2. \A op, t : ~ Pends(op, t)
    BY <1>1 DEF Pends, ToSet
  <2> QED
    BY <2>1, <2>2 DEF ApplyInv, Gathered, Known
<1>5. held' = {} /\ \A t \in Table, k \in Key : work'[t][k] = committed[t][k]
  BY <1>1 DEF ApplyInv, BaseInv
<1>6. WriteInv'
  BY <1>1, <1>4, <1>5, WritingBegins
<1> QED
  BY <1>1, <1>2, <1>3, <1>6 DEF ApplyInv, ReadInv, AdvanceInv

\* The second order begins again, from what is committed now.
LEMMA SecondOrderKeeps ==
    ASSUME ApplyInv, TraceInv, NEW t \in Table, SecondOrder(t)
    PROVE  ApplyInv'
<1>1. /\ pc \in {"write", "insert"} /\ pc' = "write" /\ todo' = Statements(FALSE)
      /\ held' = {} /\ work' = committed /\ missing' = {}
      /\ UNCHANGED <<ForeignKeys, files, committed, command, order, temp, inserts, updates, deletes, meddled>>
  BY DEF SecondOrder, Violates, Due, diff, ghosts
<1>2. command = "apply"
  BY <1>1, Applying DEF ApplyInv
<1>3. BaseInv'
  BY <1>1 DEF ApplyInv, BaseInv
<1>4. DiffTypes'
  BY <1>1, <1>2 DEF ApplyInv, DiffTypes
<1>5. BaseInv /\ Sorted /\ Found /\ \A f \in ToSet(files) : Known(f)
  BY <1>1, <1>2 DEF ApplyInv, WriteInv
<1>6. WriteInv'
  BY <1>1, <1>5, WritingBegins
<1> QED
  BY <1>1, <1>2, <1>3, <1>4, <1>6 DEF ApplyInv, ReadInv, AdvanceInv

\* A row that m8 finds to be unlike its declaration is one it has reported, or
\* an application's.
LEMMA UnlikeIsListed ==
    ASSUME BaseInv, Accounted, NEW f \in ToSet(files), Known(f), NEW k \in Key,
           Lacks(work, f.table, k) \/ Differs(work, f.table, k) \/ (f.prune /\ Exceeds(work, f.table, k))
    PROVE  Listed(f.table, k)
<1>1. f.table \in Table
  BY DeclaredFiles DEF BaseInv
<1>2. CASE <<f.table, k>> \in held
  BY <1>1, <1>2 DEF Accounted
<1>3. CASE <<f.table, k>> \notin held
  <2>1. work[f.table][k] = committed[f.table][k]
    BY <1>1, <1>3 DEF BaseInv
  <2>2. \/ Lacks(committed, f.table, k) \/ Differs(committed, f.table, k)
        \/ (f.prune /\ Exceeds(committed, f.table, k))
    BY <2>1 DEF Lacks, Differs, Exceeds
  <2> QED
    BY <2>2 DEF Known, InsertsKnown, UpdatesKnown, DeletesKnown, Listed
<1> QED
  BY <1>2, <1>3

\* A statement of the writing half: it leaves what it is about as declared, but
\* for what applications did.
LEMMA WritingKeeps ==
    ASSUME ApplyInv, command = "apply", pc \in {"write", "insert"}, NEW op, NEW t \in Table,
           todo # <<>>, Head(todo) = <<op, t>>, todo' = Tail(todo), pc' = "write",
           t \in TablesOf(files), NEW S \in SUBSET Key, WritesRows(t, S), missing' \subseteq Key,
           \A k \in S : Listed(t, k) /\ (temp[t][k] = Absent => Prunes(t)),
           op = "insert" => \A k \in Key : Meddled(t, k) \/ (Lacks(work, t, k) => k \in S),
           op = "update" => \A k \in Key : Meddled(t, k) \/ (Differs(work, t, k) => k \in S),
           op = "delete" => \A k \in Key : Meddled(t, k) \/ (Exceeds(work, t, k) => k \in S)
    PROVE  ApplyInv'
<1>1. /\ BaseInv /\ DiffTypes /\ todo \in Writings /\ Sorted /\ Found /\ Accounted
      /\ \A f \in ToSet(files) : Known(f) /\ Left(f)
  BY DEF ApplyInv, WriteInv
<1>2. UNCHANGED <<ForeignKeys, files, committed, command, order, temp, inserts, updates, deletes, meddled>>
  BY DEF WritesRows
<1>3. /\ work' \in [Table -> Rows] /\ held' \subseteq Table \X Key
      /\ \A s \in Table : s # t => work'[s] = work[s]
      /\ \A k \in Key : work'[t][k] = IF k \in S THEN temp[t][k] ELSE work[t][k]
      /\ \A s \in Table, k \in Key : <<s, k>> \in held' <=> <<s, k>> \in held \/ (s = t /\ k \in S)
  BY <1>1, WrittenIs DEF DiffTypes
<1>4. BaseInv'
  <2>1. \A s \in Table, k \in Key : <<s, k>> \notin held' => work'[s][k] = committed'[s][k]
    <3> SUFFICES ASSUME NEW s \in Table, NEW k \in Key, <<s, k>> \notin held'
                 PROVE  work'[s][k] = committed'[s][k]
      OBVIOUS
    <3>1. <<s, k>> \notin held /\ (s = t => k \notin S)
      BY <1>3
    <3>2. work'[s][k] = work[s][k]
      BY <1>3, <3>1
    <3> QED
      BY <1>1, <1>2, <3>1, <3>2 DEF BaseInv
  <2> QED
    BY <1>1, <1>2, <1>3, <2>1 DEF BaseInv
<1>5. DiffTypes'
  BY <1>1, <1>2 DEF DiffTypes
<1>6. (todo \in Writings)' /\ Sorted' /\ Found'
  <2>1. Tail(todo) \in Writings
    BY <1>1, WritingTail
  <2> QED
    BY <1>1, <1>2, <2>1 DEF Writings, Warranted, Sorted, Contained, Found, Prunes
<1>7. Accounted'
  <2> SUFFICES ASSUME NEW s \in Table, NEW k \in Key, <<s, k>> \in held'
               PROVE  /\ s \in TablesOf(files) /\ Listed(s, k)
                      /\ work'[s][k] = Absent => Prunes(s) /\ temp[s][k] = Absent
    BY <1>2 DEF Accounted, Listed, Prunes, Meddled
  <2>1. CASE s = t /\ k \in S
    <3>1. work'[s][k] = temp[s][k]
      BY <1>3, <2>1
    <3> QED
      BY <2>1, <3>1
  <2>2. CASE ~ (s = t /\ k \in S)
    <3>1. <<s, k>> \in held /\ work'[s][k] = work[s][k]
      BY <1>3, <2>2
    <3> QED
      BY <1>1, <3>1 DEF Accounted
  <2> QED
    BY <2>1, <2>2
<1>8. ASSUME NEW f \in ToSet(files) PROVE Known(f)'
  <2>1. Known(f)
    BY <1>1
  <2> QED
    BY <1>2, <2>1 DEF Known, Loaded, ReadsUnseen, TablesOf, Sources, RowsOf, InsertsKnown, UpdatesKnown, DeletesKnown, Lacks, Differs,
                      Exceeds, Meddled
<1>9. ASSUME NEW f \in ToSet(files) PROVE Left(f)'
  <2> SUFFICES ASSUME NEW k \in Key, ~ Meddled(f.table, k)'
               PROVE  /\ Lacks(work, f.table, k)' => Pends("insert", f.table)'
                      /\ Differs(work, f.table, k)' => Pends("update", f.table)'
                      /\ f.prune /\ Exceeds(work, f.table, k)' => Pends("delete", f.table)'
    BY DEF Left
  <2>1. f.table \in Table /\ ~ Meddled(f.table, k)
    BY <1>1, <1>2, DeclaredFiles DEF Meddled, BaseInv
  <2>2. ToSet(todo) = {<<op, t>>} \cup ToSet(Tail(todo))
    BY <1>1, TailApart DEF Writings
  <2>3. /\ Lacks(work, f.table, k) => Pends("insert", f.table)
        /\ Differs(work, f.table, k) => Pends("update", f.table)
        /\ f.prune /\ Exceeds(work, f.table, k) => Pends("delete", f.table)
    BY <1>1, <2>1 DEF Left
  <2>4. CASE f.table = t /\ k \in S
    <3>1. work'[f.table][k] = temp[f.table][k]
      BY <1>3, <2>4
    <3> QED
      BY <1>2, <3>1 DEF Lacks, Differs, Exceeds
  <2>5. CASE ~ (f.table = t /\ k \in S)
    <3>1. work'[f.table][k] = work[f.table][k]
      BY <1>3, <2>1, <2>5
    <3>2. ASSUME NEW o, Pends(o, f.table), ~ (o = op /\ f.table = t) PROVE Pends(o, f.table)'
      BY <2>2, <3>2 DEF Pends
    <3>3. Lacks(work, f.table, k)' => Pends("insert", f.table)'
      <4> SUFFICES ASSUME Lacks(work, f.table, k)' PROVE Pends("insert", f.table)'
        OBVIOUS
      <4>1. Lacks(work, f.table, k)
        BY <1>2, <3>1 DEF Lacks
      <4>2. ~ ("insert" = op /\ f.table = t)
        BY <2>1, <2>5, <4>1
      <4>3. Pends("insert", f.table)
        BY <2>3, <4>1
      <4> QED
        BY <2>2, <4>2, <4>3 DEF Pends
    <3>4. Differs(work, f.table, k)' => Pends("update", f.table)'
      <4> SUFFICES ASSUME Differs(work, f.table, k)' PROVE Pends("update", f.table)'
        OBVIOUS
      <4>1. Differs(work, f.table, k)
        BY <1>2, <3>1 DEF Differs
      <4>2. ~ ("update" = op /\ f.table = t)
        BY <2>1, <2>5, <4>1
      <4>3. Pends("update", f.table)
        BY <2>3, <4>1
      <4> QED
        BY <2>2, <4>2, <4>3 DEF Pends
    <3>5. f.prune /\ Exceeds(work, f.table, k)' => Pends("delete", f.table)'
      <4> SUFFICES ASSUME f.prune, Exceeds(work, f.table, k)' PROVE Pends("delete", f.table)'
        OBVIOUS
      <4>1. Exceeds(work, f.table, k)
        BY <1>2, <3>1 DEF Exceeds
      <4>2. ~ ("delete" = op /\ f.table = t)
        BY <2>1, <2>5, <4>1
      <4>3. Pends("delete", f.table)
        BY <2>3, <4>1
      <4> QED
        BY <2>2, <4>2, <4>3 DEF Pends
    <3> QED
      BY <3>3, <3>4, <3>5
  <2> QED
    BY <2>4, <2>5
<1>10. WriteInv'
  <2>1. ToSet(files)' = ToSet(files)
    BY <1>2
  <2> QED
    BY <1>6, <1>7, <1>8, <1>9, <2>1 DEF WriteInv
<1> QED
  BY <1>4, <1>5, <1>10 DEF ApplyInv, ReadInv, AdvanceInv

\* The three statements.
LEMMA WritesKeep ==
    ASSUME ApplyInv, TraceInv, NEW t \in Table, Delete(t) \/ Update(t) \/ InsertRows(t)
    PROVE  ApplyInv'
<1>1. pc \in {"write", "insert"} /\ todo # <<>> /\ todo' = Tail(todo) /\ pc' = "write"
  BY DEF Delete, Update, InsertRows, Due
<1>2. command = "apply"
  BY <1>1, Applying DEF ApplyInv
<1>3. /\ BaseInv /\ DiffTypes /\ todo \in Writings /\ Sorted /\ Found /\ Accounted
      /\ \A f \in ToSet(files) : Known(f) /\ Left(f)
  BY <1>1, <1>2 DEF ApplyInv, WriteInv
<1>4. Warranted(Head(todo))
  BY <1>1, <1>3, WritingTail
<1>5. CASE Delete(t)
  <2> DEFINE S == Surplus(t)
  <2>1. Head(todo) = <<"delete", t>> /\ missing' = missing
    BY <1>5 DEF Delete, Due
  <2>2. Prunes(t)
    BY <1>3, <1>4, <2>1 DEF Warranted, Found
  <2>3. WritesRows(t, S)
    BY <1>3, <1>5, <2>2, DeletesAreContained DEF DiffTypes
  <2>4. PICK f \in ToSet(files) : f.table = t /\ f.prune
    BY <2>2 DEF Prunes
  <2>5. t \in TablesOf(files)
    BY <2>4 DEF TablesOf
  <2>6. \A k \in S : Listed(t, k) /\ (temp[t][k] = Absent => Prunes(t))
    <3> SUFFICES ASSUME NEW k \in S PROVE Listed(t, k)
      BY <2>2
    <3>1. k \in Key /\ Exceeds(work, t, k)
      BY DEF Surplus, Exceeds
    <3> QED
      BY <1>3, <2>4, <3>1, UnlikeIsListed
  <2>7. S \in SUBSET Key /\ \A k \in Key : Meddled(t, k) \/ (Exceeds(work, t, k) => k \in S)
    BY DEF Surplus, Exceeds
  <2>8. "delete" # "insert" /\ "delete" # "update" /\ missing' \subseteq Key
    BY <1>3, <2>1 DEF DiffTypes
  <2> HIDE DEF S
  <2> QED
    BY <1>1, <1>2, <2>1, <2>3, <2>5, <2>6, <2>7, <2>8, WritingKeeps
<1>6. CASE Update(t)
  <2> DEFINE S == Differing(t)
  <2>1. Head(todo) = <<"update", t>> /\ missing' = missing
    BY <1>6 DEF Update, Due
  <2>2. WritesRows(t, S)
    BY <1>6 DEF Update, WritesRows, Lock, diff, ghosts
  <2>3. t \in TablesOf(files)
    BY <1>3, <1>4, <2>1 DEF Warranted, Found
  <2>4. PICK f \in ToSet(files) : f.table = t
    BY <2>3 DEF TablesOf
  <2>5. \A k \in S : Listed(t, k) /\ (temp[t][k] = Absent => Prunes(t))
    <3> SUFFICES ASSUME NEW k \in S PROVE Listed(t, k) /\ temp[t][k] # Absent
      OBVIOUS
    <3>1. k \in Key /\ Differs(work, t, k) /\ temp[t][k] # Absent
      BY DEF Differing, Differs
    <3> QED
      BY <1>3, <2>4, <3>1, UnlikeIsListed
  <2>6. S \in SUBSET Key /\ \A k \in Key : Meddled(t, k) \/ (Differs(work, t, k) => k \in S)
    BY DEF Differing, Differs
  <2>7. "update" # "insert" /\ "update" # "delete" /\ missing' \subseteq Key
    BY <1>3, <2>1 DEF DiffTypes
  <2> HIDE DEF S
  <2> QED
    BY <1>1, <1>2, <2>1, <2>2, <2>3, <2>5, <2>6, <2>7, WritingKeeps
<1>7. CASE InsertRows(t)
  <2>1. Head(todo) = <<"insert", t>> /\ missing' = {} /\ pc = "insert"
    BY <1>7 DEF InsertRows, Due
  <2>2. WritesRows(t, missing)
    BY <1>7 DEF InsertRows, WritesRows, Lock, diff, ghosts
  <2>3. t \in TablesOf(files)
    BY <1>3, <1>4, <2>1 DEF Warranted, Found
  <2>4. PICK f \in ToSet(files) : f.table = t
    BY <2>3 DEF TablesOf
  <2>5. \A k \in missing : Listed(t, k) /\ (temp[t][k] = Absent => Prunes(t))
    BY <1>3, <2>1 DEF Accounted
  <2>6. missing \in SUBSET Key /\ \A k \in Key : Meddled(t, k) \/ (Lacks(work, t, k) => k \in missing)
    BY <1>3, <2>1, <2>4 DEF Left, DiffTypes
  <2>7. "insert" # "update" /\ "insert" # "delete" /\ missing' \subseteq Key
    BY <2>1
  <2> QED
    BY <1>1, <1>2, <2>1, <2>2, <2>3, <2>5, <2>6, <2>7, WritingKeeps
<1> QED
  BY <1>5, <1>6, <1>7

\* The scan finds every row that is missing; those that appear later are meddled with.
LEMMA InsertScanKeeps ==
    ASSUME ApplyInv, TraceInv, NEW t \in Table, InsertScan(t)
    PROVE  ApplyInv'
<1>1. /\ pc = "write" /\ todo # <<>> /\ Head(todo) = <<"insert", t>> /\ pc' = "insert"
      /\ missing' = Lacking(t)
      /\ UNCHANGED <<ForeignKeys, files, committed, work, held, command, order, temp, inserts, updates,
                     deletes, meddled, todo>>
  BY DEF InsertScan, Due, tables, diff, ghosts
<1>2. command = "apply"
  BY <1>1, Applying DEF ApplyInv
<1>3. /\ BaseInv /\ DiffTypes /\ todo \in Writings /\ Sorted /\ Found /\ Accounted
      /\ \A f \in ToSet(files) : Known(f) /\ Left(f)
  BY <1>1, <1>2 DEF ApplyInv, WriteInv
<1>4. BaseInv' /\ DiffTypes'
  BY <1>1, <1>3 DEF BaseInv, DiffTypes, Lacking
<1>5. (todo \in Writings)' /\ Sorted' /\ Found'
  BY <1>1, <1>3 DEF Writings, Warranted, Sorted, Contained, Found, Prunes
<1>6. PICK f \in ToSet(files) : f.table = t
  <2>1. Warranted(Head(todo))
    BY <1>1, <1>3, WritingTail
  <2> QED
    BY <1>1, <1>3, <2>1 DEF Warranted, Found, TablesOf
<1>7. Accounted'
  <2>1. \A k \in Lacking(t) : temp[t][k] # Absent /\ Listed(t, k)
    <3> SUFFICES ASSUME NEW k \in Lacking(t) PROVE temp[t][k] # Absent /\ Listed(t, k)
      OBVIOUS
    <3>1. k \in Key /\ Lacks(work, t, k) /\ temp[t][k] # Absent
      BY DEF Lacking, Lacks
    <3> QED
      BY <1>3, <1>6, <3>1, UnlikeIsListed
  <2>2. \A s \in Table : Head(todo) = <<"insert", s>> => s = t
    BY <1>1
  <2>3. \A s, k : Listed(s, k)' <=> Listed(s, k)
    BY <1>1 DEF Listed, Meddled
  <2>4. \A s : Prunes(s)' <=> Prunes(s)
    BY <1>1 DEF Prunes
  <2>5. ASSUME NEW s \in Table, Head(todo') = <<"insert", s>>, NEW k \in missing'
        PROVE  temp'[s][k] # Absent /\ Listed(s, k)'
    BY <1>1, <2>1, <2>2, <2>3, <2>5
  <2>6. ASSUME NEW s \in Table, NEW k \in Key, <<s, k>> \in held'
        PROVE  /\ s \in TablesOf(files)' /\ Listed(s, k)'
               /\ work'[s][k] = Absent => Prunes(s)' /\ temp'[s][k] = Absent
    BY <1>1, <1>3, <2>3, <2>4, <2>6 DEF Accounted
  <2> QED
    BY <2>5, <2>6 DEF Accounted
<1>8. ASSUME NEW g \in ToSet(files) PROVE Known(g)'
  <2>1. Known(g)
    BY <1>3
  <2> QED
    BY <1>1, <2>1 DEF Known, Loaded, ReadsUnseen, TablesOf, Sources, RowsOf, InsertsKnown, UpdatesKnown, DeletesKnown, Lacks, Differs,
                      Exceeds, Meddled
<1>9. ASSUME NEW g \in ToSet(files) PROVE Left(g)'
  <2>1. Left(g)
    BY <1>3
  <2>2. ASSUME NEW k \in Key, Lacks(work, g.table, k), Head(todo) = <<"insert", g.table>>
        PROVE  k \in missing'
    <3>1. g.table = t
      BY <1>1, <2>2
    <3> QED
      BY <1>1, <2>2, <3>1 DEF Lacks, Lacking
  <2> QED
    BY <1>1, <2>1, <2>2 DEF Left, Lacks, Differs, Exceeds, Meddled, Pends
<1>10. WriteInv'
  <2>1. ToSet(files)' = ToSet(files)
    BY <1>1
  <2> QED
    BY <1>5, <1>7, <1>8, <1>9, <2>1 DEF WriteInv
<1> QED
  BY <1>1, <1>4, <1>10 DEF ApplyInv, ReadInv, AdvanceInv

-----------------------------------------------------------------------------
(* The sequences *)

\* No row that is there has a key above the highest.
LEMMA HighestIsTop ==
    ASSUME NEW t \in Table, NEW k \in Key, work[t][k] # Absent
    PROVE  k <= Highest(t)
<1> DEFINE used == {j \in Key : work[t][j] # Absent}
<1>1. used \in (SUBSET Key) \ {{}} /\ k \in used
  OBVIOUS
<1>2. \E j \in used : \A i \in used : i <= j
  BY <1>1, ReferenceAssumption
<1>3. Highest(t) = CHOOSE j \in used : \A i \in used : i <= j
  BY <1>1 DEF Highest
<1> HIDE DEF used
<1>4. \A i \in used : i <= Highest(t)
  BY <1>2, <1>3
<1> QED
  BY <1>1, <1>4

\* With the writes done, nothing is left but sequences.
LEMMA BeginAdvanceKeeps == ASSUME ApplyInv, TraceInv, BeginAdvance PROVE ApplyInv'
<1>1. /\ pc = "write" /\ todo = <<>> /\ pc' = "advance" /\ todo' = Sequences
      /\ UNCHANGED <<ForeignKeys, files, committed, work, held, seq, command, order, temp, inserts, updates,
                     deletes, meddled, missing, aim>>
  BY DEF BeginAdvance, tables, diff, ghosts
<1>2. command = "apply"
  BY <1>1, Applying DEF ApplyInv
<1>3. /\ BaseInv /\ DiffTypes /\ Sorted /\ Found /\ Accounted
      /\ \A f \in ToSet(files) : Known(f) /\ Left(f)
  BY <1>1, <1>2 DEF ApplyInv, WriteInv
<1>4. BaseInv' /\ DiffTypes'
  BY <1>1, <1>3 DEF BaseInv, DiffTypes
<1>5. Sorted'
  BY <1>1, <1>3 DEF Sorted, Contained
<1>6. Accounted'
  BY <1>1, <1>3 DEF Accounted, Listed, Meddled, Prunes
<1>7. /\ todo' \in Seq({"advance"} \X Table)
      /\ \A f \in ToSet(files) : f.table \in Serial /\ inserts[f.table] # {} =>
                                   <<"advance", f.table>> \in ToSet(todo')
  BY <1>1, <1>3, SequencesAre DEF BaseInv
<1>8. \A t \in Serial : inserts'[t] # {} => Pends("advance", t)'
  <2> SUFFICES ASSUME NEW t \in Serial, inserts[t] # {} PROVE Pends("advance", t)'
    BY <1>1
  <2>1. t \in Table
    BY ReferenceAssumption
  <2>2. PICK f \in ToSet(files) : f.table = t
    BY <1>3, <2>1 DEF Found, TablesOf
  <2> QED
    BY <1>7, <2>2 DEF Pends
<1>9. aim' = 0
  BY <1>1 DEF TraceInv, AimInv
<1>10. ASSUME NEW f \in ToSet(files) PROVE Known(f)' /\ Left(f)'
  <2>1. Known(f) /\ Left(f)
    BY <1>3
  <2>2. Known(f)'
    BY <1>1, <2>1 DEF Known, Loaded, ReadsUnseen, TablesOf, Sources, RowsOf, InsertsKnown, UpdatesKnown, DeletesKnown, Lacks, Differs,
                      Exceeds, Meddled
  <2>3. \A op : ~ Pends(op, f.table)
    BY <1>1 DEF Pends, ToSet
  <2>4. \A k \in Key : \/ Meddled(f.table, k)
                       \/ /\ ~ Lacks(work, f.table, k) /\ ~ Differs(work, f.table, k)
                          /\ ~ (f.prune /\ Exceeds(work, f.table, k))
    BY <2>1, <2>3 DEF Left
  <2>5. Left(f)'
    BY <1>1, <2>4 DEF Left, Lacks, Differs, Exceeds, Meddled
  <2> QED
    BY <2>2, <2>5
<1>11. AdvanceInv'
  <2>1. ToSet(files)' = ToSet(files)
    BY <1>1
  <2> QED
    BY <1>5, <1>6, <1>7, <1>8, <1>9, <1>10, <2>1 DEF AdvanceInv
<1> QED
  BY <1>1, <1>4, <1>11 DEF ApplyInv, ReadInv, WriteInv

\* What the two steps of an advance leave alone.
LEMMA AdvancingKeeps ==
    ASSUME ApplyInv, command = "apply", pc = "advance", NEW t \in Table, todo # <<>>,
           Head(todo) = <<"advance", t>>, todo' = todo \/ todo' = Tail(todo),
           UNCHANGED <<ForeignKeys, files, committed, work, held, pc, command, order, temp, inserts,
                       updates, deletes, meddled, missing>>,
           \A s \in Serial : inserts[s] # {} => Pends("advance", s)' \/ Covered(s)',
           aim' # 0 => \A s \in Table : Head(todo') = <<"advance", s>> =>
             \A k \in Key : <<s, k>> \in held /\ work[s][k] # Absent => k <= aim'
    PROVE  ApplyInv'
<1>1. /\ BaseInv /\ DiffTypes /\ todo \in Seq({"advance"} \X Table) /\ Sorted /\ Accounted
      /\ \A f \in ToSet(files) : Known(f) /\ Left(f)
  BY DEF ApplyInv, AdvanceInv
<1>2. BaseInv' /\ DiffTypes'
  BY <1>1 DEF BaseInv, DiffTypes
<1>3. Sorted'
  BY <1>1 DEF Sorted, Contained
<1>4. Accounted'
  BY <1>1 DEF Accounted, Listed, Meddled, Prunes
<1>5. /\ todo' \in Seq({"advance"} \X Table)
      /\ ToSet(todo) \subseteq {<<"advance", t>>} \cup ToSet(todo')
  BY <1>1, TailApart
<1>6. ASSUME NEW f \in ToSet(files) PROVE Known(f)' /\ Left(f)'
  <2>1. Known(f) /\ Left(f)
    BY <1>1
  <2>2. Known(f)'
    BY <2>1 DEF Known, Loaded, ReadsUnseen, TablesOf, Sources, RowsOf, InsertsKnown, UpdatesKnown, DeletesKnown, Lacks, Differs,
                Exceeds, Meddled
  <2>3. /\ Pends("insert", f.table) => Pends("insert", f.table)'
        /\ Pends("update", f.table) => Pends("update", f.table)'
        /\ Pends("delete", f.table) => Pends("delete", f.table)'
    BY <1>5 DEF Pends
  <2>4. ASSUME NEW k \in Key
        PROVE  /\ Lacks(work, f.table, k)' <=> Lacks(work, f.table, k)
               /\ Differs(work, f.table, k)' <=> Differs(work, f.table, k)
               /\ Exceeds(work, f.table, k)' <=> Exceeds(work, f.table, k)
               /\ Meddled(f.table, k)' <=> Meddled(f.table, k)
    BY DEF Lacks, Differs, Exceeds, Meddled
  <2>5. Left(f)'
    BY <2>1, <2>3, <2>4 DEF Left
  <2> QED
    BY <2>2, <2>5
<1>7. AdvanceInv'
  <2>1. ToSet(files)' = ToSet(files)
    OBVIOUS
  <2> QED
    BY <1>3, <1>4, <1>5, <1>6, <2>1 DEF AdvanceInv
<1> QED
  BY <1>2, <1>7 DEF ApplyInv, ReadInv, WriteInv

\* A sequence that need not move covers its rows already.
LEMMA AdvanceScanKeeps ==
    ASSUME ApplyInv, TraceInv, NEW t \in Table, AdvanceScan(t)
    PROVE  ApplyInv'
<1>1. /\ pc = "advance" /\ todo # <<>> /\ Head(todo) = <<"advance", t>> /\ aim = 0
      /\ UNCHANGED <<ForeignKeys, files, committed, work, held, seq, pc, command, order, temp, inserts,
                     updates, deletes, meddled, missing>>
      /\ \/ Highest(t) > seq[t] /\ aim' = Highest(t) /\ todo' = todo
         \/ ~ (Highest(t) > seq[t]) /\ todo' = Tail(todo) /\ aim' = aim
  BY DEF AdvanceScan, Due, tables, diff
<1>2. command = "apply"
  BY <1>1, Applying DEF ApplyInv
<1>3. /\ todo \in Seq({"advance"} \X Table) /\ seq[t] \in Nat /\ Highest(t) \in Nat
      /\ \A s \in Serial : inserts[s] # {} => Pends("advance", s) \/ Covered(s)
  BY <1>1, <1>2, HighestIsNat DEF ApplyInv, AdvanceInv, TraceInv, AimInv
<1>4. \A s \in Table : Head(todo) = <<"advance", s>> => s = t
  BY <1>1
<1>5. \A s \in Serial : Covered(s) => Covered(s)'
  BY <1>1 DEF Covered
<1>6. CASE Highest(t) > seq[t]
  <2>1. aim' = Highest(t) /\ todo' = todo
    BY <1>1, <1>6
  <2>2. \A s \in Serial : inserts[s] # {} => Pends("advance", s)' \/ Covered(s)'
    BY <1>3, <1>5, <2>1 DEF Pends
  <2>3. \A s \in Table : Head(todo') = <<"advance", s>> =>
             \A k \in Key : <<s, k>> \in held /\ work[s][k] # Absent => k <= aim'
    BY <1>4, <2>1, HighestIsTop
  <2> QED
    BY <1>1, <1>2, <2>1, <2>2, <2>3, AdvancingKeeps
<1>7. CASE ~ (Highest(t) > seq[t])
  <2>1. aim' = 0 /\ todo' = Tail(todo)
    BY <1>1, <1>7
  <2>2. Covered(t)'
    <3> SUFFICES ASSUME NEW k \in Key, work[t][k] # Absent PROVE k <= seq[t]
      BY <1>1 DEF Covered
    <3>1. k <= Highest(t) /\ k \in Nat
      BY HighestIsTop, ReferenceAssumption
    <3> QED
      BY <1>3, <1>7, <3>1
  <2>3. ToSet(todo) = {<<"advance", t>>} \cup ToSet(todo')
    BY <1>1, <1>3, <2>1, TailApart
  <2>4. \A s \in Serial : inserts[s] # {} => Pends("advance", s)' \/ Covered(s)'
    <3> SUFFICES ASSUME NEW s \in Serial, inserts[s] # {} PROVE Pends("advance", s)' \/ Covered(s)'
      OBVIOUS
    <3>1. CASE s = t
      BY <2>2, <3>1
    <3>2. CASE s # t
      BY <1>3, <1>5, <2>3, <3>2 DEF Pends
    <3> QED
      BY <3>1, <3>2
  <2> QED
    BY <1>1, <1>2, <2>1, <2>4, AdvancingKeeps
<1> QED
  BY <1>6, <1>7

\* One that is set is set to the highest key.
LEMMA AdvanceSetKeeps ==
    ASSUME ApplyInv, TraceInv, NEW t \in Table, AdvanceSet(t)
    PROVE  ApplyInv'
<1>1. /\ pc = "advance" /\ todo # <<>> /\ Head(todo) = <<"advance", t>> /\ aim # 0 /\ aim' = 0
      /\ todo' = Tail(todo) /\ seq' = [seq EXCEPT ![t] = aim]
      /\ UNCHANGED <<ForeignKeys, files, committed, work, held, pc, command, order, temp, inserts,
                     updates, deletes, meddled, missing>>
  BY DEF AdvanceSet, Due, diff, ghosts
<1>2. command = "apply"
  BY <1>1, Applying DEF ApplyInv
<1>3. /\ todo \in Seq({"advance"} \X Table) /\ seq \in [Table -> Nat]
      /\ \A s \in Serial : inserts[s] # {} => Pends("advance", s) \/ Covered(s)
      /\ \A k \in Key : <<t, k>> \in held /\ work[t][k] # Absent => k <= aim
  BY <1>1, <1>2 DEF ApplyInv, AdvanceInv, TraceInv, AimInv
<1>4. seq'[t] = aim /\ \A s \in Table : s # t => seq'[s] = seq[s]
  BY <1>1, <1>3
<1>5. Covered(t)'
  BY <1>1, <1>3, <1>4 DEF Covered
<1>6. ToSet(todo) = {<<"advance", t>>} \cup ToSet(todo')
  BY <1>1, <1>3, TailApart
<1>7. \A s \in Serial : inserts[s] # {} => Pends("advance", s)' \/ Covered(s)'
  <2> SUFFICES ASSUME NEW s \in Serial, inserts[s] # {} PROVE Pends("advance", s)' \/ Covered(s)'
    OBVIOUS
  <2>1. CASE s = t
    BY <1>5, <2>1
  <2>2. CASE s # t
    <3>1. s \in Table
      BY ReferenceAssumption
    <3>2. Covered(s) => Covered(s)'
      BY <1>1, <1>4, <2>2, <3>1 DEF Covered
    <3> QED
      BY <1>3, <1>6, <2>2, <3>2 DEF Pends
  <2> QED
    BY <2>1, <2>2
<1> QED
  BY <1>1, <1>2, <1>7, AdvancingKeeps

-----------------------------------------------------------------------------
(* Applications *)

\* What m8 knows of a row, it knows until an application has meddled with it.
LEMMA AppKnows ==
    ASSUME BaseInv, DiffTypes, AppSpares, pc # "idle", NEW f \in ToSet(files)
    PROVE  /\ Loaded(f) => Loaded(f)'
           /\ InsertsKnown(f.table) => InsertsKnown(f.table)'
           /\ UpdatesKnown(f.table) => UpdatesKnown(f.table)'
           /\ DeletesKnown(f.table) => DeletesKnown(f.table)'
           /\ Left(f) => Left(f)'
<1>1. f \in Declaration /\ f.table \in Table /\ Sources(f) \subseteq Table
  BY DeclaredFiles, FileFacts DEF BaseInv
<1>2. /\ UNCHANGED <<pc, temp, inserts, updates, deletes, todo, missing>>
      /\ meddled \subseteq meddled'
      /\ \A t \in Table, k \in Key : <<t, k>> \notin meddled' =>
           committed'[t][k] = committed[t][k] /\ work'[t][k] = work[t][k]
  BY DEF AppSpares, diff, write
<1>3. ASSUME NEW k \in Key, ~ Meddled(f.table, k)'
      PROVE  /\ ~ Meddled(f.table, k)
             /\ Lacks(committed, f.table, k)' <=> Lacks(committed, f.table, k)
             /\ Differs(committed, f.table, k)' <=> Differs(committed, f.table, k)
             /\ Exceeds(committed, f.table, k)' <=> Exceeds(committed, f.table, k)
             /\ Lacks(work, f.table, k)' <=> Lacks(work, f.table, k)
             /\ Differs(work, f.table, k)' <=> Differs(work, f.table, k)
             /\ Exceeds(work, f.table, k)' <=> Exceeds(work, f.table, k)
  <2>1. ~ Meddled(f.table, k)
    BY <1>2, <1>3 DEF Meddled
  <2>2. committed'[f.table][k] = committed[f.table][k] /\ work'[f.table][k] = work[f.table][k]
    BY <1>1, <1>2, <1>3 DEF Meddled
  <2> QED
    BY <1>2, <2>1, <2>2 DEF Lacks, Differs, Exceeds
<1>4. ASSUME Loaded(f) PROVE Loaded(f)'
  <2>0. ReadsUnseen(f)' = ReadsUnseen(f)
    BY DEF AppSpares, ReadsUnseen, TablesOf
  <2> SUFFICES ASSUME ~ReadsUnseen(f), \A m \in meddled' : m[1] \notin Sources(f)
               PROVE  temp'[f.table] = RowsOf(f, committed)'
    BY <2>0 DEF Loaded, Sources
  <2>1. temp[f.table] = RowsOf(f, committed)
    BY <1>2, <1>4 DEF Loaded
  <2>2. \A s \in Sources(f), k \in Key : committed'[s][k] = committed[s][k]
    <3> SUFFICES ASSUME NEW s \in Sources(f), NEW k \in Key PROVE committed'[s][k] = committed[s][k]
      OBVIOUS
    <3>1. <<s, k>> \notin meddled'
      OBVIOUS
    <3> QED
      BY <1>1, <1>2, <3>1
  <2>3. PICK now : now = committed'
    OBVIOUS
  <2>4. PICK then : then = committed
    OBVIOUS
  <2>5. RowsOf(f, now) = RowsOf(f, then)
    BY <1>1, <2>2, <2>3, <2>4, RowsOfSame
  <2> QED
    BY <1>2, <2>1, <2>3, <2>4, <2>5 DEF RowsOf, Sources
<1>5. InsertsKnown(f.table) => InsertsKnown(f.table)'
  BY <1>2, <1>3 DEF InsertsKnown
<1>6. UpdatesKnown(f.table) => UpdatesKnown(f.table)'
  BY <1>2, <1>3 DEF UpdatesKnown
<1>7. DeletesKnown(f.table) => DeletesKnown(f.table)'
  BY <1>2, <1>3 DEF DeletesKnown
<1>8. Left(f) => Left(f)'
  BY <1>2, <1>3 DEF Left, Pends
<1> QED
  BY <1>4, <1>5, <1>6, <1>7, <1>8

LEMMA AppKeeps == ASSUME ApplyInv, TraceInv, App PROVE ApplyInv'
<1>1. BaseInv /\ AppSpares
  BY AppsSpare DEF ApplyInv
<1>2. /\ UNCHANGED <<ForeignKeys, files, held, pc, command, order, temp, inserts, updates, deletes, todo,
                     missing, aim>>
      /\ ToSet(files)' = ToSet(files)
  BY <1>1 DEF AppSpares, diff, write
<1>3. BaseInv'
  BY <1>1, <1>2 DEF BaseInv, AppSpares
<1>4. CASE command # "apply"
  <2>1. command # "plan" => DiffTypes'
    <3> SUFFICES ASSUME command = "none" PROVE DiffTypes'
      BY <1>1, <1>4 DEF BaseInv
    <3>1. pc = "idle" /\ DiffTypes
      BY <1>1 DEF ApplyInv, BaseInv
    <3>2. UNCHANGED meddled
      BY <3>1 DEF App, AppPut, AppDelete, AppDefault, AppSets
    <3> QED
      BY <1>2, <3>1, <3>2 DEF DiffTypes
  <2> QED
    BY <1>2, <1>3, <1>4, <2>1 DEF ApplyInv, ReadInv, WriteInv, AdvanceInv
<1>5. CASE command = "apply"
  <2>1. pc # "idle" /\ DiffTypes
    BY <1>1, <1>5 DEF ApplyInv, BaseInv
  <2>2. DiffTypes'
    BY <1>1, <1>2, <2>1 DEF DiffTypes, AppSpares
  <2>3. ASSUME NEW f \in ToSet(files)
        PROVE  /\ Loaded(f) => Loaded(f)'
               /\ InsertsKnown(f.table) => InsertsKnown(f.table)'
               /\ UpdatesKnown(f.table) => UpdatesKnown(f.table)'
               /\ DeletesKnown(f.table) => DeletesKnown(f.table)'
               /\ Left(f) => Left(f)'
    BY <1>1, <2>1, AppKnows
  <2>4. /\ Sorted => Sorted'
        /\ Found => Found'
        /\ todo \in Readings => (todo \in Readings)'
        /\ todo \in Writings => (todo \in Writings)'
    BY <1>2 DEF Sorted, Contained, Found, Prunes, Readings, Follows, Writings, Warranted
  <2>5. ASSUME NEW f \in ToSet(files), Known(f) PROVE Known(f)'
    BY <2>3, <2>5 DEF Known
  <2>6. ASSUME Accounted PROVE Accounted'
    <3>1. \A t, k : Listed(t, k) => Listed(t, k)'
      BY <1>1, <1>2, <2>1 DEF AppSpares, Listed, Meddled
    <3>2. \A t : Prunes(t)' <=> Prunes(t)
      BY <1>2 DEF Prunes
    <3>3. \A t \in Table, k \in Key : <<t, k>> \in held => work'[t][k] = work[t][k]
      BY <1>1 DEF AppSpares
    <3>4. ASSUME NEW t \in Table, NEW k \in Key, <<t, k>> \in held'
          PROVE  /\ t \in TablesOf(files)' /\ Listed(t, k)'
                 /\ work'[t][k] = Absent => Prunes(t)' /\ temp'[t][k] = Absent
      BY <1>2, <2>6, <3>1, <3>2, <3>3, <3>4 DEF Accounted
    <3>5. pc' = "insert" => \A t \in Table : Head(todo') = <<"insert", t>> =>
            \A k \in missing' : temp'[t][k] # Absent /\ Listed(t, k)'
      BY <1>2, <2>6, <3>1 DEF Accounted
    <3> QED
      BY <3>4, <3>5 DEF Accounted
  <2>7. ReadInv'
    <3> SUFFICES ASSUME pc = "plan" PROVE ReadInv'
      BY <1>2 DEF ReadInv
    <3>1. ASSUME NEW f \in ToSet(files) PROVE Gathered(f)'
      <4>1. Gathered(f)
        BY <1>5 DEF ApplyInv, ReadInv
      <4> QED
        BY <1>2, <2>3, <4>1 DEF Gathered, Pends
    <3> QED
      BY <1>2, <1>5, <2>4, <3>1 DEF ApplyInv, ReadInv
  <2>8. WriteInv'
    <3> SUFFICES ASSUME pc \in {"write", "insert"} PROVE WriteInv'
      BY <1>2 DEF WriteInv
    <3> QED
      BY <1>2, <1>5, <2>3, <2>4, <2>5, <2>6 DEF ApplyInv, WriteInv
  <2>9. AdvanceInv'
    <3> SUFFICES ASSUME pc = "advance" PROVE AdvanceInv'
      BY <1>2 DEF AdvanceInv
    <3>1. AdvanceInv /\ seq \in [Table -> Nat]
      BY DEF ApplyInv, TraceInv, AimInv
    <3>2. seq' \in [Table -> Nat] /\ \A t \in Table : seq[t] <= seq'[t]
      <4>1. UNCHANGED seq \/ \E t \in Table : Draw(t)
        BY DEF App, AppPut, AppDelete, AppDefault
      <4>2. CASE UNCHANGED seq
        BY <3>1, <4>2
      <4> QED
        BY <3>1, <4>1, <4>2, DrawAdvances
    <3>3. \A t \in Table, k \in Key : <<t, k>> \in held => work'[t][k] = work[t][k]
      BY <1>1 DEF AppSpares
    <3>4. ASSUME NEW t \in Serial, Covered(t) PROVE Covered(t)'
      <4>1. t \in Table
        BY ReferenceAssumption
      <4> SUFFICES ASSUME NEW k \in Key, <<t, k>> \in held', work'[t][k] # Absent PROVE k <= seq'[t]
        BY DEF Covered
      <4>2. k <= seq[t] /\ k \in Nat
        BY <1>2, <3>3, <3>4, <4>1, ReferenceAssumption DEF Covered
      <4>3. seq[t] \in Nat /\ seq'[t] \in Nat /\ seq[t] <= seq'[t]
        BY <3>1, <3>2, <4>1
      <4> QED
        BY <4>2, <4>3
    <3>5. \A t \in Serial : inserts'[t] # {} => Pends("advance", t)' \/ Covered(t)'
      BY <1>2, <1>5, <3>1, <3>4 DEF AdvanceInv, Pends
    <3>6. aim' # 0 => \A t \in Table : Head(todo') = <<"advance", t>> =>
            \A k \in Key : <<t, k>> \in held' /\ work'[t][k] # Absent => k <= aim'
      BY <1>2, <1>5, <3>1, <3>3 DEF AdvanceInv
    <3>7. /\ (todo \in Seq({"advance"} \X Table))' /\ Sorted' /\ Accounted'
          /\ \A f \in ToSet(files)' : Known(f)' /\ Left(f)'
      BY <1>2, <1>5, <2>3, <2>4, <2>5, <2>6, <3>1 DEF AdvanceInv
    <3> QED
      BY <3>5, <3>6, <3>7 DEF AdvanceInv
  <2> QED
    BY <1>3, <2>2, <2>7, <2>8, <2>9 DEF ApplyInv
<1> QED
  BY <1>4, <1>5

-----------------------------------------------------------------------------
(* Every step keeps the invariant *)

LEMMA ApplyStep == ApplyInv /\ TraceInv /\ [Next]_vars => ApplyInv'
<1> SUFFICES ASSUME ApplyInv, TraceInv, [Next]_vars
             PROVE  ApplyInv'
  OBVIOUS
<1>1. CASE \E cmd \in {"plan", "apply"} : Start(cmd)
  BY <1>1, StartKeeps
<1>2. CASE Refuse \/ PlanDone \/ Fail \/ Commit \/ \E t \in Table : LoadFails(t) \/ BothOrdersFail(t)
  BY <1>2, EndKeeps
<1>3. CASE Resolve
  BY <1>3, ResolveKeeps
<1>4. ASSUME NEW t \in Table, Load(t) \/ Compute(t)
      PROVE  ApplyInv'
  BY <1>4, LoadKeeps, ComputeKeeps
<1>5. CASE BeginWrites \/ BeginAdvance
  BY <1>5, BeginWritesKeeps, BeginAdvanceKeeps
<1>6. ASSUME NEW t \in Table,
             Delete(t) \/ Update(t) \/ InsertScan(t) \/ InsertRows(t) \/ SecondOrder(t)
      PROVE  ApplyInv'
  BY <1>6, WritesKeep, InsertScanKeeps, SecondOrderKeeps
<1>7. ASSUME NEW t \in Table, AdvanceScan(t) \/ AdvanceSet(t)
      PROVE  ApplyInv'
  BY <1>7, AdvanceScanKeeps, AdvanceSetKeeps
<1>8. CASE App
  BY <1>8, AppKeeps
<1>9. CASE UNCHANGED vars
  <2>1. UNCHANGED <<ForeignKeys, files, committed, work, held, pc, command, order, temp, inserts,
                    updates, deletes, todo, missing, aim, seq, meddled>>
    BY <1>9 DEF vars, tables, diff, write, ghosts
  <2>2. BaseInv'
    BY <2>1 DEF ApplyInv, BaseInv
  <2>3. (command # "plan" => DiffTypes)'
    BY <2>1 DEF ApplyInv, DiffTypes
  <2>4. Sorted' = Sorted
    BY <2>1 DEF Sorted, Contained
  <2>5. Found' = Found
    BY <2>1 DEF Found, Prunes
  <2>6. Accounted' = Accounted
    BY <2>1 DEF Accounted, Prunes, Listed, Meddled
  <2>7. \A f : /\ Known(f)' = Known(f)
               /\ Left(f)' = Left(f)
               /\ Gathered(f)' = Gathered(f)
    BY <2>1 DEF Known, Left, Gathered, Loaded, ReadsUnseen, TablesOf, InsertsKnown, UpdatesKnown, DeletesKnown, Meddled,
                Pends, Lacks, Differs, Exceeds
  <2>8. Readings' = Readings /\ Writings' = Writings
    BY <2>1 DEF Readings, Follows, Later, Writings, Warranted
  <2>9. ReadInv'
    BY <2>1, <2>4, <2>5, <2>7, <2>8 DEF ApplyInv, ReadInv
  <2>10. WriteInv'
    BY <2>1, <2>4, <2>5, <2>6, <2>7, <2>8 DEF ApplyInv, WriteInv
  <2>11. AdvanceInv'
    BY <2>1, <2>4, <2>6, <2>7 DEF ApplyInv, AdvanceInv, Pends, Covered
  <2> QED
    BY <2>2, <2>3, <2>9, <2>10, <2>11 DEF ApplyInv
<1> QED
  BY <1>1, <1>2, <1>3, <1>4, <1>5, <1>6, <1>7, <1>8, <1>9 DEF Next, Step

LEMMA ApplyInvariance == Spec => []ApplyInv
<1>1. Init => ApplyInv
  <2> SUFFICES ASSUME Init
               PROVE  ApplyInv
    OBVIOUS
  <2>1. pc = "idle" /\ command = "none" /\ held = {} /\ missing = {} /\ meddled = {} /\ work = committed
    BY DEF Init
  <2>2. files \in Seq(Declaration) /\ committed \in [Table -> Rows] /\ ForeignKeys \in Catalogs
    BY ReferenceAssumption DEF Init
  <2>3. BaseInv
    BY <2>1, <2>2 DEF BaseInv
  <2>4. temp \in [Table -> Rows]
    BY DEF Init, NoRows, Rows
  <2>5. DiffTypes
    BY <2>1, <2>4 DEF DiffTypes, Init, None
  <2> QED
    BY <2>1, <2>3, <2>5 DEF ApplyInv, ReadInv, WriteInv, AdvanceInv
<1>2. Spec => []TraceInv
  BY TraceInvariance
<1> QED
  BY <1>1, <1>2, ApplyStep, PTL DEF Spec

\* Where a run that commits stands: what it was about to write is written.
LEMMA Committing ==
    ASSUME ApplyInv, TraceInv, Commit
    PROVE  /\ Sorted /\ Accounted /\ committed' = work
           /\ \A f \in ToSet(files) : Known(f) /\ f \in Declaration
           /\ \A f \in ToSet(files), k \in Key : Meddled(f.table, k) \/
                /\ ~Lacks(work, f.table, k) /\ ~Differs(work, f.table, k)
                /\ f.prune => ~Exceeds(work, f.table, k)
           /\ \A t \in Serial : inserts[t] # {} => Covered(t)
<1>1. pc = "advance" /\ todo = <<>> /\ committed' = work
  BY DEF Commit
<1>2. command = "apply"
  BY <1>1, Applying DEF ApplyInv
<1>3. /\ Sorted /\ Accounted
      /\ \A f \in ToSet(files) : Known(f) /\ Left(f)
      /\ \A t \in Serial : inserts[t] # {} => Pends("advance", t) \/ Covered(t)
  BY <1>1, <1>2 DEF ApplyInv, AdvanceInv
<1>4. \A op, t : ~Pends(op, t)
  BY <1>1 DEF Pends, ToSet
<1>5. \A f \in ToSet(files) : f \in Declaration
  <2>1. files \in Seq(Declaration)
    BY DEF ApplyInv, BaseInv
  <2> QED
    BY <2>1 DEF ToSet
<1>6. \A f \in ToSet(files), k \in Key : Meddled(f.table, k) \/
        /\ ~Lacks(work, f.table, k) /\ ~Differs(work, f.table, k)
        /\ f.prune => ~Exceeds(work, f.table, k)
  BY <1>3, <1>4 DEF Left
<1> QED
  BY <1>1, <1>3, <1>4, <1>5, <1>6

-----------------------------------------------------------------------------
(* What a commit leaves *)

\* When an apply commits, every declared table is as its query declares it, but
\* for what applications wrote in between (Apply, "m8 makes the table match") -
\* if what the query reads behind a view or a function is declared by no file:
\* such reads are not refused (readsNoDeclaredTable), and what is loaded through
\* them is stale.  The reads that the query names need no premise.
THEOREM AppliesMatch == Spec => MatchesOnApply
<1> DEFINE Matching == Commit => \A f \in ToSet(files) :
             ~ReadsUnseen(f) /\ (\A m \in meddled : m[1] \notin Sources(f)) =>
                 AsDeclared(f, committed', meddled)
<1>1. ApplyInv /\ TraceInv /\ [Next]_vars => [Matching]_vars
  <2> SUFFICES ASSUME ApplyInv, TraceInv, Commit, NEW f \in ToSet(files),
                      ~ReadsUnseen(f), \A m \in meddled : m[1] \notin Sources(f)
               PROVE  AsDeclared(f, committed', meddled)
    OBVIOUS
  <2>1. Sorted /\ Accounted /\ committed' = work /\ Known(f) /\ f \in Declaration
    BY Committing
  <2>2. temp[f.table] = RowsOf(f, committed)
    BY <2>1 DEF Known, Loaded
  <2>3. \A s \in Sources(f), k \in Key : committed[s][k] = work[s][k]
    <3> SUFFICES ASSUME NEW s \in Sources(f), NEW k \in Key
                 PROVE  committed[s][k] = work[s][k]
      OBVIOUS
    <3>1. s \in Table /\ s \notin TablesOf(files)
      BY <2>1, FileFacts DEF Sorted, Sources, ReadsUnseen
    <3>2. <<s, k>> \notin held
      BY <2>1, <3>1 DEF Accounted
    <3> QED
      BY <3>1, <3>2 DEF ApplyInv, BaseInv
  <2>4. RowsOf(f, committed) = RowsOf(f, work)
    BY <2>1, <2>3, RowsOfSame
  <2>5. \A k \in Key : <<f.table, k>> \notin meddled =>
            /\ ~Lacks(work, f.table, k) /\ ~Differs(work, f.table, k)
            /\ f.prune => ~Exceeds(work, f.table, k)
    BY Committing DEF Meddled
  <2>6. \A k \in Key : temp[f.table][k] = RowsOf(f, work)[k]
    BY <2>2, <2>4
  <2>7. \A k \in Key : <<f.table, k>> \notin meddled =>
            /\ RowsOf(f, work)[k] # Absent => work[f.table][k] = RowsOf(f, work)[k]
            /\ f.prune => work[f.table][k] = RowsOf(f, work)[k]
    BY <2>5, <2>6 DEF Lacks, Differs, Exceeds
  <2> QED
    BY <2>1, <2>7 DEF AsDeclared
<1> QED
  BY <1>1, ApplyInvariance, TraceInvariance, PTL DEF Spec, MatchesOnApply

\* An apply writes the rows its diff lists and those an application has touched
\* since, and no other: a row that matches is not written (write).
THEOREM OnlyReportedIsWritten == Spec => WritesWhatItReports
<1> DEFINE Reporting == Commit => \A t \in Table, k \in Key : <<t, k>> \in held =>
             k \in inserts[t] \cup updates[t] \cup deletes[t] \/ <<t, k>> \in meddled
<1>1. ApplyInv /\ TraceInv /\ [Next]_vars => [Reporting]_vars
  BY Committing DEF Accounted, Listed, Meddled
<1> QED
  BY <1>1, ApplyInvariance, TraceInvariance, PTL DEF Spec, WritesWhatItReports

\* A row goes with an apply only if its table's file prunes and does not list
\* it: nothing is dragged along by a foreign key (pruneIsContained).
THEOREM OnlyPrunedIsDeleted == Spec => DeletesOnlyPruned
<1> DEFINE Pruning == Commit => \A t \in Table, k \in Key :
             committed[t][k] # Absent /\ committed'[t][k] = Absent =>
                 \E f \in ToSet(files) : f.table = t /\ f.prune /\ temp[t][k] = Absent
<1>1. ApplyInv /\ TraceInv /\ [Next]_vars => [Pruning]_vars
  <2> SUFFICES ASSUME ApplyInv, TraceInv, Commit, NEW t \in Table, NEW k \in Key,
                      committed[t][k] # Absent, committed'[t][k] = Absent
               PROVE  \E f \in ToSet(files) : f.table = t /\ f.prune /\ temp[t][k] = Absent
    OBVIOUS
  <2>1. Accounted /\ work[t][k] = Absent
    BY Committing
  <2>2. <<t, k>> \in held
    BY <2>1 DEF ApplyInv, BaseInv
  <2> QED
    BY <2>1, <2>2 DEF Accounted, Prunes
<1> QED
  BY <1>1, ApplyInvariance, TraceInvariance, PTL DEF Spec, DeletesOnlyPruned

\* The numbers of the rows an apply has written are behind the sequence when it
\* commits: an application that takes the default gets none of them
\* (advanceSequences).
THEOREM SequencesCoverInserts == Spec => SequenceCoversInserts
<1> DEFINE Covering == Commit => \A t \in Serial, k \in Key :
             inserts[t] # {} /\ <<t, k>> \in held /\ committed'[t][k] # Absent => k <= seq[t]
<1>1. ApplyInv /\ TraceInv /\ [Next]_vars => [Covering]_vars
  BY Committing DEF Covered
<1> QED
  BY <1>1, ApplyInvariance, TraceInvariance, PTL DEF Spec, SequenceCoversInserts
=============================================================================
