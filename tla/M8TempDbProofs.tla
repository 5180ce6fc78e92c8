--------------------------- MODULE M8TempDbProofs ---------------------------
(***************************************************************************)
(* No sweep takes a temporary database from a diff that works with it: for *)
(* every set of processes and databases, every bound, with and without a   *)
(* dedicated shadow.                                                       *)
(***************************************************************************)
EXTENDS M8TempDb, TLAPS

-----------------------------------------------------------------------------
(* Type correctness *)

LEMMA ForgetType ==
    ASSUME TypeOK, NEW p \in Proc, Forget(p)
    PROVE  /\ inUse' \in [Proc -> SUBSET TempDb]
           /\ asked' \in [Proc -> SUBSET TempDb]
           /\ created' \in [Proc -> SUBSET TempDb]
           /\ listed' \in [Proc -> SUBSET TempDb]
           /\ vetted' \in [Proc -> SUBSET TempDb]
           /\ cancelled' \in [Proc -> BOOLEAN]
  BY DEF TypeOK, Forget

LEMMA StepNames ==
    /\ \A s \in Listing : DropsOf(s) \in Control
    /\ \A s \in Listing \cup Dropping : After(s) \in Control
  BY DEF Listing, Dropping, Control, DropsOf, After

LEMMA ListedType ==
    ASSUME TypeOK, NEW p \in Proc, pc[p] \in Listing
    PROVE  Listed(p) \subseteq TempDb
  BY DEF TypeOK, Listing, Listed, Present, Invalid, Quiet

LEMMA TypeStep == TypeOK /\ [Next]_vars => TypeOK'
<1> SUFFICES ASSUME TypeOK, [Next]_vars PROVE TypeOK'
  OBVIOUS
<1> USE DEF TypeOK
<1>1. ASSUME NEW p \in Proc, Start(p) PROVE TypeOK'
  BY <1>1 DEF Start, shadowVars, budgets, Control, Listing
<1>2. ASSUME NEW p \in Proc, List(p) PROVE TypeOK'
  <2>1. listed' \in [Proc -> SUBSET TempDb]
    BY <1>2, ListedType DEF List
  <2>2. pc' \in [Proc -> Control]
    BY <1>2, StepNames DEF List
  <2> QED
    BY <1>2, <2>1, <2>2 DEF List, shadowVars, budgets
<1>3. ASSUME NEW p \in Proc, Vet(p) PROVE TypeOK'
  <2>1. PICK d \in listed[p] :
          \/ vetted' = [vetted EXCEPT ![p] = {d}] /\ UNCHANGED <<listed, faults>>
          \/ /\ listed' = [listed EXCEPT ![p] = @ \ {d}]
             /\ UNCHANGED vetted
             /\ faults' \in {faults, faults + 1}
    BY <1>3 DEF Vet
  <2>2. /\ listed' \in [Proc -> SUBSET TempDb] /\ vetted' \in [Proc -> SUBSET TempDb]
        /\ faults' \in Nat
    BY <2>1
  <2> QED
    BY <1>3, <2>2 DEF Vet, shadowVars
<1>4. ASSUME NEW p \in Proc, Drop(p) PROVE TypeOK'
  <2> PICK d \in Doomed(p) \ Foreign : DropOnServer(d)
    BY <1>4 DEF Drop
  <2>1. state' \in [TempDb -> {"absent", "valid", "invalid"}]
        /\ stamp' \in [TempDb -> {"none", "young", "old"}]
    BY DEF DropOnServer
  <2>3. conns' \in [TempDb -> SUBSET Proc]
    BY DEF DropOnServer
  <2>2. listed' \in [Proc -> SUBSET TempDb] /\ vetted' \in [Proc -> SUBSET TempDb]
    BY <1>4 DEF Drop
  <2> QED
    BY <1>4, <2>1, <2>2, <2>3 DEF Drop, budgets
<1>5. ASSUME NEW p \in Proc, SweepDone(p) PROVE TypeOK'
  <2>1. pc' \in [Proc -> Control]
    BY <1>5, StepNames DEF SweepDone
  <2> QED
    BY <1>5, <2>1, ForgetType DEF SweepDone, shadowVars, budgets
<1>6. ASSUME NEW p \in Proc, SweepFails(p) PROVE TypeOK'
  <2>1. pc' \in [Proc -> Control]
    BY <1>6, StepNames DEF SweepFails
  <2>2. state' \in [TempDb -> {"absent", "valid", "invalid"}] /\ faults' \in Nat
    BY <1>6 DEF SweepFails
  <2>3. /\ inUse' \in [Proc -> SUBSET TempDb] /\ asked' \in [Proc -> SUBSET TempDb]
        /\ created' \in [Proc -> SUBSET TempDb] /\ listed' \in [Proc -> SUBSET TempDb]
        /\ vetted' \in [Proc -> SUBSET TempDb] /\ cancelled' \in [Proc -> BOOLEAN]
    BY <1>6, ForgetType DEF SweepFails
  <2> QED
    BY <1>6, <2>1, <2>2, <2>3 DEF SweepFails
<1>7. ASSUME NEW p \in Proc, CreateTemp(p) PROVE TypeOK'
  BY <1>7 DEF CreateTemp, budgets
<1>8. ASSUME NEW p \in Proc, CreateUnanswered(p) PROVE TypeOK'
  BY <1>8 DEF CreateUnanswered
<1>9. ASSUME NEW p \in Proc, Register(p) PROVE TypeOK'
  BY <1>9 DEF Register, shadowVars, budgets
<1>10. ASSUME NEW p \in Proc, Stamp(p) PROVE TypeOK'
  BY <1>10 DEF Stamp, budgets
<1>11. ASSUME NEW p \in Proc, DropTemp(p) PROVE TypeOK'
  BY <1>11 DEF DropTemp, DropOnServer, budgets
<1>12. ASSUME NEW p \in Proc, DropTempFails(p) PROVE TypeOK'
  <2>1. faults' \in Nat
    BY <1>12 DEF DropTempFails
  <2>2. /\ state' \in [TempDb -> {"absent", "valid", "invalid"}]
        /\ conns' \in [TempDb -> SUBSET Proc] /\ inUse' \in [Proc -> SUBSET TempDb]
    BY <1>12 DEF DropTempFails
  <2> QED
    BY <1>12, <2>1, <2>2 DEF DropTempFails
<1>13. ASSUME NEW p \in Proc, Finish(p) PROVE TypeOK'
  BY <1>13 DEF Finish, shadowVars, budgets, Control, Listing
<1>14. ASSUME NEW p \in Proc, ExitWithChanges(p) PROVE TypeOK'
  BY <1>14, ForgetType DEF ExitWithChanges, shadowVars, budgets, Control
<1>15. ASSUME NEW p \in Proc, Signal(p) PROVE TypeOK'
  BY <1>15 DEF Signal, shadowVars
<1>16. ASSUME NEW p \in Proc, Kill(p) PROVE TypeOK'
  BY <1>16, ForgetType DEF Kill, Control
<1>17. ASSUME NEW d \in TempDb, Age(d) PROVE TypeOK'
  BY <1>17 DEF Age, budgets
<1>18. ASSUME NEW d \in TempDb, ForeignCleaned(d) PROVE TypeOK'
  BY <1>18 DEF ForeignCleaned, DropOnServer, budgets
<1>19. ASSUME UNCHANGED vars PROVE TypeOK'
  BY <1>19 DEF vars
<1> QED
  BY <1>1, <1>2, <1>3, <1>4, <1>5, <1>6, <1>7, <1>8, <1>9, <1>10, <1>11,
     <1>12, <1>13, <1>14, <1>15, <1>16, <1>17, <1>18, <1>19 DEF Next, Work, Environment

\* The type invariant of the temporary databases holds in every behaviour of
\* m8's runs on a shadow instance (differ.go, cmd/root.go).
THEOREM TempDbTypes == Spec => []TypeOK
<1>1. Init => TypeOK
  BY DEF Init, TypeOK, Control
<1> QED
  BY <1>1, TypeStep, PTL DEF Spec

-----------------------------------------------------------------------------
(* The inductive invariant *)

\* Names are known to one run alone, and a diff works with its own.
NamesApart ==
    /\ \A p \in Proc : inUse[p] \subseteq asked[p] /\ created[p] \subseteq asked[p]
    /\ \A p, q \in Proc : \A d \in asked[p] : d \in asked[q] => p = q
    /\ \A p \in Proc : pc[p] # "working" => inUse[p] = {}

\* Once a database in use has a creation time, its diff is connected to it; a
\* name that is not in use has none.
Connected ==
    /\ \A p \in Proc : \A d \in inUse[p] : stamp[d] = "none" \/ p \in conns[d]
    /\ \A d \in TempDb : state[d] = "absent" => stamp[d] = "none"

\* A sweep that has a database in use before it is one by age, and has not
\* vetted it, and cannot, as long as it is young.
SweepsSpare ==
    /\ \A q \in Proc : vetted[q] \subseteq listed[q]
    /\ \A q \in Proc : pc[q] # "dropStale" => vetted[q] = {}
    /\ \A p, q \in Proc : \A d \in inUse[p] \cap listed[q] :
          pc[q] = "dropStale" /\ stamp[d] # "old" /\ d \notin vetted[q]

UseInv == TypeOK /\ InUseKept /\ NamesApart /\ Connected /\ SweepsSpare

\* What a sweep drops next, no diff works with.
LEMMA DoomedNotInUse ==
    ASSUME UseInv, NEW p \in Proc, NEW d \in Doomed(p), pc[p] \in Dropping
    PROVE  d \in TempDb /\ \A q \in Proc : d \notin inUse[q]
<1>1. CASE pc[p] = "dropStale"
  BY <1>1 DEF UseInv, TypeOK, SweepsSpare, Doomed
<1>2. CASE pc[p] # "dropStale"
  BY <1>2 DEF UseInv, TypeOK, SweepsSpare, Doomed
<1> QED
  BY <1>1, <1>2

\* Nor does it work with what a sweep lists, unless the database is young and
\* has no backend yet.
LEMMA ListedNotInUse ==
    ASSUME UseInv, NEW p \in Proc, pc[p] \in Listing, NEW d \in Listed(p),
           NEW q \in Proc, d \in inUse[q]
    PROVE  pc[p] = "listStale" /\ stamp[d] = "none"
<1>1. state[d] = "valid" /\ d \in TempDb /\ d \in asked[q]
  BY DEF UseInv, TypeOK, InUseKept, NamesApart
<1>2. ~ (pc[p] \in {"listInvalid", "listTail"})
  BY <1>1 DEF Listed, Invalid
<1>3. ASSUME pc[p] = "listOwn" PROVE FALSE
  <2>1. d \in created[p]
    BY <1>3 DEF Listed
  <2>2. p = q
    BY <1>1, <2>1 DEF UseInv, NamesApart
  <2> QED
    BY <1>3, <2>2 DEF UseInv, NamesApart
<1>4. pc[p] = "listStale"
  BY <1>2, <1>3 DEF Listing
<1>5. conns[d] = {}
  BY <1>4 DEF Listed, Quiet
<1> QED
  BY <1>1, <1>4, <1>5 DEF UseInv, Connected

\* Forgetting a run keeps the names of the others apart, and the sweeps of the
\* others as they are.
LEMMA ForgetKeeps ==
    ASSUME UseInv, NEW p \in Proc, Forget(p), NEW s,
           pc' = [pc EXCEPT ![p] = s], stamp' = stamp
    PROVE  /\ NamesApart' /\ SweepsSpare'
           /\ \A q \in Proc : inUse'[q] \subseteq inUse[q]
           /\ inUse'[p] = {}
<1>1. \A q \in Proc : /\ inUse'[q] = IF q = p THEN {} ELSE inUse[q]
                      /\ asked'[q] = IF q = p THEN {} ELSE asked[q]
                      /\ created'[q] = IF q = p THEN {} ELSE created[q]
                      /\ listed'[q] = IF q = p THEN {} ELSE listed[q]
                      /\ vetted'[q] = IF q = p THEN {} ELSE vetted[q]
                      /\ pc'[q] = IF q = p THEN s ELSE pc[q]
  BY DEF UseInv, TypeOK, Forget
<1>2. NamesApart'
  BY <1>1 DEF UseInv, NamesApart
<1>3. SweepsSpare'
  BY <1>1 DEF UseInv, SweepsSpare
<1> QED
  BY <1>1, <1>2, <1>3

\* A database that no diff works with is dropped: the others stay connected.
LEMMA DropKeeps ==
    ASSUME UseInv, NEW d \in TempDb, DropOnServer(d), NEW p \in Proc,
           \A q \in Proc : q # p => inUse'[q] = inUse[q] /\ d \notin inUse[q],
           inUse'[p] = inUse[p] \ {d}
    PROVE  InUseKept' /\ Connected'
<1>1. \A q \in Proc : \A e \in inUse'[q] : e \in inUse[q] /\ e # d /\ e \in TempDb
  BY DEF UseInv, TypeOK
<1>2. \A e \in TempDb : /\ state'[e] = IF e = d THEN "absent" ELSE state[e]
                        /\ stamp'[e] = IF e = d THEN "none" ELSE stamp[e]
                        /\ conns'[e] = IF e = d THEN {} ELSE conns[e]
  BY DEF DropOnServer, UseInv, TypeOK
<1>3. InUseKept'
  BY <1>1, <1>2 DEF UseInv, InUseKept
<1>4. Connected'
  BY <1>1, <1>2 DEF UseInv, Connected
<1> QED
  BY <1>3, <1>4

-----------------------------------------------------------------------------
(* Every step keeps the invariant *)

LEMMA UseStep == UseInv /\ [Next]_vars => UseInv'
<1> SUFFICES ASSUME UseInv, [Next]_vars PROVE UseInv'
  OBVIOUS
<1>0. TypeOK /\ TypeOK'
  BY TypeStep DEF UseInv
<1>1. ASSUME NEW p \in Proc, Start(p) PROVE UseInv'
  <2>1. \A q \in Proc : pc'[q] = IF q = p THEN "listInvalid" ELSE pc[q]
    BY <1>0, <1>1 DEF Start, TypeOK
  <2>2. pc[p] = "idle"
    BY <1>1 DEF Start
  <2>3. InUseKept' /\ Connected'
    BY <1>1 DEF Start, shadowVars, UseInv, InUseKept, Connected
  <2>4. NamesApart' /\ SweepsSpare'
    BY <1>1, <2>1, <2>2 DEF Start, shadowVars, UseInv, NamesApart, SweepsSpare
  <2> QED
    BY <1>0, <2>3, <2>4 DEF UseInv
<1>2. ASSUME NEW p \in Proc, List(p) PROVE UseInv'
  <2>1. pc[p] \in Listing /\ pc[p] # "dropStale" /\ pc[p] # "working"
    BY <1>2 DEF List, Listing
  <2>2. \A q \in Proc : /\ pc'[q] = IF q = p THEN DropsOf(pc[p]) ELSE pc[q]
                        /\ listed'[q] = IF q = p THEN Listed(p) ELSE listed[q]
    BY <1>0, <1>2 DEF List, TypeOK
  <2>3. InUseKept' /\ Connected'
    BY <1>2 DEF List, shadowVars, UseInv, InUseKept, Connected
  <2>4. NamesApart'
    BY <1>2, <2>1, <2>2 DEF List, UseInv, NamesApart
  <2>5. vetted[p] = {}
    BY <2>1 DEF UseInv, SweepsSpare
  <2>6. ASSUME NEW r \in Proc, NEW d \in inUse[r] \cap Listed(p)
        PROVE  pc'[p] = "dropStale" /\ stamp[d] # "old"
    BY <2>1, <2>2, ListedNotInUse DEF DropsOf
  <2>7. SweepsSpare'
    BY <1>2, <2>2, <2>5, <2>6 DEF List, shadowVars, UseInv, SweepsSpare
  <2> QED
    BY <1>0, <2>3, <2>4, <2>7 DEF UseInv
<1>3. ASSUME NEW p \in Proc, Vet(p) PROVE UseInv'
  <2>1. PICK d \in listed[p] :
          \/ /\ state[d] = "valid" /\ stamp[d] = "old"
             /\ vetted' = [vetted EXCEPT ![p] = {d}] /\ UNCHANGED listed
          \/ listed' = [listed EXCEPT ![p] = @ \ {d}] /\ UNCHANGED vetted
    BY <1>3 DEF Vet
  <2>2. pc[p] = "dropStale" /\ vetted[p] = {}
    BY <1>3 DEF Vet
  <2>3. InUseKept' /\ Connected' /\ NamesApart'
    BY <1>3 DEF Vet, shadowVars, UseInv, InUseKept, Connected, NamesApart
  <2>4. CASE /\ state[d] = "valid" /\ stamp[d] = "old"
             /\ vetted' = [vetted EXCEPT ![p] = {d}] /\ UNCHANGED listed
    <3>1. \A q \in Proc : vetted'[q] = IF q = p THEN {d} ELSE vetted[q]
      BY <1>0, <2>1, <2>4 DEF TypeOK
    <3>2. \A r \in Proc : d \notin inUse[r]
      BY <2>4 DEF UseInv, SweepsSpare
    <3> QED
      BY <1>0, <1>3, <2>1, <2>2, <2>3, <2>4, <3>1, <3>2
         DEF Vet, shadowVars, UseInv, SweepsSpare
  <2>5. CASE listed' = [listed EXCEPT ![p] = @ \ {d}] /\ UNCHANGED vetted
    <3>1. \A q \in Proc : listed'[q] = IF q = p THEN listed[q] \ {d} ELSE listed[q]
      BY <1>0, <2>1, <2>5 DEF TypeOK
    <3>2. UNCHANGED <<vetted, pc, stamp, inUse>>
      BY <1>3, <2>1, <2>5 DEF Vet, shadowVars
    <3>3. \A q \in Proc : vetted'[q] \subseteq listed'[q]
      BY <2>2, <3>1, <3>2 DEF UseInv, SweepsSpare
    <3>4. \A q \in Proc : listed'[q] \subseteq listed[q]
      BY <3>1
    <3>5. SweepsSpare'
      BY <3>2, <3>3, <3>4 DEF UseInv, SweepsSpare
    <3> QED
      BY <1>0, <2>3, <3>5 DEF UseInv
  <2> QED
    BY <2>1, <2>4, <2>5
<1>4. ASSUME NEW p \in Proc, Drop(p) PROVE UseInv'
  <2>1. PICK d \in Doomed(p) \ Foreign :
          DropOnServer(d) /\ listed' = [listed EXCEPT ![p] = @ \ {d}]
    BY <1>4 DEF Drop
  <2>2. d \in TempDb /\ \A q \in Proc : d \notin inUse[q]
    BY <1>4, DoomedNotInUse DEF Drop
  <2>3. InUseKept' /\ Connected'
    BY <1>4, <2>1, <2>2, DropKeeps DEF Drop
  <2>4. NamesApart'
    BY <1>4 DEF Drop, UseInv, NamesApart
  <2>5. \A q \in Proc : /\ listed'[q] = IF q = p THEN listed[q] \ {d} ELSE listed[q]
                        /\ vetted'[q] = IF q = p THEN {} ELSE vetted[q]
    BY <1>0, <1>4, <2>1 DEF Drop, TypeOK
  <2>6. \A e \in TempDb : stamp'[e] = IF e = d THEN "none" ELSE stamp[e]
    BY <1>0, <2>1 DEF DropOnServer, TypeOK
  <2>7. SweepsSpare'
    BY <1>0, <1>4, <2>5, <2>6 DEF Drop, UseInv, SweepsSpare, TypeOK
  <2> QED
    BY <1>0, <2>3, <2>4, <2>7 DEF UseInv
<1>5. ASSUME NEW p \in Proc, SweepDone(p) PROVE UseInv'
  <2>1. InUseKept' /\ Connected'
    <3>1. \A q \in Proc : inUse'[q] \subseteq inUse[q]
      BY <1>0, <1>5 DEF SweepDone, Forget, TypeOK
    <3> QED
      BY <1>5, <3>1 DEF SweepDone, shadowVars, UseInv, InUseKept, Connected
  <2>2. CASE pc[p] = "dropTail"
    BY <1>0, <1>5, <2>1, <2>2, ForgetKeeps DEF SweepDone, shadowVars, UseInv
  <2>3. CASE pc[p] # "dropTail"
    <3>1. \A q \in Proc : pc'[q] = IF q = p THEN After(pc[p]) ELSE pc[q]
      BY <1>0, <1>5 DEF SweepDone, TypeOK
    <3>2. pc[p] # "working" /\ listed[p] = {}
      BY <1>5 DEF SweepDone, Dropping
    <3>3. NamesApart'
      BY <1>5, <2>3, <3>1, <3>2 DEF SweepDone, UseInv, NamesApart
    <3>4. SweepsSpare'
      BY <1>5, <2>3, <3>1, <3>2 DEF SweepDone, shadowVars, UseInv, SweepsSpare
    <3> QED
      BY <1>0, <2>1, <3>3, <3>4 DEF UseInv
  <2> QED
    BY <2>2, <2>3
<1>6. ASSUME NEW p \in Proc, SweepFails(p) PROVE UseInv'
  <2>1. pc[p] # "working"
    BY <1>6 DEF SweepFails, Listing, Dropping
  <2>2. \A q \in Proc : inUse'[q] \subseteq inUse[q]
    BY <1>0, <1>6 DEF SweepFails, Forget, TypeOK
  <2>3. \A q \in Proc : \A e \in inUse[q] : state'[e] = state[e]
    <3>1. CASE UNCHANGED state
      BY <3>1
    <3>2. CASE pc[p] \in Dropping
               /\ \E d \in Doomed(p) \cap Present : state' = [state EXCEPT ![d] = "invalid"]
      <4>1. PICK d \in Doomed(p) \cap Present : state' = [state EXCEPT ![d] = "invalid"]
        BY <3>2
      <4>2. \A q \in Proc : d \notin inUse[q]
        BY <3>2, DoomedNotInUse
      <4> QED
        BY <1>0, <4>1, <4>2 DEF TypeOK
    <3> QED
      BY <1>6, <3>1, <3>2 DEF SweepFails
  <2>4. \A e \in TempDb : state'[e] = "absent" => state[e] = "absent"
    BY <1>0, <1>6 DEF SweepFails, TypeOK
  <2>5. InUseKept' /\ Connected'
    BY <1>6, <2>2, <2>3, <2>4 DEF SweepFails, UseInv, InUseKept, Connected
  <2>6. CASE After(pc[p]) = "idle"
    BY <1>0, <1>6, <2>5, <2>6, ForgetKeeps DEF SweepFails, UseInv
  <2>7. CASE After(pc[p]) # "idle"
    <3>1. \A q \in Proc : /\ pc'[q] = IF q = p THEN After(pc[p]) ELSE pc[q]
                          /\ listed'[q] = IF q = p THEN {} ELSE listed[q]
                          /\ vetted'[q] = IF q = p THEN {} ELSE vetted[q]
      BY <1>0, <1>6, <2>7 DEF SweepFails, TypeOK
    <3>2. NamesApart'
      BY <1>6, <2>1, <2>7, <3>1 DEF SweepFails, UseInv, NamesApart
    <3>3. SweepsSpare'
      BY <1>6, <2>7, <3>1 DEF SweepFails, UseInv, SweepsSpare
    <3> QED
      BY <1>0, <2>5, <3>2, <3>3 DEF UseInv
  <2> QED
    BY <2>6, <2>7
<1>7. ASSUME NEW p \in Proc, CreateTemp(p) PROVE UseInv'
  <2>1. PICK d \in TempDb : /\ Fresh(d)
                            /\ state' = [state EXCEPT ![d] = "valid"]
                            /\ inUse' = [inUse EXCEPT ![p] = @ \cup {d}]
                            /\ asked' = [asked EXCEPT ![p] = @ \cup {d}]
    BY <1>7 DEF CreateTemp
  <2>2. \A q \in Proc : /\ inUse'[q] = IF q = p THEN inUse[q] \cup {d} ELSE inUse[q]
                        /\ asked'[q] = IF q = p THEN asked[q] \cup {d} ELSE asked[q]
    BY <1>0, <2>1 DEF TypeOK
  <2>3. \A e \in TempDb : state'[e] = IF e = d THEN "valid" ELSE state[e]
    BY <1>0, <2>1 DEF TypeOK
  <2>4. stamp[d] = "none"
    BY <2>1 DEF Fresh, UseInv, Connected
  <2>5. InUseKept'
    BY <1>0, <2>2, <2>3 DEF UseInv, InUseKept, TypeOK
  <2>6. Connected'
    <3>1. ASSUME NEW q \in Proc, NEW e \in inUse'[q]
          PROVE  stamp[e] = "none" \/ q \in conns[e]
      BY <2>2, <2>4 DEF UseInv, Connected
    <3> QED
      BY <1>7, <2>3, <3>1 DEF CreateTemp, UseInv, Connected
  <2>8. NamesApart'
    <3>1. \A q \in Proc : d \notin asked[q]
      BY <2>1 DEF Fresh
    <3>2. pc[p] = "working" /\ UNCHANGED <<pc, created>>
      BY <1>7 DEF CreateTemp
    <3>3. /\ \A q \in Proc : inUse'[q] \subseteq asked'[q] /\ created'[q] \subseteq asked'[q]
          /\ \A q \in Proc : pc'[q] # "working" => inUse'[q] = {}
      BY <2>2, <3>2 DEF UseInv, NamesApart
    <3>4. ASSUME NEW q \in Proc, NEW r \in Proc, NEW e \in asked'[q], e \in asked'[r]
          PROVE  q = r
      <4>1. CASE e = d
        BY <2>2, <3>1, <3>4, <4>1
      <4>2. CASE e # d
        <5>1. e \in asked[q] /\ e \in asked[r]
          BY <2>2, <3>4, <4>2
        <5> QED
          BY <5>1 DEF UseInv, NamesApart
      <4> QED
        BY <4>1, <4>2
    <3> QED
      BY <3>3, <3>4 DEF NamesApart
  <2>7. SweepsSpare'
    BY <1>7, <2>1, <2>2 DEF CreateTemp, Fresh, UseInv, SweepsSpare
  <2> QED
    BY <1>0, <2>5, <2>6, <2>7, <2>8 DEF UseInv
<1>8. ASSUME NEW p \in Proc, CreateUnanswered(p) PROVE UseInv'
  <2>1. PICK d \in TempDb : Fresh(d) /\ state' = [state EXCEPT ![d] = "valid"]
    BY <1>8 DEF CreateUnanswered
  <2>2. \A e \in TempDb : state'[e] = IF e = d THEN "valid" ELSE state[e]
    BY <1>0, <2>1 DEF TypeOK
  <2>3. InUseKept' /\ Connected'
    BY <1>0, <1>8, <2>2 DEF CreateUnanswered, UseInv, InUseKept, Connected, TypeOK
  <2>4. NamesApart' /\ SweepsSpare'
    BY <1>8 DEF CreateUnanswered, UseInv, NamesApart, SweepsSpare
  <2> QED
    BY <1>0, <2>3, <2>4 DEF UseInv
<1>9. ASSUME NEW p \in Proc, Register(p) PROVE UseInv'
  <2>1. PICK d \in inUse[p] \ created[p] : created' = [created EXCEPT ![p] = @ \cup {d}]
    BY <1>9 DEF Register
  <2>2. \A q \in Proc : created'[q] = IF q = p THEN created[q] \cup {d} ELSE created[q]
    BY <1>0, <2>1 DEF TypeOK
  <2>3. NamesApart'
    BY <1>9, <2>2 DEF Register, UseInv, NamesApart
  <2>4. InUseKept' /\ Connected' /\ SweepsSpare'
    BY <1>9 DEF Register, shadowVars, UseInv, InUseKept, Connected, SweepsSpare
  <2> QED
    BY <1>0, <2>3, <2>4 DEF UseInv
<1>10. ASSUME NEW p \in Proc, Stamp(p) PROVE UseInv'
  <2>1. PICK d \in inUse[p] \cap created[p] :
          /\ stamp[d] = "none"
          /\ stamp' = [stamp EXCEPT ![d] = "young"]
          /\ conns' = [conns EXCEPT ![d] = @ \cup {p}]
    BY <1>10 DEF Stamp
  <2>2. d \in TempDb /\ d \in inUse[p] /\ d \in asked[p] /\ state[d] = "valid"
    BY <1>0, <2>1 DEF UseInv, InUseKept, NamesApart, TypeOK
  <2>3. \A e \in TempDb : /\ stamp'[e] = IF e = d THEN "young" ELSE stamp[e]
                          /\ conns'[e] = IF e = d THEN conns[e] \cup {p} ELSE conns[e]
    BY <1>0, <2>1 DEF TypeOK
  <2>4. \A q \in Proc : d \in inUse[q] => q = p
    BY <2>2 DEF UseInv, NamesApart
  <2>5. InUseKept' /\ NamesApart'
    BY <1>10 DEF Stamp, UseInv, InUseKept, NamesApart
  <2>6. Connected'
    <3>1. ASSUME NEW q \in Proc, NEW e \in inUse[q]
          PROVE  stamp'[e] = "none" \/ q \in conns'[e]
      BY <1>0, <2>3, <2>4 DEF UseInv, Connected, TypeOK
    <3>2. ASSUME NEW e \in TempDb, state[e] = "absent" PROVE stamp'[e] = "none"
      BY <2>2, <2>3, <3>2 DEF UseInv, Connected
    <3> QED
      BY <1>10, <3>1, <3>2 DEF Stamp, Connected
  <2>7. SweepsSpare'
    BY <1>0, <1>10, <2>3 DEF Stamp, UseInv, SweepsSpare, TypeOK
  <2> QED
    BY <1>0, <2>5, <2>6, <2>7 DEF UseInv
<1>11. ASSUME NEW p \in Proc, DropTemp(p) PROVE UseInv'
  <2>1. PICK d \in inUse[p] \cap created[p] :
          DropOnServer(d) /\ inUse' = [inUse EXCEPT ![p] = @ \ {d}]
    BY <1>11 DEF DropTemp
  <2>2. \A q \in Proc : inUse'[q] = IF q = p THEN inUse[q] \ {d} ELSE inUse[q]
    BY <1>0, <2>1 DEF TypeOK
  <2>3. d \in TempDb /\ \A q \in Proc : q # p => d \notin inUse[q]
    BY <1>0, <2>1 DEF UseInv, NamesApart, TypeOK
  <2>4. InUseKept' /\ Connected'
    BY <2>1, <2>2, <2>3, DropKeeps
  <2>5. NamesApart'
    BY <1>11, <2>2 DEF DropTemp, UseInv, NamesApart
  <2>6. \A e \in TempDb : stamp'[e] = IF e = d THEN "none" ELSE stamp[e]
    BY <1>0, <2>1 DEF DropOnServer, TypeOK
  <2>7. SweepsSpare'
    BY <1>0, <1>11, <2>2, <2>3, <2>6 DEF DropTemp, UseInv, SweepsSpare, TypeOK
  <2> QED
    BY <1>0, <2>4, <2>5, <2>7 DEF UseInv
<1>12. ASSUME NEW p \in Proc, DropTempFails(p) PROVE UseInv'
  <2>1. PICK d \in inUse[p] \cap created[p] :
          /\ inUse' = [inUse EXCEPT ![p] = @ \ {d}]
          /\ conns' = [conns EXCEPT ![d] = @ \ {p}]
          /\ \E s \in {"valid", "invalid"} : state' = [state EXCEPT ![d] = s]
    BY <1>12 DEF DropTempFails
  <2>2. \A q \in Proc : inUse'[q] = IF q = p THEN inUse[q] \ {d} ELSE inUse[q]
    BY <1>0, <2>1 DEF TypeOK
  <2>3. d \in TempDb /\ \A q \in Proc : q # p => d \notin inUse[q]
    BY <1>0, <2>1 DEF UseInv, NamesApart, TypeOK
  <2>4. /\ \A e \in TempDb : e # d => state'[e] = state[e] /\ conns'[e] = conns[e]
        /\ state'[d] # "absent"
    BY <1>0, <2>1, <2>3 DEF TypeOK
  <2>5. InUseKept' /\ Connected'
    BY <1>0, <1>12, <2>2, <2>3, <2>4 DEF DropTempFails, UseInv, InUseKept, Connected, TypeOK
  <2>6. NamesApart'
    BY <1>12, <2>2 DEF DropTempFails, UseInv, NamesApart
  <2>7. SweepsSpare'
    BY <1>12, <2>2 DEF DropTempFails, UseInv, SweepsSpare
  <2> QED
    BY <1>0, <2>5, <2>6, <2>7 DEF UseInv
<1>13. ASSUME NEW p \in Proc, Finish(p) PROVE UseInv'
  <2>1. \A q \in Proc : pc'[q] = IF q = p THEN "listOwn" ELSE pc[q]
    BY <1>0, <1>13 DEF Finish, TypeOK
  <2>2. pc[p] = "working" /\ inUse[p] = {}
    BY <1>13 DEF Finish
  <2>3. InUseKept' /\ Connected'
    BY <1>13 DEF Finish, shadowVars, UseInv, InUseKept, Connected
  <2>4. NamesApart' /\ SweepsSpare'
    BY <1>13, <2>1, <2>2 DEF Finish, shadowVars, UseInv, NamesApart, SweepsSpare
  <2> QED
    BY <1>0, <2>3, <2>4 DEF UseInv
<1>14. ASSUME NEW p \in Proc, ExitWithChanges(p) PROVE UseInv'
  <2>1. NamesApart' /\ SweepsSpare' /\ \A q \in Proc : inUse'[q] \subseteq inUse[q]
    BY <1>14, ForgetKeeps DEF ExitWithChanges, shadowVars
  <2>2. InUseKept' /\ Connected'
    BY <1>14, <2>1 DEF ExitWithChanges, shadowVars, UseInv, InUseKept, Connected
  <2> QED
    BY <1>0, <2>1, <2>2 DEF UseInv
<1>15. ASSUME NEW p \in Proc, Signal(p) PROVE UseInv'
  <2>1. InUseKept' /\ Connected' /\ NamesApart' /\ SweepsSpare'
    BY <1>15 DEF Signal, shadowVars, UseInv, InUseKept, Connected, NamesApart, SweepsSpare
  <2> QED
    BY <1>0, <2>1 DEF UseInv
<1>16. ASSUME NEW p \in Proc, Kill(p) PROVE UseInv'
  <2>1. /\ NamesApart' /\ SweepsSpare' /\ inUse'[p] = {}
        /\ \A q \in Proc : inUse'[q] \subseteq inUse[q]
    BY <1>16, ForgetKeeps DEF Kill
  <2>2. \A e \in TempDb : conns'[e] = conns[e] \ {p}
    BY <1>16 DEF Kill
  <2>3. \A q \in Proc : inUse'[q] \subseteq TempDb
    BY <1>0 DEF TypeOK
  <2>4. InUseKept' /\ Connected'
    BY <1>16, <2>1, <2>2, <2>3 DEF Kill, UseInv, InUseKept, Connected
  <2> QED
    BY <1>0, <2>1, <2>4 DEF UseInv
<1>17. ASSUME NEW d \in TempDb, Age(d) PROVE UseInv'
  <2>1. \A e \in TempDb : stamp'[e] = IF e = d THEN "old" ELSE stamp[e]
    BY <1>0, <1>17 DEF Age, TypeOK
  <2>2. stamp[d] = "young" /\ \A p, q \in Proc : ~ (d \in inUse[p] /\ d \in listed[q])
    BY <1>17 DEF Age
  <2>3. InUseKept' /\ NamesApart'
    BY <1>17 DEF Age, UseInv, InUseKept, NamesApart
  <2>4. Connected'
    BY <1>0, <1>17, <2>1, <2>2 DEF Age, UseInv, Connected, TypeOK
  <2>5. SweepsSpare'
    BY <1>0, <1>17, <2>1, <2>2 DEF Age, UseInv, SweepsSpare, TypeOK
  <2> QED
    BY <1>0, <2>3, <2>4, <2>5 DEF UseInv
<1>18. ASSUME NEW d \in TempDb, ForeignCleaned(d) PROVE UseInv'
  <2>1. /\ \A e \in TempDb : state'[e] = IF e = d THEN "absent" ELSE state[e]
        /\ \A e \in TempDb : stamp'[e] = IF e = d THEN "none" ELSE stamp[e]
        /\ \A e \in TempDb : conns'[e] = IF e = d THEN {} ELSE conns[e]
    BY <1>0, <1>18 DEF ForeignCleaned, DropOnServer, TypeOK
  <2>2. \A p \in Proc : d \notin inUse[p]
    BY <1>18 DEF ForeignCleaned, UseInv, InUseKept
  <2>3. NamesApart'
    BY <1>18 DEF ForeignCleaned, UseInv, NamesApart
  <2>4. \A p \in Proc : inUse[p] \subseteq TempDb
    BY <1>0 DEF TypeOK
  <2>5. InUseKept' /\ Connected'
    BY <1>18, <2>1, <2>2, <2>4 DEF ForeignCleaned, UseInv, InUseKept, Connected
  <2>6. SweepsSpare'
    BY <1>0, <1>18, <2>1, <2>2 DEF ForeignCleaned, UseInv, SweepsSpare, TypeOK
  <2> QED
    BY <1>0, <2>3, <2>5, <2>6 DEF UseInv
<1>19. ASSUME UNCHANGED vars PROVE UseInv'
  BY <1>0, <1>19 DEF vars, UseInv, InUseKept, NamesApart, Connected, SweepsSpare
<1> QED
  BY <1>1, <1>2, <1>3, <1>4, <1>5, <1>6, <1>7, <1>8, <1>9, <1>10, <1>11,
     <1>12, <1>13, <1>14, <1>15, <1>16, <1>17, <1>18, <1>19 DEF Next, Work, Environment

\* Whatever runs, sweeps, signals and kills come together on one shadow, a
\* database that a diff works with is kept (differ.go:193, :243, :295).
THEOREM InUseIsKept == Spec => []InUseKept
<1>1. Init => UseInv
  BY DEF Init, UseInv, TypeOK, Control, InUseKept, NamesApart, Connected, SweepsSpare
<1>2. UseInv => InUseKept
  BY DEF UseInv
<1> QED
  BY <1>1, <1>2, UseStep, PTL DEF Spec

-----------------------------------------------------------------------------
(* A teardown knows its databases *)

\* A run tracks each database it asked for, or works with it still; and the
\* teardown that has listed its own has before it those that are still there.
Reclaim(p) ==
    /\ asked[p] \subseteq inUse[p] \cup created[p]
    /\ pc[p] = "dropOwn" => \A d \in asked[p] : state[d] # "absent" => d \in listed[p]
ReclaimInv == \A p \in Proc : Reclaim(p)

\* A name of a run stays gone once its database is gone: new ones are fresh.
LEMMA GoneStaysGone ==
    ASSUME UseInv, [Next]_vars, NEW p \in Proc, NEW d \in asked[p], state'[d] # "absent"
    PROVE  state[d] # "absent"
<1> USE DEF UseInv, TypeOK
<1>0. d \in TempDb
  OBVIOUS
<1>1. CASE state' = state
  BY <1>1
<1>2. ASSUME NEW e \in TempDb, Fresh(e), state' = [state EXCEPT ![e] = "valid"]
      PROVE  state[d] # "absent"
  <2>1. d # e
    BY <1>2 DEF Fresh
  <2> QED
    BY <1>0, <1>2, <2>1
<1>3. ASSUME NEW e \in TempDb, DropOnServer(e) PROVE state[d] # "absent"
  BY <1>0, <1>3 DEF DropOnServer
<1>4. ASSUME NEW e \in TempDb, state[e] # "absent", NEW s, state' = [state EXCEPT ![e] = s]
      PROVE  state[d] # "absent"
  BY <1>0, <1>4
<1>5. ASSUME NEW q \in Proc, Work(q) PROVE state[d] # "absent"
  <2>1. CASE Start(q) \/ List(q) \/ Vet(q) \/ SweepDone(q) \/ Register(q) \/ Stamp(q) \/ Finish(q)
             \/ ExitWithChanges(q)
    BY <1>1, <2>1 DEF Start, List, Vet, SweepDone, Register, Stamp, Finish, ExitWithChanges,
                      shadowVars
  <2>2. CASE Drop(q)
    <3>1. PICK e \in Doomed(q) \ Foreign : DropOnServer(e)
      BY <2>2 DEF Drop
    <3>2. e \in TempDb
      BY <2>2, <3>1, DoomedNotInUse DEF Drop
    <3> QED
      BY <1>3, <3>1, <3>2
  <2>3. CASE CreateTemp(q)
    BY <1>2, <2>3 DEF CreateTemp
  <2>4. CASE DropTemp(q)
    BY <1>3, <2>4 DEF DropTemp
  <2>5. CASE DropTempFails(q)
    <3>1. PICK e \in inUse[q] : \E s : state' = [state EXCEPT ![e] = s]
      BY <2>5 DEF DropTempFails
    <3>2. state[e] = "valid" /\ e \in TempDb
      BY <3>1 DEF InUseKept
    <3> QED
      BY <1>4, <3>1, <3>2
  <2>6. CASE SweepFails(q)
    <3>1. UNCHANGED state \/ \E e \in Present : state' = [state EXCEPT ![e] = "invalid"]
      BY <2>6 DEF SweepFails
    <3> QED
      BY <1>1, <1>4, <3>1 DEF Present
  <2> QED
    BY <1>5, <2>1, <2>2, <2>3, <2>4, <2>5, <2>6 DEF Work
<1>6. CASE Environment
  <2>1. ASSUME NEW q \in Proc, CreateUnanswered(q) \/ Signal(q) \/ Kill(q)
        PROVE  state[d] # "absent"
    BY <1>1, <1>2, <2>1 DEF CreateUnanswered, Signal, Kill, shadowVars
  <2>2. ASSUME NEW e \in TempDb, Age(e) \/ ForeignCleaned(e) PROVE state[d] # "absent"
    BY <1>1, <1>3, <2>2 DEF Age, ForeignCleaned
  <2> QED
    BY <1>6, <2>1, <2>2 DEF Environment
<1> QED
  BY <1>1, <1>5, <1>6 DEF Next, vars

\* What a process knows changes by its own steps alone.
LEMMA OwnStepsAlone ==
    ASSUME UseInv, NEW q \in Proc, NEW p \in Proc \ {q},
           Work(q) \/ CreateUnanswered(q) \/ Signal(q) \/ Kill(q)
    PROVE  /\ asked'[p] = asked[p] /\ inUse'[p] = inUse[p] /\ created'[p] = created[p]
           /\ listed'[p] = listed[p] /\ pc'[p] = pc[p]
<1> USE DEF UseInv, TypeOK
<1>1. CASE Start(q) \/ List(q) \/ Vet(q) \/ Drop(q) \/ Register(q) \/ Stamp(q) \/ Finish(q)
  BY <1>1 DEF Start, List, Vet, Drop, Register, Stamp, Finish
<1>2. CASE SweepDone(q) \/ SweepFails(q) \/ ExitWithChanges(q) \/ Kill(q)
  BY <1>2 DEF SweepDone, SweepFails, ExitWithChanges, Kill, Forget
<1>3. CASE CreateTemp(q) \/ DropTemp(q) \/ DropTempFails(q) \/ CreateUnanswered(q) \/ Signal(q)
  BY <1>3 DEF CreateTemp, DropTemp, DropTempFails, CreateUnanswered, Signal
<1> QED
  BY <1>1, <1>2, <1>3 DEF Work

\* The step of a process keeps what its own teardown relies on.
LEMMA OwnReclaim ==
    ASSUME UseInv, [Next]_vars, NEW p \in Proc, Reclaim(p),
           Work(p) \/ CreateUnanswered(p) \/ Signal(p) \/ Kill(p)
    PROVE  Reclaim(p)'
<1> USE DEF UseInv, TypeOK
<1>1. ASSUME asked'[p] = {} PROVE Reclaim(p)'
  BY <1>1 DEF Reclaim
<1>2. CASE ExitWithChanges(p) \/ Kill(p)
  BY <1>1, <1>2 DEF ExitWithChanges, Kill, Forget
<1>3. ASSUME UNCHANGED <<asked, inUse, created>>, pc'[p] # "dropOwn" PROVE Reclaim(p)'
  BY <1>3 DEF Reclaim
<1>4. CASE Start(p) \/ Finish(p)
  BY <1>3, <1>4 DEF Start, Finish
<1>5. CASE List(p)
  <2>1. UNCHANGED <<asked, inUse, created, state>> /\ listed'[p] = Listed(p)
        /\ pc[p] \in Listing /\ pc'[p] = DropsOf(pc[p])
    BY <1>5 DEF List, shadowVars
  <2>2. CASE pc[p] = "listOwn"
    <3>1. inUse[p] = {} /\ listed'[p] = created[p] \cap Present
      BY <2>1, <2>2 DEF NamesApart, Listed
    <3> QED
      BY <2>1, <3>1 DEF Reclaim, Present
  <2>3. CASE pc[p] # "listOwn"
    <3>1. pc'[p] # "dropOwn"
      BY <2>1, <2>3 DEF DropsOf, Listing
    <3> QED
      BY <1>3, <2>1, <3>1
  <2> QED
    BY <2>2, <2>3
<1>6. CASE Vet(p)
  <2>1. pc'[p] # "dropOwn" /\ UNCHANGED <<asked, inUse, created>>
    BY <1>6 DEF Vet
  <2> QED
    BY <1>3, <2>1
<1>7. CASE Drop(p)
  <2>1. PICK d \in Doomed(p) \ Foreign : /\ DropOnServer(d)
                                         /\ listed' = [listed EXCEPT ![p] = @ \ {d}]
    BY <1>7 DEF Drop
  <2>2. d \in TempDb
    BY <1>7, <2>1, DoomedNotInUse DEF Drop
  <2>3. state'[d] = "absent" /\ \A e \in TempDb \ {d} : state'[e] = state[e]
    BY <2>1, <2>2 DEF DropOnServer
  <2>4. listed'[p] = listed[p] \ {d} /\ UNCHANGED <<pc, asked, inUse, created>>
    BY <1>7, <2>1 DEF Drop
  <2> QED
    BY <2>2, <2>3, <2>4 DEF Reclaim
<1>8. CASE SweepDone(p)
  <2>1. CASE pc[p] = "dropTail"
    BY <1>1, <1>8, <2>1 DEF SweepDone, Forget
  <2>2. CASE pc[p] # "dropTail"
    <3>1. pc'[p] # "dropOwn" /\ UNCHANGED <<asked, inUse, created>>
      BY <1>8, <2>2 DEF SweepDone, After, Dropping
    <3> QED
      BY <1>3, <3>1
  <2> QED
    BY <2>1, <2>2
<1>9. CASE SweepFails(p)
  <2>1. CASE After(pc[p]) = "idle"
    BY <1>1, <1>9, <2>1 DEF SweepFails, Forget
  <2>2. CASE After(pc[p]) # "idle"
    <3>1. pc'[p] # "dropOwn" /\ UNCHANGED <<asked, inUse, created>>
      BY <1>9, <2>2 DEF SweepFails, After, Dropping, Listing
    <3> QED
      BY <1>3, <3>1
  <2> QED
    BY <2>1, <2>2
\* At work a process has listed nothing of its own yet.
<1>10. ASSUME pc[p] = "working", UNCHANGED pc, asked'[p] \subseteq inUse'[p] \cup created'[p]
       PROVE  Reclaim(p)'
  BY <1>10 DEF Reclaim
<1>11. CASE CreateTemp(p)
  BY <1>10, <1>11 DEF CreateTemp, Reclaim
<1>12. CASE Register(p)
  BY <1>10, <1>12 DEF Register, Reclaim
<1>13. CASE DropTemp(p)
  BY <1>10, <1>13 DEF DropTemp, Reclaim
<1>14. CASE DropTempFails(p)
  BY <1>10, <1>14 DEF DropTempFails, Reclaim
<1>15. CASE Stamp(p) \/ CreateUnanswered(p)
  BY <1>10, <1>15 DEF Stamp, CreateUnanswered, Reclaim
<1>16. CASE Signal(p)
  <2>1. pc'[p] # "dropOwn" /\ UNCHANGED <<asked, inUse, created>>
    BY <1>16 DEF Signal, Startup
  <2> QED
    BY <1>3, <2>1
<1> QED
  BY <1>2, <1>4, <1>5, <1>6, <1>7, <1>8, <1>9, <1>11, <1>12, <1>13, <1>14, <1>15, <1>16 DEF Work

LEMMA ReclaimStep == UseInv /\ ReclaimInv /\ [Next]_vars => ReclaimInv'
<1> SUFFICES ASSUME UseInv, ReclaimInv, [Next]_vars, NEW p \in Proc
             PROVE  Reclaim(p)'
  BY DEF ReclaimInv
<1>1. Reclaim(p)
  BY DEF ReclaimInv
<1>2. ASSUME asked'[p] = asked[p], inUse'[p] = inUse[p], created'[p] = created[p],
             listed'[p] = listed[p], pc'[p] = pc[p]
      PROVE  Reclaim(p)'
  BY <1>1, <1>2, GoneStaysGone DEF Reclaim
<1>3. ASSUME NEW q \in Proc, Work(q) \/ CreateUnanswered(q) \/ Signal(q) \/ Kill(q)
      PROVE  Reclaim(p)'
  <2>1. CASE q = p
    BY <1>1, <1>3, <2>1, OwnReclaim
  <2>2. CASE q # p
    BY <1>2, <1>3, <2>2, OwnStepsAlone
  <2> QED
    BY <2>1, <2>2
<1>4. ASSUME NEW d \in TempDb, Age(d) \/ ForeignCleaned(d) PROVE Reclaim(p)'
  BY <1>2, <1>4 DEF Age, ForeignCleaned
<1>5. CASE UNCHANGED vars
  BY <1>2, <1>5 DEF vars
<1> QED
  BY <1>3, <1>4, <1>5 DEF Next, Environment

\* However a run was interrupted: when the sweep of its own databases at its end
\* goes through, none of those that the server confirmed is left
\* (DropCreatedTempDBs, tempDBTracker).
THEOREM TeardownLeavesNone == Spec => TeardownReclaims
<1> DEFINE Reclaims == \A p \in Proc :
                          pc[p] = "dropOwn" /\ SweepDone(p) => asked[p] \cap Present = {}
<1>1. Init => UseInv /\ ReclaimInv
  BY DEF Init, UseInv, TypeOK, Control, InUseKept, NamesApart, Connected, SweepsSpare,
         ReclaimInv, Reclaim
<1>2. ReclaimInv => Reclaims
  BY DEF ReclaimInv, Reclaim, SweepDone, Present
<1>3. ReclaimInv /\ [Next]_vars => [Reclaims]_vars
  BY <1>2
<1> QED
  BY <1>1, <1>3, UseStep, ReclaimStep, PTL DEF Spec, TeardownReclaims

=============================================================================
