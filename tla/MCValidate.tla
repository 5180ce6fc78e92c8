----------------------------- MODULE MCValidate -----------------------------
(***************************************************************************)
(* M8Validate over two folders, which reach into one another and into two  *)
(* more schemas, for TLC.                                                  *)
(***************************************************************************)
EXTENDS M8Validate

CONSTANTS A, B, C, D, a, b, c, d, routine

MCHomeOf == [o \in Obj |-> CASE o = a -> A [] o = b -> B [] o \in {c, routine} -> C [] o = d -> D]

MCRank == [f \in Folder |-> IF f = A THEN 1 ELSE 2]

\* Objects cannot be defined in terms of one another in a circle, schemas can.
Acyclic(u) ==
    /\ ~ (c \in u[a] /\ a \in u[c]) /\ ~ (c \in u[b] /\ b \in u[c])
    /\ ~ (b \in u[a] /\ c \in u[b] /\ a \in u[c])

\* a may use anything, b and c a relation or two; a function resolves nothing
\* when it is created.
Uses(ofA, ofB, ofC) ==
    [o \in Obj |-> CASE o = a -> ofA [] o = b -> ofB [] o = c -> ofC
                     [] o \in {d, routine} -> {}]

MCCatalogs ==
    {u \in {Uses(ofA, ofB, ofC) : ofA \in SUBSET (Obj \ {a}),
                                  ofB \in {{}, {c}, {d}},
                                  ofC \in SUBSET {a, d}} : Acyclic(u)}
=============================================================================
