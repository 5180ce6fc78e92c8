------------------------------ MODULE MCEngine ------------------------------
(***************************************************************************)
(* M8Engine on small directories for TLC.                                  *)
(***************************************************************************)
EXTENDS M8Engine

CONSTANTS p1, p2, o1, o2, s1, s2, l1, g1, r1, d1, c1, c2

MCTypeOf == [f \in File |->
    CASE f \in {o1, o2} -> "ops"
      [] f \in {s1, s2} -> "schema"
      [] f = l1 -> "logic"
      [] f = g1 -> "permissions"
      [] f = r1 -> "reference"
      [] f = d1 -> "data"]

\* The second file of a folder has the greater version, or the later name.
MCOrdinal == [f \in File |-> IF f \in {o2, s2} THEN 2 ELSE 1]

\* Every file is there from the start, with its first content.
MCInitDir == [f \in File |-> c1]

\* A greenfield target; the namespace of s1 is public, which always exists.
MCInitDb == [f \in File |-> IF f = s1 THEN Empty ELSE Absent]
=============================================================================
