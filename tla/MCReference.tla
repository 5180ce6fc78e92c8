---------------------------- MODULE MCReference ----------------------------
(***************************************************************************)
(* M8Reference over a parent and a child for TLC.                          *)
(***************************************************************************)
EXTENDS M8Reference

CONSTANTS P, C

File(t, rows, prune) ==
    [table |-> t, rows |-> rows, prune |-> prune, reads |-> {}, through |-> {},
     draws |-> FALSE, suits |-> "yes"]

\* The foreign key of the child, with and without an action; a cycle.
MCCatalogs ==
    LET fk(f, t, on) == [from |-> f, to |-> t, on |-> on]
    IN  {{fk(C, P, "restrict")}, {fk(C, P, "cascade")},
         {fk(C, P, "restrict"), fk(P, C, "restrict")}}

\* Two parents and a child of the first, one parent alone, a parent and a child
\* that refer to one another.
MCContents == {(P :> <<1, 2>> @@ C :> <<1, 0>>), (P :> <<1, 0>> @@ C :> <<0, 0>>),
               (P :> <<1, 0>> @@ C :> <<1, 0>>)}

\* A row more, a row re-keyed, a parent pruned.
Parents == {File(P, <<1, 2>>, FALSE), File(P, <<0, 1>>, TRUE), File(P, <<0, 2>>, TRUE)}

\* The child moved to the second parent, or replaced by another.
Children == {File(C, <<2, 0>>, FALSE), File(C, <<0, 1>>, TRUE)}

\* A parent more, and the child, pruned, moved to it: its query reads the
\* parents through a view.
Unseen == {<<[File(C, <<2, 0>>, TRUE) EXCEPT !.through = {P}], File(P, <<1, 2>>, FALSE)>>}

OneFamily == {(P :> <<1, 0>> @@ C :> <<1, 0>>)}

\* Both tables, the child's file first by name; values swapped; a row that
\* differs beside one that does not; one table twice; a query that reads the
\* parent, by its name or unseen; one that reads its own table through a view;
\* one that calls nextval(); files that do not suit.
MCReleases ==
    {<<c, p>> : c \in Children, p \in Parents} \cup Unseen
    \cup LET p == File(P, <<1, 2>>, FALSE)
              c == File(C, <<2, 0>>, TRUE)
         IN  {<<File(P, <<2, 1>>, FALSE)>>, <<File(C, <<1, 2>>, FALSE)>>, <<p, p>>,
              <<[c EXCEPT !.reads = {P}], p>>, <<[c EXCEPT !.reads = {P}]>>,
              <<[File(C, <<2, 1>>, TRUE) EXCEPT !.through = {C}]>>,
              <<[p EXCEPT !.draws = TRUE]>>, <<[p EXCEPT !.suits = "shape"]>>,
              <<[p EXCEPT !.suits = "rows"]>>}
=============================================================================
