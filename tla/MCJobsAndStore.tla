--------------------------- MODULE MCJobsAndStore ---------------------------
EXTENDS JobsAndStore, Sequences

(* One batch of two ids; and graphs of the two labels, in either order,    *)
(* one of them with an edge that storeGraph() leaves out.                  *)
MCContent == [b \in Batch |-> {1, 2}]

MCGraphs ==
    {[labels |-> <<"a", "b">>, edges |-> <<<<"a", "b">>>>, grade |-> 3],
     [labels |-> <<"b", "a">>, edges |-> <<<<"a", "b">>, <<"b", "b">>>>, grade |-> 4]}
=============================================================================
