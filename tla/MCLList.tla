--------------------------- MODULE MCLList ---------------------------
(* Five nodes and five element blocks: a walk takes one link from the    *)
(* head and up to two from the tail, and there are inner nodes whose two *)
(* neighbours are inner nodes too.                                       *)
EXTENDS LList, TLC

MCSymmetry == Permutations(Nodes) \union Permutations(Elems)
======================================================================
