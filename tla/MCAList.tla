--------------------------- MODULE MCAList ---------------------------
(* Three blocks in arrays of one, three and four cells, so that lists    *)
(* grow, are shrunk at two elements, and hold every block at once.       *)
EXTENDS AList

MCCapacities == {1, 3, 4}
======================================================================
