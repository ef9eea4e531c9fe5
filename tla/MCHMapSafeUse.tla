------------------------ MODULE MCHMapSafeUse ------------------------
(* The colliding keys of MCHMap, and one whose home is the last slot of   *)
(* a table of 4, under callers that look before they add.                 *)
EXTENDS HMapSafeUse, TLC

CONSTANTS a, b, c, d
Colliding == [k \in Keys |-> CASE k = a -> 2 [] k = b -> 6 [] k = c -> 0 [] k = d -> 3]
MCCapacities == {1, 2, 3}
\* The lowest free block: what was freed is handed out again at once.
MCCalloc(H) == {n \in Blocks \ H : \A m \in Blocks \ H : n <= m}
MCSymmetry == Permutations(Values)
======================================================================
