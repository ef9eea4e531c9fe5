---------------------------- MODULE MCHMap ----------------------------
(* All three keys have home 0 in a table of 2, and a and b have home 2    *)
(* in one of 4: chains from the middle of a table, a table that entries   *)
(* of older values could fill up, and probes that run off its end; in a   *)
(* table of 8 every key has a slot of its own.                            *)
EXTENDS HMap

CONSTANTS a, b, c
Colliding == [k \in Keys |-> CASE k = a -> 2 [] k = b -> 6 [] k = c -> 0]
MCCapacities == {1, 2, 3}
\* The lowest free block: what was freed is handed out again at once.
MCCalloc(H) == {n \in Blocks \ H : \A m \in Blocks \ H : n <= m}
======================================================================
