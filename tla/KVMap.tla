---------------------------- MODULE KVMap ----------------------------
(* What the hash map of utils/hmap.h promises a caller: a finite map    *)
(* from keys to values.  Add binds a key, remove unbinds it, and no     *)
(* call, failed or not, changes what any other key is bound to.         *)
CONSTANTS Keys, Values

VARIABLE m            \* the bindings, a function whose domain is the bound keys

KVInit == m = << >>

\* hmap_add that returns 1 (hmap.h:59-69).
Put(k, v) ==
    m' = [x \in DOMAIN m \union {k} |-> IF x = k THEN v ELSE m[x]]

\* hmap_remove that returns 1 (hmap.h:84-91).
Delete(k) ==
    /\ k \in DOMAIN m
    /\ m' = [x \in DOMAIN m \ {k} |-> m[x]]

\* hmap_destroy (hmap.h:48-55) takes every binding with it.
Clear == m' = << >>

KVNext ==
    \/ \E k \in Keys, v \in Values : Put(k, v)
    \/ \E k \in Keys : Delete(k)
    \/ Clear

KVSpec == KVInit /\ [][KVNext]_m
======================================================================
