--------------------------- MODULE MCDelDup ---------------------------
(* Three files of one or two buffers, two of which may be equal or one   *)
(* the prefix of another; each is given once, in several orders.         *)
EXTENDS DelDup

CONSTANTS a, b, c, u, v

MCContents == {<<u>>, <<u, v>>, <<v>>}
Files == {D \in Directory : \A p \in Paths : D[p] \in {p, Null}}
Plain == {<<a, b, c>>, <<c, a, b>>, <<b, a>>, <<a>>}
======================================================================
