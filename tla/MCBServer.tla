-------------------------- MODULE MCBServer --------------------------
(* Two clients and a queue of one.  The messages of whole arrive in one  *)
(* piece, those of split in two, of which a read takes one or both.      *)
EXTENDS BServer

CONSTANTS whole, split
MCPieces == [c \in Clients |-> IF c = whole THEN 1 ELSE 2]
======================================================================
