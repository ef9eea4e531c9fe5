---------------------------- MODULE MCSha1 ----------------------------
(* Blocks of four bytes, words of 32 values and bytes of two bits: the   *)
(* low word of the counter overflows every 16 bytes, every fourth block. *)
EXTENDS Sha1
======================================================================
