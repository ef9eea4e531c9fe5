--------------------------- MODULE MCTools ---------------------------
(* The small programs and the bump arena in one run: which of them it is *)
(* is chosen at the start, the others do nothing. The arena has two      *)
(* blocks, so that it can move and come back, and lengths for which one  *)
(* call has to double it up to three times. SHA-1 is the one of hashs.c, *)
(* with blocks of four bytes, words of 32 values and bytes of two bits:  *)
(* the low word of its counter overflows every 16 bytes, every fourth    *)
(* block. Rows of the dump have three bytes, and its files no, some and  *)
(* whole rows; an address has five bits, a byte of the Feistel shuffle   *)
(* three.                                                                *)
EXTENDS BumpArena, Sha1, Bingo, DecDump, RecordFile, SemVer, Cidr, Feistel, Bitwise

CONSTANTS x, y

VARIABLE program

MCFiles == {<< >>, <<x>>, <<x, y>>, <<x, y, y>>, <<x, y, y, x>>, <<y, x, x, y, y, x>>}
MCLists == {<<[id |-> 1, value |-> << >>], [id |-> 2, value |-> <<x>>]>>,
            <<[id |-> 2, value |-> <<x, y>>], [id |-> 1, value |-> <<y>>]>>}
MCXor(a, b) == a ^^ b
MCOr(a, b) == a | b

Programs == {"hashs", "bingo", "decdump", "files", "version", "cidr", "feistel", "arena"}

allvars == <<program, hvars, bvars, dvars, rvars, version, cvars, fvars, vars>>

AllInit ==
    /\ program \in Programs
    /\ BInit /\ DInit /\ RInit /\ VInit /\ HInit /\ CInit /\ FInit /\ Init

Hashs == program = "hashs" /\ UNCHANGED <<program, bvars, dvars, rvars, version, cvars, fvars, vars>>

AllNext ==
    \/ Hashs /\ HNext
    \/ /\ program = "bingo" /\ BNext
       /\ UNCHANGED <<program, hvars, dvars, rvars, version, cvars, fvars, vars>>
    \/ /\ program = "decdump" /\ DNext
       /\ UNCHANGED <<program, hvars, bvars, rvars, version, cvars, fvars, vars>>
    \/ /\ program = "files" /\ RNext
       /\ UNCHANGED <<program, hvars, bvars, dvars, version, cvars, fvars, vars>>
    \/ /\ program = "version" /\ VNext
       /\ UNCHANGED <<program, hvars, bvars, dvars, rvars, cvars, fvars, vars>>
    \/ /\ program = "cidr" /\ CNext
       /\ UNCHANGED <<program, hvars, bvars, dvars, rvars, version, fvars, vars>>
    \/ /\ program = "feistel" /\ FNext
       /\ UNCHANGED <<program, hvars, bvars, dvars, rvars, version, cvars, vars>>
    \/ /\ program = "arena" /\ Next
       /\ UNCHANGED <<program, hvars, bvars, dvars, rvars, version, cvars, fvars>>

\* hashs is one thread that runs sha1_final to its end.
AllSpec ==
    /\ AllInit
    /\ [][AllNext]_allvars
    /\ WF_allvars(Hashs /\ HRunning)
======================================================================
