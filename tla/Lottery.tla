--------------------------- MODULE Lottery ---------------------------
(* What a bingo promises its players: numbers of a set are called one   *)
(* after the other, none of them twice, and it is over when all have    *)
(* been called.                                                         *)
EXTENDS Sequences, Integers

CONSTANT Numbers

VARIABLES called,   \* the sequence of numbers called
          over

Called == {called[i] : i \in 1 .. Len(called)}

LInit == called = << >> /\ over = FALSE

Call ==
    /\ ~over
    /\ \E n \in Numbers \ Called : called' = Append(called, n)
    /\ UNCHANGED over

Close ==
    /\ Called = Numbers
    /\ over' = TRUE
    /\ UNCHANGED called

LNext == Call \/ Close

LSpec == LInit /\ [][LNext]_<<called, over>>
======================================================================
