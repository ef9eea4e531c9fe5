---------------------------- MODULE Bingo ----------------------------
(* bingo/bingo.c and bingo/bigbingo.c: the numbers of a cage are drawn  *)
(* without replacement, by moving the last one into the place of the    *)
(* one drawn.  The programs differ in the size of the cage.             *)
EXTENDS Integers, Sequences

CONSTANTS
    CageSize,      \* CAGE_INIT_SIZE: 90, or 100000
    Short          \* range of an unsigned short, 2^16

VARIABLES
    bpc,           \* "init", "extract", "done", or "crashed"
    numbers,       \* the cage,
    cageLen,       \* and how many numbers are in it
    printed        \* what has been announced

bvars == <<bpc, numbers, cageLen, printed>>

Places == 0 .. CageSize - 1

BInit ==
    /\ bpc = "init"
    /\ numbers = << >> /\ cageLen = 0
    /\ printed = << >>

\* Mutant of InitCage: counts from zero to the size.
InitCageFromZero ==
    /\ bpc = "init"
    /\ numbers' = [ii \in Places |-> ii] /\ cageLen' = CageSize
    /\ bpc' = "extract"
    /\ UNCHANGED printed

InitCage ==
    /\ bpc = "init"
    /\ numbers' = [ii \in Places |-> ii + 1] /\ cageLen' = CageSize
    /\ bpc' = "extract"
    /\ UNCHANGED printed

\* The result of malloc is not looked at.
InitCageCrashes ==
    /\ bpc = "init"
    /\ bpc' = "crashed"
    /\ UNCHANGED <<numbers, cageLen, printed>>

\* Mutant of ExtractNumber: the last number is moved after the cage has shrunk.
ExtractMovesTooLate(idx) ==
    /\ cageLen' = cageLen - 1
    /\ numbers' = [numbers EXCEPT ![idx] = IF cageLen > 1 THEN numbers[cageLen - 2] ELSE @]

\* rand() % len may be any place that is still filled.
ExtractNumber(idx) ==
    /\ numbers' = [numbers EXCEPT ![idx] = numbers[cageLen - 1]]
    /\ cageLen' = cageLen - 1

\* %hu prints what is left of a number in an unsigned short.
Announce(n) == printed' = Append(printed, n % Short)

Turn ==
    /\ bpc = "extract" /\ cageLen > 0
    /\ \E idx \in 0 .. cageLen - 1 : ExtractNumber(idx) /\ Announce(numbers[idx])
    /\ UNCHANGED bpc

Finish ==
    /\ bpc = "extract" /\ cageLen = 0
    /\ bpc' = "done"
    /\ UNCHANGED <<numbers, cageLen, printed>>

BNext == InitCage \/ InitCageCrashes \/ Turn \/ Finish

BSpec == BInit /\ [][BNext]_bvars

----------------------------------------------------------------------
Game == INSTANCE Lottery WITH
            Numbers <- 1 .. CageSize, called <- printed, over <- bpc = "done"

\* The players hear a proper game: whatever rand returns, no number is
\* announced twice, each one that is announced was in the cage, and all of
\* them have been when the program ends.  That is so of cages whose numbers
\* fit an unsigned short: bigbingo, with 100000, announces 65537 as 1.
ImplementsLottery == Game!LSpec
======================================================================
