--------------------------- MODULE Feistel ---------------------------
(* how-feistel/feistel.c: a round mixes the two bytes of a number, and  *)
(* is undone by another; main shows it on one number, then prints the   *)
(* round of every number.                                               *)
EXTENDS Integers, FiniteSets

CONSTANTS
    ByteRange,      \* range of a byte, 2^8
    ByteXor(_, _)   \* the exclusive or of two bytes

\* What is used of it: it gives a byte, and undoes itself.
ASSUME XorAssumption ==
    /\ ByteRange \in Nat \ {0}
    /\ \A a, b \in 0 .. ByteRange - 1 :
          ByteXor(a, b) \in 0 .. ByteRange - 1 /\ ByteXor(ByteXor(a, b), b) = a

VARIABLES
    fpc,            \* "value", "rounded", "back" or "loop"
    number, pair,   \* value, and the two bytes p points to
    fii,            \* the counter of the loop
    outputs         \* the rounds it has printed

fvars == <<fpc, number, pair, fii, outputs>>

Pairs == (0 .. ByteRange - 1) \X (0 .. ByteRange - 1)

\* p points to the low byte of the number.
BytesOf(n) == <<n % ByteRange, n \div ByteRange>>

Shuffle(b) == ((- b - 1) * 4 + 2) % ByteRange

Round(q) == <<q[2], ByteXor(q[1], Shuffle(q[2]))>>

\* Mutant of Deround: shuffles the other byte.
DeroundOther(q) == <<ByteXor(q[2], Shuffle(q[2])), q[1]>>

Deround(q) == <<ByteXor(q[2], Shuffle(q[1])), q[1]>>

FInit == fpc = "value" /\ number = <<0, 0>> /\ pair = <<0, 0>> /\ fii = 0 /\ outputs = {}

\* main has 12345.
Show ==
    /\ fpc = "value"
    /\ number' \in Pairs
    /\ pair' = Round(number') /\ fpc' = "rounded"
    /\ UNCHANGED <<fii, outputs>>

Undo ==
    /\ fpc = "rounded"
    /\ pair' = Deround(pair) /\ fpc' = "back"
    /\ UNCHANGED <<number, fii, outputs>>

NextRound ==
    /\ fpc \in {"back", "loop"} /\ fii < ByteRange * ByteRange
    /\ pair' = Round(BytesOf(fii))
    /\ outputs' = outputs \union {pair'}
    /\ fii' = fii + 1 /\ fpc' = "loop"
    /\ UNCHANGED number

FNext == Show \/ Undo \/ NextRound

FSpec == FInit /\ [][FNext]_fvars

----------------------------------------------------------------------
\* feistel.c:30-32: "every number will have only one rounded version", no
\* two numbers the same, and the number comes back from it, for every number
\* main might show.
RoundsPermute ==
    /\ fpc = "back" => pair = number
    /\ Cardinality(outputs) = fii
======================================================================
