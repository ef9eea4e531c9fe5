----------------------------- MODULE Sha1 -----------------------------
(* The incremental part of utils/sha1.c: how sha1_update cuts what it is *)
(* given into blocks and counts it, and how sha1_final pads the end.     *)
(* sha1_transform is abstracted to the sequence of bytes it has been     *)
(* given, which the digest is a function of.  A byte is tagged with what *)
(* it stands for, and a byte of the message with its place in it.        *)
EXTENDS Integers, Sequences

CONSTANTS
    Block,         \* bytes in a block, 64
    Word,          \* range of a uint32_t, 2^32
    ByteBits,      \* bits in a byte, 8
    Updates,       \* what one sha1_update of a caller may be given
    MaxTotal       \* bound: the length of the message

\* The length field is two bytes here, one for each word of the counter.
Field == 2

\* Blocks fill a word, and a byte has more bits than one.
ASSUME HashSizeAssumption ==
    /\ Block \in Nat /\ Block > Field
    /\ ByteBits \in Nat /\ ByteBits > 1
    /\ Word \in Nat \ {0} /\ Word % (Block * ByteBits) = 0
    /\ Updates \subseteq Nat \ {0} /\ MaxTotal \in Nat

VARIABLES
    hpc,           \* "idle", "loop" (in sha1_update) or "done"
    phase,         \* "data", "pad" or "length": who called sha1_update
    count,         \* ctx->count: low and high word
    buffer,        \* ctx->buffer
    absorbed,      \* the bytes sha1_transform was given
    data, hii,     \* of the running sha1_update: its argument and the
                   \* bytes of it that are in blocks
    finalcount,
    total          \* auxiliary: the length of the message so far

hvars == <<hpc, phase, count, buffer, absorbed, data, hii, finalcount, total>>

Message(from, to) == [k \in 1 .. to - from |-> <<"message", from + k>>]

----------------------------------------------------------------------
\* ctx->buffer is not initialised.
HInit ==
    /\ hpc = "idle" /\ phase = "data"
    /\ count = <<0, 0>> /\ absorbed = << >>
    /\ buffer = [k \in 1 .. Block |-> <<"junk", 0>>]
    /\ data = << >> /\ hii = 0
    /\ finalcount = <<0, 0>> /\ total = 0

\* The bytes that wait in the buffer.
Waiting == (count[1] \div ByteBits) % Block

\* Mutant of Counted: the carry into the high word is forgotten.
CountedLowOnly(len) == <<(count[1] + len * ByteBits) % Word, count[2]>>

\* The carry test compares the 32-bit sum with the 64-bit number of bits,
\* and the bits above the low word are added to the high one.
Counted(len) ==
    LET bits == len * ByteBits
        low == (count[1] + bits) % Word
    IN  <<low, (count[2] + (IF low < bits THEN 1 ELSE 0) + bits \div Word) % Word>>

\* The buffer with the bytes b copied in behind the first j.
Filled(j, b) ==
    [k \in 1 .. Block |-> IF k > j /\ k <= j + Len(b) THEN b[k - j] ELSE buffer[k]]

\* sha1_transform: what the digest depends on is which bytes come, in order.
Transform(block) == absorbed' = absorbed \o block

\* sha1_update up to its loop: what does not fill the buffer waits in it,
\* else the buffer is filled up and transformed.
Update(b) ==
    /\ hpc = "idle"
    /\ count' = Counted(Len(b))
    /\ LET j == Waiting
       IN  IF j + Len(b) >= Block
           THEN /\ Transform(Filled(j, SubSeq(b, 1, Block - j)))
                /\ buffer' = Filled(j, SubSeq(b, 1, Block - j))
                /\ hii' = Block - j /\ data' = b /\ hpc' = "loop"
           ELSE /\ buffer' = Filled(j, b)
                /\ UNCHANGED <<absorbed, data, hii, hpc>>

\* hii and the sum with it are 32 bits wide, the length is not.
MoreBlocks == (hii + Block - 1) % Word < Len(data)

UpdateBlock ==
    /\ hpc = "loop" /\ MoreBlocks
    /\ Transform(SubSeq(data, hii + 1, hii + Block))
    /\ hii' = (hii + Block) % Word
    /\ UNCHANGED <<hpc, phase, count, buffer, data, finalcount, total>>

\* The rest of the argument waits at the start of the buffer.
UpdateTail ==
    /\ hpc = "loop" /\ ~MoreBlocks
    /\ buffer' = Filled(0, SubSeq(data, hii + 1, Len(data)))
    /\ data' = << >> /\ hii' = 0 /\ hpc' = "idle"
    /\ UNCHANGED <<phase, count, absorbed, finalcount, total>>

\* The caller, sha1 or the loop of fsha1, has len more bytes.
Absorb(len) ==
    /\ phase = "data"
    /\ total + len <= MaxTotal
    /\ Update(Message(total, total + len))
    /\ total' = total + len
    /\ UNCHANGED <<phase, finalcount>>

\* sha1_final keeps the count of the message and appends a one bit, ...
Final ==
    /\ phase = "data"
    /\ Update(<< <<"one", 0>> >>)
    /\ finalcount' = count
    /\ phase' = "pad"
    /\ UNCHANGED total

\* ... zeros until just the length field is missing from a block, ...
RoomForLength == Waiting = Block - Field

\* Mutant of PadZero: as many bytes as strlen finds in the zero.
PadEmptyString ==
    /\ phase = "pad" /\ ~RoomForLength
    /\ Update(<< >>)
    /\ UNCHANGED <<phase, finalcount, total>>

PadZero ==
    /\ phase = "pad" /\ ~RoomForLength
    /\ Update(<< <<"zero", 0>> >>)
    /\ UNCHANGED <<phase, finalcount, total>>

\* ... and the length.
PadLength ==
    /\ phase = "pad" /\ RoomForLength
    /\ Update(<< <<"high", finalcount[2]>>, <<"low", finalcount[1]>> >>)
    /\ phase' = "length"
    /\ UNCHANGED <<finalcount, total>>

Finished ==
    /\ phase = "length" /\ hpc = "idle"
    /\ hpc' = "done"
    /\ UNCHANGED <<phase, count, buffer, absorbed, data, hii, finalcount, total>>

HRunning == UpdateBlock \/ UpdateTail \/ PadZero \/ PadLength \/ Finished

HNext == HRunning \/ Final \/ \E len \in Updates : Absorb(len)

HSpec == HInit /\ [][HNext]_hvars

\* The program is one thread that runs sha1_final to its end.
HFairSpec == HSpec /\ WF_hvars(HRunning)

----------------------------------------------------------------------
\* The message of n bytes as the standard pads it: a one bit, as few zeros as
\* fill a block with the length field, and the number of its bits.
Zeros(n) == CHOOSE z \in 0 .. Block - 1 : (n + 1 + z + Field) % Block = 0
Padded(n) ==
    Message(0, n) \o << <<"one", 0>> >> \o [k \in 1 .. Zeros(n) |-> <<"zero", 0>>]
       \o << <<"high", (n * ByteBits) \div Word>>, <<"low", (n * ByteBits) % Word>> >>

\* The digest is that of the message (sha1.h:26, "Computes the SHA-1 hash of
\* the given data"): the blocks transformed are those of the padded message,
\* also when the number of bits does not fit into one word.
HashesMessage == hpc = "done" => absorbed = Padded(total)

\* sha1_final ends: its loop comes past the place for the length.
FinalEnds == phase = "pad" ~> hpc = "done"
======================================================================
