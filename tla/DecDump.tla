--------------------------- MODULE DecDump ---------------------------
(* decdump/decdump.c: a file is read byte by byte into a row and every  *)
(* full row printed, then what is left in it.  A row is printed twice   *)
(* over, in decimal and as characters.                                  *)
EXTENDS Integers, Sequences

CONSTANTS
    Row,           \* VISUAL_ROW, 16
    ByteValues,    \* values of a byte
    Files,         \* what the file may hold, sequences of bytes
    Junk           \* a byte of the stack that nobody has written

ASSUME RowAssumption == Row \in Nat \ {0}
ASSUME FilesAssumption == Files \subseteq Seq(ByteValues)

VARIABLES
    dpc,           \* "open", "read", "last", "close" or "exit"
    dumped, dpos,  \* the file and how far it has been read
    buf, dii,      \* the row and the bytes in it
    rowCounter,
    rows,          \* the rows printed: offset, decimal and readable part
    footer,        \* the size printed at the end, or -1
    dstatus        \* exit status, or -1

dvars == <<dpc, dumped, dpos, buf, dii, rowCounter, rows, footer, dstatus>>

DInit ==
    /\ dpc = "open" /\ dumped = << >> /\ dpos = 0
    /\ buf = [k \in 0 .. Row - 1 |-> Junk] /\ dii = 0 /\ rowCounter = 0
    /\ rows = << >> /\ footer = -1 /\ dstatus = -1

Open ==
    /\ dpc = "open"
    /\ dumped' \in Files
    /\ dpc' = "read"
    /\ UNCHANGED <<dpos, buf, dii, rowCounter, rows, footer, dstatus>>

OpenFails ==
    /\ dpc = "open"
    /\ dpc' = "exit" /\ dstatus' = 1
    /\ UNCHANGED <<dumped, dpos, buf, dii, rowCounter, rows, footer>>

\* The first n cells of b.
Cells(b, n) == [k \in 1 .. n |-> b[k - 1]]

\* The readable part is as long as offset modulo the row says, a whole row
\* where that is nothing.
Readable(b, offset) == Cells(b, IF offset % Row = 0 THEN Row ELSE offset % Row)

\* dec_dump: the first cell is printed before the loop looks at len, and
\* the loop leaves its counter at what it has printed.
Printed(b, len) == IF len = 0 THEN 1 ELSE len
DecDump(b, len) ==
    rows' = Append(rows, [offset |-> rowCounter,
                          decimal |-> Cells(b, Printed(b, len)),
                          readable |-> Readable(b, Printed(b, len))])

\* One turn of the loop: a byte is put into the row, a full row is printed.
Fgetc ==
    /\ dpc = "read" /\ dpos < Len(dumped)
    /\ dpos' = dpos + 1
    /\ buf' = [buf EXCEPT ![dii] = dumped[dpos + 1]]
    /\ IF (dii + 1) % Row = 0
       THEN /\ DecDump(buf', Row)
            /\ dii' = 0 /\ rowCounter' = rowCounter + Row
       ELSE dii' = dii + 1 /\ UNCHANGED <<rows, rowCounter>>
    /\ UNCHANGED <<dpc, dumped, footer, dstatus>>

\* EOF is the end of the file or an error of the read.
Eof ==
    /\ dpc = "read"
    /\ dpc' = "last"
    /\ UNCHANGED <<dumped, dpos, buf, dii, rowCounter, rows, footer, dstatus>>

\* Mutant of LastRow: the row left over is not printed.
LastForgotten ==
    /\ dpc = "last"
    /\ footer' = rowCounter + dii
    /\ dpc' = "close"
    /\ UNCHANGED <<dumped, dpos, buf, dii, rowCounter, rows, dstatus>>

LastRow ==
    /\ dpc = "last"
    /\ DecDump(buf, dii)
    /\ footer' = rowCounter + dii
    /\ dpc' = "close"
    /\ UNCHANGED <<dumped, dpos, buf, dii, rowCounter, dstatus>>

Close(s) ==
    /\ dpc = "close"
    /\ dpc' = "exit" /\ dstatus' = s
    /\ UNCHANGED <<dumped, dpos, buf, dii, rowCounter, rows, footer>>

DNext == Open \/ OpenFails \/ Fgetc \/ Eof \/ LastRow \/ (\E s \in {0, 1} : Close(s))

DSpec == DInit /\ [][DNext]_dvars

----------------------------------------------------------------------
Shown[n \in 0 .. Len(rows)] == IF n = 0 THEN << >> ELSE Shown[n - 1] \o rows[n].decimal

\* The dump can be read back: with a size at its end, that many bytes of the
\* rows, strung together, are what was read of the file, every row starts at
\* its offset and says the same on both sides.
DumpReadsBack ==
    footer # -1 =>
       /\ footer = dpos /\ footer <= Len(Shown[Len(rows)])
       /\ SubSeq(Shown[Len(rows)], 1, footer) = SubSeq(dumped, 1, dpos)
       /\ \A n \in 1 .. Len(rows) :
             /\ rows[n].offset = Len(Shown[n - 1])
             /\ rows[n].readable = rows[n].decimal
======================================================================
