-------------------------- MODULE RecordFile --------------------------
(* how-files/files-struct-sds.c and files-struct-stack.c: main writes    *)
(* products to a binary file and to a text file, frees them, and reads   *)
(* the binary one back twice.  The first program writes the length of    *)
(* each value before its characters, the second one blocks of one size.  *)
(* A number, a character or a block is one item of the file; the text    *)
(* file, which is never read, is left out but for its failures.          *)
EXTENDS Integers, SequencesExt

CONSTANTS
    Ids, Chars,    \* the numbers of products, and characters
    Lists,         \* what main may have to write: sequences of products
    Absent,        \* no file, or no result
    MaxFaults      \* bound: calls that fail

\* The value of a product is a string.
Product == [id : Ids, value : Seq(Chars)]

ASSUME ListsAssumption == Lists \subseteq Seq(Product)
ASSUME AbsentAssumption == Absent \notin Seq(Product)

VARIABLES
    rpc,           \* where main, or what it has called, is
    sds,           \* which of the programs this is
    products,      \* what main has to write
    file,          \* the binary file, or Absent if there is none
    res,           \* have both write functions returned 0
    rii,           \* products written
    pass, rpos,    \* the first or the second read_products, and its place
    rcount, read,  \* in it: the number of products and those read
    result,        \* what main has of it,
    rtotal,        \* and how many products it takes it for
    faults,
    cut            \* auxiliary: has another program cut the file

reading == <<pass, rpos, rcount, read, result, rtotal>>
rvars == <<rpc, sds, products, file, res, rii, reading, faults, cut>>

----------------------------------------------------------------------
\* What a product is in the file, and the file of the products ps.
Record(p) ==
    IF sds THEN <<p.id, Len(p.value)>> \o p.value ELSE << <<p.id, p.value>> >>
FileOf(ps) == <<Len(ps)>> \o FlattenSeq([n \in 1 .. Len(ps) |-> Record(ps[n])])

RInit ==
    /\ rpc = "start" /\ sds = TRUE /\ products = << >> /\ file = Absent
    /\ res = TRUE /\ rii = 0
    /\ pass = 0 /\ rpos = 0 /\ rcount = 0 /\ read = << >>
    /\ result = Absent /\ rtotal = 0
    /\ faults = 0 /\ cut = FALSE

Start ==
    /\ rpc = "start"
    /\ sds' \in BOOLEAN /\ products' \in Lists
    /\ rpc' = "write"
    /\ UNCHANGED <<file, res, rii, reading, faults, cut>>

Fault == faults < MaxFaults /\ faults' = faults + 1

----------------------------------------------------------------------
\* write_products: the number of products, ...
WriteTotal ==
    /\ rpc = "write"
    /\ file' = <<Len(products)>>
    /\ rpc' = "records"
    /\ UNCHANGED <<sds, products, res, rii, reading, faults, cut>>

\* ... one after the other, ...
WriteProduct ==
    /\ rpc = "records" /\ rii < Len(products)
    /\ file' = file \o Record(products[rii + 1])
    /\ rii' = rii + 1
    /\ UNCHANGED <<rpc, sds, products, res, reading, faults, cut>>

\* ... and the end.
CloseWritten ==
    /\ rpc = "records" /\ rii = Len(products)
    /\ rpc' = "text"
    /\ UNCHANGED <<sds, products, file, res, rii, reading, faults, cut>>

WriteOpenFails ==
    /\ rpc = "write" /\ Fault
    /\ res' = FALSE /\ rpc' = "text"
    /\ UNCHANGED <<sds, products, file, rii, reading, cut>>

\* Mutant of WriteFails: fclose is where it shows, and is not looked at.
WriteFailsAtClose ==
    /\ rpc = "records" /\ Fault
    /\ \E n \in 0 .. Len(file) : file' = SubSeq(file, 1, n)
    /\ res' = (rii = Len(products)) /\ rpc' = "text"
    /\ UNCHANGED <<sds, products, rii, reading, cut>>

\* An fwrite or the fclose fails: of what was buffered before, any part has
\* reached the file.
WriteFails ==
    /\ rpc = "records" /\ Fault
    /\ \E n \in 0 .. Len(file) : file' = SubSeq(file, 1, n)
    /\ res' = FALSE /\ rpc' = "text"
    /\ UNCHANGED <<sds, products, rii, reading, cut>>

\* write_products_text runs whatever write_products has returned.
WriteText ==
    /\ rpc = "text"
    /\ rpc' = "written"
    /\ UNCHANGED <<sds, products, file, res, rii, reading, faults, cut>>

WriteTextFails ==
    /\ rpc = "text" /\ Fault
    /\ res' = FALSE /\ rpc' = "written"
    /\ UNCHANGED <<sds, products, file, rii, reading, cut>>

WriteError ==
    /\ rpc = "written" /\ ~res
    /\ rpc' = "exit"
    /\ UNCHANGED <<sds, products, file, res, rii, reading, faults, cut>>

----------------------------------------------------------------------
\* main calls read_products, with a total of its own for each call.
ReadProducts ==
    /\ \/ rpc = "written" /\ res
       \/ rpc = "printed" /\ pass = 1
    /\ rpc' = "open" /\ pass' = pass + 1 /\ rtotal' = 0 /\ result' = Absent
    /\ UNCHANGED <<sds, products, file, res, rii, rpos, rcount, read, faults, cut>>

OpenRead ==
    /\ rpc = "open" /\ file # Absent
    /\ rpc' = "rcount" /\ rpos' = 0 /\ read' = << >>
    /\ UNCHANGED <<sds, products, file, res, rii, pass, rcount, result, rtotal, faults, cut>>

\* Mutant of ReadCount: the caller's total in both programs.
ReadCountIntoTotal ==
    /\ rpc = "rcount" /\ file # << >>
    /\ rcount' = file[1] /\ rtotal' = file[1]
    /\ rpos' = 1 /\ rpc' = "items"
    /\ UNCHANGED <<sds, products, file, res, rii, pass, read, result, faults, cut>>

\* The second program reads the number straight into the caller's total.
ReadCount ==
    /\ rpc = "rcount" /\ file # << >>
    /\ rcount' = file[1]
    /\ rtotal' = (IF sds THEN rtotal ELSE file[1])
    /\ rpos' = 1 /\ rpc' = "items"
    /\ UNCHANGED <<sds, products, file, res, rii, pass, read, result, faults, cut>>

\* The items a product takes, if that many are left.
Size(at) == IF sds THEN 2 + file[at + 2] ELSE 1
Complete(at) ==
    /\ at + (IF sds THEN 2 ELSE 1) <= Len(file)
    /\ at + Size(at) <= Len(file)
ProductAt(at) ==
    IF sds THEN [id |-> file[at + 1], value |-> SubSeq(file, at + 3, at + Size(at))]
           ELSE [id |-> file[at + 1][1], value |-> file[at + 1][2]]

ReadProduct ==
    /\ rpc = "items" /\ Len(read) < rcount
    /\ Complete(rpos)
    /\ read' = Append(read, ProductAt(rpos))
    /\ rpos' = rpos + Size(rpos)
    /\ UNCHANGED <<rpc, sds, products, file, res, rii, pass, rcount, result, rtotal, faults, cut>>

\* The end of the file is reached where something should be.
ReadShort ==
    /\ \/ rpc = "open" /\ file = Absent
       \/ rpc = "rcount" /\ file = << >>
       \/ rpc = "items" /\ Len(read) < rcount /\ ~Complete(rpos)
    /\ rpc' = "print"
    /\ UNCHANGED <<sds, products, file, res, rii, reading, faults, cut>>

\* fopen or an fread fails.
ReadFails ==
    /\ rpc \in {"open", "rcount"} \/ (rpc = "items" /\ Len(read) < rcount)
    /\ Fault
    /\ rpc' = "print"
    /\ UNCHANGED <<sds, products, file, res, rii, reading, cut>>

ReadDone ==
    /\ rpc = "items" /\ Len(read) = rcount
    /\ result' = read /\ rtotal' = rcount
    /\ rpc' = "print"
    /\ UNCHANGED <<sds, products, file, res, rii, pass, rpos, rcount, read, faults, cut>>

\* What malloc, sdsnew and sdsnewlen return is used as it is, by main and by
\* read_products.
MemoryFails ==
    /\ rpc = "start" \/ (rpc = "items" /\ Len(read) < rcount)
    /\ Fault
    /\ rpc' = "crashed"
    /\ UNCHANGED <<sds, products, file, res, rii, reading, cut>>

\* The loop of main looks at the total and not at the result.
PrintProducts ==
    /\ rpc = "print"
    /\ rpc' = IF rtotal > 0 /\ result = Absent THEN "crashed" ELSE "printed"
    /\ UNCHANGED <<sds, products, file, res, rii, reading, faults, cut>>

Exit ==
    /\ rpc = "printed" /\ pass = 2
    /\ rpc' = "exit"
    /\ UNCHANGED <<sds, products, file, res, rii, reading, faults, cut>>

\* Another program cuts or removes the file between two calls of main.
Cut ==
    /\ rpc \in {"text", "written", "printed"}
    /\ file # Absent
    /\ file' \in {SubSeq(file, 1, n) : n \in 0 .. Len(file)} \union {Absent}
    /\ cut' = TRUE
    /\ UNCHANGED <<rpc, sds, products, res, rii, reading, faults>>

Writing == WriteTotal \/ WriteProduct \/ CloseWritten \/ WriteOpenFails \/ WriteFails
              \/ WriteText \/ WriteTextFails \/ WriteError
Reading == ReadProducts \/ OpenRead \/ ReadCount \/ ReadProduct \/ ReadShort \/ ReadFails
              \/ ReadDone \/ MemoryFails \/ PrintProducts \/ Exit

RNext == Start \/ Writing \/ Reading \/ Cut

RSpec == RInit /\ [][RNext]_rvars

----------------------------------------------------------------------
\* What is written is what was meant, and what is read is what was written.
\* Once both write functions have returned 0 every product is in the file,
\* whichever call failed before or when, as long as nobody cuts it.
\* read_products returns all the products or nothing, also of a file cut
\* short; and in the program with sds strings main has nothing to print
\* where it returns nothing.
RoundTrip ==
    /\ rpc \notin {"start", "write", "records", "crashed"} /\ res /\ ~cut => file = FileOf(products)
    /\ rpc = "print" =>
          IF result # Absent THEN result = products /\ rtotal = Len(products)
                           ELSE sds => rtotal = 0
======================================================================
