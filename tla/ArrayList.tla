-------------------------- MODULE ArrayList --------------------------
(* The array that both array lists are built on: utils/nalist.c, and    *)
(* utils/alist.c up to the ownership of its elements (module AList).    *)
(* The two shifting loops move one cell per step, and either            *)
(* reallocation may fail.                                               *)
EXTENDS Integers

CONSTANTS
    Elems,         \* what a cell may hold
    Junk,          \* what a cell holds that was never written
    Capacities,    \* what callers pass to the create function
    MaxCapacity,   \* bound: realloc to a longer array fails
    MaxIndex       \* bound: the largest index callers pass

ASSUME JunkAssumption == Junk \notin Elems
ASSUME CapacityAssumption ==
    Capacities \subseteq Nat /\ MaxCapacity \in Nat /\ MaxIndex \in Nat

VARIABLES
    pc,            \* "none", "idle", "grow", "shiftRight", "shrink",
                   \* "shiftLeft" or "destroyed"
    data,          \* list->data, a function on 0 .. capacity - 1
    capacity, size,
    ii,            \* the loop variable of a shift
    idx, ele,      \* the arguments of the running call
    ret            \* what the last finished call returned

list == <<data, capacity, size>>
call == <<idx, ele>>
vars == <<pc, data, capacity, size, ii, idx, ele, ret>>

Cells(c) == 0 .. c - 1

\* realloc keeps the cells both blocks have; the others are not set.
Resized(c) == [p \in Cells(c) |-> IF p < capacity THEN data[p] ELSE Junk]

Return(r) ==
    /\ pc' = "idle" /\ ret' = r
    /\ ii' = 0 /\ idx' = 0 /\ ele' = Junk

----------------------------------------------------------------------
Init ==
    /\ pc = "none"
    /\ data = << >> /\ capacity = 0 /\ size = 0
    /\ ii = 0 /\ idx = 0 /\ ele = Junk /\ ret = 0

\* nal_create: a zero capacity or a failing malloc gives NULL.
Create(c) ==
    /\ pc = "none"
    /\ c > 0
    /\ data' = [p \in Cells(c) |-> Junk] /\ capacity' = c /\ size' = 0
    /\ Return(1)

CreateFails ==
    /\ pc = "none"
    /\ ret' = 0
    /\ UNCHANGED <<pc, list, ii, call>>

Destroy ==
    /\ pc = "idle"
    /\ pc' = "destroyed"
    /\ data' = << >> /\ capacity' = 0 /\ size' = 0
    /\ UNCHANGED <<ii, call, ret>>

\* Mutant of Insert: grows too late.
InsertGrowsLate(e, i) ==
    /\ pc = "idle"
    /\ i <= size
    /\ pc' = IF size > capacity THEN "grow" ELSE "shiftRight"
    /\ ii' = size /\ idx' = i /\ ele' = e
    /\ UNCHANGED <<list, ret>>

\* nal_insert: check the index, grow a full array, then shift.
Insert(e, i) ==
    /\ pc = "idle"
    /\ i <= size
    /\ pc' = IF size = capacity THEN "grow" ELSE "shiftRight"
    /\ ii' = size /\ idx' = i /\ ele' = e
    /\ UNCHANGED <<list, ret>>

AppendElem(e) == Insert(e, size)
PrependElem(e) == Insert(e, 0)

InsertOutOfBound(i) ==
    /\ pc = "idle"
    /\ i > size
    /\ Return(0)
    /\ UNCHANGED list

Grow ==
    /\ pc = "grow"
    /\ capacity * 2 <= MaxCapacity
    /\ capacity' = capacity * 2 /\ data' = Resized(capacity * 2)
    /\ pc' = "shiftRight"
    /\ UNCHANGED <<size, ii, call, ret>>

GrowFails ==
    /\ pc = "grow"
    /\ Return(0)
    /\ UNCHANGED list

\* The right shift runs down from the end, so no cell is lost ...
ShiftRight ==
    /\ pc = "shiftRight"
    /\ ii > idx
    /\ data' = [data EXCEPT ![ii] = data[ii - 1]]
    /\ ii' = ii - 1
    /\ UNCHANGED <<pc, capacity, size, call, ret>>

\* ... and the element goes into the cell it opened.
Place ==
    /\ pc = "shiftRight"
    /\ ii <= idx
    /\ data' = [data EXCEPT ![idx] = ele]
    /\ size' = size + 1
    /\ UNCHANGED capacity
    /\ Return(1)

\* nal_remove: check the index, shrink an array that is exactly half full.
Remove(i) ==
    /\ pc = "idle"
    /\ i < size
    /\ pc' = IF size = capacity \div 2 THEN "shrink" ELSE "shiftLeft"
    /\ ii' = i /\ idx' = i
    /\ UNCHANGED <<list, ele, ret>>

RemoveOutOfBound(i) ==
    /\ pc = "idle"
    /\ i >= size
    /\ Return(0)
    /\ UNCHANGED list

\* An array of fewer than two cells is not made; that is no failure.
Shrink ==
    /\ pc = "shrink"
    /\ IF capacity \div 2 < 2
       THEN UNCHANGED <<capacity, data>>
       ELSE capacity' = capacity \div 2 /\ data' = Resized(capacity \div 2)
    /\ pc' = "shiftLeft"
    /\ UNCHANGED <<size, ii, call, ret>>

\* Mutant of ShrinkFails: the length has been counted down before.
ShrinkFailsCounted ==
    /\ pc = "shrink"
    /\ capacity \div 2 >= 2
    /\ size' = size - 1
    /\ UNCHANGED <<data, capacity>>
    /\ Return(0)

ShrinkFails ==
    /\ pc = "shrink"
    /\ capacity \div 2 >= 2
    /\ Return(0)
    /\ UNCHANGED list

ShiftLeft ==
    /\ pc = "shiftLeft"
    /\ ii < size - 1
    /\ data' = [data EXCEPT ![ii] = data[ii + 1]]
    /\ ii' = ii + 1
    /\ UNCHANGED <<pc, capacity, size, call, ret>>

Drop ==
    /\ pc = "shiftLeft"
    /\ ii >= size - 1
    /\ size' = size - 1
    /\ UNCHANGED <<data, capacity>>
    /\ Return(1)

Indices == 0 .. MaxIndex

Calls ==
    \/ \E c \in Capacities : Create(c)
    \/ CreateFails
    \/ Destroy
    \/ \E e \in Elems : AppendElem(e) \/ PrependElem(e)
    \/ \E e \in Elems, i \in Indices : Insert(e, i)
    \/ \E i \in Indices : InsertOutOfBound(i) \/ Remove(i) \/ RemoveOutOfBound(i)

Running ==
    \/ Grow \/ GrowFails \/ ShiftRight \/ Place
    \/ Shrink \/ ShrinkFails \/ ShiftLeft \/ Drop

Next == Calls \/ Running

Spec == Init /\ [][Next]_vars

----------------------------------------------------------------------
TypeOK ==
    /\ pc \in {"none", "idle", "grow", "shiftRight", "shrink", "shiftLeft",
               "destroyed"}
    /\ capacity \in Nat /\ data \in [Cells(capacity) -> Elems \union {Junk}]
    /\ size \in Nat /\ ii \in Nat /\ idx \in Nat
    /\ ele \in Elems \union {Junk}
    /\ ret \in {0, 1}

\* The loops stay inside the block data points to: a right shift starts
\* at a cell past the elements that exists, since a full array was grown
\* first, and a left shift reads at most the last element, since shrinking
\* never cuts an element off.
InBounds ==
    /\ size <= capacity
    /\ pc = "shiftRight" => size < capacity /\ idx <= ii /\ ii <= size
    /\ pc = "shiftLeft" => idx <= ii /\ ii < size

\* The list a caller sees.  While cells are shifted right the element in
\* cell ii is there twice or not yet wanted; shifted left, the removed one
\* is already gone.
Listing(n, shift) == [p \in 1 .. n |-> IF p <= shift THEN data[p - 1] ELSE data[p]]
Contents ==
    IF pc = "shiftRight" THEN Listing(size, ii)
    ELSE IF pc = "shiftLeft" THEN Listing(size - 1, ii)
    ELSE Listing(size, size)

List == INSTANCE ListSpec WITH list <- Contents

\* What a step does to the sequence is what its call was asked for: the last
\* step of an insertion inserts its element at its index, the first shift of
\* a removal takes the element at its index out, and no other step changes
\* anything; a call returns 1 if it has done its work and 0 otherwise.
Placed == pc = "shiftRight" /\ pc' = "idle"
Removed == pc # "shiftLeft" /\ pc' = "shiftLeft"
Destroyed == pc # "destroyed" /\ pc' = "destroyed"
AsAsked ==
    /\ Placed => List!Insert(idx, ele)
    /\ Removed => List!Delete(idx')
    /\ Destroyed => List!Clear
    /\ Placed \/ Removed \/ Destroyed \/ UNCHANGED Contents
    /\ pc # "idle" /\ pc' = "idle" =>
          (ret' = 1 <=> pc \in {"none", "shiftRight", "shiftLeft"})

\* Reallocation and the shifting loops make an insertion or a removal look
\* like one step on a sequence, at the index of the call and with its
\* element, and calls that fail, for want of memory or of such an index,
\* leave it alone.
ImplementsList == List!ListSpecification /\ [][AsAsked]_vars
======================================================================
