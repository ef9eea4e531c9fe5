-------------------------- MODULE BumpArena --------------------------
(* The arena allocator of utils/bumparena.c.  A pointer is a block and   *)
(* an offset into it; growing may move the arena to another block, and   *)
(* frees the one it was in.  Lengths are far below the range of size_t.  *)
EXTENDS Integers

CONSTANTS
    Blocks,        \* the addresses malloc and realloc may return
    Null,
    Capacities,    \* what callers pass to bumparena_create
    Lengths,       \* what callers pass to bumparena_alloc
    MaxCapacity    \* bound: realloc to a larger block fails

ASSUME NullAssumption == Null \notin Blocks
ASSUME SizeAssumption ==
    Capacities \subseteq Nat /\ Lengths \subseteq Nat /\ MaxCapacity \in Nat

VARIABLES
    pc,            \* "none", "idle", "alloc" or "gone"
    start, offset, \* arena->start, a block, and arena->offset, a pointer
    capacity, len,
    want,          \* the length the running bumparena_alloc was asked for
    regions,       \* the regions handed out: pointers with a length
    heap           \* the blocks allocated and not freed

arena == <<start, offset, capacity, len>>
vars == <<pc, start, offset, capacity, len, want, regions, heap>>

Pointer == [block : Blocks, at : Nat]
Region == [block : Blocks, at : Nat, len : Nat]

----------------------------------------------------------------------
Init ==
    /\ pc = "none"
    /\ start = Null /\ offset = Null /\ capacity = 0 /\ len = 0
    /\ want = 0 /\ regions = {} /\ heap = {}

\* malloc of no bytes returns a block like any other.
Create(c) ==
    /\ pc = "none"
    /\ \E b \in Blocks : /\ start' = b /\ offset' = [block |-> b, at |-> 0]
                         /\ heap' = {b}
    /\ capacity' = c /\ len' = 0
    /\ pc' = "idle"
    /\ UNCHANGED <<want, regions>>

\* The arena structure is not freed when the block cannot be had.
CreateFails == pc = "none" /\ UNCHANGED vars

Destroy ==
    /\ pc = "idle"
    /\ heap' = heap \ {start}
    /\ start' = Null /\ offset' = Null /\ capacity' = 0 /\ len' = 0
    /\ pc' = "gone"
    /\ UNCHANGED <<want, regions>>

Alloc(n) ==
    /\ pc = "idle"
    /\ want' = n
    /\ pc' = "alloc"
    /\ UNCHANGED <<arena, regions, heap>>

\* The loop of bumparena_alloc goes on while the request does not leave a
\* byte to spare.
TooSmall == pc = "alloc" /\ len + want >= capacity

\* Mutant of Grow: the offset is not recalculated.
GrowKeepsOffset ==
    /\ TooSmall
    /\ capacity > 0 /\ 2 * capacity <= MaxCapacity
    /\ \E b \in (Blocks \ heap) \union {start} :
          /\ start' = b
          /\ heap' = (heap \ {start}) \union {b}
    /\ capacity' = 2 * capacity
    /\ UNCHANGED <<pc, len, offset, want, regions>>

Grow ==
    /\ TooSmall
    /\ capacity > 0 /\ 2 * capacity <= MaxCapacity
    /\ \E b \in (Blocks \ heap) \union {start} :
          /\ start' = b /\ offset' = [block |-> b, at |-> len]
          /\ heap' = (heap \ {start}) \union {b}
    /\ capacity' = 2 * capacity
    /\ UNCHANGED <<pc, len, want, regions>>

\* bumparena_alloc returns NULL; what earlier turns grew stays grown.
GrowFails ==
    /\ TooSmall
    /\ capacity > 0
    /\ pc' = "idle" /\ want' = 0
    /\ UNCHANGED <<arena, regions, heap>>

\* realloc to no bytes frees the block and returns NULL (glibc), which
\* bumparena_grow takes for a failure.  The arena keeps the pointer: that a
\* later call reallocates or frees it again is undefined, and is left out
\* here, where both then do nothing to the heap.
GrowNothing ==
    /\ TooSmall
    /\ capacity = 0
    /\ heap' = heap \ {start}
    /\ pc' = "idle" /\ want' = 0
    /\ UNCHANGED <<arena, regions>>

\* Mutant of Bump: len is not moved on.
BumpUncounted ==
    /\ pc = "alloc"
    /\ len + want < capacity
    /\ regions' = regions \union {[block |-> offset.block, at |-> offset.at, len |-> want]}
    /\ offset' = [offset EXCEPT !.at = offset.at + want]
    /\ pc' = "idle" /\ want' = 0
    /\ UNCHANGED <<start, capacity, len, heap>>

Bump ==
    /\ pc = "alloc"
    /\ len + want < capacity
    /\ regions' = regions \union {[block |-> offset.block, at |-> offset.at, len |-> want]}
    /\ len' = len + want
    /\ offset' = [offset EXCEPT !.at = offset.at + want]
    /\ pc' = "idle" /\ want' = 0
    /\ UNCHANGED <<start, capacity, heap>>

Running == Grow \/ GrowFails \/ GrowNothing \/ Bump

Next ==
    \/ \E c \in Capacities : Create(c)
    \/ CreateFails \/ Destroy
    \/ \E n \in Lengths : Alloc(n)
    \/ Running

Spec == Init /\ [][Next]_vars

----------------------------------------------------------------------
TypeOK ==
    /\ pc \in {"none", "idle", "alloc", "gone"}
    /\ IF pc \in {"idle", "alloc"} THEN start \in Blocks /\ offset \in Pointer
                                   ELSE start = Null /\ offset = Null
    /\ capacity \in Nat /\ len \in Nat /\ want \in Nat
    /\ regions \subseteq Region /\ heap \subseteq Blocks

\* No two regions overlap once the arena's block has moved under them: their
\* offsets, at which realloc keeps their bytes, are apart, and all lie below
\* len, which lies below the capacity.
Apart(q, r) == q.at + q.len <= r.at \/ r.at + r.len <= q.at
RegionsApart ==
    pc \in {"idle", "alloc"} =>
       /\ \A q, r \in regions : q # r => Apart(q, r)
       /\ \A r \in regions : r.at + r.len <= len /\ len < capacity

\* A region handed out lies in the block the arena has at that moment, which
\* is allocated, although growing may just have moved the arena twice.
ReturnsInside ==
    [][\A r \in regions' \ regions :
          r.block = start' /\ start' \in heap' /\ r.at + r.len < capacity']_vars
======================================================================
