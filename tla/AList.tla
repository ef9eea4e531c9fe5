---------------------------- MODULE AList ----------------------------
(* The array list of pointers, utils/alist.c: the array of ArrayList     *)
(* whose elements are heap blocks with an owner.  A block belongs to the *)
(* list from the insertion that succeeds; al_remove hands it back to the *)
(* caller, al_remove_deep and al_destroy_deep free it.                   *)
EXTENDS ArrayList

VARIABLES
    allocated,     \* blocks that malloc returned and nobody has freed
    held,          \* blocks the caller has to free or hand to the list
    taken,         \* the pointer the caller of al_remove has kept
    dangling       \* has a deep removal failed after its free

heap == <<allocated, held, taken, dangling>>
alvars == <<vars, heap>>

Stored(S) == {data[p] : p \in S}

----------------------------------------------------------------------
AInit == Init /\ allocated = {} /\ held = {} /\ taken = Junk
         /\ dangling = FALSE

\* The caller inserts a block it has just allocated or still holds.
AInsert(e, i) ==
    /\ Insert(e, i)
    /\ e \in held \/ e \notin allocated
    /\ allocated' = allocated \union {e} /\ held' = held \ {e}
    /\ UNCHANGED <<taken, dangling>>

AAppend(e) == AInsert(e, size)
APrepend(e) == AInsert(e, 0)

\* An insertion that fails leaves the block with the caller.
AGrowFails ==
    /\ GrowFails
    /\ held' = held \union {ele}
    /\ UNCHANGED <<allocated, taken, dangling>>

\* al_remove: the caller has fetched the pointer before (alist.h:263).
ARemove(i) ==
    /\ Remove(i)
    /\ taken' = data[i]
    /\ UNCHANGED <<allocated, held, dangling>>

\* al_remove_deep frees the element before it tries to shrink the array.
ARemoveDeep(i) ==
    /\ Remove(i)
    /\ allocated' = allocated \ {data[i]}
    /\ UNCHANGED <<held, taken, dangling>>

AShrinkFails ==
    /\ ShrinkFails
    /\ dangling' = (dangling \/ taken = Junk) /\ taken' = Junk
    /\ UNCHANGED <<allocated, held>>

ADrop ==
    /\ Drop
    /\ held' = held \union ({taken} \ {Junk}) /\ taken' = Junk
    /\ UNCHANGED <<allocated, dangling>>

\* al_destroy leaves the elements to the caller ...
ADestroy ==
    /\ Destroy
    /\ held' = held \union Stored(Cells(size))
    /\ UNCHANGED <<allocated, taken, dangling>>

\* Mutant of ADestroyDeep: the last element is not freed.
ADestroyAllButLast ==
    /\ Destroy
    /\ allocated' = allocated \ Stored(Cells(size - 1))
    /\ UNCHANGED <<held, taken, dangling>>

\* ... and al_destroy_deep frees them.
ADestroyDeep ==
    /\ Destroy
    /\ allocated' = allocated \ Stored(Cells(size))
    /\ UNCHANGED <<held, taken, dangling>>

\* The caller frees a block of its own.
Release(e) ==
    /\ pc \in {"idle", "destroyed"}
    /\ e \in held
    /\ allocated' = allocated \ {e} /\ held' = held \ {e}
    /\ UNCHANGED <<vars, taken, dangling>>

OnlyTheArray ==
    \/ \E c \in Capacities : Create(c)
    \/ CreateFails
    \/ \E i \in Indices : InsertOutOfBound(i) \/ RemoveOutOfBound(i)

ARunning ==
    \/ (Grow \/ ShiftRight \/ Place \/ Shrink \/ ShiftLeft) /\ UNCHANGED heap
    \/ AGrowFails \/ AShrinkFails \/ ADrop

ANext ==
    \/ OnlyTheArray /\ UNCHANGED heap
    \/ \E e \in Elems : AAppend(e) \/ APrepend(e) \/ Release(e)
    \/ \E e \in Elems, i \in Indices : AInsert(e, i)
    \/ \E i \in Indices : ARemove(i) \/ ARemoveDeep(i)
    \/ ADestroy \/ ADestroyDeep
    \/ ARunning

ASpec == AInit /\ [][ANext]_alvars

----------------------------------------------------------------------
\* The positions of Contents, without the element a deep removal has freed
\* and not yet dropped from the array.
Owned ==
    IF pc = "shrink" /\ taken = Junk THEN DOMAIN Contents \ {idx + 1}
                                     ELSE DOMAIN Contents
InFlight ==
    IF pc \in {"grow", "shiftRight"} THEN {ele}
    ELSE IF pc = "shiftLeft" THEN {taken} \ {Junk}
    ELSE {}

\* Every block has one owner: the caller, one cell of the list, or the call
\* that is moving it.  Hence nothing is freed twice, no cell dangles and
\* nothing is lost, whatever mix of plain and deep calls is made and
\* whichever allocation fails, until shrinking fails in a deep removal.
OneOwner ==
    ~dangling =>
    LET inList == {Contents[p] : p \in Owned} IN
    /\ \A p, q \in Owned : Contents[p] = Contents[q] => p = q
    /\ allocated = held \union inList \union InFlight
    /\ held \intersect (inList \union InFlight) = {}
    /\ inList \intersect InFlight = {}
======================================================================
