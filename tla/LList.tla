---------------------------- MODULE LList ----------------------------
(* The linked list of pointers, utils/llist.c: LinkedList whose elements *)
(* are heap blocks with an owner.  A block belongs to the list from the  *)
(* call that stores it; ll_remove, ll_pop and ll_change hand a block     *)
(* back to the caller, ll_remove_deep and ll_destroy_deep free it.       *)
EXTENDS LinkedList

VARIABLES
    allocated,     \* element blocks that nobody has freed
    held,          \* those the caller has to free or hand to the list
    deep           \* is the running removal or destruction a deep one

heap == <<allocated, held>>
llvars == <<vars, heap, deep>>

----------------------------------------------------------------------
LInit == Init /\ allocated = {} /\ held = {} /\ deep = FALSE

\* The caller stores a block it has just allocated or still holds.
Offered(e) == e \in held \/ e \notin allocated
Handed(e) == allocated' = allocated \union {e} /\ held' = held \ {e}

LAddHead(e) == AddHead(e) /\ Offered(e) /\ Handed(e) /\ UNCHANGED deep
LAddTail(e) == AddTail(e) /\ Offered(e) /\ Handed(e) /\ UNCHANGED deep
LAddInside(e, i) == AddInside(e, i) /\ Offered(e) /\ Handed(e) /\ UNCHANGED deep
LChange(e, i) == Change(e, i) /\ Offered(e) /\ Handed(e) /\ UNCHANGED deep

\* No node for it: the block stays with the caller.
LInsertFails ==
    /\ InsertFails
    /\ held' = held \union {op.elem}
    /\ UNCHANGED <<allocated, deep>>

LRemove(i) == Remove(i) /\ deep' = FALSE /\ UNCHANGED heap
LRemoveDeep(i) == Remove(i) /\ deep' = TRUE /\ UNCHANGED heap
LPop == Pop /\ deep' = FALSE /\ UNCHANGED heap

\* Mutant of LUnlink: a plain removal frees the element as well.
LUnlinkFrees ==
    /\ Unlink
    /\ allocated' = allocated \ {node[cur].elem}
    /\ held' = (IF deep THEN held ELSE held \union {node[cur].elem})
    /\ deep' = FALSE

\* A deep removal frees the element, the others leave it to the caller,
\* who has fetched the pointer before or gets it from ll_pop.
LUnlink ==
    /\ Unlink
    /\ IF deep THEN allocated' = allocated \ {node[cur].elem} /\ UNCHANGED held
               ELSE held' = held \union {node[cur].elem} /\ UNCHANGED allocated
    /\ deep' = FALSE

\* ll_change does not free the element it replaces.
LOverwrite ==
    /\ Overwrite
    /\ held' = held \union {node[cur].elem}
    /\ UNCHANGED <<allocated, deep>>

LDestroy == Destroy /\ deep' = FALSE /\ UNCHANGED heap
LDestroyDeep == Destroy /\ deep' = TRUE /\ UNCHANGED heap

LFreeNode ==
    /\ FreeNode
    /\ IF deep THEN allocated' = allocated \ {node[cur].elem} /\ UNCHANGED held
               ELSE held' = held \union {node[cur].elem} /\ UNCHANGED allocated
    /\ UNCHANGED deep

\* The caller frees a block of its own.
Release(e) ==
    /\ pc \in {"idle", "gone"}
    /\ e \in held
    /\ allocated' = allocated \ {e} /\ held' = held \ {e}
    /\ UNCHANGED <<vars, deep>>

OnlyTheLinks ==
    \/ Create \/ CreateFails \/ AddFails \/ PopEmpty
    \/ \E i \in Indices : OutOfBound(i)

LRunning ==
    \/ (Step \/ Insert \/ Destroyed) /\ UNCHANGED <<heap, deep>>
    \/ LInsertFails \/ LUnlink \/ LOverwrite \/ LFreeNode

LNext ==
    \/ OnlyTheLinks /\ UNCHANGED <<heap, deep>>
    \/ \E e \in Elems : LAddHead(e) \/ LAddTail(e) \/ Release(e)
    \/ \E e \in Elems, i \in Indices : LAddInside(e, i) \/ LChange(e, i)
    \/ \E i \in Indices : LRemove(i) \/ LRemoveDeep(i)
    \/ LPop \/ LDestroy \/ LDestroyDeep
    \/ LRunning

LSpec == LInit /\ [][LNext]_llvars

----------------------------------------------------------------------
\* The elements of the nodes, and the one the running call carries.
Stored == {node[b].elem : b \in DOMAIN node}
InFlight == IF pc = "walk" /\ op.elem # Null THEN {op.elem} ELSE {}

\* Every element block has one owner: the caller, one node, or the call on
\* its way to store it.  So no mix of plain and deep calls frees a block
\* twice or leaves a node with a freed element, and none is lost.
OneOwner ==
    /\ \A b, d \in DOMAIN node : node[b].elem = node[d].elem => b = d
    /\ allocated = held \union Stored \union InFlight
    /\ held \intersect (Stored \union InFlight) = {}
    /\ Stored \intersect InFlight = {}
======================================================================
