-------------------------- MODULE LinkedList --------------------------
(* The doubly linked list of utils/llist.c, and of utils/nllist.c, which *)
(* has the same operations but ll_change.  A call that needs the node at *)
(* an index walks to it link by link from the nearer end; the nodes are  *)
(* the blocks malloc returns.  Who owns the elements is module LList.    *)
EXTENDS Integers, FiniteSets

CONSTANTS
    Elems,
    Nodes,         \* the addresses malloc may return for a node
    Null,
    MaxIndex       \* bound: the largest index callers pass

ASSUME NullAssumption == Null \notin Nodes /\ Null \notin Elems
ASSUME IndexAssumption == MaxIndex \in Nat

VARIABLES
    pc,            \* "none", "idle", "walk", "destroy" or "gone"
    head, tail, size,
    node,          \* the allocated nodes: a function from their addresses
    cur, left,     \* the cursor of a traversal and the links it has to go
    op,            \* the running call that has to walk
    ret            \* what the last finished call returned

list == <<head, tail, size, node>>
walk == <<cur, left, op>>
vars == <<pc, head, tail, size, node, cur, left, op, ret>>

Node == [prev : Nodes \union {Null}, elem : Elems, next : Nodes \union {Null}]
Op == [name : {"add", "remove", "pop", "change"}, elem : Elems \union {Null}, idx : Nat]

Free == Nodes \ DOMAIN node

----------------------------------------------------------------------
Init ==
    /\ pc = "none"
    /\ head = Null /\ tail = Null /\ size = 0 /\ node = << >>
    /\ cur = Null /\ left = 0 /\ op = Null /\ ret = 0

Return(r) == pc' = "idle" /\ cur' = Null /\ left' = 0 /\ op' = Null /\ ret' = r

Create ==
    /\ pc = "none"
    /\ Return(1)
    /\ UNCHANGED list

CreateFails ==
    /\ pc = "none"
    /\ ret' = 0
    /\ UNCHANGED <<pc, list, walk>>

\* The nodes once n holds e and stands between p and x, of which either
\* may be missing.
Link(n, p, e, x) ==
    [b \in DOMAIN node \union {n} |->
        IF b = n THEN [prev |-> p, elem |-> e, next |-> x]
        ELSE IF b = p THEN [node[b] EXCEPT !.next = n]
        ELSE IF b = x THEN [node[b] EXCEPT !.prev = n]
        ELSE node[b]]

\* The nodes once n is unlinked and freed.
Unlinked(n) ==
    [b \in DOMAIN node \ {n} |->
        IF b = node[n].prev THEN [node[b] EXCEPT !.next = node[n].next]
        ELSE IF b = node[n].next THEN [node[b] EXCEPT !.prev = node[n].prev]
        ELSE node[b]]

\* ll_add at index 0, into an empty list or before its head ...
AddHead(e) ==
    /\ pc = "idle"
    /\ \E n \in Free :
          /\ node' = Link(n, Null, e, head)
          /\ head' = n /\ tail' = (IF head = Null THEN n ELSE tail)
    /\ size' = size + 1
    /\ Return(1)

\* ... and at index size, behind the tail ...
AddTail(e) ==
    /\ pc = "idle"
    /\ size > 0
    /\ \E n \in Free :
          /\ node' = Link(n, tail, e, Null)
          /\ tail' = n
    /\ size' = size + 1
    /\ UNCHANGED head
    /\ Return(1)

\* ... where in both cases the node may not be had, or the index is past
\* the end.  The other calls refuse an index of size already.
AddFails ==
    /\ pc = "idle"
    /\ Return(0)
    /\ UNCHANGED list

OutOfBound(i) ==
    /\ pc = "idle"
    /\ i >= size
    /\ Return(0)
    /\ UNCHANGED list

\* Mutant of Get: the tail walk goes one link too far.
GetOffByOne(o) ==
    /\ pc' = "walk" /\ op' = o
    /\ IF o.idx < size \div 2 THEN cur' = head /\ left' = o.idx
                              ELSE cur' = tail /\ left' = size - o.idx
    /\ UNCHANGED <<list, ret>>

\* ll_get starts from the end that is nearer to the index.
Get(o) ==
    /\ pc' = "walk" /\ op' = o
    /\ IF o.idx < size \div 2 THEN cur' = head /\ left' = o.idx
                              ELSE cur' = tail /\ left' = size - 1 - o.idx
    /\ UNCHANGED <<list, ret>>

\* The calls that walk: ll_add strictly inside the list, ll_remove and
\* ll_remove_deep, ll_change, and ll_pop, which asks for index size - 1.
AddInside(e, i) ==
    /\ pc = "idle"
    /\ i > 0 /\ i < size
    /\ Get([name |-> "add", elem |-> e, idx |-> i])

Remove(i) ==
    /\ pc = "idle"
    /\ i < size
    /\ Get([name |-> "remove", elem |-> Null, idx |-> i])

Change(e, i) ==
    /\ pc = "idle"
    /\ i < size
    /\ Get([name |-> "change", elem |-> e, idx |-> i])

Pop ==
    /\ pc = "idle"
    /\ size > 0
    /\ Get([name |-> "pop", elem |-> Null, idx |-> size - 1])

\* ll_pop of an empty list: size - 1 wraps to an index no list has.
PopEmpty ==
    /\ pc = "idle"
    /\ size = 0
    /\ Return(0)
    /\ UNCHANGED list

Forward == op.idx < size \div 2

Step ==
    /\ pc = "walk"
    /\ left > 0
    /\ cur' = (IF Forward THEN node[cur].next ELSE node[cur].prev)
    /\ left' = left - 1
    /\ UNCHANGED <<pc, list, op, ret>>

Arrived(names) == pc = "walk" /\ left = 0 /\ op.name \in names

\* Mutant of Insert: behind the cursor's node instead of before it.
InsertBehind ==
    /\ Arrived({"add"})
    /\ \E n \in Free : node' = Link(n, cur, op.elem, node[cur].next)
    /\ size' = size + 1
    /\ UNCHANGED <<head, tail>>
    /\ Return(1)

Insert ==
    /\ Arrived({"add"})
    /\ \E n \in Free : node' = Link(n, node[cur].prev, op.elem, cur)
    /\ size' = size + 1
    /\ UNCHANGED <<head, tail>>
    /\ Return(1)

InsertFails ==
    /\ Arrived({"add"})
    /\ Return(0)
    /\ UNCHANGED list

\* Mutant of Unlink: the tail is left where it was.
UnlinkKeepsTail ==
    /\ Arrived({"remove", "pop"})
    /\ node' = Unlinked(cur)
    /\ head' = (IF node[cur].prev = Null THEN node[cur].next ELSE head)
    /\ size' = size - 1
    /\ UNCHANGED tail
    /\ Return(1)

Unlink ==
    /\ Arrived({"remove", "pop"})
    /\ node' = Unlinked(cur)
    /\ head' = (IF node[cur].prev = Null THEN node[cur].next ELSE head)
    /\ tail' = (IF node[cur].next = Null THEN node[cur].prev ELSE tail)
    /\ size' = size - 1
    /\ Return(1)

Overwrite ==
    /\ Arrived({"change"})
    /\ node' = [node EXCEPT ![cur].elem = op.elem]
    /\ UNCHANGED <<head, tail, size>>
    /\ Return(1)

\* The destroy functions read the next link of a node, then free it.
Destroy ==
    /\ pc = "idle"
    /\ pc' = "destroy" /\ cur' = head
    /\ UNCHANGED <<list, left, op, ret>>

FreeNode ==
    /\ pc = "destroy"
    /\ cur # Null
    /\ cur' = node[cur].next
    /\ node' = [b \in DOMAIN node \ {cur} |-> node[b]]
    /\ UNCHANGED <<pc, head, tail, size, left, op, ret>>

Destroyed ==
    /\ pc = "destroy"
    /\ cur = Null
    /\ pc' = "gone"
    /\ head' = Null /\ tail' = Null /\ size' = 0
    /\ UNCHANGED <<node, walk, ret>>

Indices == 0 .. MaxIndex

Calls ==
    \/ Create \/ CreateFails \/ Destroy
    \/ \E e \in Elems : AddHead(e) \/ AddTail(e)
    \/ \E e \in Elems, i \in Indices : AddInside(e, i) \/ Change(e, i)
    \/ \E i \in Indices : Remove(i) \/ OutOfBound(i)
    \/ AddFails \/ Pop \/ PopEmpty

Running ==
    \/ Step \/ Insert \/ InsertFails \/ Unlink \/ Overwrite
    \/ FreeNode \/ Destroyed

Next == Calls \/ Running

Spec == Init /\ [][Next]_vars

----------------------------------------------------------------------
TypeOK ==
    /\ pc \in {"none", "idle", "walk", "destroy", "gone"}
    /\ head \in Nodes \union {Null} /\ tail \in Nodes \union {Null} /\ size \in Nat
    /\ DOMAIN node \subseteq Nodes /\ node \in [DOMAIN node -> Node]
    /\ cur \in Nodes \union {Null} /\ left \in Nat
    /\ IF pc = "walk" THEN op \in Op ELSE op = Null
    /\ ret \in {0, 1}

\* The allocated nodes as next links them, from the head or, while they are
\* being freed, from the cursor.
Allocated == Cardinality(DOMAIN node)
NextOf(b) == IF b \in DOMAIN node THEN node[b].next ELSE Null
Order[p \in 1 .. Allocated] ==
    IF p = 1 THEN IF pc = "destroy" THEN cur ELSE head
             ELSE NextOf(Order[p - 1])

\* The node at position p, or NULL past either end.
Nth(p) == IF p \in 1 .. Allocated THEN Order[p] ELSE Null

\* The pointers describe one sequence of distinct nodes, read the same from
\* both ends: no allocated node is off it, and prev of every node, tail and
\* size say what the next links say.  So both traversals of ll_get and the
\* tests for NULL in ll_add and ll_remove see the list the caller built, and
\* the loop that frees the nodes ends when there are none.
LinksAgree ==
    /\ TypeOK
    /\ DOMAIN node = {Order[p] : p \in 1 .. Allocated}
    /\ \A p \in 1 .. Allocated : NextOf(Order[p]) = Nth(p + 1)
    /\ pc # "destroy" =>
          /\ size = Allocated /\ tail = Nth(size) /\ (size = 0 => head = Null)
          /\ \A p \in 1 .. Allocated : node[Order[p]].prev = Nth(p - 1)

\* A cursor is on an allocated node as long as links are left to go, fewer
\* than there are nodes, and the walk ends at the node of the index it was
\* started for, whichever end it started from.
WalkArrives ==
    pc = "walk" =>
       /\ op.idx < size /\ left < size
       /\ cur = Nth(IF Forward THEN op.idx + 1 - left ELSE op.idx + 1 + left)
       /\ cur # Null

\* The list a caller sees.
Contents ==
    IF pc \in {"destroy", "gone"} THEN << >>
    ELSE [p \in 1 .. Cardinality({q \in 1 .. Allocated : Order[q] # Null}) |->
             node[Order[p]].elem]

List == INSTANCE ListSpec WITH list <- Contents

\* What a finished call does to the sequence is what it was asked to do:
\* insert at, remove from or put into the place of the index given; a call
\* that does nothing to it returns 0.
AsAsked ==
    \/ \E e \in Elems : AddHead(e) /\ List!Insert(0, e)
    \/ \E e \in Elems : AddTail(e) /\ List!Insert(size, e)
    \/ Insert /\ List!Insert(op.idx, op.elem)
    \/ Unlink /\ List!Delete(op.idx)
    \/ Overwrite /\ List!Replace(op.idx, op.elem)
    \/ Destroy /\ List!Clear
    \/ UNCHANGED Contents /\ (pc \in {"idle", "walk"} /\ pc' = "idle" => ret' = 0)

\* The linked list implements the sequence that the array list implements
\* too, and can replace an element of it: a call does one thing to it at one
\* moment, at its index, whichever end the walk started from, or nothing if
\* it fails.
ImplementsList == List!ChangeableSpecification /\ [][AsAsked]_vars
======================================================================
