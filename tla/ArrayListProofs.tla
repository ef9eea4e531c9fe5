----------------------- MODULE ArrayListProofs -----------------------
(* The array lists for every set of elements and every capacity: their   *)
(* loops stay inside the block, they implement the abstract list, and    *)
(* the blocks a list of pointers holds have one owner each.              *)
EXTENDS AList, SequenceTheorems, TLAPS

\* What the calls have established when they start to reallocate or shift.
CallsStart ==
    /\ pc \notin {"none", "destroyed"} => capacity > 0
    /\ pc = "none" => size = 0
    /\ pc = "grow" => ii = size /\ idx <= size /\ size = capacity
    /\ pc \in {"grow", "shiftRight"} => ele \in Elems
    /\ pc = "shrink" => ii = idx /\ idx < size /\ size = capacity \div 2

IInv == TypeOK /\ InBounds /\ CallsStart

LEMMA ResizedType ==
    ASSUME TypeOK, NEW c \in Nat
    PROVE  Resized(c) \in [Cells(c) -> Elems \union {Junk}]
BY DEF TypeOK, Resized, Cells

LEMMA InitIInv == Init => IInv
BY DEF Init, IInv, TypeOK, InBounds, CallsStart, Cells

LEMMA NextIInv == IInv /\ [Next]_vars => IInv'
<1> SUFFICES ASSUME IInv, [Next]_vars PROVE IInv'
  OBVIOUS
<1> USE DEF IInv, TypeOK, InBounds, CallsStart, Return, list, call
<1>1. ASSUME NEW c \in Capacities, Create(c)
      PROVE  IInv'
  BY <1>1, CapacityAssumption DEF Create, Cells
<1>2. CASE CreateFails
  BY <1>2 DEF CreateFails
<1>3. CASE Destroy
  BY <1>3 DEF Destroy, Cells
<1>4. ASSUME NEW e \in Elems, NEW i \in Nat, Insert(e, i)
      PROVE  IInv'
  BY <1>4 DEF Insert
<1>5. ASSUME NEW i \in Indices, Remove(i)
      PROVE  IInv'
  BY <1>5, CapacityAssumption DEF Remove, Indices
<1>6. ASSUME NEW i \in Indices, InsertOutOfBound(i) \/ RemoveOutOfBound(i)
      PROVE  IInv'
  BY <1>6 DEF InsertOutOfBound, RemoveOutOfBound
<1>7. CASE Grow
  <2>1. data' \in [Cells(capacity') -> Elems \union {Junk}]
    BY <1>7, ResizedType DEF Grow
  <2> QED
    BY <1>7, <2>1 DEF Grow
<1>8. CASE GrowFails \/ ShrinkFails
  BY <1>8 DEF GrowFails, ShrinkFails
<1>9. CASE ShiftRight
  <2>1. ii \in Cells(capacity) /\ ii - 1 \in Cells(capacity)
    BY <1>9 DEF ShiftRight, Cells
  <2> QED
    BY <1>9, <2>1 DEF ShiftRight
<1>10. CASE Place
  BY <1>10 DEF Place, Cells
<1>11. CASE Shrink
  <2>1. data' \in [Cells(capacity') -> Elems \union {Junk}]
    BY <1>11, ResizedType DEF Shrink
  <2>2. capacity' \in Nat /\ size <= capacity' /\ capacity' > 0
    BY <1>11 DEF Shrink
  <2> QED
    BY <1>11, <2>1, <2>2 DEF Shrink
<1>12. CASE ShiftLeft
  <2>1. ii \in Cells(capacity) /\ ii + 1 \in Cells(capacity)
    BY <1>12 DEF ShiftLeft, Cells
  <2> QED
    BY <1>12, <2>1 DEF ShiftLeft
<1>13. CASE Drop
  BY <1>13 DEF Drop
<1>14. CASE UNCHANGED vars
  BY <1>14 DEF vars
<1>15. CASE Calls
  <2>1. Indices \subseteq Nat /\ size \in Nat /\ 0 \in Nat
    BY CapacityAssumption DEF Indices
  <2> QED
    BY <1>1, <1>2, <1>3, <1>4, <1>5, <1>6, <1>15, <2>1
       DEF Calls, AppendElem, PrependElem
<1> QED
  BY <1>7, <1>8, <1>9, <1>10, <1>11, <1>12, <1>13, <1>14, <1>15 DEF Next, Running

THEOREM Invariance == Spec => []IInv
BY InitIInv, NextIInv, PTL DEF Spec

\* The list's variables have their types in every reachable state.
THEOREM TypeCorrect == Spec => []TypeOK
<1>1. IInv => TypeOK
  BY DEF IInv
<1> QED
  BY <1>1, Invariance, PTL

\* The shifting loops never read or write outside the array.
THEOREM LoopsInBounds == Spec => []InBounds
<1>1. IInv => InBounds
  BY DEF IInv
<1> QED
  BY <1>1, Invariance, PTL

----------------------------------------------------------------------
(* The refinement.  Contents is a sequence of cells; the two operators   *)
(* of the abstract list are given cell by cell.                          *)

Cell == Elems \union {Junk}

LEMMA InsertAtCells ==
    ASSUME NEW s \in Seq(Cell), NEW i \in 1 .. Len(s) + 1, NEW e \in Cell,
           NEW r, r = List!InsertAt(s, i, e)
    PROVE  /\ r \in Seq(Cell)
           /\ Len(r) = Len(s) + 1
           /\ \A p \in 1 .. Len(s) + 1 :
                 r[p] = IF p < i THEN s[p] ELSE IF p = i THEN e ELSE s[p - 1]
<1> DEFINE f == SubSeq(s, 1, i - 1)
           b == SubSeq(s, i, Len(s))
<1>1. Len(s) \in Nat /\ i \in Int /\ \A p \in 1 .. Len(s) : s[p] \in Cell
  BY LenProperties, ElementOfSeq
<1>2. /\ f \in Seq(Cell) /\ Len(f) = i - 1
      /\ \A p \in 1 .. i - 1 : f[p] = s[p]
  BY <1>1, SubSeqProperties
<1>3. /\ b \in Seq(Cell) /\ Len(b) = Len(s) - i + 1
      /\ \A p \in 1 .. Len(s) - i + 1 : b[p] = s[i + p - 1]
  BY <1>1, SubSeqProperties
<1> HIDE DEF f, b
<1>4. <<e>> \in Seq(Cell) /\ Len(<<e>>) = 1 /\ <<e>>[1] = e
  OBVIOUS
<1>5. /\ f \o <<e>> \in Seq(Cell) /\ Len(f \o <<e>>) = i
      /\ \A p \in 1 .. i : (f \o <<e>>)[p] = IF p < i THEN s[p] ELSE e
  BY <1>1, <1>2, <1>4, ConcatProperties
<1>6. r = (f \o <<e>>) \o b
  BY DEF List!InsertAt, f, b
<1> DEFINE g == f \o <<e>>
<1> HIDE DEF g
<1>7. /\ r \in Seq(Cell) /\ Len(r) = i + (Len(s) - i + 1)
      /\ \A p \in 1 .. i + (Len(s) - i + 1) : r[p] = IF p <= i THEN g[p] ELSE b[p - i]
  BY <1>3, <1>5, <1>6, ConcatProperties DEF g
<1>8. ASSUME NEW p \in 1 .. Len(s) + 1
      PROVE  r[p] = IF p < i THEN s[p] ELSE IF p = i THEN e ELSE s[p - 1]
  <2>1. CASE p <= i
    <3>1. p \in 1 .. i /\ r[p] = g[p]
      BY <1>1, <1>7, <2>1
    <3>2. g[p] = IF p < i THEN s[p] ELSE e
      BY <1>5, <3>1, Zenon DEF g
    <3> QED
      BY <1>1, <2>1, <3>1, <3>2
  <2>2. CASE p > i
    <3>1. r[p] = b[p - i] /\ p - i \in 1 .. Len(s) - i + 1 /\ i + (p - i) - 1 = p - 1
      BY <1>1, <1>7, <2>2
    <3> QED
      BY <1>1, <1>3, <2>2, <3>1
  <2> QED
    BY <1>1, <2>1, <2>2
<1> QED
  BY <1>1, <1>7, <1>8

LEMMA RemoveAtCells ==
    ASSUME NEW s \in Seq(Cell), NEW i \in 1 .. Len(s),
           NEW r, r = List!RemoveAt(s, i)
    PROVE  /\ r \in Seq(Cell)
           /\ Len(r) = Len(s) - 1
           /\ \A p \in 1 .. Len(s) - 1 : r[p] = IF p < i THEN s[p] ELSE s[p + 1]
<1> DEFINE f == SubSeq(s, 1, i - 1)
           b == SubSeq(s, i + 1, Len(s))
<1>1. Len(s) \in Nat /\ i \in Int /\ \A p \in 1 .. Len(s) : s[p] \in Cell
  BY LenProperties, ElementOfSeq
<1>2. /\ f \in Seq(Cell) /\ Len(f) = i - 1
      /\ \A p \in 1 .. i - 1 : f[p] = s[p]
  BY <1>1, SubSeqProperties
<1>3. /\ b \in Seq(Cell) /\ Len(b) = Len(s) - i
      /\ \A p \in 1 .. Len(s) - i : b[p] = s[i + p]
  BY <1>1, SubSeqProperties
<1> HIDE DEF f, b
<1>4. r = f \o b
  BY DEF List!RemoveAt, f, b
<1>5. /\ r \in Seq(Cell) /\ Len(r) = Len(s) - 1
      /\ \A p \in 1 .. Len(s) - 1 :
            r[p] = IF p <= i - 1 THEN f[p] ELSE b[p - (i - 1)]
  <2>1. Len(f) + Len(b) = Len(s) - 1
    BY <1>1, <1>2, <1>3
  <2>2. /\ r \in Seq(Cell) /\ Len(r) = Len(f) + Len(b)
        /\ \A p \in 1 .. Len(f) + Len(b) :
              r[p] = IF p <= Len(f) THEN f[p] ELSE b[p - Len(f)]
    <3>1. f \in Seq(Cell) /\ b \in Seq(Cell)
      BY <1>2, <1>3
    <3>2. /\ f \o b \in Seq(Cell) /\ Len(f \o b) = Len(f) + Len(b)
          /\ \A p \in 1 .. Len(f) + Len(b) :
                (f \o b)[p] = IF p <= Len(f) THEN f[p] ELSE b[p - Len(f)]
      BY <3>1, ConcatProperties, Zenon
    <3> QED
      BY <1>4, <3>2, Zenon
  <2> QED
    BY <1>2, <2>1, <2>2
<1>6. ASSUME NEW p \in 1 .. Len(s) - 1
      PROVE  r[p] = IF p < i THEN s[p] ELSE s[p + 1]
  <2>1. CASE p < i
    BY <1>1, <1>2, <1>5, <2>1
  <2>2. CASE p >= i
    <3>1. /\ r[p] = b[p - (i - 1)] /\ p - (i - 1) \in 1 .. Len(s) - i
          /\ i + (p - (i - 1)) = p + 1
      BY <1>1, <1>5, <2>2
    <3> QED
      BY <1>1, <1>3, <2>2, <3>1
  <2> QED
    BY <1>1, <2>1, <2>2
<1> QED
  BY <1>1, <1>5, <1>6

LEMMA ListingType ==
    ASSUME IInv, NEW n \in Nat, NEW shift \in Nat, n <= capacity,
           shift < n => n < capacity
    PROVE  /\ Listing(n, shift) \in Seq(Cell)
           /\ Len(Listing(n, shift)) = n
<1>1. \A p \in 1 .. n : (IF p <= shift THEN data[p - 1] ELSE data[p]) \in Cell
  BY DEF IInv, TypeOK, Cells, Cell
<1> QED
  BY <1>1 DEF Listing

LEMMA ContentsType ==
    ASSUME IInv
    PROVE  /\ Contents \in Seq(Cell)
           /\ Len(Contents) = IF pc = "shiftLeft" THEN size - 1 ELSE size
BY ListingType DEF IInv, TypeOK, InBounds, Contents

LEMMA ContentsTypeNext ==
    IInv' => /\ Contents' \in Seq(Cell)
             /\ Len(Contents') = IF pc' = "shiftLeft" THEN size' - 1 ELSE size'
<1>1. IInv => /\ Contents \in Seq(Cell)
              /\ Len(Contents) = IF pc = "shiftLeft" THEN size - 1 ELSE size
  BY ContentsType
<1>2. (IInv => /\ Contents \in Seq(Cell)
               /\ Len(Contents) = IF pc = "shiftLeft" THEN size - 1 ELSE size)'
  BY <1>1, PTL
<1> QED
  BY <1>2

\* A step that gives the abstract list the same elements at the same
\* places leaves it alone.
LEMMA SameList ==
    ASSUME IInv, IInv',
           Len(Contents') = Len(Contents),
           \A p \in 1 .. Len(Contents) : Contents'[p] = Contents[p]
    PROVE  Contents' = Contents
BY ContentsType, ContentsTypeNext, SeqEqual

\* A step that drops the element at index i from the listing is a removal.
LEMMA DeleteStep ==
    ASSUME IInv, IInv', NEW i \in 0 .. Len(Contents) - 1,
           Len(Contents') = Len(Contents) - 1,
           \A p \in 1 .. Len(Contents) - 1 :
              Contents'[p] = IF p < i + 1 THEN Contents[p] ELSE Contents[p + 1]
    PROVE  List!Delete(i)
<1> DEFINE r == List!RemoveAt(Contents, i + 1)
<1>1. Contents \in Seq(Cell) /\ Contents' \in Seq(Cell) /\ Len(Contents) \in Nat
  BY ContentsType, ContentsTypeNext, LenProperties
<1>2. /\ r \in Seq(Cell) /\ Len(r) = Len(Contents) - 1
      /\ \A p \in 1 .. Len(Contents) - 1 :
            r[p] = IF p < i + 1 THEN Contents[p] ELSE Contents[p + 1]
  <2>1. i + 1 \in 1 .. Len(Contents)
    BY <1>1
  <2> QED
    BY <1>1, <2>1, RemoveAtCells
<1> HIDE DEF r
<1>3. \A p \in 1 .. Len(r) : Contents'[p] = r[p]
  BY <1>1, <1>2
<1>4. Contents' = r
  BY <1>1, <1>2, <1>3, SeqEqual
<1> QED
  BY <1>4 DEF List!Delete, r

LEMMA InsertStep ==
    ASSUME IInv, IInv', NEW i \in 0 .. Len(Contents), NEW e \in Elems,
           Len(Contents') = Len(Contents) + 1,
           \A p \in 1 .. Len(Contents) + 1 :
              Contents'[p] = IF p < i + 1 THEN Contents[p]
                             ELSE IF p = i + 1 THEN e ELSE Contents[p - 1]
    PROVE  List!Insert(i, e)
<1> DEFINE r == List!InsertAt(Contents, i + 1, e)
<1>1. /\ Contents \in Seq(Cell) /\ Contents' \in Seq(Cell) /\ Len(Contents) \in Nat
      /\ e \in Cell
  BY ContentsType, ContentsTypeNext, LenProperties DEF Cell
<1>2. /\ r \in Seq(Cell) /\ Len(r) = Len(Contents) + 1
      /\ \A p \in 1 .. Len(Contents) + 1 :
            r[p] = IF p < i + 1 THEN Contents[p]
                   ELSE IF p = i + 1 THEN e ELSE Contents[p - 1]
  <2>1. i + 1 \in 1 .. Len(Contents) + 1
    BY <1>1
  <2>2. r = List!InsertAt(Contents, i + 1, e)
    OBVIOUS
  <2> HIDE DEF r
  <2> QED
    BY <1>1, <2>1, <2>2, InsertAtCells
<1> HIDE DEF r
<1>3. \A p \in 1 .. Len(r) : Contents'[p] = r[p]
  BY <1>1, <1>2
<1>4. Contents' = r
  BY <1>1, <1>2, <1>3, SeqEqual
<1> QED
  BY <1>4 DEF List!Insert, r

\* What the steps do to the list a caller sees: most leave it alone, ...
LEMMA KeepStep ==
    ASSUME IInv, IInv',
           \/ Grow \/ ShiftRight \/ ShiftLeft \/ Drop
           \/ GrowFails \/ ShrinkFails \/ CreateFails \/ UNCHANGED vars
           \/ \E e \in Elems, i \in Nat : Insert(e, i)
           \/ \E i \in Nat : InsertOutOfBound(i) \/ RemoveOutOfBound(i)
           \/ \E i \in Nat : Remove(i) /\ pc' = "shrink"
    PROVE  Contents' = Contents
<1> DEFINE Same == /\ Len(Contents') = Len(Contents)
                   /\ \A p \in 1 .. Len(Contents) : Contents'[p] = Contents[p]
<1>1. Same => Contents' = Contents
  BY SameList
<1>2. /\ Len(Contents) = IF pc = "shiftLeft" THEN size - 1 ELSE size
      /\ Len(Contents') = IF pc' = "shiftLeft" THEN size' - 1 ELSE size'
  BY ContentsType, ContentsTypeNext
<1> USE DEF IInv, TypeOK, InBounds, CallsStart, Contents, Listing, Return, list, call
<1>3. CASE \E i \in Nat : Remove(i) /\ pc' = "shrink"
  <2> Same
    BY <1>2, <1>3 DEF Remove
  <2> QED
    BY <1>1
<1>4. CASE ShiftRight
  <2>1. /\ data'[ii] = data[ii - 1]
        /\ \A p \in Cells(capacity) : p # ii => data'[p] = data[p]
    BY <1>4 DEF ShiftRight, Cells
  <2> Same
    BY <1>2, <1>4, <2>1 DEF ShiftRight, Cells
  <2> QED
    BY <1>1
<1>5. CASE ShiftLeft
  <2>1. /\ data'[ii] = data[ii + 1]
        /\ \A p \in Cells(capacity) : p # ii => data'[p] = data[p]
    BY <1>5 DEF ShiftLeft, Cells
  <2> Same
    BY <1>2, <1>5, <2>1 DEF ShiftLeft, Cells
  <2> QED
    BY <1>1
<1>6. CASE Grow
  <2>1. \A p \in 0 .. size - 1 : data'[p] = data[p]
    BY <1>6 DEF Grow, Resized, Cells
  <2> Same
    BY <1>2, <1>6, <2>1 DEF Grow
  <2> QED
    BY <1>1
<1>7. CASE Drop
  <2> Same
    BY <1>2, <1>7 DEF Drop
  <2> QED
    BY <1>1
<1>8. CASE GrowFails \/ ShrinkFails \/ CreateFails \/ UNCHANGED vars
  <2> Same
    BY <1>2, <1>8 DEF GrowFails, ShrinkFails, CreateFails, vars
  <2> QED
    BY <1>1
<1>9. CASE \E e \in Elems, i \in Nat : Insert(e, i)
  <2> Same
    BY <1>2, <1>9 DEF Insert
  <2> QED
    BY <1>1
<1>10. CASE \E i \in Nat : InsertOutOfBound(i) \/ RemoveOutOfBound(i)
  <2> Same
    BY <1>2, <1>10 DEF InsertOutOfBound, RemoveOutOfBound
  <2> QED
    BY <1>1
<1> HIDE DEF IInv, TypeOK, InBounds, CallsStart, Contents, Listing, Return
<1> QED
  BY <1>3, <1>4, <1>5, <1>6, <1>7, <1>8, <1>9, <1>10

\* ... placing the element inserts it, ...
LEMMA PlaceStep ==
    ASSUME IInv, IInv', Place
    PROVE  /\ idx \in 0 .. Len(Contents) /\ ele \in Elems
           /\ Len(Contents') = Len(Contents) + 1
           /\ \A p \in 1 .. Len(Contents) + 1 :
                 Contents'[p] = IF p < idx + 1 THEN Contents[p]
                                ELSE IF p = idx + 1 THEN ele ELSE Contents[p - 1]
<1>1. /\ Len(Contents) = IF pc = "shiftLeft" THEN size - 1 ELSE size
      /\ Len(Contents') = IF pc' = "shiftLeft" THEN size' - 1 ELSE size'
  BY ContentsType, ContentsTypeNext
<1> USE DEF IInv, TypeOK, InBounds, CallsStart, Contents, Listing, Return
<1>2. /\ idx \in 0 .. Len(Contents) /\ Len(Contents') = Len(Contents) + 1
      /\ ele \in Elems
  BY <1>1 DEF Place
<1>3. /\ data'[idx] = ele
      /\ \A p \in Cells(capacity) : p # idx => data'[p] = data[p]
  BY DEF Place, Cells
<1>4. \A p \in 1 .. Len(Contents) + 1 :
         Contents'[p] = IF p < idx + 1 THEN Contents[p]
                        ELSE IF p = idx + 1 THEN ele ELSE Contents[p - 1]
  BY <1>1, <1>3 DEF Place, Cells
<1> QED
  BY <1>2, <1>4

\* ... and starting to shift left removes one.
Leaves(i) ==
    \/ Remove(i) /\ pc' # "shrink"
    \/ Shrink /\ i = idx

LEMMA LeaveStep ==
    ASSUME IInv, IInv', NEW i \in Nat, Leaves(i)
    PROVE  /\ i \in 0 .. Len(Contents) - 1 /\ Len(Contents') = Len(Contents) - 1
           /\ \A p \in 1 .. Len(Contents) - 1 :
                 Contents'[p] = IF p < i + 1 THEN Contents[p] ELSE Contents[p + 1]
<1>1. /\ Len(Contents) = IF pc = "shiftLeft" THEN size - 1 ELSE size
      /\ Len(Contents') = IF pc' = "shiftLeft" THEN size' - 1 ELSE size'
  BY ContentsType, ContentsTypeNext
<1> USE DEF IInv, TypeOK, InBounds, CallsStart, Contents, Listing, Return, list, call
<1>2. CASE Remove(i) /\ pc' # "shrink"
  <2>1. i \in 0 .. Len(Contents) - 1 /\ Len(Contents') = Len(Contents) - 1
    BY <1>1, <1>2 DEF Remove
  <2>2. \A p \in 1 .. Len(Contents) - 1 :
           Contents'[p] = IF p < i + 1 THEN Contents[p] ELSE Contents[p + 1]
    BY <1>1, <1>2 DEF Remove
  <2> QED
    BY <2>1, <2>2
<1>3. CASE Shrink /\ i = idx
  <2>1. i \in 0 .. Len(Contents) - 1 /\ Len(Contents') = Len(Contents) - 1
    BY <1>1, <1>3 DEF Shrink
  <2>2. \A p \in 0 .. size - 1 : data'[p] = data[p]
    <3>1. CASE capacity \div 2 < 2
      BY <1>3, <3>1 DEF Shrink
    <3>2. CASE ~(capacity \div 2 < 2)
      <4>1. data' = Resized(capacity \div 2)
        BY <1>3, <3>2 DEF Shrink
      <4>2. \A p \in 0 .. size - 1 : p \in Cells(capacity \div 2) /\ p < capacity
        BY <1>3 DEF Shrink, Cells
      <4> QED
        BY <4>1, <4>2 DEF Resized
    <3> QED
      BY <3>1, <3>2
  <2>3. \A p \in 1 .. Len(Contents) - 1 :
           Contents'[p] = IF p < i + 1 THEN Contents[p] ELSE Contents[p + 1]
    BY <1>1, <1>3, <2>2 DEF Shrink
  <2> QED
    BY <2>1, <2>3
<1> HIDE DEF IInv, TypeOK, InBounds, CallsStart, Contents, Listing, Return
<1> QED
  BY <1>2, <1>3 DEF Leaves

LEMMA RefineStep == IInv /\ IInv' /\ [Next]_vars => [List!ListNext]_Contents
<1> SUFFICES ASSUME IInv, IInv', [Next]_vars PROVE [List!ListNext]_Contents
  OBVIOUS
<1>1. Indices \subseteq Nat /\ size \in Nat /\ 0 \in Nat
  BY CapacityAssumption DEF Indices, IInv, TypeOK
<1>2. ASSUME NEW i \in Nat, Remove(i)
      PROVE  [List!ListNext]_Contents
  <2>1. CASE pc' = "shrink"
    BY <1>2, <2>1, KeepStep
  <2>2. CASE pc' # "shrink"
    <3>1. /\ i \in 0 .. Len(Contents) - 1 /\ Len(Contents') = Len(Contents) - 1
          /\ \A p \in 1 .. Len(Contents) - 1 :
                Contents'[p] = IF p < i + 1 THEN Contents[p] ELSE Contents[p + 1]
      BY <1>2, <2>2, LeaveStep DEF Leaves
    <3>2. List!Delete(i)
      BY <3>1, DeleteStep
    <3> QED
      BY <3>1, <3>2 DEF List!ListNext
  <2> QED
    BY <2>1, <2>2
<1>3. CASE Shrink
  <2>1. PICK i \in Nat : i = idx
    BY DEF IInv, TypeOK
  <2>2. /\ i \in 0 .. Len(Contents) - 1 /\ Len(Contents') = Len(Contents) - 1
        /\ \A p \in 1 .. Len(Contents) - 1 :
              Contents'[p] = IF p < i + 1 THEN Contents[p] ELSE Contents[p + 1]
    BY <1>3, <2>1, LeaveStep DEF Leaves
  <2>3. List!Delete(i)
    BY <2>2, DeleteStep
  <2> QED
    BY <2>2, <2>3 DEF List!ListNext
<1>4. CASE Place
  <2>1. PICK i, e : i = idx /\ e = ele
    OBVIOUS
  <2>2. /\ i \in 0 .. Len(Contents) /\ e \in Elems
        /\ Len(Contents') = Len(Contents) + 1
        /\ \A p \in 1 .. Len(Contents) + 1 :
              Contents'[p] = IF p < i + 1 THEN Contents[p]
                             ELSE IF p = i + 1 THEN e ELSE Contents[p - 1]
    BY <1>4, <2>1, PlaceStep
  <2>3. List!Insert(i, e)
    BY <2>2, InsertStep
  <2> QED
    BY <2>2, <2>3 DEF List!ListNext
<1>5. CASE (\E c \in Capacities : Create(c)) \/ Destroy
  <2>1. size' = 0 /\ pc' \in {"idle", "destroyed"}
    BY <1>5 DEF Create, Destroy, Return
  <2>2. Contents' = << >>
    BY <2>1 DEF Contents, Listing
  <2> QED
    BY <2>2 DEF List!ListNext, List!Clear
<1>6. CASE Calls
  BY <1>1, <1>2, <1>5, <1>6, KeepStep DEF Calls, AppendElem, PrependElem
<1> QED
  BY <1>3, <1>4, <1>6, KeepStep DEF Next, Running

\* A step in which no call does its work.
LEMMA NothingAsked ==
    ASSUME ~Placed, ~Removed, ~Destroyed, Contents' = Contents,
           pc # "idle" /\ pc' = "idle" =>
              (ret' = 1 <=> pc \in {"none", "shiftRight", "shiftLeft"})
    PROVE  AsAsked
BY DEF AsAsked

LEMMA AsAskedStep == IInv /\ IInv' /\ [Next]_vars => AsAsked
<1> SUFFICES ASSUME IInv, IInv', [Next]_vars PROVE AsAsked
  OBVIOUS
<1>1. Indices \subseteq Nat /\ size \in Nat /\ 0 \in Nat /\ idx \in Nat
  BY CapacityAssumption DEF Indices, IInv, TypeOK
<1>2. ASSUME NEW i \in Nat, Leaves(i), idx' = i
      PROVE  AsAsked
  <2>1. /\ i \in 0 .. Len(Contents) - 1 /\ Len(Contents') = Len(Contents) - 1
        /\ \A p \in 1 .. Len(Contents) - 1 :
              Contents'[p] = IF p < i + 1 THEN Contents[p] ELSE Contents[p + 1]
    BY <1>2, LeaveStep
  <2>2. List!Delete(i)
    BY <2>1, DeleteStep
  <2>3. Removed /\ ~Placed /\ ~Destroyed /\ pc' # "idle"
    BY <1>2 DEF Leaves, Remove, Shrink, Removed, Placed, Destroyed
  <2> QED
    BY <1>2, <2>2, <2>3 DEF AsAsked
<1>3. CASE Shrink
  BY <1>1, <1>2, <1>3 DEF Leaves, Shrink, call
<1>4. ASSUME NEW i \in Nat, Remove(i)
      PROVE  AsAsked
  <2>1. CASE pc' = "shrink"
    <3>1. Contents' = Contents
      BY <1>4, <2>1, KeepStep
    <3> QED
      BY <1>4, <2>1, <3>1, NothingAsked DEF Placed, Removed, Destroyed
  <2>2. CASE pc' # "shrink"
    BY <1>2, <1>4, <2>2 DEF Leaves, Remove
  <2> QED
    BY <2>1, <2>2
<1>5. CASE Place
  <2>1. PICK i, e : i = idx /\ e = ele
    OBVIOUS
  <2>2. /\ i \in 0 .. Len(Contents) /\ e \in Elems
        /\ Len(Contents') = Len(Contents) + 1
        /\ \A p \in 1 .. Len(Contents) + 1 :
              Contents'[p] = IF p < i + 1 THEN Contents[p]
                             ELSE IF p = i + 1 THEN e ELSE Contents[p - 1]
    BY <1>5, <2>1, PlaceStep
  <2>3. List!Insert(i, e)
    BY <2>2, InsertStep
  <2>4. Placed /\ ~Removed /\ ~Destroyed /\ ret' = 1
    BY <1>5 DEF Place, Return, Placed, Removed, Destroyed
  <2> QED
    BY <2>1, <2>3, <2>4 DEF AsAsked, Placed
<1>6. CASE \E c \in Capacities : Create(c)
  <2>1. /\ size = 0 /\ size' = 0 /\ pc = "none" /\ pc' = "idle" /\ ret' = 1
    BY <1>6 DEF Create, Return, IInv, CallsStart
  <2>2. Contents' = Contents
    BY <2>1 DEF Contents, Listing
  <2> QED
    BY <2>1, <2>2, NothingAsked DEF Placed, Removed, Destroyed
<1>7. CASE Destroy
  <2>1. size' = 0 /\ pc = "idle" /\ pc' = "destroyed"
    BY <1>7 DEF Destroy
  <2>2. Contents' = << >>
    BY <2>1 DEF Contents, Listing
  <2> QED
    BY <2>1, <2>2 DEF AsAsked, List!Clear, Placed, Removed, Destroyed
<1>8. CASE \/ GrowFails \/ ShrinkFails \/ CreateFails \/ Drop
           \/ \E i \in Nat : InsertOutOfBound(i) \/ RemoveOutOfBound(i)
  <2>1. Contents' = Contents
    BY <1>8, KeepStep
  <2>2. /\ ~Placed /\ ~Removed /\ ~Destroyed
        /\ pc # "idle" /\ pc' = "idle" =>
              (ret' = 1 <=> pc \in {"none", "shiftRight", "shiftLeft"})
    BY <1>8 DEF GrowFails, ShrinkFails, CreateFails, Drop, InsertOutOfBound,
                RemoveOutOfBound, Return, Placed, Removed, Destroyed
  <2> QED
    BY <2>1, <2>2, NothingAsked
<1>9. CASE \/ Grow \/ ShiftRight \/ ShiftLeft \/ UNCHANGED vars
           \/ \E e \in Elems, i \in Nat : Insert(e, i)
  <2>1. Contents' = Contents
    BY <1>9, KeepStep
  <2>2. ~Placed /\ ~Removed /\ ~Destroyed /\ (pc # "idle" => pc' # "idle")
    BY <1>9 DEF Grow, ShiftRight, ShiftLeft, vars, Insert, Placed, Removed, Destroyed
  <2> QED
    BY <2>1, <2>2, NothingAsked
<1> QED
  BY <1>1, <1>3, <1>4, <1>5, <1>6, <1>7, <1>8, <1>9
     DEF Next, Calls, Running, AppendElem, PrependElem

\* Array lists implement the abstract list: for every mix of calls and
\* failing reallocations a caller sees a sequence change one insertion or
\* removal at a time, at the index and with the element of the call, and a
\* failed call change nothing.
THEOREM Refinement == Spec => ImplementsList
<1>1. Init => List!ListInit
  BY DEF Init, List!ListInit, Contents, Listing
<1>2. IInv /\ [Next]_vars => AsAsked /\ [List!ListNext]_Contents
  BY NextIInv, AsAskedStep, RefineStep
<1> QED
  BY <1>1, <1>2, Invariance, PTL
     DEF Spec, ImplementsList, List!ListSpecification

----------------------------------------------------------------------
(* Ownership.  C is what the list holds at the positions in O, h what    *)
(* the caller holds, F what a call is moving, a what is allocated.       *)

Apart(C, O, h, F, a) ==
    /\ \A p, q \in O : C[p] = C[q] => p = q
    /\ \A x : x \in a <=> x \in h \/ x \in F \/ \E p \in O : C[p] = x
    /\ \A x \in h : x \notin F /\ \A p \in O : C[p] # x
    /\ \A p \in O : C[p] \notin F

\* D is C with e inserted at index i.
Inserted(C, D, n, i, e) ==
    \A p \in 1 .. n + 1 : D[p] = IF p < i + 1 THEN C[p]
                                 ELSE IF p = i + 1 THEN e ELSE C[p - 1]

\* An element inserted moves from the call to the list.
LEMMA ApartInsert ==
    ASSUME NEW n \in Nat, NEW i \in 0 .. n, NEW e, NEW h, NEW a, NEW C, NEW D,
           Apart(C, 1 .. n, h, {e}, a), Inserted(C, D, n, i, e)
    PROVE  Apart(D, 1 .. n + 1, h, {}, a)
<1> USE DEF Inserted
<1>1. \A p \in 1 .. n + 1 : p # i + 1 => \E q \in 1 .. n : D[p] = C[q]
  OBVIOUS
<1>2. D[i + 1] = e /\ i + 1 \in 1 .. n + 1
  OBVIOUS
<1>3. \A q \in 1 .. n : \E p \in 1 .. n + 1 : D[p] = C[q]
  <2> SUFFICES ASSUME NEW q \in 1 .. n PROVE \E p \in 1 .. n + 1 : D[p] = C[q]
    OBVIOUS
  <2>1. CASE q < i + 1
    BY <2>1
  <2>2. CASE ~(q < i + 1)
    <3>1. q + 1 \in 1 .. n + 1 /\ D[q + 1] = C[q]
      BY <2>2
    <3> QED
      BY <3>1
  <2> QED
    BY <2>1, <2>2
<1>4. \A p, q \in 1 .. n + 1 : D[p] = D[q] => p = q
  BY DEF Apart
<1> QED
  BY <1>1, <1>2, <1>3, <1>4 DEF Apart

\* An element removed leaves the list and nothing else does.
LEMMA ApartRemove ==
    ASSUME NEW n \in Nat, NEW i \in 0 .. n - 1, NEW C, NEW D,
           \A p, q \in 1 .. n \ {i + 1} : C[p] = C[q] => p = q,
           \A p \in 1 .. n - 1 : D[p] = IF p < i + 1 THEN C[p] ELSE C[p + 1]
    PROVE  /\ \A p, q \in 1 .. n - 1 : D[p] = D[q] => p = q
           /\ \A p \in 1 .. n - 1 : \E q \in 1 .. n \ {i + 1} : D[p] = C[q]
           /\ \A q \in 1 .. n \ {i + 1} : \E p \in 1 .. n - 1 : D[p] = C[q]
<1>1. ASSUME NEW q \in 1 .. n \ {i + 1}
      PROVE  \E p \in 1 .. n - 1 : D[p] = C[q]
  <2>1. CASE q < i + 1
    BY <2>1
  <2>2. CASE ~(q < i + 1)
    <3>1. q - 1 \in 1 .. n - 1 /\ D[q - 1] = C[q]
      BY <2>2
    <3> QED
      BY <3>1
  <2> QED
    BY <2>1, <2>2
<1> QED
  BY <1>1

\* Freeing an element leaves its cell without an owner.
LEMMA ApartFree ==
    ASSUME NEW n \in Nat, NEW i \in 0 .. n - 1, NEW C, NEW h, NEW a,
           Apart(C, 1 .. n, h, {}, a)
    PROVE  Apart(C, 1 .. n \ {i + 1}, h, {}, a \ {C[i + 1]})
<1>1. i + 1 \in 1 .. n
  OBVIOUS
<1> QED
  BY <1>1 DEF Apart

\* Removing an element the list no longer owns, ...
LEMMA ApartDrop ==
    ASSUME NEW n \in Nat, NEW i \in 0 .. n - 1, NEW C, NEW D, NEW h, NEW a,
           Apart(C, 1 .. n \ {i + 1}, h, {}, a),
           \A p \in 1 .. n - 1 : D[p] = IF p < i + 1 THEN C[p] ELSE C[p + 1]
    PROVE  Apart(D, 1 .. n - 1, h, {}, a)
<1>1. \A p, q \in 1 .. n \ {i + 1} : C[p] = C[q] => p = q
  BY DEF Apart
<1>2. /\ \A p, q \in 1 .. n - 1 : D[p] = D[q] => p = q
      /\ \A p \in 1 .. n - 1 : \E q \in 1 .. n \ {i + 1} : D[p] = C[q]
      /\ \A q \in 1 .. n \ {i + 1} : \E p \in 1 .. n - 1 : D[p] = C[q]
  BY <1>1, ApartRemove
<1> QED
  BY <1>2 DEF Apart

\* ... and one that goes to the call that removes it.
LEMMA ApartTake ==
    ASSUME NEW n \in Nat, NEW i \in 0 .. n - 1, NEW C, NEW D, NEW h, NEW a,
           Apart(C, 1 .. n, h, {}, a),
           \A p \in 1 .. n - 1 : D[p] = IF p < i + 1 THEN C[p] ELSE C[p + 1]
    PROVE  Apart(D, 1 .. n - 1, h, {C[i + 1]}, a)
<1>1. i + 1 \in 1 .. n
  OBVIOUS
<1>2. Apart(C, 1 .. n \ {i + 1}, h, {}, a \ {C[i + 1]})
  BY ApartFree
<1>3. Apart(D, 1 .. n - 1, h, {}, a \ {C[i + 1]})
  BY <1>2, ApartDrop
<1>4. C[i + 1] \in a
  BY <1>1 DEF Apart
<1> QED
  BY <1>3, <1>4 DEF Apart

LEMMA OwnerIsApart ==
    OneOwner <=> (~dangling => Apart(Contents, Owned, held, InFlight, allocated))
<1> DEFINE L == {Contents[p] : p \in Owned}
<1>1. OneOwner <=>
         (~dangling =>
            /\ \A p, q \in Owned : Contents[p] = Contents[q] => p = q
            /\ allocated = held \union L \union InFlight
            /\ held \intersect (L \union InFlight) = {}
            /\ L \intersect InFlight = {})
  BY DEF OneOwner
<1>2. \A x : x \in L <=> \E p \in Owned : Contents[p] = x
  OBVIOUS
<1> HIDE DEF L
<1>3. allocated = held \union L \union InFlight
         <=> \A x : x \in allocated
                      <=> x \in held \/ x \in InFlight \/ \E p \in Owned : Contents[p] = x
  BY <1>2
<1>4. held \intersect (L \union InFlight) = {}
         <=> \A x \in held : x \notin InFlight /\ \A p \in Owned : Contents[p] # x
  BY <1>2
<1>5. L \intersect InFlight = {} <=> \A p \in Owned : Contents[p] \notin InFlight
  BY <1>2
<1> QED
  BY <1>1, <1>3, <1>4, <1>5 DEF Apart

\* What the list owns, by position; the moving pointer is that of the cell
\* al_remove was called for.
OwnInv ==
    /\ taken \in Elems \union {Junk}
    /\ pc \notin {"shrink", "shiftLeft"} => taken = Junk
    /\ pc = "shrink" /\ taken # Junk => taken = Contents[idx + 1]
    /\ pc \in {"none", "destroyed"} => size = 0
    /\ \A p \in 1 .. Len(Contents) : Contents[p] \in Elems
    /\ ~dangling => Apart(Contents, Owned, held, InFlight, allocated)

LEMMA OwnedIs ==
    ASSUME IInv
    PROVE  /\ Len(Contents) = IF pc = "shiftLeft" THEN size - 1 ELSE size
           /\ Owned = IF pc = "shrink" /\ taken = Junk
                      THEN 1 .. Len(Contents) \ {idx + 1} ELSE 1 .. Len(Contents)
BY ContentsType, LenProperties DEF Owned

LEMMA OwnedIsNext ==
    IInv' => /\ Len(Contents') = IF pc' = "shiftLeft" THEN size' - 1 ELSE size'
             /\ Owned' = IF pc' = "shrink" /\ taken' = Junk
                         THEN 1 .. Len(Contents') \ {idx' + 1} ELSE 1 .. Len(Contents')
<1>1. IInv => /\ Len(Contents) = IF pc = "shiftLeft" THEN size - 1 ELSE size
              /\ Owned = IF pc = "shrink" /\ taken = Junk
                         THEN 1 .. Len(Contents) \ {idx + 1} ELSE 1 .. Len(Contents)
  BY OwnedIs
<1>2. (IInv => /\ Len(Contents) = IF pc = "shiftLeft" THEN size - 1 ELSE size
               /\ Owned = IF pc = "shrink" /\ taken = Junk
                          THEN 1 .. Len(Contents) \ {idx + 1} ELSE 1 .. Len(Contents))'
  BY <1>1, PTL
<1> QED
  BY <1>2

\* data[i] is the element at position i + 1 while no call runs.
LEMMA CellIsListed ==
    ASSUME IInv, pc = "idle", NEW i \in Nat, i < size
    PROVE  data[i] = Contents[i + 1]
BY DEF IInv, TypeOK, Contents, Listing

LEMMA RemoveOwn ==
    ASSUME IInv, IInv', OwnInv, NEW i \in Nat, ARemove(i) \/ ARemoveDeep(i)
    PROVE  OwnInv'
<1> DEFINE n == Len(Contents)
<1>1. /\ pc = "idle" /\ i < size /\ pc' \in {"shrink", "shiftLeft"}
      /\ idx' = i /\ held' = held /\ dangling' = dangling /\ taken = Junk
      /\ Remove(i) /\ size \in Nat
  BY DEF ARemove, ARemoveDeep, Remove, OwnInv, IInv, TypeOK
<1>2. n = size /\ Owned = 1 .. n /\ i \in 0 .. n - 1 /\ InFlight = {} /\ n \in Nat
  BY <1>1, OwnedIs DEF InFlight
<1>3. /\ data[i] = Contents[i + 1] /\ data[i] \in Elems /\ data[i] # Junk
  BY <1>1, <1>2, CellIsListed, JunkAssumption DEF OwnInv
<1>4. \/ taken' = Contents[i + 1] /\ taken' # Junk /\ allocated' = allocated
      \/ taken' = Junk /\ allocated' = allocated \ {Contents[i + 1]}
  BY <1>1, <1>3 DEF ARemove, ARemoveDeep
<1>5. taken' \in Elems \union {Junk}
  BY <1>3, <1>4
<1>6. ~dangling => Apart(Contents, 1 .. n, held, {}, allocated)
  BY <1>2 DEF OwnInv
<1>7. \A p \in 1 .. n : Contents[p] \in Elems
  BY DEF OwnInv
<1>8. ~dangling => Apart(Contents, 1 .. n \ {i + 1}, held, {}, allocated \ {Contents[i + 1]})
  BY <1>2, <1>6, ApartFree
<1>9. CASE pc' = "shrink"
  <2>1. Contents' = Contents
    BY <1>1, <1>9, KeepStep
  <2>2. /\ Owned' = IF taken' = Junk THEN 1 .. n \ {i + 1} ELSE 1 .. n
        /\ InFlight' = {}
    BY <1>1, <1>9, <2>1, OwnedIsNext DEF InFlight
  <2>3. ~dangling' => Apart(Contents', Owned', held', InFlight', allocated')
    BY <1>1, <1>4, <1>6, <1>8, <2>1, <2>2
  <2> HIDE DEF n
  <2> QED
    BY <1>1, <1>4, <1>5, <1>7, <1>9, <2>1, <2>3 DEF OwnInv, n
<1>10. CASE pc' = "shiftLeft"
  <2>1. /\ Len(Contents') = n - 1
        /\ \A p \in 1 .. n - 1 :
              Contents'[p] = IF p < i + 1 THEN Contents[p] ELSE Contents[p + 1]
    BY <1>1, <1>10, LeaveStep DEF Leaves
  <2>2. Owned' = 1 .. n - 1 /\ InFlight' = {taken'} \ {Junk}
    BY <1>10, <2>1, OwnedIsNext DEF InFlight
  <2>3. ~dangling' => Apart(Contents', Owned', held', InFlight', allocated')
    <3>1. CASE taken' = Junk
      <4>1. InFlight' = {} /\ allocated' = allocated \ {Contents[i + 1]}
        BY <1>4, <2>2, <3>1
      <4> HIDE DEF n
      <4>2. ~dangling => Apart(Contents', 1 .. n - 1, held, {},
                               allocated \ {Contents[i + 1]})
        BY <1>2, <1>8, <2>1, ApartDrop
      <4> QED
        BY <1>1, <2>2, <4>1, <4>2
    <3>2. CASE taken' # Junk
      <4>1. InFlight' = {taken'} /\ allocated' = allocated /\ taken' = Contents[i + 1]
        BY <1>4, <2>2, <3>2
      <4> HIDE DEF n
      <4>2. ~dangling => Apart(Contents', 1 .. n - 1, held, {taken'}, allocated)
        BY <1>2, <1>6, <2>1, <4>1, ApartTake
      <4> QED
        BY <1>1, <2>2, <4>1, <4>2
    <3> QED
      BY <3>1, <3>2
  <2>4. \A p \in 1 .. n - 1 : Contents'[p] \in Elems
    BY <1>2, <1>7, <2>1
  <2> HIDE DEF n
  <2> QED
    BY <1>5, <1>10, <2>1, <2>3, <2>4 DEF OwnInv
<1> QED
  BY <1>1, <1>9, <1>10

LEMMA ShrinkOwn ==
    ASSUME IInv, IInv', OwnInv, Shrink, UNCHANGED heap
    PROVE  OwnInv'
<1> DEFINE n == Len(Contents)
<1>1. /\ pc = "shrink" /\ pc' = "shiftLeft" /\ idx \in Nat
      /\ held' = held /\ dangling' = dangling /\ taken' = taken /\ allocated' = allocated
  BY DEF Shrink, heap, IInv, TypeOK
<1>2. PICK i \in Nat : i = idx
  BY <1>1
<1>3. /\ i \in 0 .. n - 1 /\ Len(Contents') = n - 1
      /\ \A p \in 1 .. n - 1 :
            Contents'[p] = IF p < i + 1 THEN Contents[p] ELSE Contents[p + 1]
  BY <1>2, LeaveStep DEF Leaves
<1>4. /\ n \in Nat /\ InFlight = {}
      /\ Owned = IF taken = Junk THEN 1 .. n \ {i + 1} ELSE 1 .. n
  BY <1>1, <1>2, OwnedIs DEF InFlight, IInv, TypeOK
<1>5. Owned' = 1 .. n - 1 /\ InFlight' = {taken} \ {Junk}
  BY <1>1, <1>3, OwnedIsNext DEF InFlight
<1>6. ~dangling => Apart(Contents, Owned, held, {}, allocated)
  BY <1>4 DEF OwnInv
<1>7. ~dangling' => Apart(Contents', Owned', held', InFlight', allocated')
  <2>1. CASE taken = Junk
    <3>1. InFlight' = {} /\ Owned = 1 .. n \ {i + 1}
      BY <1>4, <1>5, <2>1
    <3> HIDE DEF n
    <3>2. ~dangling => Apart(Contents', 1 .. n - 1, held, {}, allocated)
      BY <1>3, <1>4, <1>6, <3>1, ApartDrop
    <3> QED
      BY <1>1, <1>5, <3>1, <3>2
  <2>2. CASE taken # Junk
    <3>1. InFlight' = {taken} /\ Owned = 1 .. n /\ taken = Contents[i + 1]
      BY <1>1, <1>2, <1>4, <1>5, <2>2 DEF OwnInv
    <3> HIDE DEF n
    <3>2. ~dangling => Apart(Contents', 1 .. n - 1, held, {taken}, allocated)
      BY <1>3, <1>4, <1>6, <3>1, ApartTake
    <3> QED
      BY <1>1, <1>5, <3>1, <3>2
  <2> QED
    BY <2>1, <2>2
<1>8. \A p \in 1 .. n - 1 : Contents'[p] \in Elems
  BY <1>3, <1>4 DEF OwnInv
<1>9. taken' \in Elems \union {Junk}
  BY <1>1 DEF OwnInv
<1> HIDE DEF n
<1> QED
  BY <1>1, <1>3, <1>7, <1>8, <1>9 DEF OwnInv

LEMMA InsertOwn ==
    ASSUME IInv, IInv', OwnInv, NEW i \in Nat, NEW e \in Elems, AInsert(e, i)
    PROVE  OwnInv'
<1>1. /\ pc = "idle" /\ pc' \in {"grow", "shiftRight"} /\ ele' = e
      /\ taken' = taken /\ taken = Junk /\ dangling' = dangling
      /\ e \in held \/ e \notin allocated
      /\ allocated' = allocated \union {e} /\ held' = held \ {e}
  BY DEF AInsert, Insert, OwnInv
<1>2. Contents' = Contents
  BY KeepStep DEF AInsert
<1>3. Owned = 1 .. Len(Contents) /\ InFlight = {}
  BY <1>1, OwnedIs DEF InFlight
<1>4. Owned' = 1 .. Len(Contents) /\ InFlight' = {e}
  BY <1>1, <1>2, OwnedIsNext DEF InFlight
<1>5. ~dangling => Apart(Contents, 1 .. Len(Contents), held, {}, allocated)
  BY <1>3 DEF OwnInv
<1>6. ~dangling' => Apart(Contents', Owned', held', InFlight', allocated')
  BY <1>1, <1>2, <1>4, <1>5 DEF Apart
<1> QED
  BY <1>1, <1>2, <1>6 DEF OwnInv

LEMMA PlaceOwn ==
    ASSUME IInv, IInv', OwnInv, Place, UNCHANGED heap
    PROVE  OwnInv'
<1> DEFINE n == Len(Contents)
<1>1. /\ pc = "shiftRight" /\ pc' = "idle"
      /\ held' = held /\ dangling' = dangling /\ taken' = taken /\ allocated' = allocated
      /\ taken = Junk
  BY DEF Place, Return, heap, OwnInv
<1>2. PICK i, e : i = idx /\ e = ele
  OBVIOUS
<1>3. /\ i \in 0 .. n /\ e \in Elems /\ Len(Contents') = n + 1
      /\ \A p \in 1 .. n + 1 :
            Contents'[p] = IF p < i + 1 THEN Contents[p]
                           ELSE IF p = i + 1 THEN e ELSE Contents[p - 1]
  BY <1>2, PlaceStep
<1>4. n \in Nat /\ Owned = 1 .. n /\ InFlight = {e}
  BY <1>1, <1>2, OwnedIs DEF InFlight, IInv, TypeOK
<1>5. Owned' = 1 .. n + 1 /\ InFlight' = {}
  BY <1>1, <1>3, OwnedIsNext DEF InFlight
<1>6. ~dangling => Apart(Contents, 1 .. n, held, {e}, allocated)
  BY <1>4 DEF OwnInv
<1>7. \A p \in 1 .. n : Contents[p] \in Elems
  BY DEF OwnInv
<1> HIDE DEF n
<1>8. ~dangling => Apart(Contents', 1 .. n + 1, held, {}, allocated)
  <2>1. Inserted(Contents, Contents', n, i, e)
    BY <1>3 DEF Inserted
  <2> QED
    BY <1>3, <1>4, <1>6, <2>1, ApartInsert
<1>9. \A p \in 1 .. n + 1 : Contents'[p] \in Elems
  BY <1>3, <1>4, <1>7
<1>10. ~dangling' => Apart(Contents', Owned', held', InFlight', allocated')
  BY <1>1, <1>5, <1>8
<1> QED
  BY <1>1, <1>3, <1>9, <1>10 DEF OwnInv

\* A step that leaves list and owners alone, and what is moving as well.
LEMMA UntouchedOwn ==
    ASSUME IInv, IInv', OwnInv, Contents' = Contents, UNCHANGED heap,
           pc # "shrink", pc' # "shrink", InFlight' = InFlight,
           pc' = "shiftLeft" => pc = "shiftLeft",
           pc' # "shiftLeft" => taken = Junk,
           pc' \in {"none", "destroyed"} => size' = 0
    PROVE  OwnInv'
<1>1. /\ held' = held /\ dangling' = dangling /\ taken' = taken /\ allocated' = allocated
  BY DEF heap
<1>2. Owned' = Owned
  BY OwnedIs, OwnedIsNext
<1>3. ~dangling' => Apart(Contents', Owned', held', InFlight', allocated')
  BY <1>1, <1>2 DEF OwnInv
<1> QED
  BY <1>1, <1>3 DEF OwnInv

\* What a call was moving goes back to the caller.
LEMMA HandBackOwn ==
    ASSUME IInv, IInv', OwnInv, Contents' = Contents, pc' = "idle", pc # "shrink",
           allocated' = allocated, dangling' = dangling, taken' = Junk,
           held' = held \union InFlight
    PROVE  OwnInv'
<1>1. Owned' = Owned /\ InFlight' = {}
  BY OwnedIs, OwnedIsNext DEF InFlight
<1>2. ~dangling' => Apart(Contents', Owned', held', InFlight', allocated')
  BY <1>1 DEF OwnInv, Apart
<1> QED
  BY <1>2 DEF OwnInv

\* The list is destroyed, and its elements freed or left to the caller.
LEMMA DestroyOwn ==
    ASSUME IInv, IInv', OwnInv, ADestroy \/ ADestroyDeep
    PROVE  OwnInv'
<1>1. /\ pc = "idle" /\ pc' = "destroyed" /\ size' = 0 /\ size \in Nat
      /\ dangling' = dangling /\ taken' = taken /\ taken = Junk
  BY DEF ADestroy, ADestroyDeep, Destroy, OwnInv, IInv, TypeOK
<1>2. Len(Contents) = size /\ Owned = 1 .. size /\ InFlight = {}
  BY <1>1, OwnedIs DEF InFlight
<1>3. Len(Contents') = 0 /\ Owned' = {} /\ InFlight' = {}
  BY <1>1, OwnedIsNext DEF InFlight
<1>4. Stored(Cells(size)) = {Contents[p] : p \in 1 .. size}
  <2>1. \A p \in Cells(size) : p + 1 \in 1 .. size /\ data[p] = Contents[p + 1]
    BY <1>1, CellIsListed DEF Cells
  <2>2. \A p \in 1 .. size : p - 1 \in Cells(size) /\ data[p - 1] = Contents[p]
    BY <1>1, CellIsListed DEF Cells
  <2> QED
    BY <2>1, <2>2 DEF Stored
<1>5. \/ held' = held \union {Contents[p] : p \in 1 .. size} /\ allocated' = allocated
      \/ held' = held /\ allocated' = allocated \ {Contents[p] : p \in 1 .. size}
  BY <1>4 DEF ADestroy, ADestroyDeep
<1>6. ~dangling => Apart(Contents, 1 .. size, held, {}, allocated)
  BY <1>2 DEF OwnInv
<1>7. ~dangling' => Apart(Contents', Owned', held', InFlight', allocated')
  BY <1>1, <1>3, <1>5, <1>6 DEF Apart
<1> QED
  BY <1>1, <1>3, <1>7 DEF OwnInv

\* Shrinking has failed: an element freed already is left in its cell.
LEMMA ShrinkFailsOwn ==
    ASSUME IInv, IInv', OwnInv, AShrinkFails
    PROVE  OwnInv'
<1>1. /\ pc = "shrink" /\ pc' = "idle" /\ taken' = Junk
      /\ dangling' = (dangling \/ taken = Junk)
      /\ held' = held /\ allocated' = allocated
  BY DEF AShrinkFails, ShrinkFails, Return
<1>2. Contents' = Contents
  BY KeepStep DEF AShrinkFails
<1>3. /\ InFlight = {} /\ InFlight' = {} /\ Owned' = 1 .. Len(Contents)
      /\ taken # Junk => Owned = 1 .. Len(Contents)
  BY <1>1, <1>2, OwnedIs, OwnedIsNext DEF InFlight
<1>4. ~dangling' => Apart(Contents', Owned', held', InFlight', allocated')
  BY <1>1, <1>2, <1>3 DEF OwnInv
<1> QED
  BY <1>1, <1>2, <1>4 DEF OwnInv

LEMMA ReleaseOwn ==
    ASSUME IInv, IInv', OwnInv, NEW e, Release(e)
    PROVE  OwnInv'
<1>1. /\ pc \in {"idle", "destroyed"} /\ pc' = pc /\ size' = size
      /\ dangling' = dangling /\ taken' = taken
      /\ e \in held /\ allocated' = allocated \ {e} /\ held' = held \ {e}
  BY DEF Release, vars
<1>2. Contents' = Contents
  BY KeepStep DEF Release
<1>3. Owned' = Owned /\ InFlight' = {} /\ InFlight = {}
  BY <1>1, <1>2, OwnedIs, OwnedIsNext DEF InFlight
<1>4. ~dangling' => Apart(Contents', Owned', held', InFlight', allocated')
  BY <1>1, <1>2, <1>3 DEF OwnInv, Apart
<1> QED
  BY <1>1, <1>2, <1>4 DEF OwnInv

LEMMA OwnStep ==
    ASSUME IInv, IInv', OwnInv, [ANext]_alvars
    PROVE  OwnInv'
<1>1. Indices \subseteq Nat /\ size \in Nat /\ 0 \in Nat
  BY CapacityAssumption DEF Indices, IInv, TypeOK
<1>2. CASE OnlyTheArray /\ UNCHANGED heap
  <2>1. ASSUME NEW c \in Capacities, Create(c)
        PROVE  OwnInv'
    <3>1. pc = "none" /\ pc' = "idle" /\ size' = 0 /\ size = 0 /\ taken = Junk
      BY <2>1 DEF Create, Return, OwnInv
    <3>2. Contents' = Contents
      BY <3>1 DEF Contents, Listing
    <3> QED
      BY <1>2, <3>1, <3>2, UntouchedOwn DEF InFlight
  <2>2. CASE CreateFails
    <3>1. Contents' = Contents /\ pc' = "none" /\ pc = "none" /\ size' = size
      BY <2>2, KeepStep DEF CreateFails, list
    <3> QED
      BY <1>2, <3>1, UntouchedOwn DEF InFlight, OwnInv
  <2>3. ASSUME NEW i \in Indices, InsertOutOfBound(i) \/ RemoveOutOfBound(i)
        PROVE  OwnInv'
    <3>1. Contents' = Contents /\ pc' = "idle" /\ pc = "idle"
      BY <1>1, <2>3, KeepStep DEF InsertOutOfBound, RemoveOutOfBound, Return
    <3> QED
      BY <1>2, <3>1, UntouchedOwn DEF InFlight, OwnInv
  <2> QED
    BY <1>2, <2>1, <2>2, <2>3 DEF OnlyTheArray
<1>3. CASE \E e \in Elems : AAppend(e) \/ APrepend(e) \/ Release(e)
  BY <1>1, <1>3, InsertOwn, ReleaseOwn DEF AAppend, APrepend
<1>4. CASE \E e \in Elems, i \in Indices : AInsert(e, i)
  BY <1>1, <1>4, InsertOwn
<1>5. CASE \E i \in Indices : ARemove(i) \/ ARemoveDeep(i)
  BY <1>1, <1>5, RemoveOwn
<1>6. CASE (Grow \/ ShiftRight \/ ShiftLeft) /\ UNCHANGED heap
  <2>1. Contents' = Contents
    BY <1>6, KeepStep
  <2>2. \/ pc \in {"grow", "shiftRight"} /\ pc' = "shiftRight" /\ ele' = ele
        \/ pc = "shiftLeft" /\ pc' = "shiftLeft"
    BY <1>6 DEF Grow, ShiftRight, ShiftLeft, call
  <2>3. taken' = taken
    BY <1>6 DEF heap
  <2> QED
    BY <1>6, <2>1, <2>2, <2>3, UntouchedOwn DEF InFlight, OwnInv
<1>7. CASE AGrowFails
  <2>1. Contents' = Contents
    BY <1>7, KeepStep DEF AGrowFails
  <2>2. pc = "grow" /\ pc' = "idle" /\ InFlight = {ele}
    BY <1>7 DEF AGrowFails, GrowFails, Return, InFlight
  <2> QED
    BY <1>7, <2>1, <2>2, HandBackOwn DEF AGrowFails, OwnInv
<1>8. CASE ADrop
  <2>1. Contents' = Contents
    BY <1>8, KeepStep DEF ADrop
  <2>2. pc = "shiftLeft" /\ pc' = "idle" /\ InFlight = {taken} \ {Junk}
    BY <1>8 DEF ADrop, Drop, Return, InFlight
  <2> QED
    BY <1>8, <2>1, <2>2, HandBackOwn DEF ADrop
<1>9. CASE ARunning
  BY <1>6, <1>7, <1>8, <1>9, PlaceOwn, ShrinkOwn, ShrinkFailsOwn DEF ARunning
<1>10. CASE UNCHANGED alvars
  <2>1. UNCHANGED vars /\ UNCHANGED heap
    BY <1>10 DEF alvars
  <2>2. Contents' = Contents
    BY <2>1, KeepStep
  <2>3. Owned' = Owned /\ InFlight' = InFlight
    BY <2>1, <2>2 DEF vars, heap, Owned, InFlight
  <2> QED
    BY <2>1, <2>2, <2>3 DEF vars, heap, OwnInv
<1> QED
  BY <1>2, <1>3, <1>4, <1>5, <1>9, <1>10, DestroyOwn DEF ANext

LEMMA ANextIsNext == [ANext]_alvars => [Next]_vars
<1> SUFFICES ASSUME [ANext]_alvars PROVE [Next]_vars
  OBVIOUS
<1>1. CASE UNCHANGED alvars
  BY <1>1 DEF alvars
<1>2. CASE OnlyTheArray
  BY <1>2 DEF OnlyTheArray, Next, Calls
<1>3. CASE \E e \in Elems : AAppend(e) \/ APrepend(e) \/ Release(e)
  BY <1>3 DEF AAppend, APrepend, AInsert, Release, AppendElem, PrependElem, Next, Calls
<1>4. CASE \E e \in Elems, i \in Indices : AInsert(e, i)
  BY <1>4 DEF AInsert, Next, Calls
<1>5. CASE \E i \in Indices : ARemove(i) \/ ARemoveDeep(i)
  BY <1>5 DEF ARemove, ARemoveDeep, Next, Calls
<1>6. CASE ADestroy \/ ADestroyDeep
  BY <1>6 DEF ADestroy, ADestroyDeep, Next, Calls
<1>7. CASE ARunning
  BY <1>7 DEF ARunning, AGrowFails, AShrinkFails, ADrop, Next, Running
<1> QED
  BY <1>1, <1>2, <1>3, <1>4, <1>5, <1>6, <1>7 DEF ANext

\* Every block has one owner, the caller, a cell or the running call, for
\* any mix of plain and deep calls and failing allocations, as long as no
\* deep removal has failed to shrink: nothing is freed twice or lost.
THEOREM OwnedOnce == ASpec => []OneOwner
<1>1. AInit => IInv /\ OwnInv
  <2> SUFFICES ASSUME AInit PROVE IInv /\ OwnInv
    OBVIOUS
  <2>1. IInv
    BY InitIInv DEF AInit
  <2>2. /\ pc = "none" /\ size = 0 /\ held = {} /\ allocated = {} /\ taken = Junk
    BY DEF AInit, Init
  <2>3. Len(Contents) = 0 /\ Owned = {} /\ InFlight = {}
    BY <2>1, <2>2, OwnedIs DEF InFlight
  <2> QED
    BY <2>1, <2>2, <2>3 DEF OwnInv, Apart
<1>2. IInv /\ OwnInv /\ [ANext]_alvars => (IInv /\ OwnInv)'
  BY ANextIsNext, NextIInv, OwnStep
<1>3. OwnInv => OneOwner
  BY OwnerIsApart DEF OwnInv
<1> QED
  BY <1>1, <1>2, <1>3, PTL DEF ASpec
======================================================================
