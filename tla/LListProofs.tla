------------------------- MODULE LListProofs -------------------------
(* The linked lists for every set of nodes and elements: the pointers    *)
(* describe one sequence, walks arrive, the list implements the abstract *)
(* one, and the blocks a list of pointers holds have one owner each.     *)
EXTENDS LList, FiniteSetTheorems, FunctionTheorems, SequenceTheorems,
        WellFoundedInduction, TLAPS

----------------------------------------------------------------------
(* Order is the only function that follows the next links, as tlapm      *)
(* cannot see from its recursive definition: the least place where two   *)
(* of them differ would follow one where they agree.                     *)

LEMMA LeastNatural ==
    ASSUME NEW S, S \subseteq Nat, S # {}
    PROVE  \E m \in S : \A k \in S : m <= k
<1>1. PICK m \in S : \A k \in S : <<k, m>> \notin OpToRel(<, Nat)
  BY NatLessThanWellFounded, WFMin
<1>2. \A k \in S : ~(k < m)
  BY <1>1 DEF OpToRel
<1> QED
  BY <1>2

\* f lists the nodes of N once each.
Lists(N, n, f) ==
    /\ f \in [1 .. n -> DOMAIN N]
    /\ \A b \in DOMAIN N : \E p \in 1 .. n : f[p] = b
    /\ \A p, q \in 1 .. n : f[p] = f[q] => p = q

At(n, f, p) == IF p \in 1 .. n THEN f[p] ELSE Null

First == IF pc = "destroy" THEN cur ELSE head

\* The pointers say that f is the order of the n nodes.
IsOrder(n, f) ==
    /\ Lists(node, n, f)
    /\ First = At(n, f, 1)
    /\ \A p \in 1 .. n : node[f[p]].next = At(n, f, p + 1)
    /\ pc # "destroy" =>
          /\ size = n /\ tail = At(n, f, n)
          /\ \A p \in 1 .. n : node[f[p]].prev = At(n, f, p - 1)

LEMMA ListsAll ==
    ASSUME NEW N, NEW n \in Nat, NEW f, Lists(N, n, f)
    PROVE  IsFiniteSet(DOMAIN N) /\ Cardinality(DOMAIN N) = n
<1>1. f \in Bijection(1 .. n, DOMAIN N)
  BY DEF Lists, Bijection, Injection, Surjection, IsInjective
<1>2. ExistsBijection(1 .. n, DOMAIN N)
  BY <1>1 DEF ExistsBijection
<1>3. IsFiniteSet(1 .. n) /\ Cardinality(1 .. n) = n
  BY FS_Interval
<1> QED
  BY <1>2, <1>3, FS_Bijection

LEMMA OrderIs ==
    ASSUME NEW n \in Nat, NEW f, IsOrder(n, f)
    PROVE  Allocated = n /\ Order = f
<1>1. Allocated = n
  BY ListsAll DEF IsOrder, Allocated
<1> DEFINE Follows(g) ==
              g = [p \in 1 .. Allocated |->
                     IF p = 1 THEN IF pc = "destroy" THEN cur ELSE head
                              ELSE NextOf(g[p - 1])]
<1>2. Follows(f)
  <2>1. f = [p \in 1 .. n |-> f[p]]
    BY DEF IsOrder, Lists
  <2>2. \A p \in 1 .. n : f[p] = IF p = 1 THEN First ELSE NextOf(f[p - 1])
    BY DEF IsOrder, Lists, At, NextOf
  <2> QED
    BY <1>1, <2>1, <2>2 DEF First
<1>3. Order = CHOOSE g : Follows(g)
  BY DEF Order
<1>4. Follows(Order)
  BY <1>2, <1>3
<1> HIDE DEF Follows
<1>5. Order = f
  <2> DEFINE D == {p \in 1 .. n : Order[p] # f[p]}
  <2>1. /\ Order = [p \in 1 .. n |-> IF p = 1 THEN First ELSE NextOf(Order[p - 1])]
        /\ f = [p \in 1 .. n |-> IF p = 1 THEN First ELSE NextOf(f[p - 1])]
    BY <1>1, <1>2, <1>4 DEF Follows, First
  <2>2. ASSUME D # {} PROVE FALSE
    <3>1. D \subseteq Nat
      OBVIOUS
    <3> HIDE DEF D
    <3>2. PICK m \in D : \A k \in D : m <= k
      BY <2>2, <3>1, LeastNatural
    <3>3. m \in 1 .. n /\ Order[m] # f[m]
      BY <3>2 DEF D
    <3>4. m # 1
      BY <2>1, <3>3
    <3>5. m - 1 \in 1 .. n /\ m - 1 \notin D
      BY <3>2, <3>3, <3>4
    <3>6. Order[m - 1] = f[m - 1]
      BY <3>5 DEF D
    <3> QED
      BY <2>1, <3>3, <3>4, <3>6
  <2>3. \A p \in 1 .. n : Order[p] = f[p]
    BY <2>2
  <2>4. Order = [p \in 1 .. n |-> Order[p]] /\ f = [p \in 1 .. n |-> f[p]]
    BY <2>1
  <2> QED
    BY <2>3, <2>4
<1> QED
  BY <1>1, <1>5

----------------------------------------------------------------------
(* What linking and unlinking a node do to the order.                    *)

Nodal(N) == DOMAIN N \subseteq Nodes /\ N \in [DOMAIN N -> Node]

\* The links of N are those of a doubly linked list in the order f.
Doubly(N, n, f) ==
    /\ Lists(N, n, f)
    /\ \A p \in 1 .. n : /\ N[f[p]].next = At(n, f, p + 1)
                         /\ N[f[p]].prev = At(n, f, p - 1)

With(n, f, i, m) ==
    [p \in 1 .. n + 1 |-> IF p < i THEN f[p] ELSE IF p = i THEN m ELSE f[p - 1]]
Without(n, f, i) == [p \in 1 .. n - 1 |-> IF p < i THEN f[p] ELSE f[p + 1]]

Links == Nodes \union {Null}

\* N is the nodes once m holds e and stands between x and y.
Stands(N, m, x, e, y) ==
    /\ Nodal(N) /\ DOMAIN N = DOMAIN node \union {m}
    /\ N[m].prev = x /\ N[m].elem = e /\ N[m].next = y
    /\ \A b \in DOMAIN node :
          /\ N[b].elem = node[b].elem
          /\ N[b].next = IF b = x THEN m ELSE node[b].next
          /\ N[b].prev = IF b = y /\ b # x THEN m ELSE node[b].prev

LEMMA LinkFields ==
    ASSUME Nodal(node), NEW m \in Free, NEW x \in Links, NEW y \in Links,
           NEW e \in Elems
    PROVE  Stands(Link(m, x, e, y), m, x, e, y)
<1> DEFINE N == Link(m, x, e, y)
<1>1. m \in Nodes /\ m \notin DOMAIN node /\ Null \notin Nodes
  BY NullAssumption DEF Free
<1>2. /\ DOMAIN N = DOMAIN node \union {m}
      /\ N = [b \in DOMAIN node \union {m} |-> N[b]]
      /\ N[m] = [prev |-> x, elem |-> e, next |-> y]
  BY DEF Link
<1>3. ASSUME NEW b \in DOMAIN node
      PROVE  /\ N[b] \in Node
             /\ N[b].elem = node[b].elem
             /\ N[b].next = IF b = x THEN m ELSE node[b].next
             /\ N[b].prev = IF b = y /\ b # x THEN m ELSE node[b].prev
  <2>1. node[b] \in Node /\ b # m /\ b \in Nodes
    BY <1>1 DEF Nodal
  <2>2. N[b] = IF b = x THEN [node[b] EXCEPT !.next = m]
               ELSE IF b = y THEN [node[b] EXCEPT !.prev = m] ELSE node[b]
    BY <2>1 DEF Link
  <2> QED
    BY <1>1, <2>1, <2>2 DEF Node, Links
<1>4. N[m] \in Node
  BY <1>2 DEF Node, Links
<1>5. Nodal(N)
  BY <1>1, <1>2, <1>3, <1>4 DEF Nodal
<1> QED
  BY <1>2, <1>3, <1>5 DEF Stands

\* A node is linked in at position i, between the two that were there.
LEMMA LinkOrder ==
    ASSUME Nodal(node), NEW n \in Nat, NEW f, Doubly(node, n, f),
           NEW i \in 1 .. n + 1, NEW m \in Free, NEW e \in Elems,
           NEW N, Link(m, At(n, f, i - 1), e, At(n, f, i)) = N
    PROVE  /\ Nodal(N) /\ Doubly(N, n + 1, With(n, f, i, m))
           /\ \A p \in 1 .. n + 1 :
                 N[With(n, f, i, m)[p]].elem =
                    IF p < i THEN node[f[p]].elem
                    ELSE IF p = i THEN e ELSE node[f[p - 1]].elem
<1> DEFINE x == At(n, f, i - 1)
           y == At(n, f, i)
           g == With(n, f, i, m)
<1>1. /\ f \in [1 .. n -> DOMAIN node]
      /\ \A b \in DOMAIN node : \E p \in 1 .. n : f[p] = b
      /\ \A p, q \in 1 .. n : f[p] = f[q] => p = q
      /\ \A p \in 1 .. n : /\ node[f[p]].next = At(n, f, p + 1)
                           /\ node[f[p]].prev = At(n, f, p - 1)
  BY DEF Doubly, Lists
<1>2. m \in Nodes /\ m \notin DOMAIN node /\ Null \notin Nodes /\ DOMAIN node \subseteq Nodes
  BY NullAssumption DEF Free, Nodal
<1>a. /\ i - 1 \in 0 .. n /\ i - 1 # i
      /\ (i = 1 => x = Null) /\ (i > 1 => x = f[i - 1] /\ i - 1 \in 1 .. n)
      /\ (i = n + 1 => y = Null) /\ (i < n + 1 => y = f[i] /\ i \in 1 .. n)
  BY DEF At
<1>b. Link(m, x, e, y) = N
  OBVIOUS
<1> HIDE DEF x, y, g
<1>3. x \in Links /\ y \in Links /\ (x # y \/ x = Null)
  <2>1. \A p \in 1 .. n : f[p] \in Nodes
    BY <1>1, <1>2
  <2>2. i = 1 \/ i > 1
    OBVIOUS
  <2>3. i = n + 1 \/ i < n + 1
    OBVIOUS
  <2> QED
    BY <1>1, <1>2, <1>a, <2>1, <2>2, <2>3 DEF Links
<1>4. /\ Nodal(N) /\ DOMAIN N = DOMAIN node \union {m}
      /\ N[m].prev = x /\ N[m].elem = e /\ N[m].next = y
      /\ \A b \in DOMAIN node :
            /\ N[b].elem = node[b].elem
            /\ N[b].next = IF b = x THEN m ELSE node[b].next
            /\ N[b].prev = IF b = y THEN m ELSE node[b].prev
  <2>1. /\ Nodal(node) /\ m \in Free /\ x \in Links /\ y \in Links /\ e \in Elems
    BY <1>3
  <2>2. Stands(N, m, x, e, y)
    BY <2>1, <1>b, LinkFields
  <2> QED
    BY <1>2, <1>3, <2>2 DEF Stands
<1>5. /\ DOMAIN g = 1 .. n + 1
      /\ \A p \in 1 .. n + 1 : g[p] = IF p < i THEN f[p] ELSE IF p = i THEN m ELSE f[p - 1]
  BY DEF With, g
<1>6. Lists(N, n + 1, g)
  <2>1. g \in [1 .. n + 1 -> DOMAIN N]
    <3>1. ASSUME NEW p \in 1 .. n + 1 PROVE g[p] \in DOMAIN node \union {m}
      <4>1. \A q \in 1 .. n : f[q] \in DOMAIN node
        BY <1>1
      <4>2. CASE p < i
        <5>1. p \in 1 .. n /\ g[p] = f[p]
          BY <1>5, <4>2
        <5> QED
          BY <4>1, <5>1
      <4>3. CASE p > i
        <5>1. p - 1 \in 1 .. n /\ g[p] = f[p - 1]
          BY <1>5, <4>3
        <5> QED
          BY <4>1, <5>1
      <4>4. CASE p = i
        BY <1>5, <4>4
      <4> QED
        BY <4>2, <4>3, <4>4
    <3> QED
      BY <1>4, <3>1 DEF With, g
  <2>2. ASSUME NEW b \in DOMAIN N PROVE \E p \in 1 .. n + 1 : g[p] = b
    <3>1. CASE b = m
      BY <1>5, <3>1
    <3>2. CASE b # m
      <4>1. PICK p \in 1 .. n : f[p] = b
        BY <1>1, <1>4, <3>2
      <4>2. CASE p < i
        BY <1>5, <4>1, <4>2
      <4>3. CASE p >= i
        <5>1. p + 1 \in 1 .. n + 1 /\ g[p + 1] = f[p]
          BY <1>5, <4>3
        <5> QED
          BY <4>1, <5>1
      <4> QED
        BY <4>2, <4>3
    <3> QED
      BY <3>1, <3>2
  <2>3. ASSUME NEW p \in 1 .. n + 1, NEW q \in 1 .. n + 1, g[p] = g[q]
        PROVE  p = q
    <3> DEFINE r(s) == IF s < i THEN s ELSE s - 1
    <3>1. ASSUME NEW s \in 1 .. n + 1, s # i
          PROVE  r(s) \in 1 .. n /\ g[s] = f[r(s)] /\ g[s] # m
      <4>1. r(s) \in 1 .. n /\ g[s] = f[r(s)]
        BY <1>5, <3>1
      <4> QED
        BY <1>1, <1>2, <4>1
    <3>2. g[i] = m
      BY <1>5
    <3>3. CASE p = i \/ q = i
      BY <2>3, <3>1, <3>2, <3>3
    <3>4. CASE p # i /\ q # i
      <4>1. /\ r(p) \in 1 .. n /\ g[p] = f[r(p)]
            /\ r(q) \in 1 .. n /\ g[q] = f[r(q)]
        BY <3>1, <3>4
      <4>2. r(p) = r(q)
        <5> HIDE DEF r
        <5> QED
          BY <1>1, <2>3, <4>1
      <4> QED
        BY <3>4, <4>2
    <3> QED
      BY <3>3, <3>4
  <2> QED
    BY <2>1, <2>2, <2>3 DEF Lists
<1>7. ASSUME NEW p \in 1 .. n + 1
      PROVE  /\ N[g[p]].next = At(n + 1, g, p + 1)
             /\ N[g[p]].prev = At(n + 1, g, p - 1)
             /\ N[g[p]].elem = IF p < i THEN node[f[p]].elem
                               ELSE IF p = i THEN e ELSE node[f[p - 1]].elem
  <2>0. \A q \in 0 .. n + 2 : At(n + 1, g, q) =
           IF q = 0 \/ q = n + 2 THEN Null
           ELSE IF q < i THEN f[q] ELSE IF q = i THEN m ELSE f[q - 1]
    BY <1>5 DEF At
  <2>1. CASE p = i
    <3>1. g[p] = m /\ N[g[p]].next = y /\ N[g[p]].prev = x /\ N[g[p]].elem = e
      BY <1>4, <1>5, <2>1
    <3>2. At(n + 1, g, p + 1) = y
      BY <1>a, <2>0, <2>1
    <3>3. At(n + 1, g, p - 1) = x
      BY <1>a, <2>0, <2>1
    <3> QED
      BY <2>1, <3>1, <3>2, <3>3
  <2>2. CASE p < i
    <3>1. g[p] = f[p] /\ f[p] \in DOMAIN node /\ p \in 1 .. n
      BY <1>1, <1>5, <2>2
    <3>2. f[p] = x <=> p = i - 1
      <4>1. i - 1 \in 1 .. n /\ x = f[i - 1]
        BY <1>a, <2>2, <3>1
      <4> QED
        BY <1>1, <3>1, <4>1
    <3>3. f[p] # y
      <4>1. CASE i = n + 1
        BY <1>1, <1>2, <1>a, <3>1, <4>1
      <4>2. CASE i < n + 1
        BY <1>1, <1>a, <2>2, <3>1, <4>2
      <4> QED
        BY <4>1, <4>2
    <3>4. N[g[p]].next = At(n + 1, g, p + 1)
      <4>1. N[g[p]].next = IF p = i - 1 THEN m ELSE At(n, f, p + 1)
        BY <1>1, <1>4, <3>1, <3>2
      <4>2. p # i - 1 => p + 1 < i /\ p + 1 \in 1 .. n
        BY <2>2
      <4> QED
        BY <2>0, <2>2, <3>1, <4>1, <4>2 DEF At
    <3>5. N[g[p]].prev = At(n + 1, g, p - 1)
      <4>1. N[g[p]].prev = At(n, f, p - 1)
        <5>1. N[f[p]].prev = node[f[p]].prev
          BY <1>4, <3>1, <3>3
        <5> QED
          BY <1>1, <3>1, <5>1
      <4> QED
        BY <2>0, <2>2, <3>1, <4>1 DEF At
    <3>6. N[g[p]].elem = node[f[p]].elem
      BY <1>4, <3>1
    <3> QED
      BY <2>2, <3>4, <3>5, <3>6
  <2>3. CASE p > i
    <3>1. g[p] = f[p - 1] /\ f[p - 1] \in DOMAIN node /\ p - 1 \in 1 .. n
      BY <1>1, <1>5, <2>3
    <3>2. f[p - 1] = y <=> p - 1 = i
      BY <1>1, <1>2, <1>a, <2>3, <3>1, SMTT(30)
    <3>3. f[p - 1] # x
      BY <1>1, <1>2, <1>a, <2>3, <3>1, SMTT(30)
    <3>4. N[g[p]].next = At(n + 1, g, p + 1)
      <4>1. N[g[p]].next = At(n, f, p)
        <5>1. N[f[p - 1]].next = node[f[p - 1]].next
          BY <1>4, <3>1, <3>3
        <5> QED
          BY <1>1, <3>1, <5>1
      <4> QED
        BY <2>0, <2>3, <3>1, <4>1 DEF At
    <3>5. N[g[p]].prev = At(n + 1, g, p - 1)
      <4>1. N[g[p]].prev = IF p - 1 = i THEN m ELSE At(n, f, p - 2)
        BY <1>1, <1>4, <3>1, <3>2
      <4>2. p - 1 # i => p - 1 > i /\ p - 2 \in 1 .. n
        BY <2>3
      <4> QED
        BY <2>0, <2>3, <3>1, <4>1, <4>2 DEF At
    <3>6. N[g[p]].elem = node[f[p - 1]].elem
      BY <1>4, <3>1
    <3> QED
      BY <2>3, <3>4, <3>5, <3>6
  <2> QED
    BY <2>1, <2>2, <2>3
<1> QED
  BY <1>4, <1>6, <1>7 DEF Doubly, g

\* N is the nodes once c is gone and its neighbours are linked.
Parts(N, c) ==
    /\ Nodal(N) /\ DOMAIN N = DOMAIN node \ {c}
    /\ \A b \in DOMAIN N :
          /\ N[b].elem = node[b].elem
          /\ N[b].next = IF b = node[c].prev THEN node[c].next ELSE node[b].next
          /\ N[b].prev = IF b = node[c].next /\ b # node[c].prev
                         THEN node[c].prev ELSE node[b].prev

LEMMA UnlinkFields ==
    ASSUME Nodal(node), NEW c \in DOMAIN node
    PROVE  Parts(Unlinked(c), c)
<1> DEFINE N == Unlinked(c)
<1> DEFINE x == node[c].prev
           y == node[c].next
<1>1. x \in Nodes \union {Null} /\ y \in Nodes \union {Null}
  BY DEF Nodal, Node
<1>2. /\ DOMAIN N = DOMAIN node \ {c}
      /\ N = [b \in DOMAIN node \ {c} |-> N[b]]
      /\ \A b \in DOMAIN node \ {c} :
            N[b] = IF b = x THEN [node[b] EXCEPT !.next = y]
                   ELSE IF b = y THEN [node[b] EXCEPT !.prev = x] ELSE node[b]
  BY DEF Unlinked
<1> HIDE DEF x, y
<1>3. ASSUME NEW b \in DOMAIN N
      PROVE  /\ N[b] \in Node
             /\ N[b].elem = node[b].elem
             /\ N[b].next = IF b = x THEN y ELSE node[b].next
             /\ N[b].prev = IF b = y /\ b # x THEN x ELSE node[b].prev
  <2>1. node[b] \in Node
    BY <1>2 DEF Nodal
  <2> QED
    BY <1>1, <1>2, <2>1 DEF Node
<1>4. Nodal(N)
  BY <1>2, <1>3 DEF Nodal
<1> QED
  BY <1>2, <1>3, <1>4 DEF Parts, x, y

\* The node at position i is unlinked, and those around it linked.
LEMMA UnlinkOrder ==
    ASSUME Nodal(node), NEW n \in Nat, NEW f, Doubly(node, n, f),
           NEW i \in 1 .. n, NEW N, Unlinked(f[i]) = N
    PROVE  /\ Nodal(N) /\ Doubly(N, n - 1, Without(n, f, i))
           /\ \A p \in 1 .. n - 1 :
                 N[Without(n, f, i)[p]].elem =
                    IF p < i THEN node[f[p]].elem ELSE node[f[p + 1]].elem
<1> DEFINE c == f[i]
           x == At(n, f, i - 1)
           y == At(n, f, i + 1)
           g == Without(n, f, i)
<1>1. /\ f \in [1 .. n -> DOMAIN node]
      /\ \A b \in DOMAIN node : \E p \in 1 .. n : f[p] = b
      /\ \A p, q \in 1 .. n : f[p] = f[q] => p = q
      /\ \A p \in 1 .. n : /\ node[f[p]].next = At(n, f, p + 1)
                           /\ node[f[p]].prev = At(n, f, p - 1)
  BY DEF Doubly, Lists
<1>2. Null \notin Nodes /\ DOMAIN node \subseteq Nodes
  BY NullAssumption DEF Nodal
<1>a. /\ (i = 1 => x = Null) /\ (i > 1 => x = f[i - 1] /\ i - 1 \in 1 .. n)
      /\ (i = n => y = Null) /\ (i < n => y = f[i + 1] /\ i + 1 \in 1 .. n)
  BY DEF At
<1>b. c = f[i]
  OBVIOUS
<1>3. c \in DOMAIN node /\ node[c].prev = x /\ node[c].next = y
  BY <1>1
<1> HIDE DEF c, x, y, g
<1>4. /\ Nodal(N) /\ DOMAIN N = DOMAIN node \ {c}
      /\ \A b \in DOMAIN N :
            /\ N[b].elem = node[b].elem
            /\ N[b].next = IF b = x THEN y ELSE node[b].next
            /\ N[b].prev = IF b = y /\ b # x THEN x ELSE node[b].prev
  <2>1. Unlinked(c) = N
    BY <1>b
  <2>2. Parts(N, c)
    BY <1>3, <2>1, UnlinkFields
  <2> QED
    BY <1>3, <2>2 DEF Parts
<1>5. /\ DOMAIN g = 1 .. n - 1 /\ g = [p \in 1 .. n - 1 |-> g[p]]
      /\ \A p \in 1 .. n - 1 : g[p] = IF p < i THEN f[p] ELSE f[p + 1]
  BY DEF Without, g
<1>6. \A p \in 1 .. n - 1 :
         \E r \in 1 .. n : r = (IF p < i THEN p ELSE p + 1) /\ r # i /\ g[p] = f[r]
  <2> TAKE p \in 1 .. n - 1
  <2> DEFINE r == IF p < i THEN p ELSE p + 1
  <2>1. r \in 1 .. n /\ r # i /\ g[p] = f[r]
    BY <1>5
  <2> HIDE DEF r
  <2> WITNESS r \in 1 .. n
  <2> QED
    BY <2>1 DEF r
<1>7. Lists(N, n - 1, g)
  <2>1. \A p \in 1 .. n - 1 : g[p] \in DOMAIN N
    <3> TAKE p \in 1 .. n - 1
    <3>1. PICK r \in 1 .. n : r # i /\ g[p] = f[r]
      BY <1>6
    <3>2. f[r] \in DOMAIN node /\ f[r] # c
      BY <1>1, <1>b, <3>1
    <3> QED
      BY <1>4, <3>1, <3>2
  <2>2. g \in [1 .. n - 1 -> DOMAIN N]
    BY <1>5, <2>1
  <2>3. ASSUME NEW b \in DOMAIN N PROVE \E p \in 1 .. n - 1 : g[p] = b
    <3>1. PICK p \in 1 .. n : f[p] = b
      BY <1>1, <1>4
    <3>2. p # i
      BY <1>4, <1>b, <3>1
    <3>3. CASE p < i
      BY <1>5, <3>1, <3>3
    <3>4. CASE p > i
      <4>1. p - 1 \in 1 .. n - 1 /\ g[p - 1] = f[p]
        BY <1>5, <3>4
      <4> QED
        BY <3>1, <4>1
    <3> QED
      BY <3>2, <3>3, <3>4
  <2>4. ASSUME NEW p \in 1 .. n - 1, NEW q \in 1 .. n - 1, g[p] = g[q]
        PROVE  p = q
    <3>1. PICK r \in 1 .. n : r = (IF p < i THEN p ELSE p + 1) /\ g[p] = f[r]
      BY <1>6
    <3>2. PICK s \in 1 .. n : s = (IF q < i THEN q ELSE q + 1) /\ g[q] = f[s]
      BY <1>6
    <3>3. f[r] = f[s]
      BY <2>4, <3>1, <3>2
    <3>4. r = s
      BY <1>1, <3>3
    <3> QED
      BY <3>1, <3>2, <3>4
  <2> QED
    BY <2>2, <2>3, <2>4 DEF Lists
<1>8. ASSUME NEW p \in 1 .. n - 1
      PROVE  /\ N[g[p]].next = At(n - 1, g, p + 1)
             /\ N[g[p]].prev = At(n - 1, g, p - 1)
             /\ N[g[p]].elem = IF p < i THEN node[f[p]].elem ELSE node[f[p + 1]].elem
  <2>0. \A q \in 0 .. n : At(n - 1, g, q) =
           IF q = 0 \/ q = n THEN Null ELSE IF q < i THEN f[q] ELSE f[q + 1]
    BY <1>5 DEF At
  <2>d. PICK r \in 1 .. n : r = (IF p < i THEN p ELSE p + 1) /\ r # i /\ g[p] = f[r]
    BY <1>6
  <2>a. f[r] \in DOMAIN N
    <3>1. f[r] \in DOMAIN node /\ f[r] # c
      BY <1>1, <1>b, <2>d
    <3> QED
      BY <1>4, <3>1
  <2>b. /\ f[r] = x <=> r = i - 1
        /\ f[r] = y <=> r = i + 1
    <3>1. f[r] # Null
      BY <1>1, <1>2
    <3>2. i = 1 \/ i > 1
      OBVIOUS
    <3>3. i = n \/ i < n
      OBVIOUS
    <3>4. ASSUME NEW q \in 1 .. n PROVE f[r] = f[q] <=> r = q
      BY <1>1
    <3>5. f[r] = x <=> r = i - 1
      BY <1>a, <3>1, <3>2, <3>4
    <3>6. f[r] = y <=> r = i + 1
      BY <1>a, <3>1, <3>3, <3>4
    <3> QED
      BY <3>5, <3>6
  <2>c. /\ N[g[p]].elem = node[f[r]].elem
        /\ N[g[p]].next = IF r = i - 1 THEN y ELSE At(n, f, r + 1)
        /\ N[g[p]].prev = IF r = i + 1 THEN x ELSE At(n, f, r - 1)
    <3>1. N[f[r]].elem = node[f[r]].elem
      BY <1>4, <2>a
    <3>2. N[f[r]].next = IF r = i - 1 THEN y ELSE node[f[r]].next
      BY <1>4, <2>a, <2>b
    <3>3. r = i - 1 => r # i + 1
      OBVIOUS
    <3>4. N[f[r]].prev = IF r = i + 1 THEN x ELSE node[f[r]].prev
      BY <1>4, <2>a, <2>b, <3>3
    <3> QED
      BY <1>1, <2>d, <3>1, <3>2, <3>4
  <2>1. CASE p < i
    <3>1. r = p
      BY <2>1, <2>d
    <3>2. N[g[p]].next = At(n - 1, g, p + 1)
      <4>1. CASE p = i - 1
        BY <1>a, <2>0, <2>c, <2>d, <3>1, <4>1
      <4>2. CASE p # i - 1
        BY <2>0, <2>1, <2>c, <2>d, <3>1, <4>2 DEF At
      <4> QED
        BY <4>1, <4>2
    <3>3. N[g[p]].prev = At(n - 1, g, p - 1)
      BY <2>0, <2>1, <2>c, <2>d, <3>1 DEF At
    <3> QED
      BY <2>1, <2>c, <2>d, <3>1, <3>2, <3>3
  <2>2. CASE p >= i
    <3>1. r = p + 1
      BY <2>2, <2>d
    <3>2. N[g[p]].next = At(n - 1, g, p + 1)
      BY <2>0, <2>2, <2>c, <2>d, <3>1 DEF At
    <3>3. N[g[p]].prev = At(n - 1, g, p - 1)
      <4>1. CASE p = i
        BY <1>a, <2>0, <2>c, <2>d, <3>1, <4>1
      <4>2. CASE p # i
        BY <2>0, <2>2, <2>c, <2>d, <3>1, <4>2 DEF At
      <4> QED
        BY <4>1, <4>2
    <3> QED
      BY <2>2, <2>c, <2>d, <3>1, <3>2, <3>3
  <2> QED
    BY <2>1, <2>2
<1> QED
  BY <1>4, <1>7, <1>8 DEF Doubly, g

----------------------------------------------------------------------
(* The inductive invariant: the pointers have an order, and a cursor is  *)
(* on the node it has come to, counted from the end its walk began at.   *)

OnItsWay(n, f) ==
    pc = "walk" =>
       /\ op.idx < n /\ left < n
       /\ IF Forward THEN left <= op.idx /\ cur = f[op.idx + 1 - left]
                     ELSE op.idx + left < n /\ cur = f[op.idx + 1 + left]
       /\ op.name = "add" => op.idx > 0 /\ op.elem \in Elems
       /\ op.name = "change" => op.elem \in Elems

Ordered(n, f) == n \in Nat /\ IsOrder(n, f) /\ OnItsWay(n, f)

ListInv == TypeOK /\ \E n, f : Ordered(n, f)

\* Outside a destruction both ends agree.
LEMMA BothEnds ==
    ASSUME NEW n \in Nat, NEW f, TypeOK, IsOrder(n, f)
    PROVE  /\ Nodal(node)
           /\ f \in [1 .. n -> DOMAIN node]
           /\ \A p \in 1 .. n : f[p] \in Nodes /\ f[p] # Null
           /\ First = Null <=> n = 0
           /\ pc # "destroy" =>
                 /\ Doubly(node, n, f) /\ size = n
                 /\ head = At(n, f, 1) /\ tail = At(n, f, n)
<1>1. Nodal(node) /\ f \in [1 .. n -> DOMAIN node]
  BY DEF Nodal, TypeOK, IsOrder, Lists
<1>2. \A p \in 1 .. n : f[p] \in Nodes /\ f[p] # Null
  BY <1>1, NullAssumption DEF Nodal
<1>3. First = Null <=> n = 0
  <2>1. First = At(n, f, 1)
    BY DEF IsOrder
  <2>2. CASE n = 0
    BY <2>1, <2>2 DEF At
  <2>3. CASE n # 0
    <3>1. 1 \in 1 .. n
      BY <2>3
    <3> QED
      BY <1>2, <2>1, <2>3, <3>1 DEF At
  <2> QED
    BY <2>2, <2>3
<1>4. ASSUME pc # "destroy"
      PROVE  /\ Doubly(node, n, f) /\ size = n
             /\ head = At(n, f, 1) /\ tail = At(n, f, n)
  BY <1>4 DEF IsOrder, Doubly, First
<1> QED
  BY <1>1, <1>2, <1>3, <1>4

\* The elements in order, once e has been put in at i, taken out, replaced.
Inserted(n, f, i, e) ==
    \E m : /\ IsOrder(n + 1, With(n, f, i, m))'
           /\ \A p \in 1 .. n + 1 :
                 node'[With(n, f, i, m)[p]].elem =
                    IF p < i THEN node[f[p]].elem
                    ELSE IF p = i THEN e ELSE node[f[p - 1]].elem

Deleted(n, f, i) ==
    /\ IsOrder(n - 1, Without(n, f, i))'
    /\ \A p \in 1 .. n - 1 :
          node'[Without(n, f, i)[p]].elem =
             IF p < i THEN node[f[p]].elem ELSE node[f[p + 1]].elem

Replaced(n, f, i, e) ==
    /\ IsOrder(n, f)'
    /\ \A p \in 1 .. n :
          node'[f[p]].elem = IF p = i THEN e ELSE node[f[p]].elem

LEMMA Grows ==
    ASSUME NEW n \in Nat, NEW f, TypeOK, IsOrder(n, f), pc # "destroy",
           NEW i \in 1 .. n + 1, NEW m \in Free, NEW e \in Elems,
           Link(m, At(n, f, i - 1), e, At(n, f, i)) = node',
           head' = (IF i = 1 THEN m ELSE head),
           tail' = (IF i = n + 1 THEN m ELSE tail),
           size' = size + 1, Return(1)
    PROVE  TypeOK' /\ Inserted(n, f, i, e)
<1> DEFINE g == With(n, f, i, m)
<1>1. /\ Nodal(node) /\ Doubly(node, n, f) /\ size = n
      /\ head = At(n, f, 1) /\ tail = At(n, f, n)
  BY BothEnds
<1>2. /\ Nodal(node') /\ Doubly(node', n + 1, g)
      /\ \A p \in 1 .. n + 1 :
            node'[g[p]].elem = IF p < i THEN node[f[p]].elem
                               ELSE IF p = i THEN e ELSE node[f[p - 1]].elem
  BY <1>1, LinkOrder
<1>3. At(n + 1, g, 1) = head' /\ At(n + 1, g, n + 1) = tail'
  BY <1>1 DEF At, With
<1>4. TypeOK'
  BY <1>2 DEF TypeOK, Return, Nodal, Free
<1>5. IsOrder(n + 1, g)'
  BY <1>1, <1>2, <1>3 DEF IsOrder, Doubly, First, At, Lists, Return
<1> QED
  BY <1>2, <1>4, <1>5 DEF Inserted

LEMMA Shrinks ==
    ASSUME NEW n \in Nat, NEW f, TypeOK, IsOrder(n, f), pc # "destroy",
           NEW i \in 1 .. n, Unlinked(f[i]) = node',
           head' = (IF i = 1 THEN At(n, f, 2) ELSE head),
           tail' = (IF i = n THEN At(n, f, n - 1) ELSE tail),
           size' = size - 1, Return(1)
    PROVE  TypeOK' /\ Deleted(n, f, i)
<1> DEFINE g == Without(n, f, i)
<1>1. /\ Nodal(node) /\ Doubly(node, n, f) /\ size = n
      /\ head = At(n, f, 1) /\ tail = At(n, f, n)
      /\ f \in [1 .. n -> DOMAIN node]
  BY BothEnds
<1>2. /\ Nodal(node') /\ Doubly(node', n - 1, g)
      /\ \A p \in 1 .. n - 1 :
            node'[g[p]].elem = IF p < i THEN node[f[p]].elem ELSE node[f[p + 1]].elem
  BY <1>1, UnlinkOrder
<1>3. At(n - 1, g, 1) = head' /\ At(n - 1, g, n - 1) = tail'
  BY <1>1 DEF At, Without
<1>4. TypeOK'
  <2>1. \A p : At(n, f, p) \in Nodes \union {Null}
    BY <1>1 DEF At, Nodal
  <2> QED
    BY <1>1, <1>2, <2>1 DEF TypeOK, Return, Nodal
<1>5. IsOrder(n - 1, g)'
  BY <1>1, <1>2, <1>3 DEF IsOrder, Doubly, First, At, Lists, Return
<1> QED
  BY <1>2, <1>4, <1>5 DEF Deleted

----------------------------------------------------------------------
(* What each call does to the order.                                     *)

LEMMA AddHeadGrows ==
    ASSUME NEW n \in Nat, NEW f, TypeOK, IsOrder(n, f), NEW e \in Elems, AddHead(e)
    PROVE  TypeOK' /\ Inserted(n, f, 1, e)
<1>1. PICK m \in Free :
         /\ node' = Link(m, Null, e, head)
         /\ head' = m /\ tail' = (IF head = Null THEN m ELSE tail)
  BY DEF AddHead
<1>2. pc # "destroy" /\ size' = size + 1 /\ Return(1)
  BY DEF AddHead
<1>3. head = At(n, f, 1) /\ (head = Null <=> n = 0)
  BY <1>2, BothEnds DEF First
<1>4. At(n, f, 1 - 1) = Null /\ 1 \in 1 .. n + 1
  BY DEF At
<1> QED
  BY <1>1, <1>2, <1>3, <1>4, Grows

LEMMA AddTailGrows ==
    ASSUME NEW n \in Nat, NEW f, TypeOK, IsOrder(n, f), NEW e \in Elems, AddTail(e)
    PROVE  TypeOK' /\ Inserted(n, f, n + 1, e) /\ size = n
<1>1. PICK m \in Free : node' = Link(m, tail, e, Null) /\ tail' = m
  BY DEF AddTail
<1>2. pc # "destroy" /\ size > 0 /\ head' = head /\ size' = size + 1 /\ Return(1)
  BY DEF AddTail
<1>3. tail = At(n, f, n) /\ size = n
  BY <1>2, BothEnds
<1> DEFINE i == n + 1
<1>4. At(n, f, i - 1) = tail /\ At(n, f, i) = Null /\ i \in 1 .. n + 1 /\ i # 1
  BY <1>2, <1>3 DEF At
<1>5. /\ Link(m, At(n, f, i - 1), e, At(n, f, i)) = node'
      /\ head' = (IF i = 1 THEN m ELSE head)
      /\ tail' = (IF i = n + 1 THEN m ELSE tail)
  BY <1>1, <1>2, <1>4
<1>6. TypeOK' /\ Inserted(n, f, i, e)
  <2> HIDE DEF i
  <2> QED
    BY <1>2, <1>4, <1>5, Grows
<1> QED
  BY <1>3, <1>6

\* The walk of a call that has arrived has the node of its index.
LEMMA AtItsIndex ==
    ASSUME NEW n, NEW f, Ordered(n, f), TypeOK, pc = "walk", left = 0
    PROVE  op.idx + 1 \in 1 .. n /\ cur = f[op.idx + 1] /\ op.idx \in Nat
<1>1. op.idx \in Nat
  BY DEF TypeOK, Op
<1> QED
  BY <1>1 DEF Ordered, OnItsWay

LEMMA InsertGrows ==
    ASSUME NEW n, NEW f, Ordered(n, f), TypeOK, Insert
    PROVE  TypeOK' /\ Inserted(n, f, op.idx + 1, op.elem) /\ op.elem \in Elems
<1>1. PICK m \in Free : node' = Link(m, node[cur].prev, op.elem, cur)
  BY DEF Insert
<1>2. /\ pc = "walk" /\ left = 0 /\ op.name = "add"
      /\ head' = head /\ tail' = tail /\ size' = size + 1 /\ Return(1)
  BY DEF Insert, Arrived
<1> DEFINE i == op.idx + 1
           e == op.elem
<1>3. i \in 1 .. n /\ cur = f[i] /\ n \in Nat /\ IsOrder(n, f)
  BY <1>2, AtItsIndex DEF Ordered
<1>4. i > 1 /\ e \in Elems
  BY <1>2, <1>3, AtItsIndex DEF Ordered, OnItsWay
<1> HIDE DEF i, e
<1>5. At(n, f, i) = cur /\ At(n, f, i - 1) = node[cur].prev
  <2>1. node[f[i]].prev = At(n, f, i - 1)
    BY <1>2, <1>3 DEF IsOrder
  <2> QED
    BY <1>3, <2>1 DEF At
<1>6. /\ Link(m, At(n, f, i - 1), e, At(n, f, i)) = node' /\ i \in 1 .. n + 1
      /\ head' = (IF i = 1 THEN m ELSE head)
      /\ tail' = (IF i = n + 1 THEN m ELSE tail)
  <2>1. Link(m, At(n, f, i - 1), e, At(n, f, i)) = node'
    BY <1>1, <1>5 DEF e
  <2>2. i \in 1 .. n + 1 /\ i # 1 /\ i # n + 1
    BY <1>3, <1>4
  <2> QED
    BY <1>2, <2>1, <2>2
<1>7. TypeOK' /\ Inserted(n, f, i, e)
  BY <1>2, <1>3, <1>4, <1>6, Grows
<1> QED
  BY <1>4, <1>7 DEF i, e

LEMMA UnlinkShrinks ==
    ASSUME NEW n, NEW f, Ordered(n, f), TypeOK, Unlink
    PROVE  TypeOK' /\ Deleted(n, f, op.idx + 1)
<1>1. /\ pc = "walk" /\ left = 0
      /\ node' = Unlinked(cur)
      /\ head' = (IF node[cur].prev = Null THEN node[cur].next ELSE head)
      /\ tail' = (IF node[cur].next = Null THEN node[cur].prev ELSE tail)
      /\ size' = size - 1 /\ Return(1)
  BY DEF Unlink, Arrived
<1> DEFINE i == op.idx + 1
<1>2. i \in 1 .. n /\ cur = f[i] /\ n \in Nat /\ IsOrder(n, f)
  BY <1>1, AtItsIndex DEF Ordered
<1> HIDE DEF i
<1>3. node[cur].prev = At(n, f, i - 1) /\ node[cur].next = At(n, f, i + 1)
  BY <1>1, <1>2 DEF IsOrder
<1>4. /\ node[cur].prev = Null <=> i = 1
      /\ node[cur].next = Null <=> i = n
  <2>1. \A p \in 1 .. n : f[p] # Null
    BY <1>2, BothEnds
  <2> QED
    BY <1>2, <1>3, <2>1 DEF At
<1>5. /\ head' = (IF i = 1 THEN At(n, f, 2) ELSE head)
      /\ tail' = (IF i = n THEN At(n, f, n - 1) ELSE tail)
  BY <1>1, <1>3, <1>4
<1>6. TypeOK' /\ Deleted(n, f, i)
  BY <1>1, <1>2, <1>5, Shrinks
<1> QED
  BY <1>6 DEF i

LEMMA OverwriteReplaces ==
    ASSUME NEW n, NEW f, Ordered(n, f), TypeOK, Overwrite
    PROVE  TypeOK' /\ Replaced(n, f, op.idx + 1, op.elem) /\ op.elem \in Elems
<1>1. /\ pc = "walk" /\ left = 0 /\ op.name = "change"
      /\ node' = [node EXCEPT ![cur].elem = op.elem]
      /\ head' = head /\ tail' = tail /\ size' = size /\ Return(1)
  BY DEF Overwrite, Arrived
<1> DEFINE i == op.idx + 1
           e == op.elem
<1>2. i \in 1 .. n /\ cur = f[i] /\ n \in Nat /\ IsOrder(n, f)
  BY <1>1, AtItsIndex DEF Ordered
<1>3. e \in Elems
  BY <1>1 DEF Ordered, OnItsWay
<1>4. Nodal(node) /\ f \in [1 .. n -> DOMAIN node]
  BY <1>2, BothEnds
<1> HIDE DEF i, e
<1>5. cur \in DOMAIN node
  BY <1>2, <1>4
<1>6. node' = [b \in DOMAIN node |-> IF b = cur THEN [node[b] EXCEPT !.elem = e] ELSE node[b]]
  BY <1>1 DEF e
<1>7. ASSUME NEW b \in DOMAIN node
      PROVE  /\ node'[b] \in Node
             /\ node'[b].next = node[b].next /\ node'[b].prev = node[b].prev
             /\ node'[b].elem = IF b = cur THEN e ELSE node[b].elem
  <2>1. node[b] \in Node
    BY <1>4 DEF Nodal
  <2>2. node'[b] = IF b = cur THEN [node[b] EXCEPT !.elem = e] ELSE node[b]
    BY <1>6
  <2> QED
    BY <1>3, <2>1, <2>2 DEF Node
<1>8. DOMAIN node' = DOMAIN node /\ Nodal(node')
  BY <1>4, <1>6, <1>7 DEF Nodal
<1>9. TypeOK'
  BY <1>1, <1>8 DEF TypeOK, Return, Nodal
<1>10. IsOrder(n, f)'
  BY <1>1, <1>2, <1>4, <1>7, <1>8 DEF IsOrder, Lists, First, At, Return
<1>11. ASSUME NEW p \in 1 .. n
       PROVE  node'[f[p]].elem = IF p = i THEN e ELSE node[f[p]].elem
  <2>1. f[p] = cur <=> p = i
    BY <1>2 DEF IsOrder, Lists
  <2> QED
    BY <1>4, <1>7, <2>1
<1>12. Replaced(n, f, i, e)
  BY <1>10, <1>11 DEF Replaced
<1> QED
  BY <1>3, <1>9, <1>12 DEF i, e

\* Freeing a node leaves those behind it.
LEMMA FreeNodeDrops ==
    ASSUME NEW n, NEW f, Ordered(n, f), TypeOK, FreeNode
    PROVE  TypeOK' /\ IsOrder(n - 1, Without(n, f, 1))' /\ n - 1 \in Nat /\ cur = f[1]
<1> DEFINE g == Without(n, f, 1)
<1>1. /\ pc = "destroy" /\ cur # Null /\ cur' = node[cur].next
      /\ node' = [b \in DOMAIN node \ {cur} |-> node[b]]
      /\ UNCHANGED <<pc, head, tail, size, left, op, ret>>
  BY DEF FreeNode
<1>2. n \in Nat /\ IsOrder(n, f) /\ First = cur
  BY <1>1 DEF Ordered, First
<1>3. /\ Nodal(node) /\ f \in [1 .. n -> DOMAIN node]
      /\ n # 0 /\ cur = At(n, f, 1)
      /\ \A p \in 1 .. n : node[f[p]].next = At(n, f, p + 1)
      /\ \A b \in DOMAIN node : \E p \in 1 .. n : f[p] = b
      /\ \A p, q \in 1 .. n : f[p] = f[q] => p = q
  <2>1. Nodal(node) /\ (First = Null <=> n = 0)
    BY <1>2, BothEnds
  <2>2. n # 0
    BY <1>1, <1>2, <2>1
  <2>3. /\ f \in [1 .. n -> DOMAIN node] /\ First = At(n, f, 1)
        /\ \A p \in 1 .. n : node[f[p]].next = At(n, f, p + 1)
        /\ \A b \in DOMAIN node : \E p \in 1 .. n : f[p] = b
        /\ \A p, q \in 1 .. n : f[p] = f[q] => p = q
    BY <1>2 DEF IsOrder, Lists
  <2> QED
    BY <1>2, <2>1, <2>2, <2>3
<1>4. cur = f[1] /\ 1 \in 1 .. n /\ n - 1 \in Nat /\ cur' = At(n, f, 2)
  BY <1>1, <1>2, <1>3 DEF At
<1>5. /\ g \in [1 .. n - 1 -> DOMAIN node']
      /\ \A p \in 1 .. n - 1 : g[p] = f[p + 1] /\ p + 1 \in 1 .. n
  <2>1. /\ g = [p \in 1 .. n - 1 |-> g[p]]
        /\ \A p \in 1 .. n - 1 : g[p] = f[p + 1] /\ p + 1 \in 1 .. n /\ p + 1 # 1
    BY <1>2 DEF Without
  <2>2. \A p \in 1 .. n - 1 : f[p + 1] \in DOMAIN node /\ f[p + 1] # cur
    BY <1>3, <1>4, <2>1
  <2>3. \A p \in 1 .. n - 1 : g[p] \in DOMAIN node'
    BY <1>1, <2>1, <2>2
  <2> QED
    BY <2>1, <2>3
<1> HIDE DEF g
<1>6. Lists(node', n - 1, g)
  <2>1. ASSUME NEW b \in DOMAIN node' PROVE \E p \in 1 .. n - 1 : g[p] = b
    <3>1. b \in DOMAIN node /\ b # cur
      BY <1>1
    <3>2. PICK p \in 1 .. n : f[p] = b
      BY <1>3, <3>1
    <3>3. p # 1
      BY <1>4, <3>1, <3>2
    <3>4. p - 1 \in 1 .. n - 1 /\ p - 1 + 1 = p
      BY <1>2, <3>3
    <3> QED
      BY <1>5, <3>2, <3>4
  <2>2. \A p, q \in 1 .. n - 1 : g[p] = g[q] => p = q
    BY <1>3, <1>5
  <2> QED
    BY <1>5, <2>1, <2>2 DEF Lists
<1>7. \A p \in 0 .. n : At(n - 1, g, p) = IF p = 0 THEN Null ELSE At(n, f, p + 1)
  BY <1>2, <1>5 DEF At
<1>8. ASSUME NEW p \in 1 .. n - 1 PROVE node'[g[p]].next = At(n - 1, g, p + 1)
  <2>1. node'[g[p]] = node[f[p + 1]]
    BY <1>1, <1>5
  <2>2. node[f[p + 1]].next = At(n, f, p + 2)
    BY <1>3, <1>5
  <2> QED
    BY <1>2, <1>7, <2>1, <2>2
<1>9. At(n - 1, g, 1) = cur'
  BY <1>4, <1>7
<1>10. IsOrder(n - 1, g)'
  BY <1>1, <1>6, <1>8, <1>9 DEF IsOrder, First, At
<1>11. TypeOK'
  <2>1. Nodal(node')
    BY <1>1, <1>3 DEF Nodal
  <2>2. cur' \in Nodes \union {Null}
    BY <1>1, <1>3, <1>4 DEF Nodal, Node
  <2> QED
    BY <1>1, <2>1, <2>2 DEF TypeOK, Nodal
<1> QED
  BY <1>4, <1>10, <1>11 DEF g

----------------------------------------------------------------------
(* The invariant is inductive.                                           *)

LEMMA SameOrder ==
    ASSUME NEW n, NEW f, Ordered(n, f), UNCHANGED list,
           pc # "destroy", pc' \notin {"walk", "destroy"}
    PROVE  Ordered(n, f)'
<1>1. IsOrder(n, f)'
  BY DEF Ordered, IsOrder, Lists, First, At, list
<1> QED
  BY <1>1 DEF Ordered, OnItsWay

\* Calls that return at once without touching the list.
LEMMA ReturnKeeps ==
    ASSUME NEW n, NEW f, Ordered(n, f), TypeOK,
           Create \/ CreateFails \/ AddFails \/ PopEmpty \/ InsertFails
              \/ \E i \in Indices : OutOfBound(i)
    PROVE  TypeOK' /\ Ordered(n, f)' /\ UNCHANGED list
<1>1. /\ UNCHANGED list /\ pc \notin {"destroy"} /\ pc' \in {"none", "idle"}
      /\ cur' \in {cur, Null} /\ left' \in {left, 0}
      /\ op' = Null /\ ret' \in {0, 1}
  BY DEF Create, CreateFails, AddFails, PopEmpty, InsertFails, OutOfBound, Return,
         Arrived, walk, TypeOK
<1>2. TypeOK'
  BY <1>1 DEF TypeOK, list
<1> QED
  BY <1>1, <1>2, SameOrder

LEMMA GetStarts ==
    ASSUME NEW n, NEW f, Ordered(n, f), TypeOK, pc = "idle",
           NEW o \in Op, Get(o), o.idx < size,
           o.name = "add" => o.idx > 0 /\ o.elem \in Elems,
           o.name = "change" => o.elem \in Elems
    PROVE  TypeOK' /\ Ordered(n, f)' /\ UNCHANGED list
<1>1. /\ n \in Nat /\ f \in [1 .. n -> DOMAIN node] /\ size = n
      /\ head = At(n, f, 1) /\ tail = At(n, f, n)
  BY BothEnds DEF Ordered
<1>2. o.idx \in Nat /\ o.name \in {"add", "remove", "pop", "change"}
  BY DEF Op
<1>3. /\ pc' = "walk" /\ op' = o /\ UNCHANGED list /\ ret' = ret /\ size' = size
      /\ IF o.idx < size \div 2 THEN cur' = head /\ left' = o.idx
                                ELSE cur' = tail /\ left' = size - 1 - o.idx
  BY DEF Get, list
<1>4. left' \in Nat /\ cur' \in {head, tail}
  BY <1>1, <1>2, <1>3
<1>5. TypeOK'
  BY <1>3, <1>4 DEF TypeOK, list
<1>6. IsOrder(n, f)'
  BY <1>3 DEF Ordered, IsOrder, Lists, First, At, list
<1>7. Forward' <=> o.idx < size \div 2
  BY <1>3 DEF Forward
<1>8. /\ op'.idx < n /\ left' < n
      /\ IF Forward' THEN left' <= op'.idx /\ cur' = f[op'.idx + 1 - left']
                     ELSE op'.idx + left' < n /\ cur' = f[op'.idx + 1 + left']
  <2>1. CASE o.idx < size \div 2
    BY <1>1, <1>2, <1>3, <1>7, <2>1 DEF At
  <2>2. CASE ~(o.idx < size \div 2)
    BY <1>1, <1>2, <1>3, <1>7, <2>2 DEF At
  <2> QED
    BY <2>1, <2>2
<1>9. OnItsWay(n, f)'
  BY <1>3, <1>8 DEF OnItsWay
<1> QED
  BY <1>1, <1>3, <1>5, <1>6, <1>9 DEF Ordered

LEMMA CallsThatWalk ==
    ASSUME NEW n, NEW f, Ordered(n, f), TypeOK,
           \/ \E e \in Elems, i \in Indices : AddInside(e, i) \/ Change(e, i)
           \/ \E i \in Indices : Remove(i)
           \/ Pop
    PROVE  TypeOK' /\ Ordered(n, f)' /\ UNCHANGED list
<1>0. Indices \subseteq Nat /\ size \in Nat
  BY IndexAssumption DEF Indices, TypeOK
<1>1. ASSUME NEW e \in Elems, NEW i \in Indices, AddInside(e, i)
      PROVE  TypeOK' /\ Ordered(n, f)' /\ UNCHANGED list
  <2> DEFINE o == [name |-> "add", elem |-> e, idx |-> i]
  <2>1. pc = "idle" /\ Get(o) /\ i > 0 /\ i < size
    BY <1>1 DEF AddInside
  <2>2. /\ o \in Op /\ o.idx < size
        /\ o.name = "add" => o.idx > 0 /\ o.elem \in Elems
        /\ o.name = "change" => o.elem \in Elems
    BY <1>0, <2>1 DEF Op
  <2> QED
    BY <2>1, <2>2, GetStarts
<1>2. ASSUME NEW e \in Elems, NEW i \in Indices, Change(e, i)
      PROVE  TypeOK' /\ Ordered(n, f)' /\ UNCHANGED list
  <2> DEFINE o == [name |-> "change", elem |-> e, idx |-> i]
  <2>1. pc = "idle" /\ Get(o) /\ i < size
    BY <1>2 DEF Change
  <2>2. /\ o \in Op /\ o.idx < size
        /\ o.name = "add" => o.idx > 0 /\ o.elem \in Elems
        /\ o.name = "change" => o.elem \in Elems
    BY <1>0, <2>1 DEF Op
  <2> QED
    BY <2>1, <2>2, GetStarts
<1>3. ASSUME NEW i \in Indices, Remove(i)
      PROVE  TypeOK' /\ Ordered(n, f)' /\ UNCHANGED list
  <2> DEFINE o == [name |-> "remove", elem |-> Null, idx |-> i]
  <2>1. pc = "idle" /\ Get(o) /\ i < size
    BY <1>3 DEF Remove
  <2>2. /\ o \in Op /\ o.idx < size
        /\ o.name = "add" => o.idx > 0 /\ o.elem \in Elems
        /\ o.name = "change" => o.elem \in Elems
    BY <1>0, <2>1 DEF Op
  <2> QED
    BY <2>1, <2>2, GetStarts
<1>4. ASSUME Pop
      PROVE  TypeOK' /\ Ordered(n, f)' /\ UNCHANGED list
  <2> DEFINE o == [name |-> "pop", elem |-> Null, idx |-> size - 1]
  <2>1. pc = "idle" /\ Get(o) /\ size > 0
    BY <1>4 DEF Pop
  <2>2. /\ o \in Op /\ o.idx < size
        /\ o.name = "add" => o.idx > 0 /\ o.elem \in Elems
        /\ o.name = "change" => o.elem \in Elems
    BY <1>0, <2>1 DEF Op
  <2> QED
    BY <2>1, <2>2, GetStarts
<1> QED
  BY <1>1, <1>2, <1>3, <1>4

LEMMA StepGoesOn ==
    ASSUME NEW n, NEW f, Ordered(n, f), TypeOK, Step
    PROVE  TypeOK' /\ Ordered(n, f)' /\ UNCHANGED list
<1>1. /\ pc = "walk" /\ left > 0 /\ left' = left - 1
      /\ cur' = (IF Forward THEN node[cur].next ELSE node[cur].prev)
      /\ UNCHANGED <<pc, list, op, ret>>
  BY DEF Step
<1>2. /\ n \in Nat /\ f \in [1 .. n -> DOMAIN node]
      /\ \A p \in 1 .. n : f[p] \in Nodes
      /\ \A p \in 1 .. n : /\ node[f[p]].next = At(n, f, p + 1)
                           /\ node[f[p]].prev = At(n, f, p - 1)
  BY <1>1, BothEnds DEF Ordered, Doubly
<1>3. left \in Nat /\ op \in Op /\ op.idx \in Nat
  BY <1>1 DEF TypeOK, Op
<1>4. Forward' <=> Forward
  BY <1>1 DEF Forward, list
<1>5. /\ op.idx < n /\ left < n
      /\ IF Forward THEN left <= op.idx /\ cur = f[op.idx + 1 - left]
                    ELSE op.idx + left < n /\ cur = f[op.idx + 1 + left]
      /\ op.name = "add" => op.idx > 0 /\ op.elem \in Elems
      /\ op.name = "change" => op.elem \in Elems
  BY <1>1 DEF Ordered, OnItsWay
<1>6. /\ cur' \in Nodes
      /\ IF Forward THEN left' <= op.idx /\ cur' = f[op.idx + 1 - left']
                    ELSE op.idx + left' < n /\ cur' = f[op.idx + 1 + left']
  <2>1. CASE Forward
    <3> DEFINE k == op.idx + 1 - left
    <3>0. n \in Nat /\ left > 0 /\ left' = left - 1 /\ left <= op.idx /\ op.idx < n
      BY <1>1, <1>2, <1>5, <2>1
    <3>a. cur = f[k]
      BY <1>5, <2>1
    <3>b. k \in 1 .. n /\ k + 1 \in 1 .. n /\ k + 1 = op.idx + 1 - left'
      BY <1>3, <3>0
    <3>1. k \in 1 .. n /\ k + 1 \in 1 .. n /\ cur = f[k] /\ k + 1 = op.idx + 1 - left'
      BY <3>a, <3>b
    <3> HIDE DEF k
    <3>2. cur' = f[k + 1]
      BY <1>1, <1>2, <2>1, <3>1 DEF At
    <3>3. cur' = f[op.idx + 1 - left'] /\ cur' \in Nodes
      BY <1>2, <3>1, <3>2
    <3>4. left' <= op.idx
      BY <1>1, <1>3, <1>5, <2>1
    <3> QED
      BY <2>1, <3>3, <3>4
  <2>2. CASE ~Forward
    <3> DEFINE k == op.idx + 1 + left
    <3>0. n \in Nat /\ left > 0 /\ left' = left - 1 /\ op.idx + left < n
      BY <1>1, <1>2, <1>5, <2>2
    <3>a. cur = f[k]
      BY <1>5, <2>2
    <3>b. k \in 1 .. n /\ k - 1 \in 1 .. n /\ k - 1 = op.idx + 1 + left'
      BY <1>3, <3>0
    <3>1. k \in 1 .. n /\ k - 1 \in 1 .. n /\ cur = f[k] /\ k - 1 = op.idx + 1 + left'
      BY <3>a, <3>b
    <3> HIDE DEF k
    <3>2. cur' = f[k - 1]
      BY <1>1, <1>2, <2>2, <3>1 DEF At
    <3>3. cur' = f[op.idx + 1 + left'] /\ cur' \in Nodes
      BY <1>2, <3>1, <3>2
    <3>4. op.idx + left' < n
      BY <1>1, <1>2, <1>3, <1>5, <2>2
    <3> QED
      BY <2>2, <3>3, <3>4
  <2> QED
    BY <2>1, <2>2
<1>7. OnItsWay(n, f)'
  <2>1. op' = op /\ left' < n
    BY <1>1, <1>2, <1>3, <1>5
  <2> QED
    BY <1>4, <1>5, <1>6, <2>1 DEF OnItsWay
<1>8. IsOrder(n, f)'
  BY <1>1 DEF Ordered, IsOrder, Lists, First, At, list
<1>9. TypeOK'
  BY <1>1, <1>3, <1>6 DEF TypeOK, list
<1> QED
  BY <1>1, <1>2, <1>7, <1>8, <1>9 DEF Ordered

LEMMA DestroyKeeps ==
    ASSUME NEW n, NEW f, Ordered(n, f), TypeOK, Destroy
    PROVE  TypeOK' /\ Ordered(n, f)'
<1>1. /\ pc = "idle" /\ pc' = "destroy" /\ cur' = head
      /\ UNCHANGED <<list, left, op, ret>>
  BY DEF Destroy
<1>2. TypeOK'
  BY <1>1 DEF TypeOK, list
<1>3. IsOrder(n, f)'
  BY <1>1 DEF Ordered, IsOrder, Lists, First, At, list
<1> QED
  BY <1>1, <1>2, <1>3 DEF Ordered, OnItsWay

LEMMA DestroyedEmpty ==
    ASSUME NEW n, NEW f, Ordered(n, f), TypeOK, Destroyed
    PROVE  TypeOK' /\ Ordered(n, f)' /\ n = 0
<1>1. /\ pc = "destroy" /\ cur = Null /\ pc' = "gone"
      /\ head' = Null /\ tail' = Null /\ size' = 0
      /\ UNCHANGED <<node, walk, ret>>
  BY DEF Destroyed
<1>2. n \in Nat /\ IsOrder(n, f)
  BY DEF Ordered
<1>3. n = 0
  <2>1. First = Null <=> n = 0
    BY <1>2, BothEnds
  <2> QED
    BY <1>1, <2>1 DEF First
<1>4. TypeOK'
  BY <1>1 DEF TypeOK, walk
<1>5. IsOrder(n, f)'
  BY <1>1, <1>2, <1>3 DEF IsOrder, Lists, First, At
<1> QED
  BY <1>1, <1>2, <1>3, <1>4, <1>5 DEF Ordered, OnItsWay

LEMMA ListInvInit == Init => Ordered(0, << >>) /\ TypeOK
<1> SUFFICES ASSUME Init PROVE Ordered(0, << >>) /\ TypeOK
  OBVIOUS
<1>1. DOMAIN << >> = {} /\ node = << >> /\ << >> \in [{} -> {}] /\ 1 .. 0 = {}
  BY DEF Init
<1>2. Nodal(node)
  BY <1>1 DEF Nodal
<1>3. TypeOK
  BY <1>2 DEF Init, TypeOK, Nodal
<1>4. IsOrder(0, << >>)
  BY <1>1 DEF Init, IsOrder, Lists, First, At
<1> QED
  BY <1>3, <1>4 DEF Init, Ordered, OnItsWay

LEMMA ListInvStep == ListInv /\ [Next]_vars => ListInv'
<1> SUFFICES ASSUME ListInv, [Next]_vars PROVE ListInv'
  OBVIOUS
<1>0. TypeOK
  BY DEF ListInv
<1>1. PICK n, f : Ordered(n, f)
  BY DEF ListInv
<1>2. n \in Nat /\ IsOrder(n, f)
  BY <1>1 DEF Ordered
<1>3. ASSUME NEW i, NEW e, Inserted(n, f, i, e), TypeOK', pc' = "idle"
      PROVE  ListInv'
  <2>1. PICK m : IsOrder(n + 1, With(n, f, i, m))'
    BY <1>3 DEF Inserted
  <2>2. Ordered(n + 1, With(n, f, i, m))'
    BY <1>2, <1>3, <2>1 DEF Ordered, OnItsWay
  <2> QED
    BY <1>3, <2>2 DEF ListInv
<1>4. CASE \/ Create \/ CreateFails \/ AddFails \/ PopEmpty \/ InsertFails
           \/ \E i \in Indices : OutOfBound(i)
  BY <1>0, <1>1, <1>4, ReturnKeeps DEF ListInv
<1>5. CASE \/ \E e \in Elems, i \in Indices : AddInside(e, i) \/ Change(e, i)
           \/ \E i \in Indices : Remove(i)
           \/ Pop
  BY <1>0, <1>1, <1>5, CallsThatWalk DEF ListInv
<1>6. CASE \E e \in Elems : AddHead(e) \/ AddTail(e)
  <2>1. PICK e \in Elems : AddHead(e) \/ AddTail(e)
    BY <1>6
  <2>2. pc' = "idle"
    BY <2>1 DEF AddHead, AddTail, Return
  <2>3. CASE AddHead(e)
    BY <1>0, <1>2, <1>3, <2>2, <2>3, AddHeadGrows
  <2>4. CASE AddTail(e)
    BY <1>0, <1>2, <1>3, <2>2, <2>4, AddTailGrows
  <2> QED
    BY <2>1, <2>3, <2>4
<1>7. CASE Step
  BY <1>0, <1>1, <1>7, StepGoesOn DEF ListInv
<1>8. CASE Insert
  <2>1. pc' = "idle"
    BY <1>8 DEF Insert, Return
  <2> QED
    BY <1>0, <1>1, <1>3, <1>8, <2>1, InsertGrows
<1>9. CASE Unlink
  <2>1. pc' = "idle" /\ pc = "walk" /\ left = 0
    BY <1>9 DEF Unlink, Arrived, Return
  <2>2. TypeOK' /\ IsOrder(n - 1, Without(n, f, op.idx + 1))'
    BY <1>0, <1>1, <1>9, UnlinkShrinks DEF Deleted
  <2>3. n - 1 \in Nat
    <3>1. op.idx + 1 \in 1 .. n
      BY <1>0, <1>1, <2>1, AtItsIndex
    <3> QED
      BY <1>2, <3>1
  <2>4. Ordered(n - 1, Without(n, f, op.idx + 1))'
    BY <2>1, <2>2, <2>3 DEF Ordered, OnItsWay
  <2> QED
    BY <2>2, <2>4 DEF ListInv
<1>10. CASE Overwrite
  <2>1. pc' = "idle"
    BY <1>10 DEF Overwrite, Return
  <2>2. TypeOK' /\ IsOrder(n, f)'
    BY <1>0, <1>1, <1>10, OverwriteReplaces DEF Replaced
  <2>3. Ordered(n, f)'
    BY <1>2, <2>1, <2>2 DEF Ordered, OnItsWay
  <2> QED
    BY <2>2, <2>3 DEF ListInv
<1>11. CASE Destroy
  BY <1>0, <1>1, <1>11, DestroyKeeps DEF ListInv
<1>12. CASE FreeNode
  <2>1. pc' = "destroy"
    BY <1>12 DEF FreeNode
  <2>2. TypeOK' /\ IsOrder(n - 1, Without(n, f, 1))' /\ n - 1 \in Nat
    BY <1>0, <1>1, <1>12, FreeNodeDrops
  <2>3. Ordered(n - 1, Without(n, f, 1))'
    BY <2>1, <2>2 DEF Ordered, OnItsWay
  <2> QED
    BY <2>2, <2>3 DEF ListInv
<1>13. CASE Destroyed
  BY <1>0, <1>1, <1>13, DestroyedEmpty DEF ListInv
<1>14. CASE UNCHANGED vars
  <2>1. TypeOK'
    BY <1>0, <1>14 DEF vars, TypeOK
  <2>2. Ordered(n, f)'
    BY <1>1, <1>14 DEF vars, Ordered, IsOrder, Lists, First, At, OnItsWay, Forward
  <2> QED
    BY <2>1, <2>2 DEF ListInv
<1> QED
  BY <1>4, <1>5, <1>6, <1>7, <1>8, <1>9, <1>10, <1>11, <1>12, <1>13, <1>14
     DEF Next, Calls, Running

LEMMA NthAt ==
    ASSUME NEW n \in Nat, NEW f, IsOrder(n, f)
    PROVE  Allocated = n /\ Order = f /\ \A p : Nth(p) = At(n, f, p)
<1>1. Allocated = n /\ Order = f
  BY OrderIs
<1> QED
  BY <1>1 DEF Nth, At

LEMMA ListInvLinks == ListInv => LinksAgree
<1> SUFFICES ASSUME ListInv PROVE LinksAgree
  OBVIOUS
<1>0. TypeOK
  BY DEF ListInv
<1>1. PICK n, f : Ordered(n, f)
  BY DEF ListInv
<1>2. n \in Nat /\ IsOrder(n, f)
  BY <1>1 DEF Ordered
<1>3. Allocated = n /\ Order = f /\ \A p : Nth(p) = At(n, f, p)
  BY <1>2, NthAt
<1>4. /\ f \in [1 .. n -> DOMAIN node]
      /\ \A b \in DOMAIN node : \E p \in 1 .. n : f[p] = b
  BY <1>2 DEF IsOrder, Lists
<1>5. DOMAIN node = {Order[p] : p \in 1 .. Allocated}
  BY <1>3, <1>4
<1>6. \A p \in 1 .. Allocated : NextOf(Order[p]) = Nth(p + 1)
  BY <1>2, <1>3, <1>4 DEF IsOrder, NextOf
<1>7. ASSUME pc # "destroy"
      PROVE  /\ size = Allocated /\ tail = Nth(size) /\ (size = 0 => head = Null)
             /\ \A p \in 1 .. Allocated : node[Order[p]].prev = Nth(p - 1)
  <2>1. size = n /\ tail = At(n, f, n) /\ head = At(n, f, 1)
    BY <1>2, <1>7 DEF IsOrder, First
  <2>2. \A p \in 1 .. n : node[f[p]].prev = At(n, f, p - 1)
    BY <1>2, <1>7 DEF IsOrder
  <2> QED
    BY <1>2, <1>3, <2>1, <2>2 DEF At
<1> QED
  BY <1>0, <1>5, <1>6, <1>7 DEF LinksAgree

LEMMA ListInvArrives == ListInv => WalkArrives
<1> SUFFICES ASSUME ListInv, pc = "walk"
             PROVE  /\ op.idx < size /\ left < size
                    /\ cur = Nth(IF Forward THEN op.idx + 1 - left ELSE op.idx + 1 + left)
                    /\ cur # Null
  BY DEF WalkArrives
<1>1. PICK n, f : Ordered(n, f)
  BY DEF ListInv
<1>2. n \in Nat /\ IsOrder(n, f) /\ TypeOK
  BY <1>1 DEF Ordered, ListInv
<1>3. /\ \A p : Nth(p) = At(n, f, p)
      /\ size = n /\ \A p \in 1 .. n : f[p] # Null
  BY <1>2, NthAt, BothEnds
<1>4. op.idx \in Nat /\ left \in Nat
  BY <1>2 DEF TypeOK, Op
<1>5. /\ op.idx < n /\ left < n
      /\ IF Forward THEN left <= op.idx /\ cur = f[op.idx + 1 - left]
                    ELSE op.idx + left < n /\ cur = f[op.idx + 1 + left]
  BY <1>1 DEF Ordered, OnItsWay
<1> DEFINE k == IF Forward THEN op.idx + 1 - left ELSE op.idx + 1 + left
<1>6. k \in 1 .. n /\ cur = f[k]
  BY <1>2, <1>4, <1>5
<1> HIDE DEF k
<1>7. cur = Nth(k) /\ cur # Null
  BY <1>3, <1>6 DEF At
<1> QED
  BY <1>3, <1>5, <1>7 DEF k

----------------------------------------------------------------------
(* The theorems about the list of nodes.                                 *)

LEMMA ListInvariance == Spec => []ListInv
<1>1. Init => ListInv
  BY ListInvInit DEF ListInv
<1> QED
  BY <1>1, ListInvStep, PTL DEF Spec

\* The pointers of the list describe one sequence, read the same from both
\* ends, whatever calls were made and wherever they failed.
THEOREM ListLinksAgree == Spec => []LinksAgree
BY ListInvariance, ListInvLinks, PTL

\* Every walk ends at the node of the index it was started for.
THEOREM ListWalkArrives == Spec => []WalkArrives
BY ListInvariance, ListInvArrives, PTL

----------------------------------------------------------------------
(* The refinement.                                                       *)

IsWith(r, t, i, e) ==
    /\ r \in Seq(Elems)
    /\ Len(r) = Len(t) + 1
    /\ \A p \in 1 .. Len(t) + 1 :
          r[p] = IF p < i THEN t[p] ELSE IF p = i THEN e ELSE t[p - 1]

IsWithout(r, t, i) ==
    /\ r \in Seq(Elems)
    /\ Len(r) = Len(t) - 1
    /\ \A p \in 1 .. Len(t) - 1 : r[p] = IF p < i THEN t[p] ELSE t[p + 1]

LEMMA InsertAtElems ==
    ASSUME NEW s \in Seq(Elems), NEW i \in 1 .. Len(s) + 1, NEW e \in Elems
    PROVE  IsWith(List!InsertAt(s, i, e), s, i, e)
<1> DEFINE r == List!InsertAt(s, i, e)
<1> DEFINE f == SubSeq(s, 1, i - 1)
           b == SubSeq(s, i, Len(s))
<1>1. Len(s) \in Nat /\ i \in Int /\ \A p \in 1 .. Len(s) : s[p] \in Elems
  BY LenProperties, ElementOfSeq
<1>2. /\ f \in Seq(Elems) /\ Len(f) = i - 1
      /\ \A p \in 1 .. i - 1 : f[p] = s[p]
  BY <1>1, SubSeqProperties
<1>3. /\ b \in Seq(Elems) /\ Len(b) = Len(s) - i + 1
      /\ \A p \in 1 .. Len(s) - i + 1 : b[p] = s[i + p - 1]
  BY <1>1, SubSeqProperties
<1> HIDE DEF f, b
<1>4. <<e>> \in Seq(Elems) /\ Len(<<e>>) = 1 /\ <<e>>[1] = e
  OBVIOUS
<1>5. /\ f \o <<e>> \in Seq(Elems) /\ Len(f \o <<e>>) = i
      /\ \A p \in 1 .. i : (f \o <<e>>)[p] = IF p < i THEN s[p] ELSE e
  BY <1>1, <1>2, <1>4, ConcatProperties
<1>6. r = (f \o <<e>>) \o b
  BY DEF List!InsertAt, f, b
<1> DEFINE g == f \o <<e>>
<1> HIDE DEF g
<1> HIDE DEF r
<1>7. /\ r \in Seq(Elems) /\ Len(r) = i + (Len(s) - i + 1)
      /\ \A p \in 1 .. i + (Len(s) - i + 1) : r[p] = IF p <= i THEN g[p] ELSE b[p - i]
  BY <1>3, <1>5, <1>6, ConcatProperties DEF g
<1>8. ASSUME NEW p \in 1 .. Len(s) + 1
      PROVE  r[p] = IF p < i THEN s[p] ELSE IF p = i THEN e ELSE s[p - 1]
  <2>1. CASE p <= i
    <3>1. p \in 1 .. i /\ r[p] = g[p]
      BY <1>1, <1>7, <2>1
    <3>2. g[p] = IF p < i THEN s[p] ELSE e
      BY <1>5, <3>1, Zenon DEF g
    <3> QED
      BY <1>1, <2>1, <3>1, <3>2
  <2>2. CASE p > i
    <3>1. r[p] = b[p - i] /\ p - i \in 1 .. Len(s) - i + 1 /\ i + (p - i) - 1 = p - 1
      BY <1>1, <1>7, <2>2
    <3> QED
      BY <1>1, <1>3, <2>2, <3>1
  <2> QED
    BY <1>1, <2>1, <2>2
<1>9. IsWith(r, s, i, e)
  BY <1>1, <1>7, <1>8 DEF IsWith
<1> QED
  BY <1>9 DEF r

LEMMA RemoveAtElems ==
    ASSUME NEW s \in Seq(Elems), NEW i \in 1 .. Len(s)
    PROVE  IsWithout(List!RemoveAt(s, i), s, i)
<1> DEFINE r == List!RemoveAt(s, i)
<1> DEFINE f == SubSeq(s, 1, i - 1)
           b == SubSeq(s, i + 1, Len(s))
<1>1. Len(s) \in Nat /\ i \in Int /\ \A p \in 1 .. Len(s) : s[p] \in Elems
  BY LenProperties, ElementOfSeq
<1>2. /\ f \in Seq(Elems) /\ Len(f) = i - 1
      /\ \A p \in 1 .. i - 1 : f[p] = s[p]
  BY <1>1, SubSeqProperties
<1>3. /\ b \in Seq(Elems) /\ Len(b) = Len(s) - i
      /\ \A p \in 1 .. Len(s) - i : b[p] = s[i + p]
  BY <1>1, SubSeqProperties
<1> HIDE DEF f, b
<1>4. r = f \o b
  BY DEF List!RemoveAt, f, b
<1> HIDE DEF r
<1>5. /\ r \in Seq(Elems) /\ Len(r) = Len(s) - 1
      /\ \A p \in 1 .. Len(s) - 1 :
            r[p] = IF p <= i - 1 THEN f[p] ELSE b[p - (i - 1)]
  <2>1. Len(f) + Len(b) = Len(s) - 1
    BY <1>1, <1>2, <1>3
  <2>2. /\ r \in Seq(Elems) /\ Len(r) = Len(f) + Len(b)
        /\ \A p \in 1 .. Len(f) + Len(b) :
              r[p] = IF p <= Len(f) THEN f[p] ELSE b[p - Len(f)]
    <3>1. f \in Seq(Elems) /\ b \in Seq(Elems)
      BY <1>2, <1>3
    <3>2. /\ f \o b \in Seq(Elems) /\ Len(f \o b) = Len(f) + Len(b)
          /\ \A p \in 1 .. Len(f) + Len(b) :
                (f \o b)[p] = IF p <= Len(f) THEN f[p] ELSE b[p - Len(f)]
      BY <3>1, ConcatProperties, Zenon
    <3> QED
      BY <1>4, <3>2, Zenon
  <2> QED
    BY <1>2, <2>1, <2>2
<1>6. ASSUME NEW p \in 1 .. Len(s) - 1
      PROVE  r[p] = IF p < i THEN s[p] ELSE s[p + 1]
  <2>1. CASE p < i
    BY <1>1, <1>2, <1>5, <2>1
  <2>2. CASE p >= i
    <3>1. /\ r[p] = b[p - (i - 1)] /\ p - (i - 1) \in 1 .. Len(s) - i
          /\ i + (p - (i - 1)) = p + 1
      BY <1>1, <1>5, <2>2
    <3> QED
      BY <1>1, <1>3, <2>2, <3>1
  <2> QED
    BY <1>1, <2>1, <2>2
<1>9. IsWithout(r, s, i)
  BY <1>1, <1>5, <1>6 DEF IsWithout
<1> QED
  BY <1>9 DEF r

Elements(n, f) == [p \in 1 .. n |-> node[f[p]].elem]

LEMMA ContentsAre ==
    \A n, f : n \in Nat /\ IsOrder(n, f) /\ TypeOK /\ pc \notin {"destroy", "gone"} =>
       /\ Contents = Elements(n, f)
       /\ Contents \in Seq(Elems) /\ Len(Contents) = n
       /\ \A p \in 1 .. n : Contents[p] = node[f[p]].elem
<1> SUFFICES ASSUME NEW n \in Nat, NEW f, IsOrder(n, f), TypeOK,
                    pc \notin {"destroy", "gone"}
             PROVE  /\ Contents = Elements(n, f)
                    /\ Contents \in Seq(Elems) /\ Len(Contents) = n
                    /\ \A p \in 1 .. n : Contents[p] = node[f[p]].elem
  OBVIOUS
<1>1. /\ Allocated = n /\ Order = f /\ Nodal(node)
      /\ f \in [1 .. n -> DOMAIN node] /\ \A p \in 1 .. n : f[p] # Null
  BY NthAt, BothEnds
<1>2. {q \in 1 .. Allocated : Order[q] # Null} = 1 .. n
  BY <1>1
<1>3. Cardinality(1 .. n) = n
  BY FS_Interval
<1>4. Contents = Elements(n, f)
  BY <1>1, <1>2, <1>3 DEF Contents, Elements
<1>5. \A p \in 1 .. n : node[f[p]].elem \in Elems
  BY <1>1 DEF Nodal, Node
<1> QED
  BY <1>4, <1>5 DEF Elements

LEMMA ContentsAreNext ==
    \A n, f : n \in Nat /\ IsOrder(n, f)' /\ TypeOK' /\ pc' \notin {"destroy", "gone"} =>
       /\ Contents' = Elements(n, f)'
       /\ Contents' \in Seq(Elems) /\ Len(Contents') = n
       /\ \A p \in 1 .. n : Contents'[p] = node'[f[p]].elem
<1>1. (\A n, f : n \in Nat /\ IsOrder(n, f) /\ TypeOK /\ pc \notin {"destroy", "gone"} =>
          /\ Contents = Elements(n, f)
          /\ Contents \in Seq(Elems) /\ Len(Contents) = n
          /\ \A p \in 1 .. n : Contents[p] = node[f[p]].elem)'
  BY ContentsAre, PTL
<1> QED
  BY <1>1

LEMMA InsertStep ==
    ASSUME NEW n \in Nat, NEW f, IsOrder(n, f), TypeOK, TypeOK',
           pc \notin {"destroy", "gone"}, pc' \notin {"destroy", "gone"},
           NEW i \in 0 .. n, NEW e \in Elems, Inserted(n, f, i + 1, e)
    PROVE  List!Insert(i, e)
<1> DEFINE r == List!InsertAt(Contents, i + 1, e)
<1>1. PICK m : /\ IsOrder(n + 1, With(n, f, i + 1, m))'
               /\ \A p \in 1 .. n + 1 :
                     node'[With(n, f, i + 1, m)[p]].elem =
                        IF p < i + 1 THEN node[f[p]].elem
                        ELSE IF p = i + 1 THEN e ELSE node[f[p - 1]].elem
  BY DEF Inserted
<1>2. /\ Contents \in Seq(Elems) /\ Len(Contents) = n
      /\ \A p \in 1 .. n : Contents[p] = node[f[p]].elem
  BY ContentsAre
<1>3. /\ Contents' \in Seq(Elems) /\ Len(Contents') = n + 1
      /\ \A p \in 1 .. n + 1 : Contents'[p] = node'[With(n, f, i + 1, m)[p]].elem
  <2>1. n + 1 \in Nat
    OBVIOUS
  <2> QED
    BY <1>1, <2>1, ContentsAreNext
<1>4. /\ r \in Seq(Elems) /\ Len(r) = n + 1
      /\ \A p \in 1 .. n + 1 :
            r[p] = IF p < i + 1 THEN Contents[p]
                   ELSE IF p = i + 1 THEN e ELSE Contents[p - 1]
  <2>1. i + 1 \in 1 .. Len(Contents) + 1
    BY <1>2
  <2>2. IsWith(r, Contents, i + 1, e)
    BY <1>2, <2>1, InsertAtElems
  <2> HIDE DEF r
  <2> QED
    BY <1>2, <2>2 DEF IsWith
<1> HIDE DEF r
<1>5. \A p \in 1 .. n + 1 : Contents'[p] = r[p]
  <2> TAKE p \in 1 .. n + 1
  <2>1. CASE p < i + 1
    BY <1>1, <1>2, <1>3, <1>4, <2>1
  <2>2. CASE p = i + 1
    BY <1>1, <1>3, <1>4, <2>2
  <2>3. CASE p > i + 1
    <3>1. p - 1 \in 1 .. n
      BY <2>3
    <3>2. Contents[p - 1] = node[f[p - 1]].elem
      BY <1>2, <3>1
    <3> QED
      BY <1>1, <1>3, <1>4, <2>3, <3>2
  <2> QED
    BY <2>1, <2>2, <2>3
<1>6. Contents' = r
  BY <1>3, <1>4, <1>5, SeqEqual
<1> QED
  BY <1>2, <1>6 DEF List!Insert, r

LEMMA DeleteStep ==
    ASSUME NEW n \in Nat, NEW f, IsOrder(n, f), TypeOK, TypeOK',
           pc \notin {"destroy", "gone"}, pc' \notin {"destroy", "gone"},
           NEW i \in 0 .. n - 1, Deleted(n, f, i + 1)
    PROVE  List!Delete(i)
<1> DEFINE r == List!RemoveAt(Contents, i + 1)
           g == Without(n, f, i + 1)
<1>1. /\ IsOrder(n - 1, g)'
      /\ \A p \in 1 .. n - 1 :
            node'[g[p]].elem = IF p < i + 1 THEN node[f[p]].elem ELSE node[f[p + 1]].elem
  BY DEF Deleted
<1> HIDE DEF g
<1>2. /\ Contents \in Seq(Elems) /\ Len(Contents) = n
      /\ \A p \in 1 .. n : Contents[p] = node[f[p]].elem
  BY ContentsAre
<1>3. /\ Contents' \in Seq(Elems) /\ Len(Contents') = n - 1
      /\ \A p \in 1 .. n - 1 : Contents'[p] = node'[g[p]].elem
  <2>1. n - 1 \in Nat
    OBVIOUS
  <2> QED
    BY <1>1, <2>1, ContentsAreNext
<1>4. /\ r \in Seq(Elems) /\ Len(r) = n - 1
      /\ \A p \in 1 .. n - 1 :
            r[p] = IF p < i + 1 THEN Contents[p] ELSE Contents[p + 1]
  <2>1. i + 1 \in 1 .. Len(Contents)
    BY <1>2
  <2>2. IsWithout(r, Contents, i + 1)
    BY <1>2, <2>1, RemoveAtElems
  <2> HIDE DEF r
  <2> QED
    BY <1>2, <2>2 DEF IsWithout
<1> HIDE DEF r
<1>5. \A p \in 1 .. n - 1 : Contents'[p] = r[p]
  <2> TAKE p \in 1 .. n - 1
  <2>1. p \in 1 .. n /\ p + 1 \in 1 .. n
    OBVIOUS
  <2>2. Contents[p] = node[f[p]].elem /\ Contents[p + 1] = node[f[p + 1]].elem
    BY <1>2, <2>1
  <2> QED
    BY <1>1, <1>3, <1>4, <2>2
<1>6. Contents' = r
  BY <1>3, <1>4, <1>5, SeqEqual
<1> QED
  BY <1>2, <1>6 DEF List!Delete, r

LEMMA ReplaceStep ==
    ASSUME NEW n \in Nat, NEW f, IsOrder(n, f), TypeOK, TypeOK',
           pc \notin {"destroy", "gone"}, pc' \notin {"destroy", "gone"},
           NEW i \in 0 .. n - 1, NEW e \in Elems, Replaced(n, f, i + 1, e)
    PROVE  List!Replace(i, e)
<1>1. /\ Contents \in Seq(Elems) /\ Len(Contents) = n
      /\ \A p \in 1 .. n : Contents[p] = node[f[p]].elem
  BY ContentsAre
<1>2. /\ Contents' \in Seq(Elems) /\ Len(Contents') = n
      /\ \A p \in 1 .. n : Contents'[p] = node'[f[p]].elem
  BY ContentsAreNext DEF Replaced
<1> DEFINE r == [Contents EXCEPT ![i + 1] = e]
<1>3. /\ r \in Seq(Elems) /\ Len(r) = n
      /\ \A p \in 1 .. n : r[p] = IF p = i + 1 THEN e ELSE Contents[p]
  BY <1>1, ExceptSeq
<1> HIDE DEF r
<1>4. \A p \in 1 .. n : Contents'[p] = r[p]
  BY <1>1, <1>2, <1>3 DEF Replaced
<1>5. Contents' = r
  BY <1>2, <1>3, <1>4, SeqEqual
<1> QED
  BY <1>1, <1>5 DEF List!Replace, r

\* A step that leaves the nodes alone leaves the abstract list alone.
LEMMA SameContents ==
    ASSUME NEW n, NEW f, Ordered(n, f), Ordered(n, f)', TypeOK, TypeOK', node' = node,
           pc \notin {"destroy", "gone"}, pc' \notin {"destroy", "gone"}
    PROVE  Contents' = Contents
<1>1. Contents = Elements(n, f) /\ Contents' = Elements(n, f)'
  BY ContentsAre, ContentsAreNext DEF Ordered
<1> QED
  BY <1>1 DEF Elements

LEMMA AsAskedStep == ListInv /\ [Next]_vars => [AsAsked]_vars
<1> SUFFICES ASSUME ListInv, [Next]_vars PROVE [AsAsked]_vars
  OBVIOUS
<1>0. TypeOK
  BY DEF ListInv
<1>1. PICK n, f : Ordered(n, f)
  BY DEF ListInv
<1>2. n \in Nat /\ IsOrder(n, f)
  BY <1>1 DEF Ordered
<1>3. CASE \/ Create \/ CreateFails \/ AddFails \/ PopEmpty \/ InsertFails
           \/ \E i \in Indices : OutOfBound(i)
  <2>1. TypeOK' /\ Ordered(n, f)' /\ UNCHANGED list
    BY <1>0, <1>1, <1>3, ReturnKeeps
  <2>2. pc \notin {"destroy", "gone"} /\ pc' \notin {"destroy", "gone"}
    BY <1>3 DEF Create, CreateFails, AddFails, PopEmpty, InsertFails, OutOfBound,
                Return, Arrived
  <2>3. Contents' = Contents
    BY <1>0, <1>1, <2>1, <2>2, SameContents DEF list
  <2>4. pc \in {"idle", "walk"} /\ pc' = "idle" => ret' = 0
    BY <1>3 DEF Create, CreateFails, AddFails, PopEmpty, InsertFails, OutOfBound, Return
  <2> QED
    BY <2>3, <2>4 DEF AsAsked
<1>4. CASE \/ \E e \in Elems, i \in Indices : AddInside(e, i) \/ Change(e, i)
           \/ \E i \in Indices : Remove(i)
           \/ Pop
  <2>1. TypeOK' /\ Ordered(n, f)' /\ UNCHANGED list
    BY <1>0, <1>1, <1>4, CallsThatWalk
  <2>2. pc \notin {"destroy", "gone"} /\ pc' = "walk"
    BY <1>4 DEF AddInside, Change, Remove, Pop, Get
  <2>3. Contents' = Contents
    BY <1>0, <1>1, <2>1, <2>2, SameContents DEF list
  <2> QED
    BY <2>2, <2>3 DEF AsAsked
<1>5. CASE Step
  <2>1. TypeOK' /\ Ordered(n, f)' /\ UNCHANGED list
    BY <1>0, <1>1, <1>5, StepGoesOn
  <2>2. pc \notin {"destroy", "gone"} /\ pc' = "walk"
    BY <1>5 DEF Step
  <2>3. Contents' = Contents
    BY <1>0, <1>1, <2>1, <2>2, SameContents DEF list
  <2> QED
    BY <2>2, <2>3 DEF AsAsked
<1>6. ASSUME NEW e \in Elems, AddHead(e) PROVE AsAsked
  <2>1. TypeOK' /\ Inserted(n, f, 0 + 1, e)
    BY <1>0, <1>2, <1>6, AddHeadGrows
  <2>2. pc \notin {"destroy", "gone"} /\ pc' \notin {"destroy", "gone"}
    BY <1>6 DEF AddHead, Return
  <2>3. List!Insert(0, e)
    <3>1. 0 \in 0 .. n
      BY <1>2
    <3> QED
      BY <1>0, <1>2, <2>1, <2>2, <3>1, InsertStep
  <2> QED
    BY <1>6, <2>3 DEF AsAsked
<1>7. ASSUME NEW e \in Elems, AddTail(e) PROVE AsAsked
  <2>1. TypeOK' /\ Inserted(n, f, n + 1, e) /\ size = n
    BY <1>0, <1>2, <1>7, AddTailGrows
  <2>2. pc \notin {"destroy", "gone"} /\ pc' \notin {"destroy", "gone"}
    BY <1>7 DEF AddTail, Return
  <2>3. List!Insert(size, e)
    <3>1. n \in 0 .. n
      BY <1>2
    <3> QED
      BY <1>0, <1>2, <2>1, <2>2, <3>1, InsertStep
  <2> QED
    BY <1>7, <2>3 DEF AsAsked
<1>8. CASE Insert
  <2>1. TypeOK' /\ Inserted(n, f, op.idx + 1, op.elem) /\ op.elem \in Elems
    BY <1>0, <1>1, <1>8, InsertGrows
  <2>2. pc = "walk" /\ left = 0 /\ pc' = "idle"
    BY <1>8 DEF Insert, Return, Arrived
  <2>3. op.idx \in 0 .. n
    <3>1. op.idx + 1 \in 1 .. n /\ op.idx \in Nat
      BY <1>0, <1>1, <2>2, AtItsIndex
    <3> QED
      BY <1>2, <3>1
  <2>4. List!Insert(op.idx, op.elem)
    <3>1. pc \notin {"destroy", "gone"} /\ pc' \notin {"destroy", "gone"}
      BY <2>2
    <3> QED
      BY <1>0, <1>2, <2>1, <2>3, <3>1, InsertStep
  <2> QED
    BY <1>8, <2>4 DEF AsAsked
<1>9. CASE Unlink
  <2>1. TypeOK' /\ Deleted(n, f, op.idx + 1)
    BY <1>0, <1>1, <1>9, UnlinkShrinks
  <2>2. pc = "walk" /\ left = 0 /\ pc' = "idle"
    BY <1>9 DEF Unlink, Return, Arrived
  <2>3. op.idx \in 0 .. n - 1
    <3>1. op.idx + 1 \in 1 .. n /\ op.idx \in Nat
      BY <1>0, <1>1, <2>2, AtItsIndex
    <3> QED
      BY <1>2, <3>1
  <2>4. List!Delete(op.idx)
    <3>1. pc \notin {"destroy", "gone"} /\ pc' \notin {"destroy", "gone"}
      BY <2>2
    <3> QED
      BY <1>0, <1>2, <2>1, <2>3, <3>1, DeleteStep
  <2> QED
    BY <1>9, <2>4 DEF AsAsked
<1>10. CASE Overwrite
  <2>1. TypeOK' /\ Replaced(n, f, op.idx + 1, op.elem) /\ op.elem \in Elems
    BY <1>0, <1>1, <1>10, OverwriteReplaces
  <2>2. pc = "walk" /\ left = 0 /\ pc' = "idle"
    BY <1>10 DEF Overwrite, Return, Arrived
  <2>3. op.idx \in 0 .. n - 1
    <3>1. op.idx + 1 \in 1 .. n /\ op.idx \in Nat
      BY <1>0, <1>1, <2>2, AtItsIndex
    <3> QED
      BY <1>2, <3>1
  <2>4. List!Replace(op.idx, op.elem)
    <3>1. pc \notin {"destroy", "gone"} /\ pc' \notin {"destroy", "gone"}
      BY <2>2
    <3> QED
      BY <1>0, <1>2, <2>1, <2>3, <3>1, ReplaceStep
  <2> QED
    BY <1>10, <2>4 DEF AsAsked
<1>11. CASE Destroy
  <2>1. pc' = "destroy"
    BY <1>11 DEF Destroy
  <2> QED
    BY <1>11, <2>1 DEF AsAsked, Contents, List!Clear
<1>12. CASE FreeNode \/ Destroyed
  <2>1. pc \in {"destroy", "gone"} /\ pc' \in {"destroy", "gone"}
    BY <1>12 DEF FreeNode, Destroyed
  <2> QED
    BY <2>1 DEF AsAsked, Contents
<1>13. CASE UNCHANGED vars
  BY <1>13
<1> QED
  BY <1>3, <1>4, <1>5, <1>6, <1>7, <1>8, <1>9, <1>10, <1>11, <1>12, <1>13
     DEF Next, Calls, Running

LEMMA AskedIsChange ==
    ASSUME [AsAsked]_vars, ListInv
    PROVE  [List!ChangeableNext]_Contents
<1>1. CASE \E e \in Elems : \E i \in Nat : List!Insert(i, e)
  BY <1>1 DEF List!Insert, List!ChangeableNext, List!ListNext
<1>2. CASE \E i \in Nat : List!Delete(i)
  BY <1>2 DEF List!Delete, List!ChangeableNext, List!ListNext
<1>3. CASE \E e \in Elems : \E i \in Nat : List!Replace(i, e)
  BY <1>3 DEF List!Replace, List!ChangeableNext
<1>4. size \in Nat /\ (pc = "walk" => op.idx \in Nat)
  BY DEF ListInv, TypeOK, Op
<1>5. CASE \E e \in Elems : AddHead(e) /\ List!Insert(0, e)
  BY <1>1, <1>5
<1>6. CASE \E e \in Elems : AddTail(e) /\ List!Insert(size, e)
  BY <1>1, <1>4, <1>6
<1>7. CASE Insert /\ List!Insert(op.idx, op.elem)
  <2>1. op.elem \in Elems /\ pc = "walk"
    BY <1>7, InsertGrows DEF ListInv, Insert, Arrived
  <2> QED
    BY <1>1, <1>4, <1>7, <2>1
<1>8. CASE Unlink /\ List!Delete(op.idx)
  <2>1. pc = "walk"
    BY <1>8 DEF Unlink, Arrived
  <2> QED
    BY <1>2, <1>4, <1>8, <2>1
<1>9. CASE Overwrite /\ List!Replace(op.idx, op.elem)
  <2>1. op.elem \in Elems /\ pc = "walk"
    BY <1>9, OverwriteReplaces DEF ListInv, Overwrite, Arrived
  <2> QED
    BY <1>3, <1>4, <1>9, <2>1
<1>10. CASE List!Clear \/ UNCHANGED Contents
  BY <1>10 DEF List!ChangeableNext, List!ListNext
<1>11. CASE UNCHANGED vars
  BY <1>11 DEF vars, Contents, Order, Allocated, NextOf
<1> QED
  BY <1>5, <1>6, <1>7, <1>8, <1>9, <1>10, <1>11 DEF AsAsked

\* The list of nodes implements the sequence a caller sees, each call at
\* the index it was given, whichever end its walk began at.
THEOREM ListRefinement == Spec => ImplementsList
<1>1. Init => List!ListInit
  <2> SUFFICES ASSUME Init PROVE List!ListInit
    OBVIOUS
  <2>1. Ordered(0, << >>) /\ TypeOK /\ pc = "none"
    BY ListInvInit DEF Init
  <2>2. Contents = Elements(0, << >>)
    BY <2>1, ContentsAre DEF Ordered
  <2> QED
    BY <2>2 DEF List!ListInit, Elements
<1>2. ListInv /\ [Next]_vars => [AsAsked]_vars /\ [List!ChangeableNext]_Contents
  BY AsAskedStep, AskedIsChange
<1> QED
  BY <1>1, <1>2, ListInvariance, PTL
     DEF Spec, ImplementsList, List!ChangeableSpecification

----------------------------------------------------------------------
(* The list of pointers: the same list, with an owner for every block.   *)

LEMMA LStepIsStep == ASSUME [LNext]_llvars PROVE [Next]_vars
BY DEF LNext, llvars, OnlyTheLinks, LRunning, Next, Calls, Running, LAddHead, LAddTail,
       LAddInside, LChange, LInsertFails, LRemove, LRemoveDeep, LPop, LUnlink, LOverwrite,
       LDestroy, LDestroyDeep, LFreeNode, Release

LEMMA LSpecIsSpec == LSpec => Spec
<1>1. LInit => Init
  BY DEF LInit
<1> QED
  BY <1>1, LStepIsStep, PTL DEF LSpec, Spec

Distinct == \A b, d \in DOMAIN node : node[b].elem = node[d].elem => b = d

\* A removal carries nothing.
LInv ==
    /\ ListInv
    /\ OneOwner
    /\ pc = "walk" /\ op.name \in {"remove", "pop"} => op.elem = Null

LEMMA StoreAdds ==
    ASSUME NEW m, NEW e, m \notin DOMAIN node, DOMAIN node' = DOMAIN node \union {m},
           node'[m].elem = e, \A b \in DOMAIN node : node'[b].elem = node[b].elem,
           Distinct, e \notin Stored
    PROVE  Distinct' /\ Stored' = Stored \union {e}
<1>1. \A b \in DOMAIN node : node[b].elem # e
  BY DEF Stored
<1>2. Distinct'
  BY <1>1 DEF Distinct
<1>3. Stored' = Stored \union {e}
  BY DEF Stored
<1> QED
  BY <1>2, <1>3

LEMMA StoreDrops ==
    ASSUME NEW c \in DOMAIN node, DOMAIN node' = DOMAIN node \ {c},
           \A b \in DOMAIN node' : node'[b].elem = node[b].elem,
           Distinct
    PROVE  /\ Distinct' /\ Stored' = Stored \ {node[c].elem} /\ node[c].elem \in Stored
<1>1. Distinct' /\ node[c].elem \in Stored
  BY DEF Distinct, Stored
<1>2. \A b \in DOMAIN node \ {c} : node[b].elem # node[c].elem
  BY DEF Distinct
<1>3. ASSUME NEW x PROVE x \in Stored' <=> x \in Stored /\ x # node[c].elem
  <2>1. x \in Stored' <=> \E b \in DOMAIN node \ {c} : x = node[b].elem
    BY DEF Stored
  <2>2. x \in Stored <=> \E b \in DOMAIN node : x = node[b].elem
    BY DEF Stored
  <2> QED
    BY <1>2, <2>1, <2>2
<1> QED
  BY <1>1, <1>3

LEMMA StoreSwaps ==
    ASSUME NEW c \in DOMAIN node, NEW e, DOMAIN node' = DOMAIN node,
           \A b \in DOMAIN node : node'[b].elem = IF b = c THEN e ELSE node[b].elem,
           Distinct, e \notin Stored
    PROVE  /\ Distinct' /\ Stored' = (Stored \ {node[c].elem}) \union {e}
           /\ node[c].elem \in Stored
<1>1. \A b \in DOMAIN node : node[b].elem # e
  BY DEF Stored
<1>2. Distinct' /\ node[c].elem \in Stored
  BY <1>1 DEF Distinct, Stored
<1>3. \A b \in DOMAIN node \ {c} : node[b].elem # node[c].elem
  BY DEF Distinct
<1>4. ASSUME NEW x
      PROVE  x \in Stored' <=> x = e \/ (x \in Stored /\ x # node[c].elem)
  <2>1. x \in Stored' <=> \E b \in DOMAIN node : x = IF b = c THEN e ELSE node[b].elem
    BY DEF Stored
  <2>2. x \in Stored <=> \E b \in DOMAIN node : x = node[b].elem
    BY DEF Stored
  <2> QED
    BY <1>3, <2>1, <2>2
<1> QED
  BY <1>2, <1>4

LEMMA OwnerParts ==
    OneOwner <=> /\ Distinct
                 /\ allocated = held \union Stored \union InFlight
                 /\ held \intersect (Stored \union InFlight) = {}
                 /\ Stored \intersect InFlight = {}
BY DEF OneOwner, Distinct

\* The steps that store e: from a call of its own or from the one on its way.
LEMMA LinkStores ==
    ASSUME ListInv, Distinct, NEW m \in Free, NEW x \in Links, NEW y \in Links,
           NEW e \in Elems, Link(m, x, e, y) = node', e \notin Stored
    PROVE  Distinct' /\ Stored' = Stored \union {e}
<1>1. Nodal(node)
  BY DEF ListInv, TypeOK, Nodal
<1>2. /\ DOMAIN node' = DOMAIN node \union {m}
      /\ node'[m].elem = e
      /\ \A b \in DOMAIN node : node'[b].elem = node[b].elem
  <2>1. Stands(node', m, x, e, y)
    BY <1>1, LinkFields
  <2> QED
    BY <2>1 DEF Stands
<1>3. m \notin DOMAIN node
  BY DEF Free
<1> QED
  BY <1>2, <1>3, StoreAdds

LEMMA UnlinkDrops ==
    ASSUME ListInv, Distinct, NEW c \in DOMAIN node, Unlinked(c) = node'
    PROVE  /\ Distinct' /\ Stored' = Stored \ {node[c].elem} /\ node[c].elem \in Stored
<1>1. Nodal(node)
  BY DEF ListInv, TypeOK, Nodal
<1>2. /\ DOMAIN node' = DOMAIN node \ {c}
      /\ \A b \in DOMAIN node' : node'[b].elem = node[b].elem
  <2>1. Parts(node', c)
    BY <1>1, UnlinkFields
  <2> QED
    BY <2>1 DEF Parts
<1> QED
  BY <1>2, StoreDrops

\* A walk that has arrived is on an allocated node.
LEMMA OnANode ==
    ASSUME ListInv, pc = "walk", left = 0
    PROVE  cur \in DOMAIN node /\ node[cur].prev \in Links /\ cur \in Links
<1>1. PICK n, f : Ordered(n, f)
  BY DEF ListInv
<1>2. op.idx + 1 \in 1 .. n /\ cur = f[op.idx + 1]
  BY <1>1, AtItsIndex DEF ListInv
<1>3. f \in [1 .. n -> DOMAIN node] /\ Nodal(node)
  BY <1>1, BothEnds DEF Ordered, ListInv
<1> QED
  BY <1>2, <1>3 DEF Nodal, Node, Links

\* An element that a call carries is a block.
LEMMA Carried ==
    ASSUME ListInv, pc = "walk", op.name \in {"add", "change"}
    PROVE  op.elem \in Elems /\ InFlight = {op.elem}
<1>1. op.elem \in Elems
  BY DEF ListInv, Ordered, OnItsWay
<1> QED
  BY <1>1, NullAssumption DEF InFlight

LEMMA LInvStep == LInv /\ [LNext]_llvars => LInv'
<1> SUFFICES ASSUME LInv, [LNext]_llvars PROVE LInv'
  OBVIOUS
<1>1. ListInv /\ ListInv'
  BY LStepIsStep, ListInvStep DEF LInv
<1>2. /\ Distinct
      /\ allocated = held \union Stored \union InFlight
      /\ held \intersect (Stored \union InFlight) = {}
      /\ Stored \intersect InFlight = {}
  BY OwnerParts DEF LInv
<1> DEFINE Owned == /\ Distinct'
                    /\ allocated' = held' \union Stored' \union InFlight'
                    /\ held' \intersect (Stored' \union InFlight') = {}
                    /\ Stored' \intersect InFlight' = {}
           Nothing == pc' = "walk" /\ op'.name \in {"remove", "pop"} => op'.elem = Null
<1>3. Owned => OneOwner'
  BY DEF OneOwner, Distinct
<1> SUFFICES Owned /\ Nothing
  BY <1>1, <1>3 DEF LInv
<1> DEFINE SameNodes == Distinct' /\ Stored' = Stored
<1>4. node' = node => SameNodes
  BY <1>2 DEF Distinct, Stored
<1>5. pc # "walk" => InFlight = {}
  BY DEF InFlight
<1>6. pc' # "walk" => InFlight' = {}
  BY DEF InFlight
<1> HIDE DEF SameNodes
<1>7. CASE OnlyTheLinks /\ UNCHANGED <<heap, deep>>
  <2>1. node' = node /\ pc \notin {"walk"} /\ pc' # "walk"
    BY <1>7 DEF OnlyTheLinks, Create, CreateFails, AddFails, PopEmpty, OutOfBound,
                Return, list
  <2> QED
    BY <1>2, <1>4, <1>5, <1>6, <1>7, <2>1 DEF heap, SameNodes
<1>8. ASSUME NEW e \in Elems, LAddHead(e) \/ LAddTail(e)
      PROVE  Owned /\ Nothing
  <2>1. pc = "idle" /\ pc' = "idle" /\ Offered(e) /\ Handed(e)
    BY <1>8 DEF LAddHead, LAddTail, AddHead, AddTail, Return
  <2>2. e \notin Stored /\ InFlight = {} /\ InFlight' = {}
    BY <1>2, <1>5, <1>6, <2>1 DEF Offered
  <2>3. Distinct' /\ Stored' = Stored \union {e}
    <3>1. head \in Links /\ tail \in Links /\ Null \in Links
      BY <1>1 DEF ListInv, TypeOK, Links
    <3>2. CASE LAddHead(e)
      <4>1. PICK m \in Free : Link(m, Null, e, head) = node'
        BY <3>2 DEF LAddHead, AddHead
      <4> QED
        BY <1>1, <1>2, <2>2, <3>1, <4>1, LinkStores
    <3>3. CASE LAddTail(e)
      <4>1. PICK m \in Free : Link(m, tail, e, Null) = node'
        BY <3>3 DEF LAddTail, AddTail
      <4> QED
        BY <1>1, <1>2, <2>2, <3>1, <4>1, LinkStores
    <3> QED
      BY <1>8, <3>2, <3>3
  <2> QED
    BY <1>2, <2>1, <2>2, <2>3 DEF Handed
<1>9. ASSUME NEW e \in Elems, Release(e)
      PROVE  Owned /\ Nothing
  <2>1. pc # "walk" /\ pc' = pc /\ node' = node
    BY <1>9 DEF Release, vars
  <2> QED
    BY <1>2, <1>4, <1>5, <1>6, <1>9, <2>1 DEF Release, SameNodes
<1>10. ASSUME NEW e \in Elems, NEW i \in Indices, LAddInside(e, i) \/ LChange(e, i)
       PROVE  Owned /\ Nothing
  <2>1. /\ pc = "idle" /\ pc' = "walk" /\ op'.elem = e /\ op'.name \in {"add", "change"}
        /\ node' = node /\ Offered(e) /\ Handed(e)
    BY <1>10 DEF LAddInside, LChange, AddInside, Change, Get, list
  <2>2. InFlight = {} /\ InFlight' = {e} /\ e \notin Stored
    BY <1>2, <1>5, <2>1, NullAssumption DEF Offered, InFlight
  <2> QED
    BY <1>2, <1>4, <2>1, <2>2 DEF Handed, SameNodes
<1>11. ASSUME \/ \E i \in Indices : LRemove(i) \/ LRemoveDeep(i)
              \/ LPop
       PROVE  Owned /\ Nothing
  <2>1. /\ pc = "idle" /\ pc' = "walk" /\ op'.elem = Null
        /\ node' = node /\ UNCHANGED heap
    BY <1>11 DEF LRemove, LRemoveDeep, LPop, Remove, Pop, Get, list
  <2>2. InFlight = {} /\ InFlight' = {}
    BY <1>5, <2>1 DEF InFlight
  <2> QED
    BY <1>2, <1>4, <2>1, <2>2 DEF heap, SameNodes
<1>12. CASE LDestroy \/ LDestroyDeep
  <2>1. pc = "idle" /\ pc' = "destroy" /\ node' = node /\ UNCHANGED heap
    BY <1>12 DEF LDestroy, LDestroyDeep, Destroy, list
  <2> QED
    BY <1>2, <1>4, <1>5, <1>6, <2>1 DEF heap, SameNodes
<1>13. CASE Step /\ UNCHANGED <<heap, deep>>
  <2>1. pc = "walk" /\ pc' = "walk" /\ op' = op /\ node' = node /\ UNCHANGED heap
    BY <1>13 DEF Step, list
  <2>2. InFlight' = InFlight
    BY <2>1 DEF InFlight
  <2> QED
    BY <1>2, <1>4, <2>1, <2>2 DEF heap, SameNodes, LInv
<1>14. CASE Insert /\ UNCHANGED <<heap, deep>>
  <2>1. pc = "walk" /\ left = 0 /\ op.name = "add" /\ pc' = "idle" /\ UNCHANGED heap
    BY <1>14 DEF Insert, Arrived, Return
  <2>2. op.elem \in Elems /\ InFlight = {op.elem} /\ InFlight' = {} /\ op.elem \notin Stored
    BY <1>1, <1>2, <1>6, <2>1, Carried
  <2>3. PICK m \in Free : Link(m, node[cur].prev, op.elem, cur) = node'
    BY <1>14 DEF Insert
  <2>4. node[cur].prev \in Links /\ cur \in Links
    BY <1>1, <2>1, OnANode
  <2>5. Distinct' /\ Stored' = Stored \union {op.elem}
    BY <1>1, <1>2, <2>2, <2>3, <2>4, LinkStores
  <2> QED
    BY <1>2, <2>1, <2>2, <2>5 DEF heap
<1>15. CASE Destroyed /\ UNCHANGED <<heap, deep>>
  <2>1. pc = "destroy" /\ pc' = "gone" /\ node' = node /\ UNCHANGED heap
    BY <1>15 DEF Destroyed
  <2> QED
    BY <1>2, <1>4, <1>5, <1>6, <2>1 DEF heap, SameNodes
<1>16. CASE LInsertFails
  <2>1. /\ pc = "walk" /\ op.name = "add" /\ pc' = "idle" /\ node' = node
        /\ held' = held \union {op.elem} /\ allocated' = allocated
    BY <1>16 DEF LInsertFails, InsertFails, Arrived, Return, list
  <2>2. InFlight = {op.elem} /\ InFlight' = {}
    BY <1>1, <1>6, <2>1, Carried
  <2> QED
    BY <1>2, <1>4, <2>1, <2>2 DEF SameNodes
<1>17. CASE LUnlink
  <2>1. /\ pc = "walk" /\ left = 0 /\ op.name \in {"remove", "pop"} /\ pc' = "idle"
        /\ Unlinked(cur) = node'
        /\ \/ allocated' = allocated \ {node[cur].elem} /\ UNCHANGED held
           \/ held' = held \union {node[cur].elem} /\ UNCHANGED allocated
    BY <1>17 DEF LUnlink, Unlink, Arrived, Return
  <2>2. InFlight = {} /\ InFlight' = {}
    BY <1>6, <2>1 DEF LInv, InFlight
  <2>3. cur \in DOMAIN node
    BY <1>1, <2>1, OnANode
  <2>4. /\ Distinct' /\ Stored' = Stored \ {node[cur].elem} /\ node[cur].elem \in Stored
    BY <1>1, <1>2, <2>1, <2>3, UnlinkDrops
  <2> DEFINE v == node[cur].elem
  <2> HIDE DEF v
  <2> QED
    BY <1>2, <2>1, <2>2, <2>4 DEF v
<1>18. CASE LOverwrite
  <2>1. /\ pc = "walk" /\ left = 0 /\ op.name = "change" /\ pc' = "idle"
        /\ node' = [node EXCEPT ![cur].elem = op.elem]
        /\ held' = held \union {node[cur].elem} /\ allocated' = allocated
    BY <1>18 DEF LOverwrite, Overwrite, Arrived, Return
  <2>2. InFlight = {op.elem} /\ InFlight' = {} /\ op.elem \notin Stored
    BY <1>1, <1>2, <1>6, <2>1, Carried
  <2>3. cur \in DOMAIN node
    BY <1>1, <2>1, OnANode
  <2>4. /\ DOMAIN node' = DOMAIN node
        /\ \A b \in DOMAIN node :
              node'[b].elem = IF b = cur THEN op.elem ELSE node[b].elem
    <3>1. \A b \in DOMAIN node : node[b] \in Node
      BY <1>1 DEF ListInv, TypeOK
    <3> QED
      BY <2>1, <2>3, <3>1 DEF Node
  <2>5. /\ Distinct' /\ Stored' = (Stored \ {node[cur].elem}) \union {op.elem}
        /\ node[cur].elem \in Stored
    BY <1>2, <2>2, <2>3, <2>4, StoreSwaps
  <2> QED
    BY <1>2, <2>1, <2>2, <2>5
<1>19. CASE LFreeNode
  <2>1. /\ pc = "destroy" /\ pc' = "destroy" /\ cur # Null
        /\ node' = [b \in DOMAIN node \ {cur} |-> node[b]]
        /\ \/ allocated' = allocated \ {node[cur].elem} /\ UNCHANGED held
           \/ held' = held \union {node[cur].elem} /\ UNCHANGED allocated
    BY <1>19 DEF LFreeNode, FreeNode
  <2>2. cur \in DOMAIN node
    <3>1. PICK n, f : Ordered(n, f)
      BY <1>1 DEF ListInv
    <3>2. n - 1 \in Nat /\ cur = f[1]
      BY <1>1, <1>19, <3>1, FreeNodeDrops DEF LFreeNode, ListInv
    <3> QED
      BY <1>1, <3>1, <3>2, BothEnds DEF Ordered, ListInv
  <2>3. /\ Distinct' /\ Stored' = Stored \ {node[cur].elem} /\ node[cur].elem \in Stored
    <3>1. /\ DOMAIN node' = DOMAIN node \ {cur}
          /\ \A b \in DOMAIN node' : node'[b].elem = node[b].elem
      BY <2>1
    <3> QED
      BY <1>2, <2>2, <3>1, StoreDrops
  <2>4. InFlight = {} /\ InFlight' = {}
    BY <1>5, <1>6, <2>1
  <2> QED
    BY <1>2, <2>1, <2>3, <2>4
<1>20. CASE UNCHANGED llvars
  <2>1. InFlight' = InFlight /\ node' = node /\ UNCHANGED heap /\ pc' = pc /\ op' = op
    BY <1>20 DEF llvars, vars, InFlight, heap
  <2> QED
    BY <1>2, <1>4, <2>1 DEF heap, SameNodes, LInv
<1> QED
  BY <1>7, <1>8, <1>9, <1>10, <1>11, <1>12, <1>13, <1>14, <1>15, <1>16, <1>17, <1>18,
     <1>19, <1>20 DEF LNext, LRunning

\* Every element block has one owner, whatever mix of plain and deep calls
\* is made and whichever of them fail.
THEOREM ListOneOwner == LSpec => []OneOwner
<1>1. LInit => LInv
  <2> SUFFICES ASSUME LInit PROVE LInv
    OBVIOUS
  <2>1. ListInv
    BY ListInvInit DEF LInit, ListInv
  <2>2. OneOwner
    BY DEF LInit, Init, OneOwner, Stored, InFlight
  <2> QED
    BY <2>1, <2>2 DEF LInit, Init, LInv
<1>2. LInv => OneOwner
  BY DEF LInv
<1> QED
  BY <1>1, <1>2, LInvStep, PTL DEF LSpec

\* Owning the elements changes nothing about the links: the list of
\* pointers has every property of the list of nodes.
THEOREM PointerListIsList ==
    LSpec => []LinksAgree /\ []WalkArrives /\ ImplementsList
BY LSpecIsSpec, ListLinksAgree, ListWalkArrives, ListRefinement, PTL
======================================================================
