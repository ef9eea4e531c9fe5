-------------------------- MODULE HMapProofs --------------------------
(* What holds of the hash map for every set of keys and values, every    *)
(* hash function and every capacity; then what holds under the callers   *)
(* of module HMapSafeUse, who look a key up before they add it.          *)
EXTENDS HMapSafeUse, FiniteSetTheorems, TLAPS

ATable(c) == [Slots(c) -> Entry \union {Null}]

LEMMA HomeInTable ==
    ASSUME NEW c \in Nat, c > 0, NEW k \in Keys
    PROVE  Home(k, c) \in Slots(c)
BY HashAssumption DEF Home, Slots

LEMMA SlotsFinite ==
    ASSUME NEW c \in Nat
    PROVE  /\ IsFiniteSet(Slots(c))
           /\ Cardinality(Slots(c)) = c
BY FS_Interval DEF Slots

\* Sets of slots have a cardinality that is a number.
LEMMA SlotSets ==
    ASSUME NEW c \in Nat, NEW S \in SUBSET Slots(c)
    PROVE  /\ IsFiniteSet(S)
           /\ Cardinality(S) \in Nat
           /\ Cardinality(S) <= c
BY SlotsFinite, FS_Subset, FS_CardinalityType

LEMMA AddSlot ==
    ASSUME NEW c \in Nat, NEW S \in SUBSET Slots(c), NEW s \in Slots(c) \ S
    PROVE  Cardinality(S \union {s}) = Cardinality(S) + 1
BY SlotSets, FS_AddElement

LEMMA DropSlot ==
    ASSUME NEW c \in Nat, NEW S \in SUBSET Slots(c), NEW s \in S
    PROVE  Cardinality(S \ {s}) = Cardinality(S) - 1
BY SlotSets, FS_RemoveElement

----------------------------------------------------------------------
(* Writing one slot of a table.                                         *)

Put(U, T, c, s, e) ==
    U \in ATable(c) /\ U[s] = e /\ \A t \in Slots(c) \ {s} : U[t] = T[t]

LEMMA PutInSlot ==
    ASSUME NEW c \in Nat, NEW T \in ATable(c), NEW s \in Slots(c),
           NEW e \in Entry, NEW U, Put(U, T, c, s, e)
    PROVE  /\ UsedSlots(U, c) = UsedSlots(T, c) \union {s}
           /\ LiveSlots(U, c) = IF e.live THEN LiveSlots(T, c) \union {s}
                                         ELSE LiveSlots(T, c) \ {s}
<1>2. e # Null
  BY NullAssumption
<1>3. UsedSlots(U, c) = UsedSlots(T, c) \union {s}
  BY <1>2 DEF UsedSlots, Put
<1>4. ASSUME e.live
      PROVE  LiveSlots(U, c) = LiveSlots(T, c) \union {s}
  BY <1>2, <1>4 DEF LiveSlots, Live, Put
<1>5. ASSUME ~e.live
      PROVE  LiveSlots(U, c) = LiveSlots(T, c) \ {s}
  BY <1>2, <1>5 DEF LiveSlots, Live, Put
<1> QED
  BY <1>3, <1>4, <1>5

\* An entry put where its own probe chain is closed opens no other.
LEMMA PutKeepsReachable ==
    ASSUME NEW c \in Nat, NEW T \in ATable(c), NEW s \in Slots(c),
           NEW e \in Entry, NEW U, Put(U, T, c, s, e),
           Reachable(T, c),
           \A t \in Between(Home(e.key, c), s, c) : T[t] # Null
    PROVE  Reachable(U, c)
<1>1. U[s] = e /\ \A t \in Slots(c) \ {s} : U[t] = T[t]
  BY DEF Put
<1>2. e # Null
  BY NullAssumption
<1>3. SUFFICES ASSUME NEW p \in LiveSlots(U, c),
                      NEW t \in Between(Home(U[p].key, c), p, c)
               PROVE  U[t] # Null
  BY DEF Reachable
<1>4. t \in Slots(c)
  <2>1. c > 0 /\ p \in Slots(c)
    BY DEF LiveSlots, Slots
  <2>2. U[p].key \in Keys
    BY <2>1 DEF LiveSlots, Live, Put, ATable, Entry
  <2>3. Home(U[p].key, c) \in Slots(c)
    BY <2>1, <2>2, HomeInTable
  <2> QED
    BY <2>1, <2>3 DEF Between, Slots
<1>5. CASE p = s
  BY <1>1, <1>2, <1>4, <1>5
<1>6. CASE p # s
  <2>1. p \in LiveSlots(T, c) /\ U[p] = T[p]
    BY <1>1, <1>6 DEF LiveSlots, Live
  <2>2. T[t] # Null
    BY <2>1 DEF Reachable
  <2> QED
    BY <1>1, <1>2, <1>4, <2>2
<1> QED
  BY <1>5, <1>6

LEMMA EmptyTables ==
    ASSUME NEW c \in Nat, NEW T, T = EmptyTable(c)
    PROVE  /\ T \in ATable(c)
           /\ LiveSlots(T, c) = {}
           /\ UsedSlots(T, c) = {}
           /\ Reachable(T, c)
BY DEF EmptyTable, ATable, LiveSlots, Live, UsedSlots, Reachable

----------------------------------------------------------------------
(* The inductive invariant: the checked invariants together, since the  *)
(* numbers stay natural only because they count slots.                  *)

MovedAreLive ==
    pc = "rehash" => \A s \in UsedSlots(newEntries, 2 * capacity) : newEntries[s].live

IInv == TypeOK /\ LenCountsLive /\ ProbeChains /\ EntriesAllocated /\ MovedAreLive

LEMMA InitIInv == Init => IInv
<1> SUFFICES ASSUME Init PROVE IInv
  OBVIOUS
<1>1. /\ entries \in ATable(0)
      /\ LiveSlots(entries, 0) = {}
      /\ UsedSlots(entries, 0) = {}
      /\ Reachable(entries, 0)
  BY EmptyTables DEF Init
<1>2. TypeOK
  BY <1>1 DEF Init, TypeOK, Table, ATable
<1>3. LenCountsLive /\ ProbeChains /\ MovedAreLive
  BY <1>1, FS_EmptySet DEF Init, LenCountsLive, ProbeChains, MovedAreLive
<1>4. EntriesAllocated
  BY <1>1 DEF Init, EntriesAllocated, Pending, Moved
<1> QED
  BY <1>2, <1>3, <1>4 DEF IInv

\* A step outside the rehash that leaves the table and the heap alone.
LEMMA TableUntouched ==
    ASSUME IInv, UNCHANGED <<table, loop, heap>>,
           pc # "rehash", pc' \in {"none", "idle", "grow", "probe", "destroyed"},
           IF pc' \in {"grow", "rehash", "probe"}
           THEN call' \in [key : Keys, value : Values]
           ELSE call' = Null,
           ret' \in {0, 1}
    PROVE  IInv'
<1>1. TypeOK'
  BY DEF IInv, TypeOK, Table, table, loop
<1>2. LenCountsLive' /\ ProbeChains' /\ MovedAreLive'
  BY DEF IInv, LenCountsLive, ProbeChains, MovedAreLive, table, loop
<1>3. EntriesAllocated'
  BY DEF IInv, EntriesAllocated, Pending, Moved, table, loop
<1> QED
  BY <1>1, <1>2, <1>3 DEF IInv

\* A step outside the rehash that leaves a table with no entries.
LEMMA TableEmptied ==
    ASSUME NEW c \in Nat, pc' # "rehash",
           entries' = EmptyTable(c), capacity' = c, len' = 0
    PROVE  LenCountsLive' /\ ProbeChains' /\ EntriesAllocated'
<1>1. /\ LiveSlots(entries', capacity') = {}
      /\ UsedSlots(entries', capacity') = {}
      /\ Reachable(entries', capacity')
  BY EmptyTables
<1>2. LenCountsLive'
  BY <1>1, FS_EmptySet DEF LenCountsLive
<1>3. ProbeChains'
  BY <1>1 DEF ProbeChains
<1>4. EntriesAllocated'
  BY <1>1 DEF EntriesAllocated, Pending, Moved
<1> QED
  BY <1>2, <1>3, <1>4

LEMMA CreateIInv ==
    ASSUME IInv, NEW c \in Capacities, Create(c)
    PROVE  IInv'
<1>1. c \in Nat
  BY CapacityAssumption
<1>2. entries' \in ATable(c)
  BY <1>1, EmptyTables DEF Create
<1>3. TypeOK'
  BY <1>1, <1>2 DEF IInv, TypeOK, Create, Table, ATable, loop
<1>4. LenCountsLive' /\ ProbeChains' /\ EntriesAllocated'
  BY <1>1, TableEmptied DEF Create
<1> QED
  BY <1>3, <1>4 DEF IInv, MovedAreLive, Create

LEMMA DestroyIInv ==
    ASSUME IInv, Destroy
    PROVE  IInv'
<1>1. heap' \subseteq Blocks
  BY DEF Destroy, IInv, TypeOK
<1>2. entries' \in ATable(0)
  BY EmptyTables DEF Destroy
<1>3. TypeOK'
  BY <1>1, <1>2 DEF IInv, TypeOK, Destroy, Table, ATable, loop
<1>4. LenCountsLive' /\ ProbeChains' /\ EntriesAllocated'
  BY TableEmptied DEF Destroy
<1> QED
  BY <1>3, <1>4 DEF IInv, MovedAreLive, Destroy

\* The three ways hmap_add stores its entry in the slot it stops at.
LEMMA StoreIInv ==
    ASSUME IInv, pc = "probe", NEW s \in Slots(capacity), FirstStop(s),
           NEW b, Store(s, b), Return(1), UNCHANGED <<capacity, loop>>,
           IF Live(entries, s) THEN len' = len ELSE len' = len + 1,
           IF entries[s] = Null
           THEN b \in Calloc(heap) /\ heap' = heap \union {b}
           ELSE b = entries[s].at /\ heap' = heap
    PROVE  IInv'
<1> DEFINE e == [at |-> b, key |-> call.key, value |-> call.value, live |-> TRUE]
           c == capacity
<1>0. b \in Blocks /\ heap' \subseteq Blocks
  BY CallocAssumption DEF IInv, TypeOK, Table, Entry
<1>1. /\ c \in Nat /\ entries \in ATable(c) /\ e \in Entry /\ e.live /\ e.at = b
      /\ len \in Nat
      /\ Put(entries', entries, c, s, e)
  BY <1>0 DEF IInv, TypeOK, Table, ATable, Entry, Store, Put
<1> HIDE DEF e
<1>2. /\ entries' \in ATable(c)
      /\ UsedSlots(entries', c) = UsedSlots(entries, c) \union {s}
      /\ LiveSlots(entries', c) = LiveSlots(entries, c) \union {s}
  BY <1>1, PutInSlot DEF Put
<1>3. TypeOK'
  BY <1>0, <1>1, <1>2 DEF IInv, TypeOK, Return, loop, Table, ATable
<1>4. LenCountsLive'
  <2>1. LiveSlots(entries, c) \in SUBSET Slots(c)
    BY DEF LiveSlots
  <2>2. len = Cardinality(LiveSlots(entries, c))
    BY DEF IInv, LenCountsLive
  <2>3. CASE Live(entries, s)
    <3>1. s \in LiveSlots(entries, c)
      BY <2>3 DEF LiveSlots
    <3>2. LiveSlots(entries', c) = LiveSlots(entries, c)
      BY <3>1, <1>2
    <3>3. len' = len
      BY <2>3 DEF Live
    <3> QED
      BY <2>2, <3>2, <3>3 DEF LenCountsLive, Return
  <2>4. CASE ~Live(entries, s)
    <3>1. s \in Slots(c) \ LiveSlots(entries, c)
      BY <2>4 DEF LiveSlots
    <3>2. Cardinality(LiveSlots(entries', c)) = Cardinality(LiveSlots(entries, c)) + 1
      BY <3>1, <1>1, <1>2, <2>1, AddSlot
    <3>3. len' = len + 1
      BY <2>4
    <3> QED
      BY <2>2, <3>2, <3>3 DEF LenCountsLive, Return
  <2> QED
    BY <2>3, <2>4
<1>5. ProbeChains'
  <2>1. \A t \in Between(Home(e.key, c), s, c) : entries[t] # Null
    BY DEF FirstStop, Stops, Between, e
  <2>2. Reachable(entries', c)
    BY <1>1, <2>1, PutKeepsReachable DEF IInv, ProbeChains
  <2> QED
    BY <2>2 DEF ProbeChains, Return
<1>6. EntriesAllocated'
  <2> DEFINE U == UsedSlots(entries, c)
  <2>1. /\ \A r \in U : entries[r].at \in heap
        /\ \A r, q \in U : entries[r].at = entries[q].at => r = q
    BY DEF IInv, EntriesAllocated, Pending
  <2>2. entries'[s].at = b /\ \A r \in U \ {s} : entries'[r] = entries[r]
    BY <1>1 DEF Put, UsedSlots
  <2>3. /\ s \in U => b = entries[s].at /\ heap' = heap
        /\ s \notin U => b \notin heap /\ heap' = heap \union {b}
    BY CallocAssumption DEF UsedSlots, IInv, TypeOK
  <2>4. UsedSlots(entries', c) = U \union {s}
    BY <1>2
  <2> HIDE DEF U
  <2>5. /\ \A r \in U \union {s} : entries'[r].at \in heap'
        /\ \A r, q \in U \union {s} : entries'[r].at = entries'[q].at => r = q
    BY <2>1, <2>2, <2>3
  <2> QED
    BY <2>4, <2>5 DEF EntriesAllocated, Pending, Moved, Return
<1> QED
  BY <1>3, <1>4, <1>5, <1>6 DEF IInv, MovedAreLive, Return

LEMMA RemoveIInv ==
    ASSUME IInv, NEW k \in Keys, Remove(k)
    PROVE  IInv'
<1> DEFINE c == capacity
<1>1. PICK s \in Found(entries, c, k) : entries' = [entries EXCEPT ![s].live = FALSE]
  BY DEF Remove
<1> DEFINE e == [entries[s] EXCEPT !.live = FALSE]
<1>2. /\ c \in Nat /\ entries \in ATable(c) /\ len \in Nat
      /\ s \in Slots(c) /\ s \in LiveSlots(entries, c) /\ entries[s] # Null
  BY DEF IInv, TypeOK, Table, ATable, Found, Matches, LiveSlots, Live
<1>3. /\ entries[s] \in Entry
      /\ e \in Entry /\ ~e.live /\ e.key = entries[s].key /\ e.at = entries[s].at
      /\ Put(entries', entries, c, s, e)
  BY <1>1, <1>2 DEF ATable, Entry, Put
<1> HIDE DEF e
<1>4. /\ entries' \in ATable(c)
      /\ UsedSlots(entries', c) = UsedSlots(entries, c) \union {s}
      /\ LiveSlots(entries', c) = LiveSlots(entries, c) \ {s}
  BY <1>2, <1>3, PutInSlot DEF Put
<1>5. LenCountsLive'
  <2>1. LiveSlots(entries, c) \in SUBSET Slots(c)
    BY DEF LiveSlots
  <2>2. Cardinality(LiveSlots(entries', c)) = Cardinality(LiveSlots(entries, c)) - 1
    BY <1>2, <1>4, <2>1, DropSlot
  <2> QED
    BY <2>2 DEF LenCountsLive, Remove, Return, IInv
<1>6. len' \in Nat
  <2>1. LiveSlots(entries', c) \in SUBSET Slots(c)
    BY DEF LiveSlots
  <2> QED
    BY <1>2, <1>5, <2>1, SlotSets DEF LenCountsLive, Remove
<1>7. TypeOK'
  BY <1>2, <1>4, <1>6 DEF IInv, TypeOK, Remove, Return, loop, Table, ATable
<1>8. ProbeChains'
  <2>1. \A t \in Between(Home(e.key, c), s, c) : entries[t] # Null
    BY <1>2, <1>3 DEF IInv, ProbeChains, Reachable
  <2>2. Reachable(entries', c)
    BY <1>2, <1>3, <2>1, PutKeepsReachable DEF IInv, ProbeChains
  <2> QED
    BY <2>2 DEF ProbeChains, Remove, Return
<1>9. EntriesAllocated'
  <2>1. UsedSlots(entries', c) = UsedSlots(entries, c)
    BY <1>2, <1>4 DEF UsedSlots
  <2>2. \A t \in UsedSlots(entries, c) : entries'[t].at = entries[t].at
    BY <1>3 DEF Put, UsedSlots
  <2> QED
    BY <2>1, <2>2 DEF EntriesAllocated, Pending, Moved, Remove, Return, IInv
<1> QED
  BY <1>5, <1>7, <1>8, <1>9 DEF IInv, MovedAreLive, Remove, Return

----------------------------------------------------------------------
(* The rehash: what was moved and what is still to be visited.          *)

From(S, n) == {s \in S : s >= n}

\* Visiting slot n takes it, and nothing else, out of what is to come.
LEMMA Visit ==
    ASSUME NEW c \in Nat, NEW S \in SUBSET Slots(c), NEW n \in Slots(c)
    PROVE  /\ n \notin S => From(S, n + 1) = From(S, n)
           /\ n \in S => Cardinality(From(S, n + 1)) = Cardinality(From(S, n)) - 1
           /\ Cardinality(From(S, n + 1)) \in Nat
           /\ Cardinality(From(S, n)) \in Nat
<1> USE DEF From
<1>0. \A s \in S : s >= n + 1 <=> s >= n /\ s # n
  BY DEF Slots
<1>1. n \notin S => From(S, n + 1) = From(S, n)
  BY <1>0
<1>2. /\ From(S, n) \in SUBSET Slots(c)
      /\ From(S, n + 1) \in SUBSET Slots(c)
  OBVIOUS
<1>3. ASSUME n \in S
      PROVE  Cardinality(From(S, n + 1)) = Cardinality(From(S, n)) - 1
  <2>1. From(S, n + 1) = From(S, n) \ {n}
    BY <1>0
  <2>2. n \in From(S, n)
    BY <1>3 DEF Slots
  <2> QED
    BY <1>2, <2>1, <2>2, DropSlot
<1> QED
  BY <1>1, <1>2, <1>3, SlotSets

LEMMA GrowStartIInv ==
    ASSUME IInv, GrowStart
    PROVE  IInv'
<1>1. capacity \in Nat /\ 2 * capacity \in Nat /\ len \in Nat
  BY DEF IInv, TypeOK
<1>2. /\ newEntries' \in ATable(2 * capacity)
      /\ UsedSlots(newEntries', 2 * capacity) = {}
      /\ Reachable(newEntries', 2 * capacity)
  BY <1>1, EmptyTables DEF GrowStart
<1>3. {s \in LiveSlots(entries, capacity) : s >= 0} = LiveSlots(entries, capacity)
  BY <1>1 DEF LiveSlots, Slots
<1>4. TypeOK'
  BY <1>1, <1>2 DEF IInv, TypeOK, GrowStart, table, Table, ATable
<1>5. LenCountsLive'
  <2>1. len = Cardinality(LiveSlots(entries, capacity))
    BY DEF IInv, LenCountsLive
  <2>2. eleCount' = Cardinality({s \in LiveSlots(entries, capacity) : s >= 0})
    BY <1>3, <2>1 DEF GrowStart
  <2>3. len - eleCount' = Cardinality(UsedSlots(newEntries', 2 * capacity))
    BY <1>1, <1>2, FS_EmptySet DEF GrowStart
  <2> QED
    BY <2>1, <2>2, <2>3 DEF LenCountsLive, GrowStart, table
<1>6. ProbeChains' /\ MovedAreLive'
  BY <1>2 DEF IInv, ProbeChains, MovedAreLive, GrowStart, table
<1>7. EntriesAllocated'
  <2>1. Pending' = Pending /\ Moved' = {}
    BY <1>1, <1>2 DEF Pending, Moved, UsedSlots, Slots, GrowStart, table
  <2> QED
    BY <2>1 DEF IInv, EntriesAllocated, GrowStart, table
<1> QED
  BY <1>4, <1>5, <1>6, <1>7 DEF IInv

\* The loop goes past a slot it does not move: NULL, or a freed tombstone.
LEMMA PassIInv ==
    ASSUME IInv, Rehashing, ~Live(entries, ii),
           ii' = ii + 1, UNCHANGED <<pc, table, newEntries, eleCount, call, ret>>,
           heap' = IF entries[ii] = Null THEN heap ELSE heap \ {entries[ii].at}
    PROVE  IInv'
<1>1. /\ capacity \in Nat /\ ii \in Slots(capacity) /\ pc = "rehash"
      /\ heap \subseteq Blocks
  BY DEF IInv, TypeOK, Rehashing, Slots
<1>2. From(LiveSlots(entries, capacity), ii + 1) = From(LiveSlots(entries, capacity), ii)
  <2>1. LiveSlots(entries, capacity) \in SUBSET Slots(capacity)
    BY DEF LiveSlots
  <2>2. ii \notin LiveSlots(entries, capacity)
    BY DEF LiveSlots
  <2> QED
    BY <1>1, <2>1, <2>2, Visit
<1>3. LenCountsLive' /\ ProbeChains' /\ MovedAreLive'
  BY <1>1, <1>2 DEF IInv, LenCountsLive, ProbeChains, MovedAreLive, table, From
<1>4. EntriesAllocated'
  <2>1. /\ Pending' = Pending \ {ii} /\ Moved' = Moved
        /\ entries[ii] # Null => ii \in Pending
    BY <1>1 DEF Pending, Moved, UsedSlots, Slots, table
  <2>2. entries' = entries
    BY DEF table
  <2> QED
    BY <2>1, <2>2 DEF IInv, EntriesAllocated
<1>5. TypeOK'
  BY <1>1, <1>4 DEF IInv, TypeOK, table, Slots
<1> QED
  BY <1>3, <1>4, <1>5 DEF IInv

LEMMA MoveIInv ==
    ASSUME IInv, RehashMove
    PROVE  IInv'
<1> DEFINE n == 2 * capacity
           e == entries[ii]
           L == LiveSlots(entries, capacity)
           N == UsedSlots(newEntries, n)
<1>1. /\ capacity \in Nat /\ n \in Nat /\ ii \in Slots(capacity) /\ pc = "rehash"
      /\ eleCount \in Nat /\ len \in Nat
      /\ newEntries \in ATable(n)
  BY DEF IInv, TypeOK, RehashMove, Rehashing, Slots, Table, ATable
<1>2. e \in Entry /\ e.live /\ ii \in L
  BY <1>1 DEF IInv, TypeOK, Table, RehashMove, Live, LiveSlots
<1>3. PICK s \in Slots(n) :
         /\ newEntries[s] = Null
         /\ \A t \in Between(Home(e.key, n), s, n) : newEntries[t] # Null
         /\ newEntries' = [newEntries EXCEPT ![s] = e]
  BY DEF RehashMove
<1>4. Put(newEntries', newEntries, n, s, e)
  BY <1>1, <1>2, <1>3 DEF ATable, Put
<1>5. UsedSlots(newEntries', n) = N \union {s}
  BY <1>1, <1>2, <1>4, PutInSlot
<1>6. L \in SUBSET Slots(capacity) /\ N \in SUBSET Slots(n) /\ s \in Slots(n) \ N
  BY <1>3 DEF LiveSlots, UsedSlots
<1>7. /\ Cardinality(UsedSlots(newEntries', n)) = Cardinality(N) + 1
      /\ Cardinality(N) \in Nat
  BY <1>1, <1>5, <1>6, AddSlot, SlotSets
<1>8. /\ Cardinality(From(L, ii + 1)) = Cardinality(From(L, ii)) - 1
      /\ Cardinality(From(L, ii + 1)) \in Nat
  BY <1>1, <1>2, <1>6, Visit
<1>9. /\ eleCount = Cardinality(From(L, ii))
      /\ len - eleCount = Cardinality(N)
      /\ len = Cardinality(L)
  BY <1>1 DEF IInv, LenCountsLive, From
<1>10. LenCountsLive'
  <2>1. /\ eleCount' = Cardinality(From(L, ii + 1))
        /\ len - eleCount' = Cardinality(UsedSlots(newEntries', n))
    BY <1>1, <1>7, <1>8, <1>9 DEF RehashMove
  <2> QED
    BY <1>9, <2>1 DEF LenCountsLive, RehashMove, table, From
<1>11. EntriesAllocated'
  <2>1. /\ Pending' = Pending \ {ii} /\ ii \in Pending
        /\ Moved' = Moved \union {s} /\ s \notin Moved
    BY <1>1, <1>2, <1>5, <1>6 DEF Pending, Moved, UsedSlots, Slots, LiveSlots, Live, RehashMove, table
  <2>2. /\ entries' = entries /\ heap' = heap /\ newEntries'[s] = entries[ii]
        /\ \A t \in Moved : newEntries'[t] = newEntries[t]
    BY <1>1, <1>4, <1>6 DEF RehashMove, table, Put, Moved
  <2> QED
    BY <2>1, <2>2 DEF IInv, EntriesAllocated
<1>12. TypeOK'
  <2>1. eleCount' \in Nat /\ ii' \in 0 .. capacity
    BY <1>1 DEF RehashMove, Rehashing, Slots
  <2> QED
    BY <1>1, <1>4, <2>1 DEF IInv, TypeOK, RehashMove, table, Table, ATable, Put
<1>13. ProbeChains'
  <2>1. Reachable(newEntries', n)
    BY <1>1, <1>2, <1>3, <1>4, PutKeepsReachable DEF IInv, ProbeChains
  <2> QED
    BY <2>1 DEF IInv, ProbeChains, RehashMove, table
<1>14. MovedAreLive'
  <2>1. \A t \in UsedSlots(newEntries', n) : newEntries'[t].live
    BY <1>1, <1>2, <1>4, <1>5, <1>6 DEF IInv, MovedAreLive, Put
  <2> QED
    BY <2>1 DEF MovedAreLive, RehashMove, table
<1> QED
  BY <1>10, <1>11, <1>12, <1>13, <1>14 DEF IInv

LEMMA RehashDoneIInv ==
    ASSUME IInv, RehashDone
    PROVE  IInv'
<1> DEFINE n == 2 * capacity
           L == LiveSlots(entries, capacity)
           N == UsedSlots(newEntries, n)
<1>1. /\ capacity \in Nat /\ n \in Nat /\ ii \in 0 .. capacity /\ pc = "rehash"
      /\ eleCount \in Nat /\ len \in Nat
      /\ newEntries \in ATable(n)
  BY DEF IInv, TypeOK, RehashDone, Table, ATable
<1>2. From(L, ii) \in SUBSET Slots(capacity) /\ N \in SUBSET Slots(n)
  BY DEF From, LiveSlots, UsedSlots
<1>3. /\ eleCount = Cardinality(From(L, ii))
      /\ len - eleCount = Cardinality(N) /\ Cardinality(N) \in Nat
  BY <1>1, <1>2, SlotSets DEF IInv, LenCountsLive, From
\* Either way the loop ends, every live entry has been moved.
<1>4. eleCount = 0
  <2>1. CASE ii >= capacity
    <3>1. From(L, ii) = {}
      BY <1>1, <2>1 DEF From, LiveSlots, Slots
    <3> QED
      BY <1>3, <3>1, FS_EmptySet
  <2> QED
    BY <2>1 DEF RehashDone
<1>5. LiveSlots(newEntries, n) = N
  BY <1>1 DEF IInv, MovedAreLive, LiveSlots, Live, UsedSlots
<1>6. len = Cardinality(LiveSlots(newEntries, n))
  BY <1>1, <1>3, <1>4, <1>5
<1>7. TypeOK'
  BY <1>1 DEF IInv, TypeOK, RehashDone, Table, ATable
<1>8. LenCountsLive'
  BY <1>6 DEF LenCountsLive, RehashDone
\* What was moved is all the new table holds.
<1>9. EntriesAllocated'
  <2>1. Pending' = Moved /\ Moved' = {} /\ entries' = newEntries /\ heap' = heap
    BY <1>1 DEF Pending, Moved, RehashDone
  <2> QED
    BY <2>1 DEF IInv, EntriesAllocated
<1>10. ProbeChains' /\ MovedAreLive'
  BY <1>1 DEF IInv, ProbeChains, MovedAreLive, RehashDone
<1> QED
  BY <1>7, <1>8, <1>9, <1>10 DEF IInv

----------------------------------------------------------------------
LEMMA NextIInv == IInv /\ [Next]_vars => IInv'
<1> SUFFICES ASSUME IInv, [Next]_vars PROVE IInv'
  OBVIOUS
<1> DEFINE AtRest == /\ UNCHANGED <<table, loop, heap>>
                     /\ pc # "rehash"
                     /\ pc' \in {"none", "idle", "grow", "probe", "destroyed"}
                     /\ IF pc' \in {"grow", "rehash", "probe"}
                        THEN call' \in [key : Keys, value : Values]
                        ELSE call' = Null
                     /\ ret' \in {0, 1}
<1>1. CASE OtherCalls
  <2>1. CASE \E c \in Capacities : Create(c)
    BY <2>1, CreateIInv
  <2>2. CASE CreateFails
    <3> AtRest
      BY <2>2 DEF CreateFails, IInv, TypeOK
    <3> QED
      BY TableUntouched
  <2>3. CASE Destroy
    BY <2>3, DestroyIInv
  <2>4. CASE \E k \in Keys : Remove(k)
    BY <2>4, RemoveIInv
  <2>5. CASE \E k \in Keys : RemoveMisses(k)
    <3> AtRest
      BY <2>5 DEF RemoveMisses, Return, table
    <3> QED
      BY TableUntouched
  <2> QED
    BY <1>1, <2>1, <2>2, <2>3, <2>4, <2>5 DEF OtherCalls
<1>2. CASE \E k \in Keys, v \in Values : Add(k, v)
  <2> AtRest
    BY <1>2 DEF Add, IInv, TypeOK
  <2> QED
    BY TableUntouched
<1>3. CASE Running
  <2>1. CASE GrowStart
    BY <2>1, GrowStartIInv
  <2>2. CASE GrowFails \/ AddNewFails
    <3> AtRest
      BY <2>2 DEF GrowFails, AddNewFails, Return
    <3> QED
      BY TableUntouched
  <2>3. CASE RehashSkip
    BY <2>3, PassIInv DEF RehashSkip, Live
  <2>4. CASE RehashTombstone
    BY <2>4, PassIInv DEF RehashTombstone, Tombstone, Live
  <2>5. CASE RehashMove
    BY <2>5, MoveIInv
  <2>6. CASE RehashDone
    BY <2>6, RehashDoneIInv
  <2>7. CASE AddReuse
    BY <2>7, StoreIInv DEF AddReuse, Tombstone, Live
  <2>8. CASE AddOverwrite
    <3>1. PICK s \in Slots(capacity) :
             FirstStop(s) /\ Live(entries, s) /\ Store(s, entries[s].at)
      BY <2>8 DEF AddOverwrite, Matches
    <3>2. entries[s] # Null
      BY <3>1 DEF Live
    <3>3. Return(1) /\ UNCHANGED <<len, capacity, loop, heap>> /\ pc = "probe"
      BY <2>8 DEF AddOverwrite
    <3> QED
      BY <3>1, <3>2, <3>3, StoreIInv
  <2>9. CASE AddNew
    <3>1. PICK s \in Slots(capacity), b \in Calloc(heap) :
             FirstStop(s) /\ entries[s] = Null /\ Store(s, b) /\ heap' = heap \union {b}
      BY <2>9 DEF AddNew
    <3>2. ~Live(entries, s)
      BY <3>1 DEF Live
    <3>3. Return(1) /\ len' = len + 1 /\ UNCHANGED <<capacity, loop>> /\ pc = "probe"
      BY <2>9 DEF AddNew
    <3> QED
      BY <3>1, <3>2, <3>3, StoreIInv
  <2>10. CASE AddHitsEnd
    <3> AtRest
      BY <2>10 DEF AddHitsEnd, IInv, TypeOK
    <3> QED
      BY TableUntouched
  <2> QED
    BY <1>3, <2>1, <2>2, <2>3, <2>4, <2>5, <2>6, <2>7, <2>8, <2>9, <2>10 DEF Running
<1>4. CASE UNCHANGED vars
  BY <1>4 DEF vars, IInv, TypeOK, LenCountsLive, ProbeChains, EntriesAllocated, Pending, Moved,
              MovedAreLive
<1> QED
  BY <1>1, <1>2, <1>3, <1>4 DEF Next

THEOREM Invariance == Spec => []IInv
BY InitIInv, NextIInv, PTL DEF Spec

\* The map's variables have their types in every reachable state.
THEOREM TypeCorrect == Spec => []TypeOK
<1>1. IInv => TypeOK
  BY DEF IInv
<1> QED
  BY <1>1, Invariance, PTL

\* map->len counts the live entries of the table, for any history of adds,
\* removes, failed allocations and rehashes.
THEOREM LenCorrect == Spec => []LenCountsLive
<1>1. IInv => LenCountsLive
  BY DEF IInv
<1> QED
  BY <1>1, Invariance, PTL

\* hmap_get reaches every live entry from the home slot of its key.
THEOREM NoBrokenChains == Spec => []ProbeChains
<1>1. IInv => ProbeChains
  BY DEF IInv
<1> QED
  BY <1>1, Invariance, PTL

\* Every entry to be used again is allocated, and no two slots point to one.
THEOREM NoDanglingEntry == Spec => []EntriesAllocated
<1>1. IInv => EntriesAllocated
  BY DEF IInv
<1> QED
  BY <1>1, Invariance, PTL

----------------------------------------------------------------------
(* The room in the new table: the map grows before it is more than one  *)
(* entry over half full, and no addition starts to probe in such a map. *)

HalfFull ==
    /\ len <= capacity \div 2 + 1
    /\ pc = "probe" => len <= capacity \div 2

LEMMA NoEntriesInNoSlots == IInv /\ capacity = 0 => len = 0
<1> SUFFICES ASSUME IInv, capacity = 0 PROVE len = 0
  OBVIOUS
<1>1. LiveSlots(entries, capacity) = {}
  BY DEF LiveSlots, Slots
<1> QED
  BY <1>1, FS_EmptySet DEF IInv, LenCountsLive

LEMMA NextHalfFull == IInv /\ HalfFull /\ [Next]_vars => HalfFull'
<1> SUFFICES ASSUME IInv, HalfFull, [Next]_vars PROVE HalfFull'
  OBVIOUS
<1>0. capacity \in Nat /\ len \in Nat
  BY DEF IInv, TypeOK
<1>1. CASE \E c \in Capacities : Create(c)
  BY <1>1, CapacityAssumption DEF Create, HalfFull
<1>2. CASE Destroy
  BY <1>2 DEF Destroy, HalfFull
<1>3. CASE \E k \in Keys : Remove(k)
  BY <1>0, <1>3 DEF Remove, Return, HalfFull
<1>4. CASE \E k \in Keys, v \in Values : Add(k, v)
  BY <1>0, <1>4 DEF Add, HalfFull, table
<1>5. CASE RehashDone
  BY <1>0, <1>5, NoEntriesInNoSlots DEF RehashDone, HalfFull
<1>6. CASE AddReuse \/ AddOverwrite \/ AddNew
  BY <1>0, <1>6 DEF AddReuse, AddOverwrite, AddNew, Return, HalfFull
<1>7. ASSUME UNCHANGED <<capacity, len>>, pc' # "probe" \/ pc' = pc
      PROVE  HalfFull'
  BY <1>7 DEF HalfFull
<1>8. CASE CreateFails \/ \E k \in Keys : RemoveMisses(k)
  BY <1>7, <1>8 DEF CreateFails, RemoveMisses, Return, table
<1>9. CASE GrowStart \/ GrowFails \/ AddNewFails \/ AddHitsEnd
  BY <1>7, <1>9 DEF GrowStart, GrowFails, AddNewFails, AddHitsEnd, Return, table
<1>10. CASE RehashSkip \/ RehashTombstone \/ RehashMove
  BY <1>7, <1>10 DEF RehashSkip, RehashTombstone, RehashMove, table
<1>11. CASE UNCHANGED vars
  BY <1>7, <1>11 DEF vars
<1> QED
  BY <1>1, <1>2, <1>3, <1>4, <1>5, <1>6, <1>8, <1>9, <1>10, <1>11
     DEF Next, OtherCalls, Running

\* The slots taken in the new table are those of the entries moved, fewer
\* than there are slots as long as one is left to move.
LEMMA HalfFullHasRoom == IInv /\ HalfFull => RehashHasRoom
<1> SUFFICES ASSUME IInv, HalfFull, Rehashing
             PROVE  \E s \in Slots(2 * capacity) : newEntries[s] = Null
  BY DEF HalfFull, RehashHasRoom
<1>1. /\ capacity \in Nat /\ len \in Nat /\ eleCount \in Nat /\ ii \in Nat
      /\ pc = "rehash" /\ ii < capacity /\ eleCount > 0
  BY DEF IInv, TypeOK, Rehashing
<1>2. Cardinality(UsedSlots(newEntries, 2 * capacity)) < 2 * capacity
  BY <1>1 DEF IInv, LenCountsLive, HalfFull
<1>3. Cardinality(Slots(2 * capacity)) = 2 * capacity
  BY <1>1, SlotsFinite
<1>4. UsedSlots(newEntries, 2 * capacity) # Slots(2 * capacity)
  BY <1>1, <1>2, <1>3
<1> QED
  BY <1>4 DEF UsedSlots

\* The search for a free slot in the rehash ends: there is one whenever an
\* entry is to be moved.
THEOREM RehashEnds == Spec => []RehashHasRoom
<1>1. Init => HalfFull
  BY DEF Init, HalfFull
<1>2. Spec => []HalfFull
  BY <1>1, NextHalfFull, Invariance, PTL DEF Spec
<1> QED
  BY <1>2, Invariance, HalfFullHasRoom, PTL

----------------------------------------------------------------------
\* The slot an addition stops at is where the cyclic probe from home ends
\* for its key, wherever else the key may still live.
LEMMA StoredIsFound ==
    ASSUME IInv, NEW s \in Slots(capacity), pc = "probe",
           FirstStop(s), NEW b \in Blocks, Store(s, b), capacity' = capacity
    PROVE  /\ Found(entries', capacity, call.key) = {s}
           /\ entries'[s].value = call.value
<1> DEFINE c == capacity
           k == call.key
           h == Home(k, c)
<1>1. /\ c \in Nat /\ c > 0 /\ entries \in ATable(c)
      /\ k \in Keys /\ call.value \in Values
  BY DEF IInv, TypeOK, Table, ATable, Slots
<1>2. h \in Slots(c)
  BY <1>1, HomeInTable
<1>3. /\ entries'[s] = [at |-> b, key |-> k, value |-> call.value, live |-> TRUE]
      /\ \A t \in Slots(c) \ {s} : entries'[t] = entries[t]
  BY <1>1 DEF Store, ATable
<1>4. entries'[s] # Null
  <2>1. [at |-> b, key |-> k, value |-> call.value, live |-> TRUE] \in Entry
    BY <1>1 DEF Entry
  <2> QED
    BY <1>3, <2>1, NullAssumption
<1>5. h <= s /\ \A t \in h .. s - 1 : entries[t] # Null /\ ~Matches(entries, t, k)
  BY <1>1, <1>2 DEF FirstStop, Stops, Slots
<1> HIDE DEF h
<1>6. Matches(entries', s, k)
  BY <1>3, <1>4 DEF Matches, Live
<1>7. \A t \in h .. s - 1 : entries'[t] # Null /\ ~Matches(entries', t, k)
  <2> SUFFICES ASSUME NEW t \in h .. s - 1
               PROVE  entries'[t] # Null /\ ~Matches(entries', t, k)
    OBVIOUS
  <2>1. entries'[t] = entries[t]
    BY <1>1, <1>2, <1>3 DEF Slots
  <2> QED
    BY <1>5, <2>1 DEF Matches, Live
<1>8. Between(h, s, c) = h .. s - 1
  BY <1>5 DEF Between
<1>9. s \in Found(entries', c, k)
  BY <1>6, <1>7, <1>8 DEF Found, h
<1>10. ASSUME NEW r \in Found(entries', c, k), r # s
       PROVE  FALSE
  <2>1. /\ r \in Slots(c) /\ Matches(entries', r, k)
        /\ \A t \in Between(h, r, c) : ~Matches(entries', t, k)
    BY DEF Found, h
  <2>2. ~(r \in h .. s - 1)
    BY <1>7, <2>1
  <2>3. s \in Between(h, r, c)
    BY <1>2, <1>5, <1>10, <2>1, <2>2 DEF Between, Slots
  <2> QED
    BY <1>6, <2>1, <2>3
<1>11. Found(entries', c, k) = {s}
  BY <1>9, <1>10
<1> QED
  BY <1>3, <1>11

\* The three ways hmap_add stores its entry keep it in a block of its own.
LEMMA AddsStore ==
    ASSUME IInv, AddReuse \/ AddOverwrite \/ AddNew
    PROVE  \E s \in Slots(capacity), b \in Blocks : FirstStop(s) /\ Store(s, b)
<1>1. CASE AddReuse \/ AddOverwrite
  <2>1. PICK s \in Slots(capacity) :
           FirstStop(s) /\ entries[s] # Null /\ Store(s, entries[s].at)
    BY <1>1 DEF AddReuse, AddOverwrite, Tombstone, Matches, Live
  <2>2. entries[s].at \in Blocks
    BY <2>1 DEF IInv, TypeOK, Table, Entry
  <2> QED
    BY <2>1, <2>2
<1>2. CASE AddNew
  <2>1. Calloc(heap) \subseteq Blocks
    BY CallocAssumption DEF IInv, TypeOK
  <2> QED
    BY <1>2, <2>1 DEF AddNew
<1> QED
  BY <1>1, <1>2

\* An addition in a probe that returns 1 has stored its value where it stopped.
LEMMA AddStores ==
    ASSUME IInv, [Next]_vars, pc = "probe", pc' = "idle", ret' = 1
    PROVE  \E s \in Slots(capacity), b \in Blocks :
              FirstStop(s) /\ Store(s, b) /\ capacity' = capacity
<1>1. CASE OtherCalls
  BY <1>1 DEF OtherCalls, Create, CreateFails, Destroy, Remove, RemoveMisses
<1>2. CASE \E k \in Keys, v \in Values : Add(k, v)
  BY <1>2 DEF Add
<1>3. CASE Running
  <2>1. CASE GrowStart \/ GrowFails
    BY <2>1 DEF GrowStart, GrowFails
  <2>2. CASE RehashSkip \/ RehashTombstone \/ RehashMove \/ RehashDone
    BY <2>2 DEF RehashSkip, RehashTombstone, RehashMove, RehashDone, Rehashing
  <2>3. CASE AddReuse \/ AddOverwrite \/ AddNew
    <3>1. capacity' = capacity
      BY <2>3 DEF AddReuse, AddOverwrite, AddNew
    <3> QED
      BY <2>3, <3>1, AddsStore
  <2>4. CASE AddNewFails \/ AddHitsEnd
    BY <2>4 DEF AddNewFails, AddHitsEnd, Return
  <2> QED
    BY <1>3, <2>1, <2>2, <2>3, <2>4 DEF Running
<1>4. CASE UNCHANGED vars
  BY <1>4 DEF vars
<1> QED
  BY <1>1, <1>2, <1>3, <1>4 DEF Next

\* An hmap_add that returns 1 binds the key to the value, for the hmap_get
\* that follows.
THEOREM AddBinds == Spec => AddIsSeen
<1> DEFINE A == pc = "probe" /\ pc' = "idle" /\ ret' = 1
                  => \A k \in {call.key} : ValueOf(k)' = {call.value}
<1>1. IInv /\ [Next]_vars => A
  <2> SUFFICES ASSUME IInv, [Next]_vars, pc = "probe", pc' = "idle", ret' = 1,
                      NEW k \in {call.key}
               PROVE  ValueOf(k)' = {call.value}
    OBVIOUS
  <2>1. PICK s \in Slots(capacity), b \in Blocks :
           FirstStop(s) /\ Store(s, b) /\ capacity' = capacity
    BY AddStores
  <2>2. Found(entries', capacity', k) = {s} /\ entries'[s].value = call.value
    BY <2>1, StoredIsFound
  <2> QED
    BY <2>2 DEF ValueOf
<1> HIDE DEF A
<1>2. Spec => [][A]_vars
  BY <1>1, Invariance, PTL DEF Spec
<1> QED
  BY <1>2, PTL DEF A, AddIsSeen

-----------------------------------------------------------------------
(* Callers that look a key up before they add it, or have removed nothing *)
(* yet, keep one entry per key.                                           *)

Unique(T, c) ==
    \A k \in Keys, s, t \in Slots(c) : Matches(T, s, k) /\ Matches(T, t, k) => s = t
Absent(T, c, k) == \A s \in Slots(c) : ~Matches(T, s, k)

\* What the caller has seen still holds when the addition stops: its key is
\* not in the table, or the table has no tombstones.
AddIsCareful ==
    pc \in {"grow", "rehash", "probe"} =>
       Absent(entries, capacity, call.key) \/ NoTombstones

\* The two halves of the table during a rehash have no key in common.
HalvesApart ==
    pc = "rehash" =>
       /\ Unique(newEntries, 2 * capacity)
       /\ \A k \in Keys, s \in Slots(2 * capacity) :
             Matches(newEntries, s, k) =>
                \A t \in ii .. capacity - 1 : ~Matches(entries, t, k)

SafeInv == Unique(entries, capacity) /\ HalvesApart /\ AddIsCareful

----------------------------------------------------------------------
LEMMA EmptyUnique ==
    ASSUME NEW c \in Nat, NEW T, T = EmptyTable(c)
    PROVE  Unique(T, c) /\ \A k \in Keys : Absent(T, c, k)
BY DEF EmptyTable, Unique, Absent, Matches, Live

\* Where hmap_get finds nothing there is nothing, since it finds an entry
\* that is the only one of its key.
LEMMA NotFoundIsAbsent ==
    ASSUME IInv, Unique(entries, capacity), NEW k \in Keys,
           Found(entries, capacity, k) = {}
    PROVE  Absent(entries, capacity, k)
<1> SUFFICES ASSUME NEW s \in Slots(capacity), Matches(entries, s, k) PROVE FALSE
  BY DEF Absent
<1>1. capacity \in Nat /\ capacity > 0 /\ Home(k, capacity) \in Slots(capacity)
  BY HomeInTable DEF IInv, TypeOK, Slots
<1>2. s \in LiveSlots(entries, capacity) /\ entries[s].key = k
  BY DEF Matches, LiveSlots
<1>3. \A t \in Between(Home(k, capacity), s, capacity) :
         t \in Slots(capacity) /\ t # s /\ entries[t] # Null
  BY <1>1, <1>2 DEF IInv, ProbeChains, Reachable, Between, Slots
<1>4. \A t \in Between(Home(k, capacity), s, capacity) : ~Matches(entries, t, k)
  BY <1>3 DEF Unique
<1> QED
  BY <1>3, <1>4 DEF Found

\* An addition that stops at s leaves its key nowhere else.
LEMMA StoreUnique ==
    ASSUME IInv, SafeInv, pc = "probe", NEW s \in Slots(capacity),
           FirstStop(s), NEW b, Store(s, b), UNCHANGED capacity
    PROVE  Unique(entries', capacity')
<1> DEFINE k == call.key
<1>1. /\ capacity \in Nat /\ capacity > 0 /\ k \in Keys
      /\ Home(k, capacity) \in Slots(capacity)
  BY HomeInTable DEF IInv, TypeOK, Slots
<1>2. /\ entries'[s] = [at |-> b, key |-> k, value |-> call.value, live |-> TRUE]
      /\ \A t \in Slots(capacity) \ {s} : entries'[t] = entries[t]
  BY DEF IInv, TypeOK, Table, Store
<1>3. ASSUME NEW t \in Slots(capacity), t # s
      PROVE  ~Matches(entries, t, k)
  <2>1. CASE Absent(entries, capacity, k)
    BY <2>1 DEF Absent
  <2>2. CASE NoTombstones /\ entries[s] # Null
    <3>1. Matches(entries, s, k)
      BY <2>2 DEF NoTombstones, Tombstone, FirstStop, Stops
    <3> QED
      BY <1>1, <1>3, <3>1 DEF SafeInv, Unique
  <2>3. CASE entries[s] = Null
    <3> SUFFICES ASSUME Matches(entries, t, k) PROVE FALSE
      OBVIOUS
    <3>1. ~(t \in Home(k, capacity) .. s - 1)
      BY DEF FirstStop, Stops
    <3>2. s \in Between(Home(k, capacity), t, capacity)
      BY <1>1, <1>3, <3>1 DEF FirstStop, Between, Slots
    <3>3. t \in LiveSlots(entries, capacity) /\ entries[t].key = k
      BY DEF Matches, LiveSlots
    <3> QED
      BY <2>3, <3>2, <3>3 DEF IInv, ProbeChains, Reachable
  <2> QED
    BY <2>1, <2>2, <2>3 DEF SafeInv, AddIsCareful
<1> HIDE DEF k
<1>4. \A t \in Slots(capacity) \ {s}, j \in Keys :
         Matches(entries', t, j) <=> Matches(entries, t, j)
  BY <1>2 DEF Matches, Live
<1>5. \A j \in Keys : Matches(entries', s, j) => j = k
  BY <1>2 DEF Matches
<1> QED
  BY <1>1, <1>3, <1>4, <1>5 DEF SafeInv, Unique

LEMMA RemoveUnique ==
    ASSUME IInv, Unique(entries, capacity), NEW k \in Keys, Remove(k)
    PROVE  Unique(entries', capacity')
<1>1. PICK s \in Found(entries, capacity, k) : entries' = [entries EXCEPT ![s].live = FALSE]
  BY DEF Remove
<1>2. s \in Slots(capacity) /\ entries[s] \in Entry
  BY DEF IInv, TypeOK, Table, Found, Matches, Live
<1>3. ~entries'[s].live /\ \A t \in Slots(capacity) \ {s} : entries'[t] = entries[t]
  BY <1>1, <1>2 DEF IInv, TypeOK, Table, Entry
<1>4. \A t \in Slots(capacity), j \in Keys : Matches(entries', t, j) => Matches(entries, t, j)
  BY <1>3 DEF Matches, Live
<1> QED
  BY <1>4 DEF Unique, Remove

\* An entry moved takes its key from the old half of the table to the new.
LEMMA MoveApart ==
    ASSUME IInv, SafeInv, RehashMove
    PROVE  HalvesApart'
<1> DEFINE n == 2 * capacity
<1>1. /\ capacity \in Nat /\ n \in Nat /\ ii \in Slots(capacity) /\ pc = "rehash"
      /\ newEntries \in ATable(n)
  BY DEF IInv, TypeOK, RehashMove, Rehashing, Slots, Table, ATable
<1>2. PICK s \in Slots(n) :
         newEntries[s] = Null /\ newEntries' = [newEntries EXCEPT ![s] = entries[ii]]
  BY DEF RehashMove
<1>3. newEntries'[s] = entries[ii] /\ \A t \in Slots(n) \ {s} : newEntries'[t] = newEntries[t]
  BY <1>1, <1>2 DEF ATable
<1>4. entries' = entries /\ ii' = ii + 1 /\ capacity' = capacity /\ pc' = pc
  BY DEF RehashMove, table
<1>5. Unique(entries, capacity) /\ Unique(newEntries, n)
  BY <1>1 DEF SafeInv, HalvesApart
<1>6. \A k \in Keys, t \in Slots(n) :
         Matches(newEntries, t, k) => \A r \in ii .. capacity - 1 : ~Matches(entries, r, k)
  BY <1>1 DEF SafeInv, HalvesApart
<1> HIDE DEF n
<1>7. /\ \A t \in Slots(n) \ {s}, k \in Keys :
            Matches(newEntries', t, k) <=> Matches(newEntries, t, k)
      /\ \A k \in Keys : Matches(newEntries', s, k) <=> Matches(entries, ii, k)
  BY <1>3 DEF Matches, Live
<1>8. ASSUME NEW k \in Keys, Matches(entries, ii, k)
      PROVE  /\ \A t \in Slots(n) : ~Matches(newEntries, t, k)
             /\ \A r \in ii + 1 .. capacity - 1 : ~Matches(entries, r, k)
  <2>1. ii \in ii .. capacity - 1
    BY <1>1 DEF Slots
  <2>2. \A r \in ii + 1 .. capacity - 1 : r \in Slots(capacity) /\ r # ii
    BY <1>1 DEF Slots
  <2> QED
    BY <1>1, <1>5, <1>6, <1>8, <2>1, <2>2 DEF Unique
<1>9. Unique(newEntries', n)
  BY <1>5, <1>7, <1>8 DEF Unique
<1>10. ASSUME NEW k \in Keys, NEW t \in Slots(n), Matches(newEntries', t, k)
       PROVE  \A r \in ii + 1 .. capacity - 1 : ~Matches(entries, r, k)
  <2>1. \A r \in ii + 1 .. capacity - 1 : r \in ii .. capacity - 1
    BY <1>1 DEF Slots
  <2> QED
    BY <1>6, <1>7, <1>8, <1>10, <2>1
<1> QED
  BY <1>4, <1>9, <1>10 DEF HalvesApart, n

----------------------------------------------------------------------
LEMMA InitSafe == Init => SafeInv
<1> SUFFICES ASSUME Init PROVE SafeInv
  OBVIOUS
<1>1. Unique(entries, capacity)
  BY EmptyUnique DEF Init
<1> QED
  BY <1>1 DEF Init, SafeInv, HalvesApart, AddIsCareful

LEMMA CarefulIsNext == [CarefulNext]_vars => [Next]_vars
BY DEF CarefulNext, CarefulAdd, Next

\* A step that leaves the table and the loop alone, and keeps the call or
\* ends it.
LEMMA SafeUntouched ==
    ASSUME SafeInv, UNCHANGED <<table, loop>>, pc # "rehash", pc' # "rehash",
           \/ pc' \notin {"grow", "probe"}
           \/ call' = call /\ pc \in {"grow", "probe"}
    PROVE  SafeInv'
BY DEF SafeInv, Unique, HalvesApart, AddIsCareful, Absent, NoTombstones, table, loop

LEMMA SafeStep ==
    ASSUME IInv, SafeInv, [CarefulNext]_vars
    PROVE  SafeInv'
<1>1. CASE OtherCalls
  <2>1. CASE \E c \in Capacities : Create(c)
    BY <2>1, EmptyUnique, CapacityAssumption DEF Create, SafeInv, HalvesApart, AddIsCareful
  <2>2. CASE CreateFails
    BY <2>2, SafeUntouched DEF CreateFails
  <2>3. CASE Destroy
    BY <2>3, EmptyUnique DEF Destroy, SafeInv, HalvesApart, AddIsCareful
  <2>4. CASE \E k \in Keys : Remove(k)
    BY <2>4, RemoveUnique DEF Remove, Return, SafeInv, HalvesApart, AddIsCareful
  <2>5. CASE \E k \in Keys : RemoveMisses(k)
    BY <2>5, SafeUntouched DEF RemoveMisses, Return
  <2> QED
    BY <1>1, <2>1, <2>2, <2>3, <2>4, <2>5 DEF OtherCalls
<1>2. CASE \E k \in Keys, v \in Values : CarefulAdd(k, v)
  <2>1. PICK k \in Keys, v \in Values : CarefulAdd(k, v)
    BY <1>2
  <2>2. Absent(entries, capacity, k) \/ NoTombstones
    BY <2>1, NotFoundIsAbsent DEF CarefulAdd, SafeInv
  <2>3. call'.key = k /\ entries' = entries /\ capacity' = capacity /\ pc' # "rehash"
    BY <2>1 DEF CarefulAdd, Add, table
  <2>4. AddIsCareful'
    BY <2>2, <2>3 DEF AddIsCareful, Absent, NoTombstones
  <2> QED
    BY <2>3, <2>4 DEF SafeInv, HalvesApart
<1>3. CASE GrowStart
  <2>1. capacity \in Nat /\ 2 * capacity \in Nat
    BY DEF IInv, TypeOK
  <2>2. Unique(newEntries', 2 * capacity) /\ \A k \in Keys : Absent(newEntries', 2 * capacity, k)
    BY <1>3, <2>1, EmptyUnique DEF GrowStart
  <2>3. entries' = entries /\ capacity' = capacity /\ call' = call /\ pc = "grow"
    BY <1>3 DEF GrowStart, table
  <2>4. HalvesApart'
    BY <2>2, <2>3 DEF HalvesApart, Absent
  <2> QED
    BY <2>3, <2>4 DEF SafeInv, AddIsCareful, Absent, NoTombstones
<1>4. CASE GrowFails \/ AddNewFails
  BY <1>4, SafeUntouched DEF GrowFails, AddNewFails, Return
<1>5. CASE AddHitsEnd
  BY <1>5, SafeUntouched DEF AddHitsEnd
<1>6. ASSUME RehashSkip \/ RehashTombstone \/ RehashMove
      PROVE  Unique(entries', capacity') /\ AddIsCareful'
  <2>1. entries' = entries /\ capacity' = capacity /\ call' = call /\ pc' = pc
    BY <1>6 DEF RehashSkip, RehashTombstone, RehashMove, table
  <2> QED
    BY <2>1 DEF SafeInv, AddIsCareful, Absent, NoTombstones
<1>7. CASE RehashSkip \/ RehashTombstone
  <2>1. /\ entries' = entries /\ capacity' = capacity /\ newEntries' = newEntries
        /\ ii' = ii + 1 /\ pc' = pc /\ pc = "rehash"
    BY <1>7 DEF RehashSkip, RehashTombstone, Rehashing, table
  <2>2. ii \in Nat /\ capacity \in Nat
    BY <2>1 DEF IInv, TypeOK
  <2>3. HalvesApart'
    BY <2>1, <2>2 DEF SafeInv, HalvesApart
  <2> QED
    BY <1>6, <1>7, <2>3 DEF SafeInv
<1>8. CASE RehashMove
  BY <1>6, <1>8, MoveApart DEF SafeInv
<1>9. CASE RehashDone
  <2>1. /\ entries' = newEntries /\ capacity' = 2 * capacity
        /\ pc = "rehash" /\ pc' = "probe"
    BY <1>9 DEF RehashDone
  <2>2. \A s \in Slots(2 * capacity) : ~Tombstone(newEntries, s)
    BY <2>1 DEF IInv, MovedAreLive, UsedSlots, Tombstone
  <2> QED
    BY <2>1, <2>2 DEF SafeInv, HalvesApart, AddIsCareful, NoTombstones
<1>10. CASE AddReuse \/ AddOverwrite \/ AddNew
  <2>1. pc = "probe" /\ pc' = "idle" /\ capacity' = capacity
    BY <1>10 DEF AddReuse, AddOverwrite, AddNew, Return
  <2>2. Unique(entries', capacity')
    BY <1>10, <2>1, AddsStore, StoreUnique
  <2> QED
    BY <2>1, <2>2 DEF SafeInv, HalvesApart, AddIsCareful
<1>11. CASE UNCHANGED vars
  BY <1>11 DEF vars, SafeInv, Unique, HalvesApart, AddIsCareful, Absent, NoTombstones
<1> QED
  BY <1>1, <1>2, <1>3, <1>4, <1>5, <1>7, <1>8, <1>9, <1>10, <1>11 DEF CarefulNext, Running

\* Under careful callers a key never has two live entries, at rest or in the
\* middle of a rehash, for any keys, hash function and capacities.
THEOREM NeverTwoEntries == CarefulSpec => []OneEntryPerKey
<1>1. CarefulSpec => []IInv
  BY InitIInv, NextIInv, CarefulIsNext, PTL DEF CarefulSpec
<1>2. CarefulSpec => []SafeInv
  BY <1>1, InitSafe, SafeStep, PTL DEF CarefulSpec
<1>3. SafeInv => OneEntryPerKey
  BY DEF SafeInv, Unique, HalvesApart, OneEntryPerKey
<1> QED
  BY <1>2, <1>3, PTL

----------------------------------------------------------------------
(* The refinement: what hmap_get returns for every key.                 *)

BoundIn(T, c) == {k \in Keys : Found(T, c, k) # {}}
BindingsOf(T, c) ==
    [k \in BoundIn(T, c) |-> (CHOOSE e \in {T[s] : s \in Found(T, c, k)} : TRUE).value]

\* A table in which get finds every entry, and one for every key.
Good(T, c) == c \in Nat /\ T \in ATable(c) /\ Reachable(T, c) /\ Unique(T, c)

LEMMA MatchIsFound ==
    ASSUME NEW c, NEW T, Good(T, c), NEW k \in Keys, NEW s \in Slots(c), Matches(T, s, k)
    PROVE  Found(T, c, k) = {s}
<1>1. c \in Nat /\ c > 0 /\ Home(k, c) \in Slots(c)
  BY HomeInTable DEF Good, Slots
<1>2. s \in LiveSlots(T, c) /\ T[s].key = k
  BY DEF Matches, LiveSlots
<1>3. \A t \in Between(Home(k, c), s, c) : t \in Slots(c) /\ t # s /\ T[t] # Null
  BY <1>1, <1>2 DEF Good, Reachable, Between, Slots
<1>4. \A t \in Between(Home(k, c), s, c) : ~Matches(T, t, k)
  BY <1>3 DEF Good, Unique
<1>5. s \in Found(T, c, k)
  BY <1>3, <1>4 DEF Found
<1>6. \A r \in Found(T, c, k) : r = s
  BY DEF Found, Good, Unique
<1> QED
  BY <1>5, <1>6

LEMMA BindingsAre ==
    ASSUME NEW c, NEW T, Good(T, c)
    PROVE  /\ BindingsOf(T, c) = [k \in DOMAIN BindingsOf(T, c) |-> BindingsOf(T, c)[k]]
           /\ \A k : k \in DOMAIN BindingsOf(T, c) <=>
                        k \in Keys /\ \E s \in Slots(c) : Matches(T, s, k)
           /\ \A k \in Keys, s \in Slots(c) :
                 Matches(T, s, k) => BindingsOf(T, c)[k] = T[s].value
<1>1. \A k : k \in BoundIn(T, c) <=> k \in Keys /\ \E s \in Slots(c) : Matches(T, s, k)
  <2>1. \A k \in Keys, s \in Slots(c) : Matches(T, s, k) => Found(T, c, k) # {}
    BY MatchIsFound
  <2>2. \A k \in Keys : \A s \in Found(T, c, k) : s \in Slots(c) /\ Matches(T, s, k)
    BY DEF Found
  <2> QED
    BY <2>1, <2>2 DEF BoundIn
<1>2. ASSUME NEW k \in Keys, NEW s \in Slots(c), Matches(T, s, k)
      PROVE  BindingsOf(T, c)[k] = T[s].value
  <2>1. {T[r] : r \in Found(T, c, k)} = {T[s]} /\ k \in BoundIn(T, c)
    BY <1>1, <1>2, MatchIsFound
  <2>2. (CHOOSE e \in {T[s]} : TRUE) = T[s]
    OBVIOUS
  <2> QED
    BY <2>1, <2>2 DEF BindingsOf
<1>3. DOMAIN BindingsOf(T, c) = BoundIn(T, c)
  BY DEF BindingsOf
<1>4. BindingsOf(T, c) = [k \in DOMAIN BindingsOf(T, c) |-> BindingsOf(T, c)[k]]
  BY DEF BindingsOf
<1> QED
  BY <1>1, <1>2, <1>3, <1>4

LEMMA SameFunction ==
    ASSUME NEW f, NEW g,
           f = [x \in DOMAIN f |-> f[x]], g = [x \in DOMAIN g |-> g[x]],
           DOMAIN f = DOMAIN g, \A x \in DOMAIN f : f[x] = g[x]
    PROVE  f = g
OBVIOUS

\* Tables with the same keys bound to the same values are the same map.
LEMMA SameBindings ==
    ASSUME NEW c, NEW T, Good(T, c), NEW d, NEW U, Good(U, d),
           \A k \in Keys, s \in Slots(c) : Matches(T, s, k) =>
              \E t \in Slots(d) : Matches(U, t, k) /\ U[t].value = T[s].value,
           \A k \in Keys, t \in Slots(d) : Matches(U, t, k) =>
              \E s \in Slots(c) : Matches(T, s, k)
    PROVE  BindingsOf(U, d) = BindingsOf(T, c)
<1> DEFINE B == BindingsOf(T, c)
           A == BindingsOf(U, d)
<1>1. /\ B = [k \in DOMAIN B |-> B[k]]
      /\ \A k : k \in DOMAIN B <=> k \in Keys /\ \E s \in Slots(c) : Matches(T, s, k)
      /\ \A k \in Keys, s \in Slots(c) : Matches(T, s, k) => B[k] = T[s].value
  BY BindingsAre
<1>2. /\ A = [k \in DOMAIN A |-> A[k]]
      /\ \A k : k \in DOMAIN A <=> k \in Keys /\ \E s \in Slots(d) : Matches(U, s, k)
      /\ \A k \in Keys, s \in Slots(d) : Matches(U, s, k) => A[k] = U[s].value
  BY BindingsAre
<1> HIDE DEF A, B
<1>3. DOMAIN A = DOMAIN B
  BY <1>1, <1>2
<1>4. ASSUME NEW k \in DOMAIN A
      PROVE  A[k] = B[k]
  <2>1. PICK s \in Slots(c) : k \in Keys /\ Matches(T, s, k)
    BY <1>1, <1>3
  <2>2. PICK t \in Slots(d) : Matches(U, t, k) /\ U[t].value = T[s].value
    BY <2>1
  <2> QED
    BY <1>1, <1>2, <2>1, <2>2
<1>5. A = B
  BY <1>1, <1>2, <1>3, <1>4, SameFunction
<1> QED
  BY <1>5 DEF A, B

\* An entry written over a free slot, or over the key's own, binds its key.
LEMMA PutBinds ==
    ASSUME NEW c, NEW T, Good(T, c), NEW U, Good(U, c),
           NEW s \in Slots(c), NEW k \in Keys, Matches(U, s, k),
           \A t \in Slots(c) \ {s} : U[t] = T[t],
           Live(T, s) => T[s].key = k
    PROVE  BindingsOf(U, c) =
              [x \in DOMAIN BindingsOf(T, c) \union {k} |->
                  IF x = k THEN U[s].value ELSE BindingsOf(T, c)[x]]
<1> DEFINE B == BindingsOf(T, c)
           A == BindingsOf(U, c)
           F == [x \in DOMAIN B \union {k} |-> IF x = k THEN U[s].value ELSE B[x]]
<1>1. \A x \in Keys, t \in Slots(c) :
         x # k => (Matches(U, t, x) <=> Matches(T, t, x))
  BY DEF Matches, Live
<1>2. /\ A = [x \in DOMAIN A |-> A[x]]
      /\ \A x : x \in DOMAIN A <=> x \in Keys /\ \E t \in Slots(c) : Matches(U, t, x)
      /\ \A x \in Keys, t \in Slots(c) : Matches(U, t, x) => A[x] = U[t].value
  BY BindingsAre
<1>3. /\ \A x : x \in DOMAIN B <=> x \in Keys /\ \E t \in Slots(c) : Matches(T, t, x)
      /\ \A x \in Keys, t \in Slots(c) : Matches(T, t, x) => B[x] = T[t].value
  BY BindingsAre
<1> HIDE DEF A, B
<1>4. DOMAIN A = DOMAIN B \union {k}
  BY <1>1, <1>2, <1>3
<1>5. ASSUME NEW x \in DOMAIN A
      PROVE  A[x] = F[x]
  <2>1. CASE x = k
    BY <1>2, <1>4, <2>1
  <2>2. CASE x # k
    <3>1. PICK t \in Slots(c) : x \in Keys /\ Matches(U, t, x) /\ Matches(T, t, x)
      BY <1>1, <1>2, <2>2
    <3>2. t # s
      BY <2>2, <3>1 DEF Matches
    <3>3. A[x] = U[t].value /\ B[x] = T[t].value /\ U[t] = T[t]
      BY <1>2, <1>3, <3>1, <3>2
    <3> QED
      BY <1>4, <2>2, <3>3
  <2> QED
    BY <2>1, <2>2
<1>6. F = [x \in DOMAIN F |-> F[x]] /\ DOMAIN F = DOMAIN A
  BY <1>4
<1> HIDE DEF F
<1>7. A = F
  BY <1>2, <1>5, <1>6, SameFunction
<1> QED
  BY <1>7 DEF A, B, F

\* An entry turned into a tombstone unbinds its key.
LEMMA DropUnbinds ==
    ASSUME NEW c, NEW T, Good(T, c), NEW U, Good(U, c),
           NEW s \in Slots(c), NEW k \in Keys, Matches(T, s, k),
           \A t \in Slots(c) \ {s} : U[t] = T[t],
           ~Live(U, s)
    PROVE  /\ k \in DOMAIN BindingsOf(T, c)
           /\ BindingsOf(U, c) =
                 [x \in DOMAIN BindingsOf(T, c) \ {k} |-> BindingsOf(T, c)[x]]
<1> DEFINE B == BindingsOf(T, c)
           A == BindingsOf(U, c)
           F == [x \in DOMAIN B \ {k} |-> B[x]]
<1>1. \A x \in Keys, t \in Slots(c) :
         x # k => (Matches(U, t, x) <=> Matches(T, t, x))
  BY DEF Matches, Live, Good, Unique
<1>2. \A t \in Slots(c) : ~Matches(U, t, k)
  BY DEF Matches, Live, Good, Unique
<1>3. /\ A = [x \in DOMAIN A |-> A[x]]
      /\ \A x : x \in DOMAIN A <=> x \in Keys /\ \E t \in Slots(c) : Matches(U, t, x)
      /\ \A x \in Keys, t \in Slots(c) : Matches(U, t, x) => A[x] = U[t].value
  BY BindingsAre
<1>4. /\ \A x : x \in DOMAIN B <=> x \in Keys /\ \E t \in Slots(c) : Matches(T, t, x)
      /\ \A x \in Keys, t \in Slots(c) : Matches(T, t, x) => B[x] = T[t].value
  BY BindingsAre
<1> HIDE DEF A, B
<1>5. DOMAIN A = DOMAIN B \ {k} /\ k \in DOMAIN B
  BY <1>1, <1>2, <1>3, <1>4
<1>6. ASSUME NEW x \in DOMAIN A
      PROVE  A[x] = F[x]
  <2>1. PICK t \in Slots(c) : x \in Keys /\ Matches(U, t, x) /\ Matches(T, t, x)
    BY <1>1, <1>3, <1>5
  <2>2. t # s
    BY <2>1 DEF Matches
  <2>3. A[x] = U[t].value /\ B[x] = T[t].value /\ U[t] = T[t]
    BY <1>3, <1>4, <2>1, <2>2
  <2> QED
    BY <1>5, <2>3
<1>7. F = [x \in DOMAIN F |-> F[x]] /\ DOMAIN F = DOMAIN A
  BY <1>5
<1> HIDE DEF F
<1>8. A = F
  BY <1>3, <1>6, <1>7, SameFunction
<1> QED
  BY <1>5, <1>8 DEF A, B, F

LEMMA NoBindings ==
    ASSUME NEW c \in Nat, NEW T, T = EmptyTable(c)
    PROVE  BindingsOf(T, c) = << >>
<1>1. BoundIn(T, c) = {}
  BY DEF EmptyTable, BoundIn, Found, Matches, Live
<1> QED
  BY <1>1 DEF BindingsOf

LEMMA TablesGood ==
    ASSUME IInv, SafeInv
    PROVE  /\ Good(entries, capacity)
           /\ pc = "rehash" => Good(newEntries, 2 * capacity)
BY DEF IInv, TypeOK, Table, ATable, ProbeChains, SafeInv, HalvesApart, Good

----------------------------------------------------------------------
\* The new table holds what has been passed of the old one, and no more.
Carried ==
    /\ pc = "none" => capacity = 0
    /\ pc = "rehash" =>
          /\ \A s \in LiveSlots(entries, capacity) :
                s < ii => \E t \in Slots(2 * capacity) : newEntries[t] = entries[s]
          /\ \A t \in UsedSlots(newEntries, 2 * capacity) :
                \E s \in LiveSlots(entries, capacity) : newEntries[t] = entries[s]

LEMMA MoveCarried ==
    ASSUME IInv, Carried, RehashMove
    PROVE  Carried'
<1> DEFINE n == 2 * capacity
<1>1. /\ capacity \in Nat /\ n \in Nat /\ ii \in Slots(capacity) /\ pc = "rehash"
      /\ newEntries \in ATable(n)
  BY DEF IInv, TypeOK, RehashMove, Rehashing, Slots, Table, ATable
<1>2. PICK s \in Slots(n) :
         newEntries[s] = Null /\ newEntries' = [newEntries EXCEPT ![s] = entries[ii]]
  BY DEF RehashMove
<1>3. newEntries'[s] = entries[ii] /\ \A t \in Slots(n) \ {s} : newEntries'[t] = newEntries[t]
  BY <1>1, <1>2 DEF ATable
<1>4. entries' = entries /\ ii' = ii + 1 /\ capacity' = capacity /\ pc' = pc
  BY DEF RehashMove, table
<1>5. ii \in LiveSlots(entries, capacity)
  BY <1>1 DEF RehashMove, LiveSlots
<1>6. /\ \A r \in LiveSlots(entries, capacity) :
            r < ii => \E t \in Slots(n) : newEntries[t] = entries[r]
      /\ \A t \in UsedSlots(newEntries, n) :
            \E r \in LiveSlots(entries, capacity) : newEntries[t] = entries[r]
  BY <1>1 DEF Carried
<1> HIDE DEF n
<1>7. ASSUME NEW r \in LiveSlots(entries, capacity), r < ii + 1
      PROVE  \E t \in Slots(n) : newEntries'[t] = entries[r]
  <2>1. CASE r = ii
    BY <1>3, <2>1
  <2>2. CASE r < ii
    <3>1. PICK t \in Slots(n) : newEntries[t] = entries[r]
      BY <1>6, <2>2
    <3>2. t # s
      BY <1>2, <3>1 DEF LiveSlots, Live
    <3> QED
      BY <1>3, <3>1, <3>2
  <2>3. r \in Int /\ ii \in Int
    BY <1>1 DEF LiveSlots, Slots
  <2> QED
    BY <1>7, <2>1, <2>2, <2>3
<1>8. ASSUME NEW t \in UsedSlots(newEntries', n)
      PROVE  \E r \in LiveSlots(entries, capacity) : newEntries'[t] = entries[r]
  <2>1. CASE t = s
    BY <1>3, <1>5, <2>1
  <2>2. CASE t # s
    BY <1>3, <1>6, <2>2 DEF UsedSlots
  <2> QED
    BY <2>1, <2>2
<1> QED
  BY <1>1, <1>4, <1>7, <1>8 DEF Carried, n

LEMMA CarriedStep ==
    ASSUME IInv, Carried, [Next]_vars
    PROVE  Carried'
<1>1. CASE OtherCalls
  BY <1>1 DEF OtherCalls, Create, CreateFails, Destroy, Remove, RemoveMisses, Return, table,
              loop, Carried
<1>2. CASE \E k \in Keys, v \in Values : Add(k, v)
  BY <1>2 DEF Add, Carried
<1>3. CASE GrowStart
  <2>1. capacity \in Nat
    BY DEF IInv, TypeOK
  <2>2. UsedSlots(newEntries', 2 * capacity) = {}
    BY <1>3, <2>1, EmptyTables DEF GrowStart
  <2> QED
    BY <1>3, <2>1, <2>2 DEF GrowStart, table, Carried, LiveSlots, Slots
<1>4. CASE RehashSkip \/ RehashTombstone
  <2>1. /\ entries' = entries /\ capacity' = capacity /\ newEntries' = newEntries
        /\ ii' = ii + 1 /\ pc' = pc /\ pc = "rehash" /\ ~Live(entries, ii)
    BY <1>4 DEF RehashSkip, RehashTombstone, Rehashing, table, Live, Tombstone
  <2>2. ii \in Nat /\ capacity \in Nat
    BY <2>1 DEF IInv, TypeOK
  <2>3. \A s \in LiveSlots(entries, capacity) : s < ii + 1 => s < ii
    BY <2>1, <2>2 DEF LiveSlots, Slots
  <2> QED
    BY <2>1, <2>3 DEF Carried
<1>5. CASE RehashMove
  BY <1>5, MoveCarried
<1>6. CASE RehashDone \/ GrowFails \/ AddNewFails \/ AddHitsEnd
  BY <1>6 DEF RehashDone, GrowFails, AddNewFails, AddHitsEnd, Return, Carried
<1>7. CASE AddReuse \/ AddOverwrite \/ AddNew
  BY <1>7 DEF AddReuse, AddOverwrite, AddNew, Return, Carried
<1>8. CASE UNCHANGED vars
  BY <1>8 DEF vars, Carried
<1> QED
  BY <1>1, <1>2, <1>3, <1>4, <1>5, <1>6, <1>7, <1>8 DEF Next, Running

----------------------------------------------------------------------
(* Each step as a step of the abstract map.                             *)

\* The end of a rehash: the table has changed, what it binds has not.
LEMMA RehashBinds ==
    ASSUME IInv, SafeInv, Carried, RehashDone, Good(newEntries, 2 * capacity)
    PROVE  BindingsOf(newEntries, 2 * capacity) = BindingsOf(entries, capacity)
<1> DEFINE n == 2 * capacity
<1>1. /\ capacity \in Nat /\ ii \in Nat /\ pc = "rehash"
      /\ Good(entries, capacity)
  BY TablesGood DEF IInv, TypeOK, RehashDone
<1>2. \A s \in LiveSlots(entries, capacity) : s < ii
  <2>1. CASE ii >= capacity
    BY <1>1, <2>1 DEF LiveSlots, Slots
  <2>2. CASE eleCount = 0
    <3>1. /\ Cardinality({s \in LiveSlots(entries, capacity) : s >= ii}) = 0
          /\ {s \in LiveSlots(entries, capacity) : s >= ii} \in SUBSET Slots(capacity)
      BY <1>1, <2>2 DEF IInv, LenCountsLive, LiveSlots
    <3>2. {s \in LiveSlots(entries, capacity) : s >= ii} = {}
      BY <1>1, <3>1, SlotSets, FS_EmptySet
    <3> QED
      BY <1>1, <3>2 DEF LiveSlots, Slots
  <2> QED
    BY <2>1, <2>2 DEF RehashDone
<1>3. /\ \A s \in LiveSlots(entries, capacity) :
            s < ii => \E t \in Slots(n) : newEntries[t] = entries[s]
      /\ \A t \in UsedSlots(newEntries, n) :
            \E s \in LiveSlots(entries, capacity) : newEntries[t] = entries[s]
  BY <1>1 DEF Carried
<1> HIDE DEF n
<1>4. ASSUME NEW k \in Keys, NEW s \in Slots(capacity), Matches(entries, s, k)
      PROVE  \E t \in Slots(n) :
                Matches(newEntries, t, k) /\ newEntries[t].value = entries[s].value
  <2>1. s \in LiveSlots(entries, capacity)
    BY <1>4 DEF LiveSlots, Matches
  <2>2. PICK t \in Slots(n) : newEntries[t] = entries[s]
    BY <1>2, <1>3, <2>1
  <2> QED
    BY <1>4, <2>2 DEF Matches, Live
<1>5. ASSUME NEW k \in Keys, NEW t \in Slots(n), Matches(newEntries, t, k)
      PROVE  \E s \in Slots(capacity) : Matches(entries, s, k)
  <2>1. PICK s \in LiveSlots(entries, capacity) : newEntries[t] = entries[s]
    BY <1>3, <1>5 DEF UsedSlots, Matches, Live
  <2> QED
    BY <1>5, <2>1 DEF Matches, Live, LiveSlots
<1> QED
  BY <1>1, <1>4, <1>5, SameBindings DEF n

LEMMA StoreBinds ==
    ASSUME IInv, SafeInv, pc = "probe", NEW s \in Slots(capacity),
           FirstStop(s), NEW b \in Blocks, Store(s, b), Good(entries', capacity)
    PROVE  BindingsOf(entries', capacity) =
              [x \in DOMAIN BindingsOf(entries, capacity) \union {call.key} |->
                  IF x = call.key THEN call.value ELSE BindingsOf(entries, capacity)[x]]
<1>1. /\ call.key \in Keys /\ call.value \in Values /\ Good(entries, capacity)
  BY TablesGood DEF IInv, TypeOK
<1>2. /\ entries'[s] = [at |-> b, key |-> call.key, value |-> call.value, live |-> TRUE]
      /\ \A t \in Slots(capacity) \ {s} : entries'[t] = entries[t]
  BY DEF IInv, TypeOK, Table, Store
<1>3. [at |-> b, key |-> call.key, value |-> call.value, live |-> TRUE] # Null
  <2>1. [at |-> b, key |-> call.key, value |-> call.value, live |-> TRUE] \in Entry
    BY <1>1 DEF Entry
  <2> QED
    BY <2>1, NullAssumption
<1>4. Matches(entries', s, call.key) /\ entries'[s].value = call.value
  BY <1>2, <1>3 DEF Matches, Live
<1>5. Live(entries, s) => entries[s].key = call.key
  BY DEF FirstStop, Stops, Live, Tombstone, Matches
<1>6. \A t \in Slots(capacity) \ {s} : entries'[t] = entries[t]
  BY <1>2
<1>7. BindingsOf(entries', capacity) =
         [x \in DOMAIN BindingsOf(entries, capacity) \union {call.key} |->
             IF x = call.key THEN entries'[s].value ELSE BindingsOf(entries, capacity)[x]]
  BY <1>1, <1>4, <1>5, <1>6, PutBinds
<1> QED
  BY <1>4, <1>7

LEMMA RemoveUnbinds ==
    ASSUME IInv, SafeInv, NEW k \in Keys, Remove(k), Good(entries', capacity)
    PROVE  /\ k \in DOMAIN BindingsOf(entries, capacity)
           /\ BindingsOf(entries', capacity) =
                 [x \in DOMAIN BindingsOf(entries, capacity) \ {k} |->
                     BindingsOf(entries, capacity)[x]]
<1>1. PICK s \in Found(entries, capacity, k) : entries' = [entries EXCEPT ![s].live = FALSE]
  BY DEF Remove
<1>2. s \in Slots(capacity) /\ Matches(entries, s, k) /\ entries[s] \in Entry
  BY DEF IInv, TypeOK, Table, Found, Matches, Live
<1>3. ~entries'[s].live /\ \A t \in Slots(capacity) \ {s} : entries'[t] = entries[t]
  BY <1>1, <1>2 DEF IInv, TypeOK, Table, Entry
<1>4. Good(entries, capacity)
  BY TablesGood
<1>5. ~Live(entries', s)
  BY <1>3 DEF Live
<1> QED
  BY <1>2, <1>3, <1>4, <1>5, DropUnbinds

\* A step that is no call's success and leaves what the table binds alone.
LEMMA NothingAsked ==
    ASSUME ~Added, ~Destroy, \A k \in Keys : ~Remove(k), UNCHANGED Bindings
    PROVE  Asked
BY DEF Asked

LEMMA CallsAsked ==
    ASSUME IInv, SafeInv, Carried, Good(entries', capacity'), OtherCalls
    PROVE  Asked
<1>0. /\ Bindings = BindingsOf(entries, capacity)
      /\ Bindings' = BindingsOf(entries', capacity')
      /\ len \in Nat
  BY DEF Bindings, Bound, BindingsOf, BoundIn, IInv, TypeOK
<1>1. ASSUME NEW c \in Capacities, Create(c)
      PROVE  Asked
  <2>1. /\ entries' = EmptyTable(c) /\ capacity' = c /\ c \in Nat
        /\ entries = EmptyTable(0) /\ capacity = 0
    <3>1. entries' = EmptyTable(c) /\ capacity' = c /\ c \in Nat /\ capacity = 0
      BY <1>1, CapacityAssumption DEF Create, Carried
    <3>2. entries = EmptyTable(0)
      BY <3>1 DEF IInv, TypeOK, Table, EmptyTable, Slots
    <3> QED
      BY <3>1, <3>2
  <2>2. Bindings = << >> /\ Bindings' = << >>
    BY <1>0, <2>1, NoBindings
  <2> QED
    BY <1>1, <2>2, NothingAsked DEF Create, Added, Destroy, Remove
<1>2. ASSUME Destroy
      PROVE  Asked
  <2>1. Bindings' = << >>
    BY <1>0, <1>2, NoBindings DEF Destroy
  <2>2. ~Added /\ \A k \in Keys : ~Remove(k)
    BY <1>2 DEF Destroy, Added, Remove, Return
  <2> QED
    BY <1>2, <2>1, <2>2 DEF Asked, Map!Clear
<1>3. ASSUME NEW j \in Keys, Remove(j)
      PROVE  Asked
  <2>1. ~Added /\ ~Destroy /\ capacity' = capacity
    BY <1>3 DEF Destroy, Added, Remove, Return
  <2>2. ASSUME NEW k \in Keys, Remove(k)
        PROVE  Map!Delete(k)
    BY <1>0, <2>1, <2>2, RemoveUnbinds DEF Map!Delete
  <2> QED
    BY <1>3, <2>1, <2>2 DEF Asked
<1>4. CASE CreateFails \/ \E k \in Keys : RemoveMisses(k)
  <2>1. /\ entries' = entries /\ capacity' = capacity /\ len' = len
        /\ pc # "probe" /\ pc' # "destroyed"
    BY <1>4 DEF CreateFails, RemoveMisses, Return, table
  <2>2. ~Added /\ ~Destroy /\ \A k \in Keys : ~Remove(k)
    BY <1>0, <2>1 DEF Added, Destroy, Remove
  <2> QED
    BY <1>0, <2>1, <2>2, NothingAsked
<1> QED
  BY <1>1, <1>2, <1>3, <1>4 DEF OtherCalls

LEMMA AskedStep ==
    ASSUME IInv, SafeInv, Carried, Good(entries', capacity'), [CarefulNext]_vars
    PROVE  Asked
<1>1. /\ Bindings = BindingsOf(entries, capacity)
      /\ Bindings' = BindingsOf(entries', capacity')
      /\ len \in Nat
  BY DEF Bindings, Bound, BindingsOf, BoundIn, IInv, TypeOK
<1>2. CASE OtherCalls
  BY <1>2, CallsAsked
<1>3. CASE \E k \in Keys, v \in Values : CarefulAdd(k, v)
  BY <1>1, <1>3, NothingAsked DEF CarefulAdd, Add, table, Added, Destroy, Remove
<1>4. CASE GrowStart \/ GrowFails \/ RehashSkip \/ RehashTombstone \/ RehashMove
           \/ AddNewFails \/ AddHitsEnd
  <2>1. entries' = entries /\ capacity' = capacity /\ pc # "idle"
    BY <1>4 DEF GrowStart, GrowFails, RehashSkip, RehashTombstone, RehashMove, Rehashing,
                AddNewFails, AddHitsEnd, table
  <2>2. ~Added
    BY <1>4 DEF GrowStart, GrowFails, RehashSkip, RehashTombstone, RehashMove, Rehashing,
                AddNewFails, AddHitsEnd, Return, Added
  <2> QED
    BY <1>1, <2>1, <2>2, NothingAsked DEF Destroy, Remove
<1>5. CASE RehashDone
  <2>1. entries' = newEntries /\ capacity' = 2 * capacity
    BY <1>5 DEF RehashDone
  <2>2. Bindings' = Bindings
    BY <1>1, <1>5, <2>1, RehashBinds
  <2> QED
    BY <1>5, <2>2, NothingAsked DEF RehashDone, Added, Destroy, Remove
<1>6. CASE AddReuse \/ AddOverwrite \/ AddNew
  <2>1. pc = "probe" /\ capacity' = capacity /\ pc' = "idle" /\ ret' = 1
    BY <1>6 DEF AddReuse, AddOverwrite, AddNew, Return
  <2>2. PICK s \in Slots(capacity), b \in Blocks : FirstStop(s) /\ Store(s, b)
    BY <1>6, AddsStore
  <2>3. Bindings' = [x \in DOMAIN Bindings \union {call.key} |->
                        IF x = call.key THEN call.value ELSE Bindings[x]]
    BY <1>1, <2>1, <2>2, StoreBinds
  <2>4. Map!Put(call.key, call.value)
    BY <2>3 DEF Map!Put
  <2> QED
    BY <2>1, <2>4 DEF Asked, Added, Destroy, Remove
<1>7. CASE UNCHANGED vars
  BY <1>1, <1>7, NothingAsked DEF vars, Added, Destroy, Remove
<1> QED
  BY <1>2, <1>3, <1>4, <1>5, <1>6, <1>7 DEF CarefulNext, Running

\* Under careful callers the map is a finite map: adding, growing, rehashing,
\* restarting and removing bind and unbind what the calls ask for and leave
\* every other key as it was, for any keys, hash function and capacities.
THEOREM IsAMap == CarefulSpec => ImplementsMap
<1>1. CarefulSpec => [](IInv /\ SafeInv /\ Carried)
  <2>1. Init => IInv /\ SafeInv /\ Carried
    BY InitIInv, InitSafe DEF Init, Carried
  <2>2. IInv /\ SafeInv /\ Carried /\ [CarefulNext]_vars => (IInv /\ SafeInv /\ Carried)'
    BY CarefulIsNext, NextIInv, SafeStep, CarriedStep
  <2> QED
    BY <2>1, <2>2, PTL DEF CarefulSpec
<1>2. Init => Map!KVInit
  <2> SUFFICES ASSUME Init PROVE Bindings = << >>
    BY DEF Map!KVInit
  <2>1. Bindings = BindingsOf(entries, capacity)
    BY DEF Bindings, Bound, BindingsOf, BoundIn
  <2> QED
    BY <2>1, NoBindings DEF Init
<1>3. ASSUME IInv, SafeInv, Carried, (IInv /\ SafeInv /\ Carried)', [CarefulNext]_vars
      PROVE  Asked /\ (Map!KVNext \/ UNCHANGED Bindings)
  <2>1. Good(entries', capacity')
    BY <1>3 DEF IInv, TypeOK, Table, ATable, ProbeChains, SafeInv, Good
  <2>2. Asked
    BY <1>3, <2>1, AskedStep
  <2>3. Added => call.key \in Keys /\ call.value \in Values
    BY <1>3 DEF IInv, TypeOK, Added
  <2>4. CASE Added
    BY <2>2, <2>3, <2>4 DEF Asked, Map!KVNext
  <2>5. CASE \E k \in Keys : Remove(k)
    BY <2>2, <2>5 DEF Asked, Map!KVNext
  <2>6. CASE Destroy \/ UNCHANGED Bindings
    BY <2>2, <2>6 DEF Asked, Map!KVNext
  <2> QED
    BY <2>2, <2>4, <2>5, <2>6 DEF Asked
<1>4. CarefulSpec => Map!KVSpec
  BY <1>1, <1>2, <1>3, PTL DEF CarefulSpec, Map!KVSpec
<1>5. CarefulSpec => [][Asked]_vars
  BY <1>1, <1>3, PTL DEF CarefulSpec
<1> QED
  BY <1>4, <1>5, PTL DEF ImplementsMap
======================================================================
