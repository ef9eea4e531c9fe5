----------------------------- MODULE HMap -----------------------------
(* The open-addressing hash map of utils/hmap.c, as a sequential object  *)
(* whose calls may be cut short by a failing calloc.  hmap_add is split  *)
(* at its loops, so that the slot-by-slot rehash of hmap_grow is visible *)
(* to the invariants; get and remove never leave the map half changed.   *)
EXTENDS Integers, FiniteSets

CONSTANTS
    Keys, Values,
    Hash,          \* FNV-1a of a key before it is masked (hmap.c:83-88)
    Null,          \* the NULL pointer
    Blocks,        \* addresses of entries
    Calloc(_),     \* the blocks calloc may return when those of a set are
                   \* allocated
    Capacities,    \* what callers pass to hmap_create
    MaxCapacity    \* bound: calloc of a longer table fails

Entry == [at : Blocks, key : Keys, value : Values, live : BOOLEAN]

ASSUME HashAssumption == Hash \in [Keys -> Nat]
ASSUME NullAssumption == Null \notin Entry
ASSUME CallocAssumption == \A H \in SUBSET Blocks : Calloc(H) \subseteq Blocks \ H
ASSUME CapacityAssumption == Capacities \subseteq Nat /\ MaxCapacity \in Nat

VARIABLES
    pc,            \* "none", "idle", "grow", "rehash", "probe" or "destroyed"
    entries,       \* map->entries, a function on 0 .. capacity - 1
    capacity, len, \* map->capacity and map->len
    newEntries,    \* hmap_grow's new table while it is being filled
    ii, eleCount,  \* hmap_grow's loop variables
    call,          \* the arguments of the running hmap_add, if any
    ret,           \* what the last finished call returned
    heap           \* the HEntry blocks allocated and not yet freed

table == <<entries, capacity, len>>
loop == <<newEntries, ii, eleCount>>
vars == <<pc, entries, capacity, len, newEntries, ii, eleCount, call, ret, heap>>

----------------------------------------------------------------------
\* The slots of a table of c entries, and an empty one.
Slots(c) == 0 .. c - 1
EmptyTable(c) == [s \in Slots(c) |-> Null]

Live(T, s) == T[s] # Null /\ T[s].live
Tombstone(T, s) == T[s] # Null /\ ~T[s].live
LiveSlots(T, c) == {s \in Slots(c) : Live(T, s)}
UsedSlots(T, c) == {s \in Slots(c) : T[s] # Null}

\* hash & (capacity - 1), the remainder since capacity is a power of two.
Home(k, c) == Hash[k] % c

\* The slots a cyclic probe from h visits before it gets to s.
Between(h, s, c) == IF h <= s THEN h .. s - 1 ELSE (h .. c - 1) \union (0 .. s - 1)

\* Where hmap_get ends for k: the first live entry with that key, if the
\* cyclic probe from k's home meets it before a NULL slot.
Matches(T, s, k) == Live(T, s) /\ T[s].key = k
Found(T, c, k) ==
    {s \in Slots(c) : /\ Matches(T, s, k)
                      /\ \A t \in Between(Home(k, c), s, c) :
                            T[t] # Null /\ ~Matches(T, t, k)}

IsPowerOfTwo(n) == \E e \in 0 .. n : n = 2^e

----------------------------------------------------------------------
Init ==
    /\ pc = "none"
    /\ entries = EmptyTable(0) /\ capacity = 0 /\ len = 0
    /\ newEntries = Null /\ ii = 0 /\ eleCount = 0
    /\ call = Null /\ ret = 0 /\ heap = {}

\* hmap_create: NULL for a capacity that is no power of two, or when
\* one of the two callocs fails (the handle is then freed again).
Create(c) ==
    /\ pc = "none"
    /\ IsPowerOfTwo(c)
    /\ pc' = "idle" /\ ret' = 1
    /\ capacity' = c /\ entries' = EmptyTable(c) /\ len' = 0
    /\ UNCHANGED <<loop, call, heap>>

CreateFails ==
    /\ pc = "none"
    /\ ret' = 0
    /\ UNCHANGED <<pc, table, loop, call, heap>>

\* hmap_destroy frees every entry the table still points to.
Destroy ==
    /\ pc = "idle"
    /\ pc' = "destroyed"
    /\ heap' = heap \ {entries[s].at : s \in UsedSlots(entries, capacity)}
    /\ entries' = EmptyTable(0) /\ capacity' = 0 /\ len' = 0
    /\ UNCHANGED <<loop, call, ret>>

\* A call ends: its arguments are gone and its result is r.
Return(r) == pc' = "idle" /\ call' = Null /\ ret' = r

\* Mutant of Add: grows a full table only.
AddGrowsLate(k, v) ==
    /\ pc = "idle"
    /\ call' = [key |-> k, value |-> v]
    /\ pc' = IF len = capacity THEN "grow" ELSE "probe"
    /\ UNCHANGED <<table, loop, ret, heap>>

\* hmap_add starts: a table that is over half full is grown first.
Add(k, v) ==
    /\ pc = "idle"
    /\ call' = [key |-> k, value |-> v]
    /\ pc' = IF len > capacity \div 2 THEN "grow" ELSE "probe"
    /\ UNCHANGED <<table, loop, ret, heap>>

\* hmap_grow: calloc of the doubled table ...
GrowStart ==
    /\ pc = "grow"
    /\ 2 * capacity <= MaxCapacity
    /\ pc' = "rehash"
    /\ newEntries' = EmptyTable(2 * capacity) /\ ii' = 0 /\ eleCount' = len
    /\ UNCHANGED <<table, call, ret, heap>>

\* ... or its failure, on which hmap_add returns 0.
GrowFails ==
    /\ pc = "grow"
    /\ Return(0)
    /\ UNCHANGED <<table, loop, heap>>

\* One turn of the rehash loop: a NULL slot is skipped, a tombstone freed,
\* a live entry moved to the first free slot of its cyclic probe.
Rehashing == pc = "rehash" /\ ii < capacity /\ eleCount > 0

RehashSkip ==
    /\ Rehashing
    /\ entries[ii] = Null
    /\ ii' = ii + 1
    /\ UNCHANGED <<pc, table, newEntries, eleCount, call, ret, heap>>

\* Mutant of RehashTombstone: frees the tombstone and moves it all the same.
RehashFreedTombstone ==
    /\ Rehashing
    /\ Tombstone(entries, ii)
    /\ \E s \in Slots(2 * capacity) :
          /\ newEntries[s] = Null
          /\ newEntries' = [newEntries EXCEPT ![s] = entries[ii]]
    /\ heap' = heap \ {entries[ii].at}
    /\ ii' = ii + 1 /\ eleCount' = eleCount - 1
    /\ UNCHANGED <<pc, table, call, ret>>

RehashTombstone ==
    /\ Rehashing
    /\ Tombstone(entries, ii)
    /\ heap' = heap \ {entries[ii].at}
    /\ ii' = ii + 1
    /\ UNCHANGED <<pc, table, newEntries, eleCount, call, ret>>

RehashMove ==
    /\ Rehashing
    /\ Live(entries, ii)
    /\ \E s \in Slots(2 * capacity) :
          /\ newEntries[s] = Null
          /\ \A t \in Between(Home(entries[ii].key, 2 * capacity), s, 2 * capacity) :
                newEntries[t] # Null
          /\ newEntries' = [newEntries EXCEPT ![s] = entries[ii]]
    /\ ii' = ii + 1 /\ eleCount' = eleCount - 1
    /\ UNCHANGED <<pc, table, call, ret, heap>>

\* Mutant of RehashDone: the loop stops one slot short.
RehashStopsShort ==
    /\ pc = "rehash"
    /\ ii >= capacity - 1 \/ eleCount = 0
    /\ pc' = "probe"
    /\ entries' = newEntries /\ capacity' = 2 * capacity
    /\ newEntries' = Null /\ ii' = 0 /\ eleCount' = 0
    /\ UNCHANGED <<len, call, ret, heap>>

\* The loop ends at the last slot or once len entries were moved; the new
\* table replaces the old one and the insertion (re)starts.
RehashDone ==
    /\ pc = "rehash"
    /\ ii >= capacity \/ eleCount = 0
    /\ pc' = "probe"
    /\ entries' = newEntries /\ capacity' = 2 * capacity
    /\ newEntries' = Null /\ ii' = 0 /\ eleCount' = 0
    /\ UNCHANGED <<len, call, ret, heap>>

\* Mutant of Stops: no comparison with the key.
StopsAtFree(s) == \/ entries[s] = Null
                  \/ Tombstone(entries, s)

\* Insertion probes upward from the key's home and does not wrap.
Stops(s) == \/ entries[s] = Null
            \/ Tombstone(entries, s)
            \/ Matches(entries, s, call.key)
FirstStop(s) ==
    /\ s \in Home(call.key, capacity) .. capacity - 1
    /\ Stops(s)
    /\ \A t \in Home(call.key, capacity) .. s - 1 : ~Stops(t)

Store(s, b) ==
    entries' = [entries EXCEPT ![s] =
                   [at |-> b, key |-> call.key, value |-> call.value, live |-> TRUE]]

\* Mutant of AddReuse: the length is not counted up.
AddReuseUncounted ==
    /\ pc = "probe"
    /\ \E s \in Slots(capacity) : FirstStop(s) /\ Tombstone(entries, s) /\ Store(s, entries[s].at)
    /\ Return(1)
    /\ UNCHANGED <<len, capacity, loop, heap>>

\* A tombstone on the way is reused at once, wherever the key may live.
AddReuse ==
    /\ pc = "probe"
    /\ \E s \in Slots(capacity) : FirstStop(s) /\ Tombstone(entries, s) /\ Store(s, entries[s].at)
    /\ len' = len + 1
    /\ Return(1)
    /\ UNCHANGED <<capacity, loop, heap>>

\* Mutant of AddOverwrite: the entry found keeps the value it has.
AddOverwriteKeeps ==
    /\ pc = "probe"
    /\ \E s \in Slots(capacity) : FirstStop(s) /\ Matches(entries, s, call.key)
    /\ Return(1)
    /\ UNCHANGED <<table, loop, heap>>

AddOverwrite ==
    /\ pc = "probe"
    /\ \E s \in Slots(capacity) :
          FirstStop(s) /\ Matches(entries, s, call.key) /\ Store(s, entries[s].at)
    /\ Return(1)
    /\ UNCHANGED <<len, capacity, loop, heap>>

AddNew ==
    /\ pc = "probe"
    /\ \E s \in Slots(capacity), b \in Calloc(heap) :
          FirstStop(s) /\ entries[s] = Null /\ Store(s, b) /\ heap' = heap \union {b}
    /\ len' = len + 1
    /\ Return(1)
    /\ UNCHANGED <<capacity, loop>>

AddNewFails ==
    /\ pc = "probe"
    /\ \E s \in Slots(capacity) : FirstStop(s) /\ entries[s] = Null
    /\ Return(0)
    /\ UNCHANGED <<table, loop, heap>>

\* Mutant of AddHitsEnd: restarts in the same table.
AddRestartsUngrown ==
    /\ pc = "probe"
    /\ \A s \in Home(call.key, capacity) .. capacity - 1 : ~Stops(s)
    /\ UNCHANGED vars

\* The probe ran off the end of the array: grow and restart.
AddHitsEnd ==
    /\ pc = "probe"
    /\ \A s \in Home(call.key, capacity) .. capacity - 1 : ~Stops(s)
    /\ pc' = "grow"
    /\ UNCHANGED <<table, loop, call, ret, heap>>

\* Mutant of Remove: clears the slot instead of leaving a tombstone.
RemoveClears(k) ==
    /\ pc = "idle"
    /\ \E s \in Found(entries, capacity, k) : entries' = [entries EXCEPT ![s] = Null]
    /\ len' = len - 1
    /\ Return(1)
    /\ UNCHANGED <<capacity, loop, heap>>

\* hmap_remove turns the entry hmap_get finds into a tombstone.
Remove(k) ==
    /\ pc = "idle"
    /\ \E s \in Found(entries, capacity, k) :
          entries' = [entries EXCEPT ![s].live = FALSE]
    /\ len' = len - 1
    /\ Return(1)
    /\ UNCHANGED <<capacity, loop, heap>>

RemoveMisses(k) ==
    /\ pc = "idle"
    /\ Found(entries, capacity, k) = {}
    /\ Return(0)
    /\ UNCHANGED <<table, loop, heap>>

Running ==
    \/ GrowStart \/ GrowFails
    \/ RehashSkip \/ RehashTombstone \/ RehashMove \/ RehashDone
    \/ AddReuse \/ AddOverwrite \/ AddNew \/ AddNewFails \/ AddHitsEnd

OtherCalls ==
    \/ \E c \in Capacities : Create(c)
    \/ CreateFails
    \/ Destroy
    \/ \E k \in Keys : Remove(k) \/ RemoveMisses(k)

Next ==
    \/ OtherCalls
    \/ \E k \in Keys, v \in Values : Add(k, v)
    \/ Running

Spec == Init /\ [][Next]_vars

\* The program is one thread that runs a call it has entered to its end.
FairSpec == Spec /\ WF_vars(Running)

----------------------------------------------------------------------
Table(T, c) == T \in [Slots(c) -> Entry \union {Null}]

TypeOK ==
    /\ pc \in {"none", "idle", "grow", "rehash", "probe", "destroyed"}
    /\ capacity \in Nat /\ Table(entries, capacity) /\ len \in Nat
    /\ IF pc = "rehash"
       THEN Table(newEntries, 2 * capacity) /\ ii \in 0 .. capacity /\ eleCount \in Nat
       ELSE newEntries = Null /\ ii = 0 /\ eleCount = 0
    /\ IF pc \in {"grow", "rehash", "probe"}
       THEN call \in [key : Keys, value : Values]
       ELSE call = Null
    /\ ret \in {0, 1} /\ heap \subseteq Blocks

\* map->len, which decides when to grow and when the rehash may stop, is
\* at every moment the number of live entries of the table; while the
\* rehash runs, the entries moved and those still to move add up to it.
LenCountsLive ==
    /\ len = Cardinality(LiveSlots(entries, capacity))
    /\ pc = "rehash" =>
          /\ eleCount = Cardinality({s \in LiveSlots(entries, capacity) : s >= ii})
          /\ len - eleCount = Cardinality(UsedSlots(newEntries, 2 * capacity))

\* No entry is cut off from the home of its key by a NULL slot, where
\* hmap_get stops (hmap.c:153): neither removal, reuse of a tombstone, nor
\* a half-done rehash may open a gap in a probe chain.
Reachable(T, c) ==
    \A s \in LiveSlots(T, c) :
       \A t \in Between(Home(T[s].key, c), s, c) : T[t] # Null
ProbeChains ==
    /\ Reachable(entries, capacity)
    /\ pc = "rehash" => Reachable(newEntries, 2 * capacity)

\* The rehash loop looks for a NULL slot with no bound (hmap.c:215): while
\* entries remain to be moved the new table has one, since the map grows
\* before it is more than one entry over half full (hmap.c:238).
RehashHasRoom ==
    /\ capacity > 0 => len <= capacity \div 2 + 1
    /\ Rehashing => \E s \in Slots(2 * capacity) : newEntries[s] = Null

\* The slots that point to entries to be used again: all of the table, but
\* while it is rehashed those the loop has yet to visit.
Pending == {s \in UsedSlots(entries, capacity) : pc = "rehash" => s >= ii}
Moved == IF pc = "rehash" THEN UsedSlots(newEntries, 2 * capacity) ELSE {}

\* Every entry that will be used again is still allocated, and no two slots
\* point to one, neither within a table nor, while it is rehashed, one of
\* the new and one the loop has yet to visit: so nothing freed is used, or
\* freed again.
EntriesAllocated ==
    /\ \A s \in Pending : entries[s].at \in heap
    /\ \A s, t \in Pending : entries[s].at = entries[t].at => s = t
    /\ \A s \in Moved : newEntries[s].at \in heap
    /\ \A s, t \in Moved : newEntries[s].at = newEntries[t].at => s = t
    /\ \A s \in Pending, t \in Moved : entries[s].at # newEntries[t].at

\* An hmap_add that returns 1 leaves the key bound to the value: the next
\* hmap_get of it returns that value, even if an older entry of the same
\* key survives elsewhere in the table.
ValueOf(k) == {entries[s].value : s \in Found(entries, capacity, k)}
AddIsSeen ==
    [][pc = "probe" /\ pc' = "idle" /\ ret' = 1
          => \A k \in {call.key} : ValueOf(k)' = {call.value}]_vars

\* Every call returns, however often the probe reaches the end of the
\* array and restarts in a larger table.
CallsReturn == pc \in {"grow", "rehash", "probe"} ~> pc = "idle"

\* hmap.h:84-91: hmap_remove that returns 1 has removed the key, so that
\* hmap_get no longer finds it.
RemoveForgets ==
    [][\A k \in Keys : Remove(k) => ValueOf(k)' = {}]_vars
======================================================================
