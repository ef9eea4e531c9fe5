------------------------- MODULE HMapSafeUse -------------------------
(* The hash map under callers that never let hmap_add meet a tombstone  *)
(* before the key's own entry: they add a key only after hmap_get has   *)
(* returned NULL for it, as deldup.c:66-80 does, or they have removed   *)
(* nothing from the table yet.  Under that discipline the map keeps one *)
(* entry per key and implements the abstract map of KVMap.              *)
EXTENDS HMap

NoTombstones == \A s \in Slots(capacity) : ~Tombstone(entries, s)

CarefulAdd(k, v) ==
    /\ Found(entries, capacity, k) = {} \/ NoTombstones
    /\ Add(k, v)

CarefulNext ==
    \/ OtherCalls
    \/ \E k \in Keys, v \in Values : CarefulAdd(k, v)
    \/ Running

CarefulSpec == Init /\ [][CarefulNext]_vars

----------------------------------------------------------------------
\* A key never has two live entries, counting, during a rehash, the ones
\* already moved and the ones still to be moved.
OneEntryPerKey ==
    /\ \A k \in Keys, s, t \in Slots(capacity) :
          Matches(entries, s, k) /\ Matches(entries, t, k) => s = t
    /\ pc = "rehash" =>
          \A k \in Keys, s \in Slots(2 * capacity) :
             Matches(newEntries, s, k) =>
                /\ \A t \in Slots(2 * capacity) : Matches(newEntries, t, k) => s = t
                /\ \A t \in ii .. capacity - 1 : ~Matches(entries, t, k)

\* The bindings a caller sees: what hmap_get would return for each key.
Bound == {k \in Keys : Found(entries, capacity, k) # {}}
Bindings ==
    [k \in Bound |-> (CHOOSE e \in {entries[s] : s \in Found(entries, capacity, k)} :
                         TRUE).value]

Map == INSTANCE KVMap WITH m <- Bindings

\* What a step does to the bindings is what its call was asked for: an
\* hmap_add that returns 1 binds its key to its value, hmap_remove of a key
\* that is there unbinds it, hmap_destroy unbinds them all, and no other
\* step, a failed call's included, changes any.
Added == pc = "probe" /\ pc' = "idle" /\ ret' = 1
Asked ==
    /\ Added => Map!Put(call.key, call.value)
    /\ \A k \in Keys : Remove(k) => Map!Delete(k)
    /\ Destroy => Map!Clear
    /\ Added \/ (\E k \in Keys : Remove(k)) \/ Destroy \/ UNCHANGED Bindings

\* The map behind hmap.h is a finite map, and its calls do what they say:
\* growing and rehashing, the restart of an insertion, the reuse of
\* tombstones and every failed call leave what hmap_get returns for every
\* key as it was.
ImplementsMap == Map!KVSpec /\ [][Asked]_vars

======================================================================
