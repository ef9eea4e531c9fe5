--------------------------- MODULE ListSpec ---------------------------
(* What every list of utils/ promises a caller, array or linked: a      *)
(* sequence addressed by zero-based index.  A call that fails leaves it *)
(* as it was.                                                           *)
EXTENDS Integers, Sequences, SequencesExt

CONSTANT Elems

VARIABLE list

ListInit == list = << >>

\* al_insert, nal_insert, ll_add, nll_add returning 1.
Insert(i, e) ==
    /\ i \in 0 .. Len(list)
    /\ list' = InsertAt(list, i + 1, e)

\* al_remove, nal_remove, ll_remove, nll_remove returning 1.
Delete(i) ==
    /\ i \in 0 .. Len(list) - 1
    /\ list' = RemoveAt(list, i + 1)

\* The destroy functions.
Clear == list' = << >>

ListNext ==
    \/ \E i \in 0 .. Len(list), e \in Elems : Insert(i, e)
    \/ \E i \in 0 .. Len(list) - 1 : Delete(i)
    \/ Clear

ListSpecification == ListInit /\ [][ListNext]_list

\* ll_change returning a node.
Replace(i, e) ==
    /\ i \in 0 .. Len(list) - 1
    /\ list' = [list EXCEPT ![i + 1] = e]

ChangeableNext ==
    \/ ListNext
    \/ \E i \in 0 .. Len(list) - 1, e \in Elems : Replace(i, e)

\* The linked lists, whose elements can be replaced.
ChangeableSpecification == ListInit /\ [][ChangeableNext]_list
======================================================================
