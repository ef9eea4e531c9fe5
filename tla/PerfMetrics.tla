------------------------- MODULE PerfMetrics -------------------------
(* perf-metrics/perf-metrics-mt.c: in each test main starts one thread    *)
(* per CPU on a slot of one array, joins them and adds up the slots.  A   *)
(* time measured is abstracted to the test it was measured in.            *)
EXTENDS Integers

CONSTANTS
    NumCpus,       \* num_cpus: the CPUs of the machine, or an argument that is
                   \* at least 1 and at most those
    NumTests,      \* the tests, 5 in the code
    Junk           \* memory as malloc returns it

ASSUME CpuAssumption == NumCpus \in Nat \ {0}
ASSUME TestAssumption == NumTests \in Nat \ {0}
ASSUME JunkAssumption == Junk \notin Int

Slots == 0 .. NumCpus - 1
Tests == 1 .. NumTests
Failed == -1       \* what benchmark_memory_ops returns without memory
Threads == Tests \X Slots

VARIABLES
    pc,            \* main: "malloc", "create", "join", "add", "added", "end", "returned", "exited"
    test, i,       \* the counters of main's loops
    results,       \* the array
    allocated,     \* whether it is allocated
    handle,        \* threads[i]: the thread started last on the slot
    thread,        \* where each thread is
    added,         \* what main has added up: the total of a slot in a test
    status         \* the exit status, if main has returned

counters == <<test, i>>
vars == <<pc, counters, results, allocated, handle, thread, added, status>>

Time == Tests \union {Junk}
Result == [id : Slots \union {Junk}, int : Time, float : Time,
           mem : Time \union {Failed}, total : SUBSET (Time \union {Failed})]
Sum == [test : Tests, slot : Slots, total : SUBSET (Time \union {Failed})]
Blank == [id |-> Junk, int |-> Junk, float |-> Junk, mem |-> Junk, total |-> {Junk}]

Started(t) == thread[t] \notin {"none", "done"}

----------------------------------------------------------------------
Init ==
    /\ pc = "malloc" /\ test = 1 /\ i = 0
    /\ results = [s \in Slots |-> Blank] /\ allocated = FALSE
    /\ handle = [s \in Slots |-> <<1, s>>]
    /\ thread = [t \in Threads |-> "none"]
    /\ added = {} /\ status = Junk

Malloc ==
    /\ pc = "malloc"
    /\ pc' = "create"
    /\ allocated' = TRUE
    /\ UNCHANGED <<counters, results, handle, thread, added, status>>

MallocFails ==
    /\ pc = "malloc"
    /\ pc' = "returned" /\ status' = 1
    /\ UNCHANGED <<counters, results, allocated, handle, thread, added>>

\* The turns of a loop over the slots, and what follows its last turn.
Turn(next) ==
    IF i < NumCpus - 1 THEN i' = i + 1 /\ UNCHANGED pc
                       ELSE i' = 0 /\ pc' = next

Create ==
    /\ pc = "create"
    /\ results' = [results EXCEPT ![i].id = i]
    /\ thread' = [thread EXCEPT ![<<test, i>>] = "start"]
    /\ handle' = [handle EXCEPT ![i] = <<test, i>>]
    /\ Turn("join")
    /\ UNCHANGED <<test, allocated, added, status>>

\* The threads started already go on while main returns.
CreateFails ==
    /\ pc = "create"
    /\ results' = [results EXCEPT ![i].id = i]
    /\ pc' = "returned" /\ status' = 1
    /\ UNCHANGED <<counters, allocated, handle, thread, added>>

\* Mutant of Join: the last thread is not waited for.
JoinButLast ==
    /\ pc = "join"
    /\ i < NumCpus - 1 => thread[handle[i]] = "done"
    /\ Turn("add")
    /\ UNCHANGED <<test, results, allocated, handle, thread, added, status>>

\* Mutant of Join: waits for the threads of the next test.
JoinNext ==
    /\ pc = "join"
    /\ thread[<<(test % NumTests) + 1, i>>] = "done"
    /\ Turn("add")
    /\ UNCHANGED <<test, results, allocated, handle, thread, added, status>>

Join ==
    /\ pc = "join"
    /\ thread[handle[i]] = "done"
    /\ Turn("add")
    /\ UNCHANGED <<test, results, allocated, handle, thread, added, status>>

Add ==
    /\ pc = "add"
    /\ added' = added \union
                  {[test |-> test, slot |-> i, total |-> results[i].total]}
    /\ Turn("added")
    /\ UNCHANGED <<test, results, allocated, handle, thread, status>>

\* The sums of a test go into the accumulators.
Accumulate ==
    /\ pc = "added"
    /\ IF test < NumTests THEN test' = test + 1 /\ pc' = "create"
                          ELSE pc' = "end" /\ UNCHANGED test
    /\ UNCHANGED <<i, results, allocated, handle, thread, added, status>>

\* The averages are printed and the arrays freed.
End ==
    /\ pc = "end"
    /\ allocated' = FALSE
    /\ pc' = "returned" /\ status' = 0
    /\ UNCHANGED <<counters, results, handle, thread, added>>

\* Returning from main ends the process, and every thread with it.
Exit ==
    /\ pc = "returned"
    /\ pc' = "exited"
    /\ UNCHANGED <<counters, results, allocated, handle, thread, added, status>>

----------------------------------------------------------------------
\* The thread function, write by write, on the slot it was given.
Goes(t, from, to) ==
    /\ pc # "exited"
    /\ thread[t] = from
    /\ thread' = [thread EXCEPT ![t] = to]
    /\ UNCHANGED <<pc, counters, allocated, handle, added, status>>

Start(t) == Goes(t, "start", "int") /\ UNCHANGED results

IntOps(t) ==
    /\ Goes(t, "int", "float")
    /\ results' = [results EXCEPT ![t[2]].int = t[1]]

FloatOps(t) ==
    /\ Goes(t, "float", "mem")
    /\ results' = [results EXCEPT ![t[2]].float = t[1]]

MemoryOps(t) ==
    /\ Goes(t, "mem", "total")
    /\ results' = [results EXCEPT ![t[2]].mem = t[1]]

\* Mutant of MemoryFails: the failure is not written into the slot.
MemoryFailsSilently(t) ==
    /\ Goes(t, "mem", "total")
    /\ UNCHANGED results

MemoryFails(t) ==
    /\ Goes(t, "mem", "total")
    /\ results' = [results EXCEPT ![t[2]].mem = Failed]

\* The score is a function of the total, and the total of the three times.
Total(t) ==
    /\ Goes(t, "total", "done")
    /\ results' = [results EXCEPT ![t[2]].total =
                      {results[t[2]].int, results[t[2]].float,
                       results[t[2]].mem}]

Main ==
    \/ Malloc \/ MallocFails \/ Create \/ CreateFails \/ Join
    \/ Add \/ Accumulate \/ End \/ Exit

Thread(t) ==
    \/ Start(t) \/ IntOps(t) \/ FloatOps(t)
    \/ MemoryOps(t) \/ MemoryFails(t) \/ Total(t)

Next == Main \/ \E t \in Threads : Thread(t)

Spec == Init /\ [][Next]_vars

\* The system schedules every thread.
FairSpec == Spec /\ WF_vars(Main) /\ \A t \in Threads : WF_vars(Thread(t))

----------------------------------------------------------------------
TypeOK ==
    /\ pc \in {"malloc", "create", "join", "add", "added", "end", "returned", "exited"}
    /\ test \in Tests /\ i \in Slots
    /\ results \in [Slots -> Result] /\ allocated \in BOOLEAN
    /\ handle \in [Slots -> Threads]
    /\ thread \in [Threads -> {"none", "start", "int", "float", "mem", "total", "done"}]
    /\ added \subseteq Sum /\ status \in {0, 1, Junk}

\* No thread runs on memory main has freed, also while main returns after a
\* thread could not be started and others are at work.
NoUseAfterFree ==
    pc # "exited" /\ (\E t \in Threads : Started(t)) => allocated

\* A slot is used by one of them at a time: by one thread, or by main, which
\* writes a slot to start a thread on it and reads it when all are joined.
SlotHasOneUser ==
    \A t \in Threads : Started(t) /\ pc # "exited" =>
        /\ \A u \in Threads : Started(u) /\ u[2] = t[2] => u = t
        /\ pc = "create" => t[2] < i
        /\ pc \notin {"add", "added", "end"}

\* The array of results is there for whoever uses a slot of it, and nobody
\* else uses that slot: what lets the threads run without a lock.
SlotsSafe == NoUseAfterFree /\ SlotHasOneUser

\* What is added up for a test was measured in that test, by all of its
\* threads: nothing is left in a slot from the test before, and when the
\* program succeeds every slot of every test is in the average.
TotalsAreOfTheirTest ==
    /\ \A a \in added : a.total \in {{a.test}, {a.test, Failed}}
    /\ status = 0 => \A t \in Threads : \E a \in added : a.test = t[1] /\ a.slot = t[2]

\* The program ends.
Ends == <>(pc = "exited")
======================================================================
