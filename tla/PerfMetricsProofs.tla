---------------------- MODULE PerfMetricsProofs ----------------------
(* The safety properties of PerfMetrics for any number of threads and    *)
(* tests.                                                                *)
EXTENDS PerfMetrics, TLAPS

\* How far the threads can be at each point of main: those of earlier tests
\* are done, those of later ones do not exist, and of this test's there are
\* as many as main's loops say.
ThreadsAreWhereMainThinks ==
    /\ \A t \in Threads : t[1] > test => thread[t] = "none"
    /\ \A t \in Threads : t[1] < test => thread[t] = "done"
    /\ pc = "malloc" => test = 1 /\ i = 0 /\ \A t \in Threads : thread[t] = "none"
    /\ pc = "create" => \A s \in Slots : thread[<<test, s>>] = "none" <=> s >= i
    /\ pc = "join" => \A s \in Slots :
          /\ handle[s] = <<test, s>>
          /\ thread[<<test, s>>] # "none"
          /\ s < i => thread[<<test, s>>] = "done"
    /\ pc = "create" => \A s \in Slots : s < i => handle[s] = <<test, s>>
    /\ pc \in {"add", "added", "end"} => \A s \in Slots : thread[<<test, s>>] = "done"
    /\ pc \in {"added", "end"} => i = 0
    /\ pc = "end" => test = NumTests

\* The array is there as long as somebody needs it.
ArrayIsThere ==
    /\ pc \in {"create", "join", "add", "added", "end"} => allocated
    /\ pc \in {"create", "join", "add", "added", "end", "malloc"} => status = Junk
    /\ (\E t \in Threads : Started(t)) => allocated

\* What a thread of this test has written into its slot so far.
SlotHolds(t) ==
    LET r == results[t[2]] IN
    /\ thread[t] \in {"float", "mem", "total", "done"} => r.int = t[1]
    /\ thread[t] \in {"mem", "total", "done"} => r.float = t[1]
    /\ thread[t] \in {"total", "done"} => r.mem \in {t[1], Failed}
    /\ thread[t] = "done" => r.total \in {{t[1]}, {t[1], Failed}}

Added(n, s) == \E a \in added : a.test = n /\ a.slot = s

\* Which totals have been added so far.
Sums ==
    /\ \A s \in Slots : SlotHolds(<<test, s>>)
    /\ \A a \in added : a.total \in {{a.test}, {a.test, Failed}}
    /\ \A n \in Tests, s \in Slots : n < test => Added(n, s)
    /\ pc = "add" => \A s \in Slots : s < i => Added(test, s)
    /\ pc \in {"added", "end"} => \A s \in Slots : Added(test, s)
    /\ status = 0 => \A n \in Tests, s \in Slots : Added(n, s)

Inductive == TypeOK /\ ThreadsAreWhereMainThinks /\ ArrayIsThere /\ Sums

----------------------------------------------------------------------
\* A turn of a loop stays among the slots.
LEMMA TurnInRange ==
    ASSUME i \in Slots, NEW next, Turn(next)
    PROVE  /\ i' \in Slots
           /\ \/ i < NumCpus - 1 /\ i' = i + 1 /\ pc' = pc
              \/ i = NumCpus - 1 /\ i' = 0 /\ pc' = next
BY CpuAssumption DEF Turn, Slots

\* Types, for the actions of main.
LEMMA TypeMain == TypeOK /\ Main => TypeOK'
<1> SUFFICES ASSUME TypeOK, Main PROVE TypeOK'
    OBVIOUS
<1> USE DEF TypeOK
<1>1. CASE Malloc
    BY <1>1 DEF Malloc, counters
<1>2. CASE MallocFails
    BY <1>2 DEF MallocFails, counters
<1>3. CASE Create
    <2>1. i' \in Slots /\ pc' \in {"create", "join"}
        BY <1>3, TurnInRange DEF Create
    <2>2. <<test, i>> \in Threads
        BY DEF Threads
    <2>3. results' \in [Slots -> Result] /\ allocated' \in BOOLEAN
        BY <1>3 DEF Create, Result
    <2> QED
        BY <1>3, <2>1, <2>2, <2>3 DEF Create
<1>4. CASE CreateFails
    <2>1. results' \in [Slots -> Result] /\ allocated' \in BOOLEAN
        BY <1>4 DEF CreateFails, Result
    <2> QED
        BY <1>4, <2>1 DEF CreateFails, counters
<1>5. CASE Join
    BY <1>5, TurnInRange DEF Join
<1>6. CASE Add
    <2>1. [test |-> test, slot |-> i, total |-> results[i].total] \in Sum
        BY DEF Sum, Result
    <2>2. i' \in Slots /\ pc' \in {"add", "added"}
        BY <1>6, TurnInRange DEF Add
    <2> QED
        BY <1>6, <2>1, <2>2 DEF Add
<1>7. CASE Accumulate
    BY <1>7, TestAssumption DEF Accumulate, Tests
<1>8. CASE End
    BY <1>8 DEF End, counters
<1>9. CASE Exit
    BY <1>9 DEF Exit, counters
<1> QED
    BY <1>1, <1>2, <1>3, <1>4, <1>5, <1>6, <1>7, <1>8, <1>9 DEF Main

\* Types, for a thread.
LEMMA TypeThread ==
    ASSUME TypeOK, NEW t \in Threads, Thread(t)
    PROVE  TypeOK'
<1> USE DEF TypeOK
<1>1. t[1] \in Tests /\ t[2] \in Slots
    BY DEF Threads
<1>2. /\ UNCHANGED <<pc, counters, allocated, handle, added, status>>
      /\ thread' \in [Threads -> {"none", "start", "int", "float", "mem", "total", "done"}]
    BY DEF Thread, Start, IntOps, FloatOps, MemoryOps, MemoryFails, Total, Goes
<1>3. results' \in [Slots -> Result] /\ allocated' \in BOOLEAN
    <2> USE <1>1, <1>2 DEF Result, Time
    <2>1. CASE Start(t)
        BY <2>1 DEF Start
    <2>2. CASE IntOps(t)
        BY <2>2 DEF IntOps
    <2>3. CASE FloatOps(t)
        BY <2>3 DEF FloatOps
    <2>4. CASE MemoryOps(t)
        BY <2>4 DEF MemoryOps
    <2>5. CASE MemoryFails(t)
        BY <2>5 DEF MemoryFails
    <2>6. CASE Total(t)
        BY <2>6 DEF Total
    <2> QED
        BY <2>1, <2>2, <2>3, <2>4, <2>5, <2>6 DEF Thread
<1> QED
    BY <1>2, <1>3 DEF counters

LEMMA TypeStep == TypeOK /\ [Next]_vars => TypeOK'
<1>1. TypeOK /\ UNCHANGED vars => TypeOK'
    BY DEF TypeOK, vars, counters
<1> QED
    BY <1>1, TypeMain, TypeThread DEF Next

\* A thread is a pair of its test and its slot.
LEMMA ThreadParts ==
    ASSUME NEW t \in Threads
    PROVE  t[1] \in Tests /\ t[2] \in Slots /\ t = <<t[1], t[2]>>
BY DEF Threads

LEMMA ThreadMade ==
    ASSUME NEW n \in Tests, NEW s \in Slots
    PROVE  <<n, s>> \in Threads /\ <<n, s>>[1] = n /\ <<n, s>>[2] = s
BY DEF Threads

\* A thread that takes a step has been started, in the present test.
LEMMA RunningIsOfThisTest ==
    ASSUME TypeOK, ThreadsAreWhereMainThinks, NEW t \in Threads, Started(t)
    PROVE  t[1] = test
<1>1. t[1] \in Int /\ test \in Int
    BY ThreadParts DEF TypeOK, Tests
<1>2. ~(t[1] > test) /\ ~(t[1] < test)
    BY DEF ThreadsAreWhereMainThinks, Started
<1> QED
    BY <1>1, <1>2

\* The loops of main keep the account of its threads.
LEMMA ThreadsMain ==
    ASSUME TypeOK, ThreadsAreWhereMainThinks, Main
    PROVE  ThreadsAreWhereMainThinks'
<1> USE DEF ThreadsAreWhereMainThinks
<1>0. test \in Tests /\ i \in Slots /\ NumCpus - 1 \in Slots /\ Slots \subseteq Int
    BY CpuAssumption DEF TypeOK, Slots
<1>1. CASE Malloc
    <2>1. \A s \in Slots : thread[<<test, s>>] = "none" /\ s >= i
        BY <1>0, <1>1, ThreadMade DEF Malloc, Slots
    <2> QED
        BY <1>1, <2>1, <1>0 DEF Malloc, counters, Slots
<1>2. CASE MallocFails
    BY <1>2 DEF MallocFails, counters
<1>3. CASE Create
    <2> DEFINE new == <<test, i>>
    <2>1. new \in Threads /\ new[1] = test /\ new[2] = i
        BY <1>0, ThreadMade
    <2>2. /\ thread'[new] = "start" /\ handle'[i] = new
          /\ \A t \in Threads : t # new => thread'[t] = thread[t]
          /\ \A s \in Slots : s # i => handle'[s] = handle[s]
          /\ test' = test /\ pc = "create"
        BY <1>0, <1>3, <2>1 DEF Create, TypeOK
    <2>3. \A s \in Slots : s # i => <<test, s>> \in Threads /\ <<test, s>> # new
        BY <1>0, ThreadMade
    <2>4. \A t \in Threads : t[1] # test => thread'[t] = thread[t]
        BY <2>1, <2>2
    <2>5. /\ \A t \in Threads : t[1] > test' => thread'[t] = "none"
          /\ \A t \in Threads : t[1] < test' => thread'[t] = "done"
        BY <1>0, <2>2, <2>4, ThreadParts DEF Tests
    <2>6. \A s \in Slots : s # i => (thread'[<<test, s>>] = "none" <=> s >= i)
        BY <2>2, <2>3
    <2>7. CASE i < NumCpus - 1 /\ i' = i + 1 /\ pc' = pc
        <3>1. \A s \in Slots : thread'[<<test, s>>] = "none" <=> s >= i + 1
            BY <1>0, <2>2, <2>6 DEF Slots
        <3>2. \A s \in Slots : s < i + 1 => handle'[s] = <<test, s>>
            BY <1>0, <2>2 DEF Slots
        <3> QED
            BY <2>2, <2>5, <2>7, <3>1, <3>2
    <2>8. CASE i = NumCpus - 1 /\ i' = 0 /\ pc' = "join"
        <3>1. \A s \in Slots : s = i \/ s < i
            BY <2>8, CpuAssumption DEF Slots
        <3>2. \A s \in Slots : thread'[<<test, s>>] # "none" /\ handle'[s] = <<test, s>>
            BY <1>0, <2>2, <2>6, <3>1 DEF Slots
        <3>3. \A s \in Slots : ~(s < 0)
            BY DEF Slots
        <3> QED
            BY <2>2, <2>5, <2>8, <3>2, <3>3
    <2> QED
        BY <1>0, <1>3, <2>7, <2>8, TurnInRange DEF Create
<1>4. CASE CreateFails
    BY <1>4 DEF CreateFails, counters
<1>5. CASE Join
    <2>1. /\ thread' = thread /\ handle' = handle /\ test' = test /\ pc = "join"
          /\ thread[<<test, i>>] = "done"
        BY <1>0, <1>5 DEF Join
    <2>2. CASE i < NumCpus - 1 /\ i' = i + 1 /\ pc' = pc
        <3>1. \A s \in Slots : s < i + 1 => s = i \/ s < i
            BY <1>0 DEF Slots
        <3> QED
            BY <2>1, <2>2, <3>1
    <2>3. CASE i = NumCpus - 1 /\ i' = 0 /\ pc' = "add"
        <3>1. \A s \in Slots : s = i \/ s < i
            BY <2>3, CpuAssumption DEF Slots
        <3> QED
            BY <2>1, <2>3, <3>1
    <2> QED
        BY <1>0, <1>5, <2>2, <2>3, TurnInRange DEF Join
<1>6. CASE Add
    <2>1. thread' = thread /\ test' = test /\ pc = "add"
        BY <1>6 DEF Add
    <2> QED
        BY <1>0, <1>6, <2>1, TurnInRange DEF Add
<1>7. CASE Accumulate
    <2>1. thread' = thread /\ pc = "added" /\ i = 0 /\ i' = i
        BY <1>7 DEF Accumulate
    <2>2. CASE test < NumTests /\ test' = test + 1 /\ pc' = "create"
        <3>1. \A t \in Threads : t[1] = test => thread[t] = "done"
            BY <2>1, ThreadParts
        <3>2. \A t \in Threads : t[1] > test + 1 => t[1] > test
            BY <1>0, ThreadParts DEF Tests
        <3>3. \A t \in Threads : t[1] < test + 1 => t[1] < test \/ t[1] = test
            BY <1>0, ThreadParts DEF Tests
        <3>4. test + 1 \in Tests /\ test + 1 > test
            BY <1>0, <2>2, TestAssumption DEF Tests
        <3>5. \A s \in Slots : thread[<<test + 1, s>>] = "none" /\ s >= i
            BY <2>1, <3>4, ThreadMade DEF Slots
        <3>6. \A s \in Slots : ~(s < i)
            BY <2>1 DEF Slots
        <3> QED
            BY <2>1, <2>2, <3>1, <3>2, <3>3, <3>5, <3>6
    <2>3. CASE ~(test < NumTests) /\ test' = test /\ pc' = "end"
        <3>1. test = NumTests
            BY <1>0, <2>3, TestAssumption DEF Tests
        <3> QED
            BY <2>1, <2>3, <3>1
    <2> QED
        BY <1>7, <2>2, <2>3 DEF Accumulate
<1>8. CASE End
    BY <1>8 DEF End, counters
<1>9. CASE Exit
    BY <1>9 DEF Exit, counters
<1> QED
    BY <1>1, <1>2, <1>3, <1>4, <1>5, <1>6, <1>7, <1>8, <1>9 DEF Main

\* A step of a thread that is not done: it goes on, and nothing else moves.
LEMMA ThreadGoes ==
    ASSUME TypeOK, NEW t \in Threads, Thread(t)
    PROVE  /\ pc # "exited" /\ Started(t) /\ thread'[t] # "none"
           /\ \A u \in Threads : u # t => thread'[u] = thread[u]
           /\ UNCHANGED <<pc, test, i, allocated, handle, added, status>>
BY DEF TypeOK, Thread, Start, IntOps, FloatOps, MemoryOps, MemoryFails, Total,
       Goes, Started, counters

LEMMA ThreadsThread ==
    ASSUME TypeOK, ThreadsAreWhereMainThinks, NEW t \in Threads, Thread(t)
    PROVE  ThreadsAreWhereMainThinks'
<1>1. /\ Started(t) /\ thread'[t] # "none" /\ t[1] = test
      /\ \A u \in Threads : u # t => thread'[u] = thread[u]
      /\ UNCHANGED <<pc, test, i, handle>>
    BY ThreadGoes, RunningIsOfThisTest
<1>2. thread[t] # "none" /\ thread[t] # "done"
    BY <1>1 DEF Started
<1>3. \A u \in Threads : thread'[u] = "none" <=> thread[u] = "none"
    BY <1>1, <1>2
<1>4. \A u \in Threads : thread[u] = "done" => thread'[u] = "done"
    BY <1>1, <1>2
<1>5. test \in Tests /\ \A s \in Slots : <<test, s>> \in Threads
    BY ThreadMade DEF TypeOK
<1>6. test \in Int /\ \A u \in Threads : u[1] < test => u # t
    BY <1>1, <1>5 DEF Tests
<1> QED
    BY <1>1, <1>3, <1>4, <1>5, <1>6 DEF ThreadsAreWhereMainThinks

\* The array is freed only when all threads are done.
LEMMA ArrayKept ==
    ASSUME TypeOK, ThreadsAreWhereMainThinks, ArrayIsThere, [Next]_vars
    PROVE  ArrayIsThere'
<1> USE DEF ArrayIsThere
<1>1. CASE Malloc
    BY <1>1 DEF Malloc
<1>2. CASE MallocFails
    <2>1. \A u \in Threads : ~Started(u)'
        BY <1>2 DEF MallocFails, Started, ThreadsAreWhereMainThinks
    <2> QED
        BY <1>2, <2>1 DEF MallocFails
<1>3. CASE Create
    BY <1>3, TurnInRange DEF Create, TypeOK
<1>4. CASE CreateFails
    BY <1>4 DEF CreateFails
<1>5. CASE Join
    BY <1>5, TurnInRange DEF Join, TypeOK, Started
<1>6. CASE Add
    BY <1>6, TurnInRange DEF Add, TypeOK, Started
<1>7. CASE Accumulate
    BY <1>7 DEF Accumulate, Started
<1>8. CASE End
    <2>0. Tests \subseteq Int /\ test \in Tests
        BY DEF TypeOK, Tests
    <2>1. \A u \in Threads : u[1] > test \/ u[1] < test \/ u[1] = test
        BY <2>0, ThreadParts
    <2>2. \A u \in Threads : thread[u] = "done" \/ thread[u] = "none"
        BY <1>8, <2>1, ThreadParts DEF End, ThreadsAreWhereMainThinks
    <2>3. \A u \in Threads : ~Started(u)'
        BY <1>8, <2>2 DEF End, Started
    <2> QED
        BY <1>8, <2>3 DEF End
<1>9. CASE Exit
    BY <1>9 DEF Exit, Started
<1>10. ASSUME NEW t \in Threads, Thread(t) PROVE ArrayIsThere'
    <2>1. Started(t) /\ UNCHANGED <<pc, allocated, status>>
        BY <1>10, ThreadGoes
    <2> QED
        BY <2>1
<1>11. CASE UNCHANGED vars
    BY <1>11 DEF vars, Started
<1> QED
    BY <1>1, <1>2, <1>3, <1>4, <1>5, <1>6, <1>7, <1>8, <1>9, <1>10, <1>11 DEF Next, Main

----------------------------------------------------------------------
\* The actions of main write nothing a thread of this test has measured.
LEMMA SlotsKept ==
    ASSUME TypeOK, NEW s \in Slots,
           test' = test, thread'[<<test, s>>] = thread[<<test, s>>],
           results'[s].int = results[s].int, results'[s].float = results[s].float,
           results'[s].mem = results[s].mem, results'[s].total = results[s].total,
           SlotHolds(<<test, s>>)
    PROVE  SlotHolds(<<test, s>>)'
<1>1. <<test, s>>[1] = test /\ <<test, s>>[2] = s
    OBVIOUS
<1> QED
    BY <1>1 DEF SlotHolds

\* What holds of a slot whose thread has not written anything.
LEMMA SlotUnused ==
    ASSUME NEW n, NEW s, thread'[<<n, s>>] \in {"none", "start", "int"}
    PROVE  SlotHolds(<<n, s>>)'
BY DEF SlotHolds

LEMMA SumsMain ==
    ASSUME TypeOK, ThreadsAreWhereMainThinks, ArrayIsThere, Sums, Main
    PROVE  Sums'
<1>0. /\ test \in Tests /\ i \in Slots /\ Slots \subseteq Int /\ Tests \subseteq Int
      /\ 0 # Junk /\ 1 # Junk
    BY JunkAssumption DEF TypeOK, Slots, Tests
<1>1. ASSUME UNCHANGED <<test, thread, results, added>>,
             pc' \in {"add", "added", "end"} => pc' = pc /\ i' = i,
             status' # 0 \/ status' = status
      PROVE  Sums'
    <2>1. \A s \in Slots : SlotHolds(<<test, s>>)'
        BY <1>1, SlotsKept DEF Sums
    <2>2. \A n \in Tests, s \in Slots : Added(n, s)' <=> Added(n, s)
        BY <1>1 DEF Added
    <2> QED
        BY <1>0, <1>1, <2>1, <2>2 DEF Sums
<1>2. CASE Malloc
    BY <1>1, <1>2 DEF Malloc, counters
<1>3. CASE MallocFails
    BY <1>1, <1>3 DEF MallocFails, counters
<1>4. CASE Create
    <2>1. /\ test' = test /\ added' = added /\ status' = status /\ pc = "create"
          /\ pc' \in {"create", "join"}
          /\ thread'[<<test, i>>] = "start"
          /\ \A s \in Slots : s # i => /\ thread'[<<test, s>>] = thread[<<test, s>>]
                                      /\ results'[s] = results[s]
        BY <1>0, <1>4, TurnInRange, ThreadMade DEF Create, TypeOK
    <2>2. \A s \in Slots : SlotHolds(<<test, s>>)'
        BY <1>0, <2>1, SlotsKept, SlotUnused DEF Sums
    <2>3. \A n \in Tests, s \in Slots : Added(n, s)' <=> Added(n, s)
        BY <2>1 DEF Added
    <2> QED
        BY <1>0, <2>1, <2>2, <2>3 DEF Sums
<1>5. CASE CreateFails
    <2>1. /\ UNCHANGED <<test, thread, added, i>> /\ status' = 1 /\ pc' = "returned"
          /\ \A s \in Slots :
                /\ results'[s].int = results[s].int /\ results'[s].float = results[s].float
                /\ results'[s].mem = results[s].mem /\ results'[s].total = results[s].total
        BY <1>0, <1>5 DEF CreateFails, counters, TypeOK, Result
    <2>2. \A s \in Slots : SlotHolds(<<test, s>>)'
        BY <2>1, SlotsKept DEF Sums
    <2>3. \A n \in Tests, s \in Slots : Added(n, s)' <=> Added(n, s)
        BY <2>1 DEF Added
    <2> QED
        BY <1>0, <2>1, <2>2, <2>3 DEF Sums
<1>6. CASE Join
    <2>1. \/ pc' = "join"
          \/ pc' = "add" /\ i' = 0
        BY <1>0, <1>6, TurnInRange DEF Join
    <2>2. UNCHANGED <<test, thread, results, added, status>>
        BY <1>6 DEF Join
    <2>3. \A s \in Slots : SlotHolds(<<test, s>>)'
        BY <2>2, SlotsKept DEF Sums
    <2>4. \A n \in Tests, s \in Slots : Added(n, s)' <=> Added(n, s)
        BY <2>2 DEF Added
    <2>5. \A s \in Slots : ~(s < 0)
        BY DEF Slots
    <2> QED
        BY <1>0, <2>1, <2>2, <2>3, <2>4, <2>5 DEF Sums
<1>7. CASE Add
    <2> DEFINE a == [test |-> test, slot |-> i, total |-> results[i].total]
    <2>1. /\ pc = "add" /\ UNCHANGED <<test, thread, results, status>>
          /\ added' = added \union {a}
        BY <1>7 DEF Add
    <2>2. \A s \in Slots : SlotHolds(<<test, s>>)'
        BY <2>1, SlotsKept DEF Sums
    <2>3. results[i].total \in {{test}, {test, Failed}}
        <3>1. thread[<<test, i>>] = "done"
            BY <1>0, <2>1 DEF ThreadsAreWhereMainThinks
        <3>2. SlotHolds(<<test, i>>) /\ <<test, i>>[1] = test /\ <<test, i>>[2] = i
            BY <1>0 DEF Sums
        <3> QED
            BY <3>1, <3>2 DEF SlotHolds
    <2>4. a.test = test /\ a.slot = i /\ a.total = results[i].total
        OBVIOUS
    <2> HIDE DEF a
    <2>5. \A b \in added' : b.total \in {{b.test}, {b.test, Failed}}
        BY <2>1, <2>3, <2>4 DEF Sums
    <2>6. \A n \in Tests, s \in Slots : Added(n, s) => Added(n, s)'
        BY <2>1 DEF Added
    <2>7. \A n \in Tests, s \in Slots : n = test /\ s = i => Added(n, s)'
        BY <2>1, <2>4 DEF Added
    <2>8. CASE i < NumCpus - 1 /\ i' = i + 1 /\ pc' = pc
        <3>1. \A s \in Slots : s < i + 1 => s < i \/ s = i
            BY <1>0
        <3> QED
            BY <1>0, <2>1, <2>2, <2>5, <2>6, <2>7, <2>8, <3>1 DEF Sums
    <2>9. CASE i = NumCpus - 1 /\ i' = 0 /\ pc' = "added"
        <3>1. \A s \in Slots : s < i \/ s = i
            BY <2>9, CpuAssumption DEF Slots
        <3> QED
            BY <1>0, <2>1, <2>2, <2>5, <2>6, <2>7, <2>9, <3>1 DEF Sums
    <2> QED
        BY <1>0, <1>7, <2>8, <2>9, TurnInRange DEF Add
<1>8. CASE Accumulate
    <2>1. pc = "added" /\ UNCHANGED <<i, thread, results, added, status>>
        BY <1>8 DEF Accumulate
    <2>2. \A n \in Tests, s \in Slots : Added(n, s)' <=> Added(n, s)
        BY <2>1 DEF Added
    <2>3. CASE test < NumTests /\ test' = test + 1 /\ pc' = "create"
        <3>1. test + 1 \in Tests /\ test + 1 > test
            BY <1>0, <2>3, TestAssumption DEF Tests
        <3>2. \A n \in Tests, s \in Slots : n = test + 1 => SlotHolds(<<n, s>>)'
            <4>1. \A n \in Tests, s \in Slots : n = test + 1 => thread'[<<n, s>>] = "none"
                BY <2>1, <3>1, ThreadMade DEF ThreadsAreWhereMainThinks
            <4> QED
                BY <4>1, SlotUnused
        <3>3. \A s \in Slots : SlotHolds(<<test, s>>)'
            BY <2>3, <3>1, <3>2
        <3>4. \A n \in Tests : n < test + 1 => n < test \/ n = test
            BY <1>0
        <3> QED
            BY <1>0, <2>1, <2>2, <2>3, <3>3, <3>4 DEF Sums
    <2>4. CASE ~(test < NumTests) /\ test' = test /\ pc' = "end"
        <3>1. \A s \in Slots : SlotHolds(<<test, s>>)'
            BY <2>1, <2>4, SlotsKept DEF Sums
        <3> QED
            BY <1>0, <2>1, <2>2, <2>4, <3>1 DEF Sums
    <2> QED
        BY <1>8, <2>3, <2>4 DEF Accumulate
<1>9. CASE End
    <2>1. UNCHANGED <<test, thread, results, added, i>> /\ pc = "end" /\ pc' = "returned"
        BY <1>9 DEF End, counters
    <2>2. \A s \in Slots : SlotHolds(<<test, s>>)'
        BY <2>1, SlotsKept DEF Sums
    <2>3. \A n \in Tests, s \in Slots : Added(n, s)' <=> Added(n, s)
        BY <2>1 DEF Added
    <2>4. \A n \in Tests : n < test \/ n = test
        BY <1>0, <2>1, TestAssumption DEF ThreadsAreWhereMainThinks, Tests
    <2> QED
        BY <1>0, <2>1, <2>2, <2>3, <2>4 DEF Sums
<1>10. CASE Exit
    BY <1>1, <1>10 DEF Exit, counters
<1> QED
    BY <1>2, <1>3, <1>4, <1>5, <1>6, <1>7, <1>8, <1>9, <1>10 DEF Main

\* A step of a thread keeps what its slot holds, and adds what it measured.
LEMMA OwnSlot ==
    ASSUME TypeOK, NEW t \in Threads, Thread(t), SlotHolds(t)
    PROVE  SlotHolds(t)'
<1> DEFINE r == results[t[2]]
           Places == {"none", "start", "int", "float", "mem", "total", "done"}
<1>0. t[2] \in Slots /\ results \in [Slots -> Result] /\ thread \in [Threads -> Places]
    BY ThreadParts DEF TypeOK
<1>1. CASE Start(t)
    BY <1>0, <1>1 DEF Start, Goes, SlotHolds
<1>2. CASE IntOps(t)
    <2>1. thread'[t] = "float" /\ results'[t[2]].int = t[1]
        BY <1>0, <1>2 DEF IntOps, Goes, Result
    <2> QED
        BY <2>1 DEF SlotHolds
<1>3. CASE FloatOps(t)
    <2>1. /\ thread[t] = "float" /\ thread'[t] = "mem"
          /\ results'[t[2]].int = r.int /\ results'[t[2]].float = t[1]
        BY <1>0, <1>3 DEF FloatOps, Goes, Result
    <2> QED
        BY <2>1 DEF SlotHolds
<1>4. CASE MemoryOps(t) \/ MemoryFails(t)
    <2>1. /\ thread[t] = "mem" /\ thread'[t] = "total"
          /\ results'[t[2]].int = r.int /\ results'[t[2]].float = r.float
          /\ results'[t[2]].mem \in {t[1], Failed}
        BY <1>0, <1>4 DEF MemoryOps, MemoryFails, Goes, Result
    <2> QED
        BY <2>1 DEF SlotHolds
<1>5. CASE Total(t)
    <2>1. /\ thread[t] = "total" /\ thread'[t] = "done"
          /\ results'[t[2]].int = r.int /\ results'[t[2]].float = r.float
          /\ results'[t[2]].mem = r.mem /\ results'[t[2]].total = {r.int, r.float, r.mem}
        BY <1>0, <1>5 DEF Total, Goes, Result
    <2>2. r.int = t[1] /\ r.float = t[1] /\ r.mem \in {t[1], Failed}
        BY <2>1 DEF SlotHolds
    <2>3. {r.int, r.float, r.mem} \in {{t[1]}, {t[1], Failed}}
        BY <2>2
    <2> QED
        BY <2>1, <2>2, <2>3 DEF SlotHolds
<1> QED
    BY <1>1, <1>2, <1>3, <1>4, <1>5 DEF Thread

LEMMA SumsThread ==
    ASSUME TypeOK, ThreadsAreWhereMainThinks, Sums, NEW t \in Threads, Thread(t)
    PROVE  Sums'
<1>1. /\ Started(t) /\ t[1] = test /\ t[2] \in Slots /\ t = <<test, t[2]>>
      /\ \A u \in Threads : u # t => thread'[u] = thread[u]
      /\ UNCHANGED <<pc, test, i, added, status>>
    BY ThreadGoes, RunningIsOfThisTest, ThreadParts
<1>2. \A s \in Slots : s # t[2] => results'[s] = results[s]
    BY <1>1 DEF TypeOK, Thread, Start, IntOps, FloatOps, MemoryOps, MemoryFails, Total
<1>3. \A s \in Slots : SlotHolds(<<test, s>>)'
    <2>1. ASSUME NEW s \in Slots, s # t[2] PROVE SlotHolds(<<test, s>>)'
        <3>1. <<test, s>> \in Threads /\ <<test, s>> # t
            BY <2>1, ThreadMade, <1>1 DEF TypeOK
        <3>2. thread'[<<test, s>>] = thread[<<test, s>>] /\ SlotHolds(<<test, s>>)
            BY <3>1, <1>1 DEF Sums
        <3> QED
            BY <1>1, <1>2, <2>1, <3>2, SlotsKept
    <2>2. SlotHolds(t)
        BY <1>1 DEF Sums
    <2>3. SlotHolds(t)'
        BY <2>2, OwnSlot
    <2>4. ASSUME NEW s \in Slots, s = t[2] PROVE SlotHolds(<<test, s>>)'
        <3>1. <<test', s>> = t
            BY <1>1, <2>4
        <3> QED
            BY <2>3, <3>1
    <2> QED
        BY <2>1, <2>4
<1>4. \A n \in Tests, s \in Slots : Added(n, s)' <=> Added(n, s)
    BY <1>1 DEF Added
<1> QED
    BY <1>1, <1>3, <1>4 DEF Sums, TypeOK

LEMMA InitInductive == Init => Inductive
<1> SUFFICES ASSUME Init PROVE Inductive
    OBVIOUS
<1>1. 1 \in Tests /\ 0 \in Slots /\ Tests \subseteq Int
    BY CpuAssumption, TestAssumption DEF Tests, Slots
<1>2. TypeOK
    <2>1. Blank \in Result
        BY DEF Blank, Result, Time
    <2>2. \A s \in Slots : <<1, s>> \in Threads
        BY <1>1 DEF Threads
    <2> QED
        BY <1>1, <2>1, <2>2 DEF Init, TypeOK
<1>3. \A t \in Threads : thread[t] = "none" /\ ~(t[1] < 1)
    BY ThreadParts DEF Init, Tests
<1>4. ThreadsAreWhereMainThinks
    BY <1>3 DEF Init, ThreadsAreWhereMainThinks
<1>5. ArrayIsThere
    BY <1>3 DEF Init, ArrayIsThere, Started
<1>6. Sums
    <2>1. \A s \in Slots : SlotHolds(<<test, s>>)
        BY <1>1, <1>3, ThreadMade DEF Init, SlotHolds
    <2>2. \A n \in Tests : ~(n < 1)
        BY DEF Tests
    <2> QED
        BY <2>1, <2>2, JunkAssumption DEF Init, Sums
<1> QED
    BY <1>2, <1>4, <1>5, <1>6 DEF Inductive

LEMMA NextInductive == Inductive /\ [Next]_vars => Inductive'
<1> SUFFICES ASSUME Inductive, [Next]_vars PROVE Inductive'
    OBVIOUS
<1> USE DEF Inductive
<1>1. TypeOK' /\ ArrayIsThere'
    BY TypeStep, ArrayKept
<1>2. ASSUME Main PROVE ThreadsAreWhereMainThinks' /\ Sums'
    BY <1>2, ThreadsMain, SumsMain
<1>3. ASSUME NEW t \in Threads, Thread(t) PROVE ThreadsAreWhereMainThinks' /\ Sums'
    BY <1>3, ThreadsThread, SumsThread
<1>4. CASE UNCHANGED vars
    <2> USE <1>4 DEF vars, counters
    <2>1. ThreadsAreWhereMainThinks'
        BY DEF ThreadsAreWhereMainThinks
    <2>2. \A s \in Slots : SlotHolds(<<test, s>>)'
        BY SlotsKept DEF Sums
    <2>3. \A n \in Tests, s \in Slots : Added(n, s)' <=> Added(n, s)
        BY DEF Added
    <2>4. Sums'
        BY <2>2, <2>3 DEF Sums, TypeOK
    <2> QED
        BY <1>1, <2>1, <2>4
<1> QED
    BY <1>1, <1>2, <1>3, <1>4 DEF Next

THEOREM InductiveHolds == Spec => []Inductive
BY InitInductive, NextInductive, PTL DEF Spec

\* Every variable of the benchmark keeps its type.
THEOREM TypeCorrect == Spec => []TypeOK
<1>1. Inductive => TypeOK
    BY DEF Inductive
<1> QED
    BY <1>1, InductiveHolds, PTL

\* With any number of threads and tests, no thread runs on freed memory.
THEOREM NeverFreedTooEarly == Spec => []NoUseAfterFree
<1>1. Inductive => NoUseAfterFree
    BY DEF Inductive, ArrayIsThere, NoUseAfterFree
<1> QED
    BY <1>1, InductiveHolds, PTL

\* No two threads, and never main and a thread, use one slot together.
THEOREM NoSharing == Spec => []SlotHasOneUser
<1>1. Inductive => SlotHasOneUser
    <2> SUFFICES ASSUME Inductive, NEW t \in Threads, Started(t)
                 PROVE  /\ \A u \in Threads : Started(u) /\ u[2] = t[2] => u = t
                        /\ pc = "create" => t[2] < i
                        /\ pc \notin {"add", "added", "end"}
        BY DEF SlotHasOneUser
    <2>1. \A u \in Threads : Started(u) => u[1] = test /\ u = <<u[1], u[2]>>
        BY RunningIsOfThisTest, ThreadParts DEF Inductive
    <2>2. \A u \in Threads : Started(u) /\ u[2] = t[2] => u = t
        BY <2>1
    <2>3. t[2] \in Slots /\ t = <<test, t[2]>> /\ i \in Slots
        BY <2>1, ThreadParts DEF Inductive, TypeOK
    <2>4. thread[<<test, t[2]>>] # "none" /\ thread[<<test, t[2]>>] # "done"
        BY <2>3 DEF Started
    <2>5. pc = "create" => ~(t[2] >= i)
        BY <2>3, <2>4 DEF Inductive, ThreadsAreWhereMainThinks
    <2>6. pc = "create" => t[2] < i
        BY <2>3, <2>5 DEF Slots
    <2>7. pc \notin {"add", "added", "end"}
        BY <2>3, <2>4 DEF Inductive, ThreadsAreWhereMainThinks
    <2> QED
        BY <2>2, <2>6, <2>7
<1> QED
    BY <1>1, InductiveHolds, PTL

\* Both: the threads need no lock.
THEOREM SlotsAreSafe == Spec => []SlotsSafe
<1>1. NoUseAfterFree /\ SlotHasOneUser => SlotsSafe
    BY DEF SlotsSafe
<1> QED
    BY <1>1, NeverFreedTooEarly, NoSharing, PTL

\* What main adds up for a test was measured in that test, and with status 0
\* nothing is missing.
THEOREM TotalsRight == Spec => []TotalsAreOfTheirTest
<1>1. Inductive => TotalsAreOfTheirTest
    BY ThreadParts DEF Inductive, Sums, Added, TotalsAreOfTheirTest
<1> QED
    BY <1>1, InductiveHolds, PTL
======================================================================
