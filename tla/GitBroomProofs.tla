------------------------ MODULE GitBroomProofs ------------------------
(* Proofs about module GitBroom, for every tree, whatever its links, the *)
(* targets, the calls that fail and the other programs.                  *)
EXTENDS GitBroom, SequenceTheorems, TLAPS

Root == Resolve(Start)
Removal == {"enter", "remove", "returned"}

----------------------------------------------------------------------
\* Above is what its definition says: the least sets that hold the parents
\* of what they hold are such a function.
LEMMA AboveIs ==
    Above = [x \in Places |-> IF x = Top THEN {Top} ELSE {x} \union Above[Parent[x]]]
<1> DEFINE Up(S) == \A y \in S \ {Top} : Parent[y] \in S
           A == [x \in Places |-> {y \in Places : \A S \in SUBSET Places : x \in S /\ Up(S) => y \in S}]
           Equation(f) == f = [x \in Places |-> IF x = Top THEN {Top} ELSE {x} \union f[Parent[x]]]
<1>1. A[Top] = {Top}
  <2>1. {Top} \in SUBSET Places /\ Up({Top})
    BY TreeAssumption
  <2>2. Top \in A[Top] /\ A[Top] \subseteq Places
    BY TreeAssumption
  <2>3. ASSUME NEW y \in A[Top]
        PROVE  y \in {Top}
    BY <2>1, <2>3, TreeAssumption
  <2> QED BY <2>2, <2>3
<1>2. ASSUME NEW x \in Places, x # Top
      PROVE  A[x] = {x} \union A[Parent[x]]
  <2>1. Parent[x] \in Places
    BY <1>2, TreeAssumption
  <2>2. ASSUME NEW S \in SUBSET Places, x \in S, Up(S)
        PROVE  {x} \union A[Parent[x]] \subseteq S
    BY <1>2, <2>1, <2>2
  <2> DEFINE T == {x} \union A[Parent[x]]
  <2>3. T \in SUBSET Places
    BY <2>1
  <2>4. Up(T)
    <3>1. Parent[x] \in A[Parent[x]]
      BY <2>1
    <3>2. ASSUME NEW y \in A[Parent[x]], y # Top
          PROVE  Parent[y] \in A[Parent[x]]
      BY <2>1, <3>2, TreeAssumption
    <3> QED BY <3>1, <3>2
  <2>5. A[x] \subseteq T
    <3> HIDE DEF T
    <3>1. x \in T
      BY DEF T
    <3> QED BY <1>2, <2>3, <2>4, <3>1
  <2> QED BY <1>2, <2>2, <2>3, <2>5
<1>3. Equation(A)
  <2> HIDE DEF A
  <2>1. A = [x \in Places |-> A[x]]
    BY DEF A
  <2> QED BY <1>1, <1>2, <2>1
<1>4. Above = CHOOSE f : Equation(f)
  BY DEF Above
<1> HIDE DEF Equation
<1>5. Equation(Above)
  BY <1>3, <1>4
<1> QED BY <1>5 DEF Equation

LEMMA AboveEach ==
    /\ Above[Top] = {Top}
    /\ \A x \in Places \ {Top} : Parent[x] \in Places /\ Above[x] = {x} \union Above[Parent[x]]
BY AboveIs, TreeAssumption

\* What goes up from a place that fails for it fails for a last one, whose
\* parent, or the place itself as it has none, is as it should be.
LEMMA TreeMinimum ==
    ASSUME NEW S, S \subseteq Places \ {Top}, S # {}
    PROVE  \E x \in S : Parent[x] \in Places \ S
BY TreeAssumption

LEMMA AboveReflexive ==
    ASSUME NEW x \in Places
    PROVE  x \in Above[x]
BY AboveEach

\* A set that holds the parents of what it holds holds all that is above.
LEMMA AboveInside ==
    ASSUME NEW S, \A y \in S \ {Top} : Parent[y] \in S, NEW x \in S, x \in Places
    PROVE  Above[x] \subseteq S
<1> DEFINE Bad == {y \in (S \intersect Places) \ {Top} : ~(Above[y] \subseteq S)}
<1>1. Bad = {}
  <2> SUFFICES ASSUME Bad # {} PROVE FALSE
    OBVIOUS
  <2>1. PICK y \in Bad : Parent[y] \in Places \ Bad
    <3> HIDE DEF Bad
    <3>1. Bad \subseteq Places \ {Top}
      BY DEF Bad
    <3> QED BY <3>1, TreeMinimum
  <2>2. Parent[y] \in S /\ Above[y] = {y} \union Above[Parent[y]]
    BY AboveEach
  <2>3. Above[Parent[y]] \subseteq S
    BY <2>1, <2>2, AboveEach
  <2> QED BY <2>2, <2>3
<1> QED BY <1>1, AboveEach

LEMMA AbovePlaces ==
    ASSUME NEW x \in Places
    PROVE  Above[x] \subseteq Places
BY AboveInside, TreeAssumption

LEMMA AboveTransitive ==
    ASSUME NEW x \in Places, NEW y \in Above[x]
    PROVE  Above[y] \subseteq Above[x]
<1> DEFINE Bad == {a \in Places \ {Top} : \E b \in Above[a] : ~(Above[b] \subseteq Above[a])}
<1>1. Bad = {}
  <2> SUFFICES ASSUME Bad # {} PROVE FALSE
    OBVIOUS
  <2>1. PICK a \in Bad : Parent[a] \in Places \ Bad
    <3> HIDE DEF Bad
    <3>1. Bad \subseteq Places \ {Top}
      BY DEF Bad
    <3> QED BY <3>1, TreeMinimum
  <2>2. Above[a] = {a} \union Above[Parent[a]]
    BY AboveEach
  <2>3. \A b \in Above[Parent[a]] : Above[b] \subseteq Above[Parent[a]]
    BY <2>1, AboveEach
  <2> QED BY <2>2, <2>3
<1> QED BY <1>1, AboveEach

\* Between a place and one above it there is a child of that.
LEMMA AboveChild ==
    ASSUME NEW x \in Places, NEW d \in Above[x], d # x
    PROVE  \E c \in Children(d) : c \in Above[x]
<1> DEFINE Bad == {a \in Places \ {Top} : d \in Above[a] /\ d # a /\ \A c \in Children(d) : c \notin Above[a]}
<1>1. Bad = {}
  <2> SUFFICES ASSUME Bad # {} PROVE FALSE
    OBVIOUS
  <2>1. PICK a \in Bad : Parent[a] \in Places \ Bad
    <3> HIDE DEF Bad
    <3>1. Bad \subseteq Places \ {Top}
      BY DEF Bad
    <3> QED BY <3>1, TreeMinimum
  <2>2. Above[a] = {a} \union Above[Parent[a]]
    BY AboveEach
  <2>3. CASE d = Parent[a]
    BY <2>2, <2>3 DEF Children
  <2>4. CASE d # Parent[a]
    <3>1. Parent[a] # Top
      BY <2>2, <2>4, AboveEach
    <3> QED BY <2>1, <2>2, <2>4, <3>1
  <2> QED BY <2>3, <2>4
<1> QED BY <1>1, AboveEach

LEMMA ChildBelow ==
    ASSUME NEW d \in Places, NEW c \in Children(d)
    PROVE  c \in Places /\ d \in Above[c] /\ Above[c] = {c} \union Above[d] /\ Kind[d] = "dir"
BY AboveEach, AboveReflexive, TreeAssumption DEF Children

\* No place is above its own parent.
LEMMA NoCycle ==
    ASSUME NEW d \in Places, NEW c \in Children(d)
    PROVE  c \notin Above[d]
<1> SUFFICES ASSUME c \in Above[d] PROVE FALSE
  OBVIOUS
<1> DEFINE S == {y \in Places \ {Top} : y \in Above[c] /\ c \in Above[y]}
<1>1. c \in Places \ {Top} /\ Parent[c] = d /\ c \in Above[c]
  BY AboveReflexive DEF Children
<1>2. PICK y \in S : Parent[y] \in Places \ S
  <2> HIDE DEF S
  <2>1. S \subseteq Places \ {Top}
    BY DEF S
  <2>2. c \in S
    BY <1>1 DEF S
  <2> QED BY <2>1, <2>2, TreeMinimum
<1>3. Above[y] = {y} \union Above[Parent[y]] /\ Parent[y] \in Places
  BY AboveEach
<1>4. c \in Above[Parent[y]]
  BY <1>1, <1>3
<1>5. Parent[y] # Top
  BY <1>1, <1>4, AboveEach
<1>6. Parent[y] \in Above[c]
  BY <1>1, <1>3, AboveReflexive, AboveTransitive
<1> QED BY <1>2, <1>4, <1>5, <1>6

\* A path is too long where one above it is.
LEMMA TooLongBelow ==
    ASSUME NEW x \in Places, NEW d \in Above[x], d \in TooLong
    PROVE  x \in TooLong
<1> SUFFICES ASSUME x \notin TooLong PROVE FALSE
  OBVIOUS
<1> DEFINE S == {y \in Places : y \notin TooLong}
<1>1. \A y \in S \ {Top} : Parent[y] \in S
  BY PathAssumption, TreeAssumption
<1>2. Above[x] \subseteq S
  BY <1>1, AboveInside
<1> QED BY <1>2

----------------------------------------------------------------------
\* The streams of a stack are those of directories, each inside the one
\* before, so all below the first.
Streams(st) ==
    /\ st \in Seq(Stream)
    /\ \A k \in 1 .. Len(st) :
          /\ Kind[st[k].dir] = "dir" /\ st[k].left \subseteq Children(st[k].dir)
          /\ \A j \in 1 .. k : st[j].dir \in Above[st[k].dir]
          /\ k > 1 => st[k].dir \in Children(st[k - 1].dir)

\* What is there is a tree.
Rooted(t) == \A x \in t \ {Top} : Parent[x] \in t

\* Between its calls remove_directory is in the target of the two loops, and
\* goes on only while what has returned was no error.
Position ==
    /\ pc \in {"start", "clean", "done"} => stack = << >>
    /\ pc = "find" => stack # << >> /\ stack[1].dir = Root
    /\ pc = "remove" => stack # << >>
    /\ pc \in Removal =>
          /\ proj <= Len(found) /\ targ <= Len(Targets) /\ Current \notin TooLong
          /\ stack # << >> => stack[1].dir = Current
    /\ pc = "enter" =>
          IF stack = << >> THEN path = Current
                           ELSE path \in Children(Innermost.dir) /\ Kind[path] = "dir"
    /\ pc \in {"enter", "remove"} => code <= 1

IInv == TypeOK /\ Streams(stack) /\ Rooted(there) /\ Position

----------------------------------------------------------------------
Undisturbed == faults = 0 /\ others = 0

\* The entries that make projects, and the directories found by now.
GitEntries(t) ==
    {x \in t \ (TooLong \union {Top}) : Name[x] = ".git" /\ Root \in Above[Parent[x]]}
Found == {found[k] : k \in 1 .. Len(found)}

\* The search still comes past every entry that makes a project, ...
Searching ==
    /\ there = before
    /\ \A k \in 1 .. Len(stack) : stack[k].left \subseteq there
    /\ \A g \in GitEntries(before) :
          Parent[g] \in Found \/ \E k \in 1 .. Len(stack) : Above[g] \intersect stack[k].left # {}

\* ... so that it finds all of them, and nothing else.
FoundAll == Projects(before) \subseteq Found
FoundOnly == Found \subseteq Projects(before)

\* The path of a target is the only way a removal can end early.
Cleanable(d) == Kind[d] = "dir" /\ \A y \in before \intersect TooLong : d \notin Above[y]

\* What of a directory on the stack has been taken out of its stream but not
\* been removed: the next one, or that the innermost call is about.
Deeper(st, p, k) == IF k < Len(st) THEN st[k + 1].dir ELSE p

ExactStack(st, t, p) ==
    \A k \in 1 .. Len(st) :
       st[k].dir \in t /\ st[k].left = (Children(st[k].dir) \intersect t) \ {Deeper(st, p, k)}

\* A removal that has met no error is left with the entries of its streams.
Exact ==
    /\ ExactStack(stack, there, IF pc = "enter" THEN path ELSE Null)
    /\ pc = "returned" /\ stack = << >> => Current \notin there

\* The targets behind the two loops are gone.
Gone(k, j) ==
    LET d == Child(found[k], Targets[j])
    IN  d \in there => d \in TooLong \/ ~Cleanable(d)
Done ==
    \A k \in 1 .. Len(found), j \in 1 .. Len(Targets) :
       k < proj \/ (k = proj /\ j < targ) => Gone(k, j)

Sweep ==
    /\ there \subseteq before /\ before \ Swept(before) \subseteq there
    /\ FoundOnly
    /\ pc = "start" => there = before
    /\ pc = "find" => Searching
    /\ IF pc \in {"start", "find"} THEN proj = 1 /\ targ = 1 ELSE FoundAll /\ Done
    /\ pc = "done" => proj > Len(found)
    /\ pc \in Removal => IF code <= 1 THEN Exact ELSE ~Cleanable(Current)

SInv == IInv /\ (Undisturbed => Sweep)

----------------------------------------------------------------------
\* The three things done to a stack: a stream closed, read or opened.
LEMMA FrontIs ==
    ASSUME NEW A, NEW st \in Seq(A), st # << >>
    PROVE  /\ Len(st) \in Nat \ {0}
           /\ Front(st) \in Seq(A) /\ Len(Front(st)) = Len(st) - 1
           /\ \A k \in 1 .. Len(st) - 1 : Front(st)[k] = st[k]
           /\ Last(st) = st[Len(st)] /\ Last(st) \in A
<1>1. Len(st) \in Nat \ {0}
  BY EmptySeq, LenProperties
<1>2. /\ SubSeq(st, 1, Len(st) - 1) \in Seq(A)
      /\ Len(SubSeq(st, 1, Len(st) - 1)) = Len(st) - 1
      /\ \A k \in 1 .. Len(st) - 1 : SubSeq(st, 1, Len(st) - 1)[k] = st[k]
  <2> DEFINE n == Len(st) - 1
  <2>1. n \in Nat /\ \A k \in 1 .. n : st[k] \in A
    BY <1>1, ElementOfSeq
  <2> HIDE DEF n
  <2>2. /\ SubSeq(st, 1, n) \in Seq(A)
        /\ Len(SubSeq(st, 1, n)) = IF 1 <= n THEN n - 1 + 1 ELSE 0
        /\ \A k \in 1 .. n - 1 + 1 : SubSeq(st, 1, n)[k] = st[1 + k - 1]
    BY <2>1, SubSeqProperties
  <2>3. n - 1 + 1 = n /\ \A k \in 1 .. n : 1 + k - 1 = k
    BY <2>1
  <2>4. Len(SubSeq(st, 1, n)) = n /\ \A k \in 1 .. n : SubSeq(st, 1, n)[k] = st[k]
    BY <2>1, <2>2, <2>3
  <2> QED BY <2>2, <2>4 DEF n
<1> QED BY <1>1, <1>2, ElementOfSeq DEF Front, Last

LEMMA LastReplaced ==
    ASSUME NEW A, NEW st \in Seq(A), st # << >>, NEW e \in A
    PROVE  LET ns == Front(st) \o <<e>>
           IN  /\ ns \in Seq(A) /\ Len(ns) = Len(st)
               /\ \A k \in 1 .. Len(st) : ns[k] = IF k = Len(st) THEN e ELSE st[k]
<1>1. /\ Len(st) \in Nat \ {0} /\ Front(st) \in Seq(A) /\ Len(Front(st)) = Len(st) - 1
      /\ \A k \in 1 .. Len(st) - 1 : Front(st)[k] = st[k]
  BY FrontIs
<1>2. Front(st) \o <<e>> = Append(Front(st), e)
  BY <1>1, AppendIsConcat
<1> QED BY <1>1, <1>2, AppendProperties

Shorter(st) == Front(st) \o << >>
Without(st, x) == Front(st) \o <<[Last(st) EXCEPT !.left = @ \ {x}]>>
With(st, d, S) == Append(st, [dir |-> d, left |-> S])

LEMMA Closed ==
    ASSUME NEW st, Streams(st), st # << >>
    PROVE  /\ Streams(Shorter(st))
           /\ Len(st) \in Nat \ {0} /\ Len(Shorter(st)) = Len(st) - 1
           /\ \A k \in 1 .. Len(Shorter(st)) : Shorter(st)[k] = st[k]
<1> DEFINE ns == Shorter(st)
<1>1. st \in Seq(Stream)
  BY DEF Streams
<1>2. ns \in Seq(Stream) /\ Len(ns) = Len(st) - 1 /\ Len(st) \in Nat \ {0}
  BY <1>1, FrontIs, ConcatEmptySeq DEF Shorter
<1>3. \A k \in 1 .. Len(ns) : ns[k] = st[k]
  BY <1>1, FrontIs, ConcatEmptySeq DEF Shorter
<1> HIDE DEF ns
<1>4. Streams(ns)
  <2>1. ASSUME NEW k \in 1 .. Len(ns)
        PROVE  /\ Kind[ns[k].dir] = "dir" /\ ns[k].left \subseteq Children(ns[k].dir)
               /\ \A j \in 1 .. k : ns[j].dir \in Above[ns[k].dir]
               /\ k > 1 => ns[k].dir \in Children(ns[k - 1].dir)
    <3>1. /\ ns[k] = st[k] /\ k \in 1 .. Len(st)
          /\ \A j \in 1 .. k : ns[j] = st[j]
      BY <1>2, <1>3
    <3>2. k > 1 => ns[k - 1] = st[k - 1]
      BY <1>2, <1>3
    <3> QED BY <3>1, <3>2 DEF Streams
  <2> QED BY <1>2, <2>1 DEF Streams
<1> QED BY <1>2, <1>3, <1>4 DEF ns

LEMMA Read ==
    ASSUME NEW st, Streams(st), st # << >>, NEW x
    PROVE  /\ Streams(Without(st, x))
           /\ Len(st) \in Nat \ {0} /\ Len(Without(st, x)) = Len(st)
           /\ \A k \in 1 .. Len(st) :
                 /\ Without(st, x)[k].dir = st[k].dir
                 /\ k = Len(st) => Without(st, x)[k].left = st[k].left \ {x}
                 /\ k # Len(st) => Without(st, x)[k].left = st[k].left
<1> DEFINE last == Last(st)
           e == [last EXCEPT !.left = @ \ {x}]
           ns == Front(st) \o <<e>>
           n == Len(st)
<1>1. st \in Seq(Stream) /\ n \in Nat \ {0} /\ last = st[n] /\ st[n] \in Stream
  BY FrontIs DEF Streams
<1>2. e \in Stream /\ e.dir = st[n].dir /\ e.left = st[n].left \ {x}
  <2> HIDE DEF last
  <2>1. last \in [dir : Places, left : SUBSET Places]
    BY <1>1 DEF Stream
  <2> QED BY <1>1, <2>1 DEF Stream
<1> HIDE DEF e
<1>3. ns \in Seq(Stream) /\ Len(ns) = n
  BY <1>1, <1>2, LastReplaced
<1>4. \A k \in 1 .. n : ns[k] = IF k = n THEN e ELSE st[k]
  BY <1>1, <1>2, LastReplaced
<1> HIDE DEF ns
<1>5. \A k \in 1 .. n :
         /\ ns[k].dir = st[k].dir
         /\ k = n => ns[k].left = st[k].left \ {x}
         /\ k # n => ns[k].left = st[k].left
  BY <1>1, <1>2, <1>4
<1> HIDE DEF n
<1>6. \A k \in 1 .. n : ns[k].dir = st[k].dir /\ ns[k].left \subseteq st[k].left
  BY <1>5
<1>7. Streams(ns)
  <2>1. ASSUME NEW k \in 1 .. n
        PROVE  /\ Kind[ns[k].dir] = "dir" /\ ns[k].left \subseteq Children(ns[k].dir)
               /\ \A j \in 1 .. k : ns[j].dir \in Above[ns[k].dir]
               /\ k > 1 => ns[k].dir \in Children(ns[k - 1].dir)
    <3>1. 1 .. k \subseteq 1 .. n /\ (k > 1 => k - 1 \in 1 .. n)
      BY <1>1
    <3>2. /\ ns[k].dir = st[k].dir /\ ns[k].left \subseteq st[k].left
          /\ \A j \in 1 .. k : ns[j].dir = st[j].dir
          /\ k > 1 => ns[k - 1].dir = st[k - 1].dir
      BY <1>6, <3>1
    <3>3. /\ Kind[st[k].dir] = "dir" /\ st[k].left \subseteq Children(st[k].dir)
          /\ \A j \in 1 .. k : st[j].dir \in Above[st[k].dir]
          /\ k > 1 => st[k].dir \in Children(st[k - 1].dir)
      BY DEF Streams, n
    <3> QED BY <3>1, <3>2, <3>3
  <2> QED BY <1>3, <2>1 DEF Streams
<1>8. Streams(ns) /\ n \in Nat \ {0} /\ Len(ns) = n
  BY <1>1, <1>3, <1>7
<1> QED BY <1>5, <1>8 DEF Without, ns, e, n

\* The same, one fact at a time.
LEMMA ReadStreams ==
    ASSUME NEW st, Streams(st), st # << >>, NEW x
    PROVE  Streams(Without(st, x))
BY Read

LEMMA ReadLength ==
    ASSUME NEW st, Streams(st), st # << >>, NEW x
    PROVE  Len(st) \in Nat \ {0} /\ Len(Without(st, x)) = Len(st)
BY Read

LEMMA ReadDirs ==
    ASSUME NEW st, Streams(st), st # << >>, NEW x, NEW k \in 1 .. Len(st)
    PROVE  Without(st, x)[k].dir = st[k].dir
BY Read

LEMMA ReadLeft ==
    ASSUME NEW st, Streams(st), st # << >>, NEW x, NEW k \in 1 .. Len(st)
    PROVE  /\ k = Len(st) => Without(st, x)[k].left = st[k].left \ {x}
           /\ k # Len(st) => Without(st, x)[k].left = st[k].left
BY Read

LEMMA Opened ==
    ASSUME NEW st, Streams(st), NEW d \in Places, Kind[d] = "dir", NEW S, S \subseteq Children(d),
           st # << >> => d \in Children(st[Len(st)].dir)
    PROVE  /\ Streams(With(st, d, S))
           /\ Len(st) \in Nat /\ Len(With(st, d, S)) = Len(st) + 1
           /\ \A k \in 1 .. Len(st) : With(st, d, S)[k] = st[k]
           /\ With(st, d, S)[Len(st) + 1].dir = d /\ With(st, d, S)[Len(st) + 1].left = S
<1> DEFINE ns == With(st, d, S)
           e == [dir |-> d, left |-> S]
           n == Len(st)
<1>1. st \in Seq(Stream) /\ n \in Nat /\ (st # << >> => n > 0)
  BY EmptySeq, LenProperties DEF Streams
<1>2. e \in Stream /\ e.dir = d /\ e.left = S
  BY DEF Stream, Children
<1> HIDE DEF e
<1>3. /\ ns \in Seq(Stream) /\ Len(ns) = n + 1
      /\ \A k \in 1 .. n : ns[k] = st[k]
      /\ ns[n + 1] = e
  BY <1>1, <1>2, AppendProperties DEF With, e
<1> HIDE DEF ns
<1>4. ASSUME NEW j \in 1 .. n + 1
      PROVE  ns[j].dir \in Above[d]
  <2>1. CASE j = n + 1
    BY <1>2, <1>3, <2>1, AboveReflexive
  <2>2. CASE j # n + 1
    <3>1. j \in 1 .. n /\ n \in 1 .. n /\ j \in 1 .. n /\ st # << >>
      BY <1>1, <2>2
    <3>2. ns[j] = st[j] /\ st[n] \in Stream /\ st[j].dir \in Above[st[n].dir]
      BY <1>1, <1>3, <3>1 DEF Streams
    <3> QED BY <3>1, <3>2, ChildBelow DEF Stream
  <2> QED BY <2>1, <2>2
<1>5. Streams(ns)
  <2>1. ASSUME NEW k \in 1 .. n
        PROVE  /\ Kind[ns[k].dir] = "dir" /\ ns[k].left \subseteq Children(ns[k].dir)
               /\ \A j \in 1 .. k : ns[j].dir \in Above[ns[k].dir]
               /\ k > 1 => ns[k].dir \in Children(ns[k - 1].dir)
    <3>1. ns[k] = st[k] /\ (\A j \in 1 .. k : ns[j] = st[j]) /\ (k > 1 => ns[k - 1] = st[k - 1])
      BY <1>1, <1>3
    <3> QED BY <3>1 DEF Streams
  <2>2. /\ Kind[ns[n + 1].dir] = "dir" /\ ns[n + 1].left \subseteq Children(ns[n + 1].dir)
        /\ n + 1 > 1 => ns[n + 1].dir \in Children(ns[n].dir)
    BY <1>1, <1>2, <1>3
  <2> QED BY <1>1, <1>2, <1>3, <1>4, <2>1, <2>2 DEF Streams
<1> QED BY <1>1, <1>2, <1>3, <1>5 DEF With, ns, e

LEMMA StreamsTyped ==
    ASSUME NEW st, Streams(st)
    PROVE  /\ st \in Seq(Stream) /\ \A i \in DOMAIN st : Kind[st[i].dir] = "dir"
           /\ Len(st) \in Nat /\ (st = << >> <=> Len(st) = 0)
           /\ \A k \in 1 .. Len(st) : st[k].dir \in Places /\ st[k].left \subseteq Places
<1>1. /\ st \in Seq(Stream) /\ Len(st) \in Nat /\ (st = << >> <=> Len(st) = 0)
      /\ DOMAIN st = 1 .. Len(st)
  BY EmptySeq, LenProperties DEF Streams
<1>2. \A k \in 1 .. Len(st) : st[k] \in Stream
  BY <1>1, ElementOfSeq
<1> QED BY <1>1, <1>2 DEF Streams, Stream

----------------------------------------------------------------------
\* The invariant of the search.
LEMMA InitIInv == Init => IInv
<1> SUFFICES ASSUME Init PROVE IInv
  OBVIOUS
<1>1. there \subseteq Places /\ Rooted(there)
  BY TreesAssumption DEF Init, Rooted
<1>2. stack = << >> /\ found = << >> /\ Len(Targets) \in Nat
  BY NameAssumption, LenProperties DEF Init
<1>3. Streams(<< >>)
  BY EmptySeq DEF Streams
<1>4. TypeOK
  <2>1. << >> \in Seq(Places) /\ Len(<< >>) = 0
    BY EmptySeq
  <2> QED BY <1>1, <1>2, <1>3, <2>1, StreamsTyped, BoundAssumption DEF Init, TypeOK
<1>5. Position
  BY DEF Init, Position, Removal
<1> QED BY <1>1, <1>2, <1>3, <1>4, <1>5 DEF IInv

\* A step of the search keeps the file system and replaces the stack.
LEMMA FindKeeps ==
    ASSUME IInv, pc = "find", Streams(stack'), found' \in Seq(Places),
           Len(found) <= Len(found'), faults' \in 0 .. MaxFaults,
           UNCHANGED <<there, proj, targ, path, code, others>>,
           IF stack' = << >> THEN pc' = "clean" ELSE pc' = "find" /\ stack'[1].dir = Root
    PROVE  IInv'
<1>1. TypeOK'
  <2>1. found \in Seq(Places) /\ Len(found) \in Nat /\ Len(found') \in Nat
    BY LenProperties DEF IInv, TypeOK
  <2> QED BY <2>1, StreamsTyped DEF IInv, TypeOK
<1>2. Position'
  BY DEF Position, Removal
<1> QED BY <1>1, <1>2 DEF IInv, Rooted

LEMMA SearchIInv ==
    ASSUME IInv, Search \/ SearchFails
    PROVE  IInv'
<1>1. CASE Search
  <2>1. Streams(<< >>) /\ Entries(Root) \subseteq Children(Root)
    BY EmptySeq DEF Streams, Entries
  <2>2. stack' = With(<< >>, Root, Entries(Root))
    BY <1>1 DEF Search, Open, Root, With
  <2>3. Streams(stack') /\ Len(stack') = 1 /\ stack'[1].dir = Root
    <3>1. Root \in Places /\ Kind[Root] = "dir"
      BY StartAssumption DEF Root
    <3> DEFINE st == << >>
    <3>2. Streams(st) /\ Len(st) = 0 /\ st = << >> /\ stack' = With(st, Root, Entries(Root))
      BY <2>1, <2>2, EmptySeq
    <3> HIDE DEF st
    <3>3. Streams(With(st, Root, Entries(Root)))
      BY <2>1, <3>1, <3>2, Opened
    <3>4. Len(With(st, Root, Entries(Root))) = Len(st) + 1
      BY <2>1, <3>1, <3>2, Opened
    <3>5. With(st, Root, Entries(Root))[Len(st) + 1].dir = Root
      BY <2>1, <3>1, <3>2, Opened
    <3> QED BY <3>2, <3>3, <3>4, <3>5
  <2>4. stack' # << >>
    BY <2>3, StreamsTyped
  <2>5. Position'
    BY <1>1, <2>3, <2>4 DEF Search, Position, Removal
  <2>6. TypeOK'
    BY <1>1, <2>3, StreamsTyped DEF IInv, TypeOK, Search, loops
  <2> QED BY <1>1, <2>3, <2>5, <2>6 DEF IInv, Rooted, Search
<1>2. CASE SearchFails
  <2>1. TypeOK'
    BY <1>2, BoundAssumption DEF IInv, TypeOK, SearchFails, Fault, loops
  <2>2. Position'
    BY <1>2 DEF IInv, Position, SearchFails, Removal
  <2> QED BY <1>2, <2>1, <2>2 DEF IInv, SearchFails, Rooted
<1> QED BY <1>1, <1>2

LEMMA ListedIs ==
    ASSUME IInv, NEW x \in Places \ {Top}
    PROVE  /\ Listed(x) \in Seq(Places) /\ Len(found) <= Len(Listed(x))
           /\ {Listed(x)[k] : k \in 1 .. Len(Listed(x))}
                 = IF Name[x] = ".git" THEN Found \union {Parent[x]} ELSE Found
<1>1. found \in Seq(Places) /\ Len(found) \in Nat /\ Parent[x] \in Places
  BY LenProperties, AboveEach DEF IInv, TypeOK
<1>2. CASE Name[x] = ".git"
  <2>1. /\ Listed(x) = Append(found, Parent[x])
        /\ Listed(x) \in Seq(Places) /\ Len(Listed(x)) = Len(found) + 1
        /\ \A k \in 1 .. Len(found) : Listed(x)[k] = found[k]
        /\ Listed(x)[Len(found) + 1] = Parent[x]
    BY <1>1, <1>2, AppendProperties DEF Listed
  <2>2. 1 .. Len(Listed(x)) = (1 .. Len(found)) \union {Len(found) + 1}
    BY <1>1, <2>1
  <2>3. {Listed(x)[k] : k \in 1 .. Len(Listed(x))} = Found \union {Parent[x]}
    BY <2>1, <2>2 DEF Found
  <2> QED BY <1>1, <1>2, <2>1, <2>3
<1>3. CASE Name[x] # ".git"
  BY <1>1, <1>3 DEF Listed, Found
<1> QED BY <1>2, <1>3

\* What the entry read in the search is, and the stack it leaves behind.
LEMMA FindReads ==
    ASSUME IInv, pc = "find", NEW x \in Places, Reads(x)
    PROVE  /\ x \in Children(stack[Len(stack)].dir) /\ x # Top
           /\ LET ns == Stack(<<After(x)>>)
              IN  Streams(ns) /\ ns # << >> /\ ns[1].dir = Root
<1>1. Streams(stack) /\ stack # << >> /\ stack[1].dir = Root /\ Last(stack) = stack[Len(stack)]
  BY FrontIs DEF IInv, Position, Streams
<1>2. Len(stack) \in Nat \ {0}
  BY <1>1, StreamsTyped
<1>3. x \in Children(stack[Len(stack)].dir) /\ x # Top
  BY <1>1, <1>2 DEF Reads, Innermost, Streams, Children
<1> DEFINE ns == Without(stack, x)
<1>4. Streams(ns) /\ Len(ns) = Len(stack) /\ ns[1].dir = stack[1].dir
  <2> HIDE DEF ns
  <2>1. Streams(Without(stack, x))
    BY <1>1, ReadStreams
  <2>2. Len(Without(stack, x)) = Len(stack)
    BY <1>1, ReadLength
  <2>3. 1 \in 1 .. Len(stack)
    BY <1>2
  <2>4. Without(stack, x)[1].dir = stack[1].dir
    BY <1>1, <2>3, ReadDirs
  <2> QED BY <2>1, <2>2, <2>4 DEF ns
<1>5. ns # << >>
  BY <1>2, <1>4, StreamsTyped
<1>6. Stack(<<After(x)>>) = ns
  BY DEF Stack, After, Innermost, Without
<1> QED BY <1>1, <1>3, <1>4, <1>5, <1>6

\* A directory is opened, with its stream on top of that it was read from.
LEMMA FindOpens ==
    ASSUME IInv, pc = "find", NEW x \in Places, Reads(x), IsDir(x)
    PROVE  LET ns == Stack(<<After(x), Open(x)>>)
           IN  /\ ns = With(Without(stack, x), x, Entries(x))
               /\ Streams(ns) /\ ns # << >> /\ ns[1].dir = Root
<1> DEFINE st == Without(stack, x)
           ns == With(st, x, Entries(x))
<1>1. /\ x \in Children(stack[Len(stack)].dir) /\ Kind[x] = "dir"
      /\ Streams(stack) /\ stack # << >> /\ stack[1].dir = Root
  BY FindReads DEF IsDir, IInv, Position
<1>2. Streams(st)
  BY <1>1, ReadStreams
<1>3. Len(st) = Len(stack) /\ Len(stack) \in Nat \ {0}
  BY <1>1, ReadLength
<1>4. \A k \in 1 .. Len(stack) : st[k].dir = stack[k].dir
  BY <1>1, ReadDirs
<1>5. x \in Children(st[Len(st)].dir) /\ Entries(x) \subseteq Children(x) /\ st # << >>
  BY <1>1, <1>2, <1>3, <1>4, StreamsTyped DEF Entries
<1> HIDE DEF st
<1>6. Streams(ns)
  BY <1>1, <1>2, <1>5, Opened
<1>7. Len(ns) = Len(st) + 1
  BY <1>1, <1>2, <1>5, Opened
<1>8. ns[1] = st[1]
  <2>1. \A k \in 1 .. Len(st) : ns[k] = st[k]
    BY <1>1, <1>2, <1>5, Opened
  <2> QED BY <1>3, <2>1
<1>9. Stack(<<After(x), Open(x)>>) = ns
  <2> DEFINE a == [Last(stack) EXCEPT !.left = @ \ {x}]
             b == [dir |-> x, left |-> Entries(x)]
             f == Front(stack)
  <2>1. st = f \o <<a>> /\ ns = Append(st, b)
    BY DEF st, Without, With
  <2>2. Stack(<<After(x), Open(x)>>) = f \o <<a, b>>
    BY DEF Stack, After, Open, Innermost
  <2>3. f \in Seq(Stream \union {a, b})
    <3>1. f \in Seq(Stream)
      BY <1>1, FrontIs DEF Streams
    <3> HIDE DEF f, a, b
    <3> QED BY <3>1, SeqMonotonic
  <2> HIDE DEF f, a, b
  <2>4. Append(f \o <<a>>, b) = f \o <<a, b>>
    <3>1. f \o <<a>> \in Seq(Stream \union {a, b})
      BY <2>3, ConcatProperties
    <3>2. /\ <<a>> \in Seq(Stream \union {a, b}) /\ <<b>> \in Seq(Stream \union {a, b})
          /\ <<a>> \o <<b>> = <<a, b>>
      <4> DEFINE A == Stream \union {a, b}
      <4>1. <<a>> \in Seq(A) /\ Len(<<a>>) = 1 /\ <<a>>[1] = a
        OBVIOUS
      <4>2. <<b>> \in Seq(A) /\ Len(<<b>>) = 1 /\ <<b>>[1] = b
        OBVIOUS
      <4>3. <<a, b>> \in Seq(A) /\ Len(<<a, b>>) = 2 /\ <<a, b>>[1] = a /\ <<a, b>>[2] = b
        OBVIOUS
      <4>4. <<a>> \o <<b>> = <<a, b>>
        <5> DEFINE s == <<a>>
                   t == <<b>>
        <5>1. s \o t \in Seq(A) /\ Len(s \o t) = 2
          BY <4>1, <4>2, ConcatProperties
        <5>2. (s \o t)[1] = a
          BY <4>1, <4>2, ConcatProperties
        <5>3. (s \o t)[2] = b
          BY <4>1, <4>2, ConcatProperties
        <5> DEFINE u == s \o t
                   v == <<a, b>>
        <5>4. /\ u \in Seq(A) /\ Len(u) = 2 /\ u[1] = a /\ u[2] = b
              /\ v \in Seq(A) /\ Len(v) = 2 /\ v[1] = a /\ v[2] = b
          BY <4>3, <5>1, <5>2, <5>3
        <5> HIDE DEF u, v, A
        <5>5. Len(u) = Len(v) /\ \A i \in 1 .. Len(u) : u[i] = v[i]
          BY <5>4
        <5>6. u = v
          BY <5>4, <5>5, SeqEqual
        <5> QED BY <5>6 DEF u, v
      <4> QED BY <4>1, <4>2, <4>4
    <3>3. Append(f \o <<a>>, b) = (f \o <<a>>) \o <<b>>
      BY <3>1, AppendIsConcat
    <3>4. (f \o <<a>>) \o <<b>> = f \o (<<a>> \o <<b>>)
      BY <2>3, <3>2, ConcatAssociative
    <3> QED BY <3>2, <3>3, <3>4
  <2> QED BY <2>1, <2>2, <2>4
<1>10. ns # << >> /\ ns[1].dir = Root
  BY <1>1, <1>3, <1>4, <1>6, <1>7, <1>8, StreamsTyped
<1> QED BY <1>6, <1>9, <1>10 DEF st

\* Closing the innermost stream of the search ends it or goes on in the one
\* that is then the innermost.
LEMMA FindCloses ==
    ASSUME IInv, pc = "find"
    PROVE  LET ns == Stack(<< >>)
           IN  Streams(ns) /\ (ns # << >> => ns[1].dir = Root)
<1>1. Streams(stack) /\ stack # << >> /\ stack[1].dir = Root
  BY DEF IInv, Position
<1>2. Streams(Shorter(stack))
  BY <1>1, Closed
<1>3. \A k \in 1 .. Len(Shorter(stack)) : Shorter(stack)[k] = stack[k]
  BY <1>1, Closed
<1>4. Shorter(stack) # << >> => 1 \in 1 .. Len(Shorter(stack))
  BY <1>2, StreamsTyped
<1>5. Stack(<< >>) = Shorter(stack)
  BY DEF Stack, Shorter
<1> QED BY <1>1, <1>2, <1>3, <1>4, <1>5

LEMMA FindIInv ==
    ASSUME IInv, Finding
    PROVE  IInv'
<1>1. CASE Search \/ SearchFails
  BY <1>1, SearchIInv
<1>2. CASE FindReturn
  <2>1. /\ pc = "find" /\ stack' = Stack(<< >>)
        /\ UNCHANGED <<there, found, proj, targ, path, code, faults, others>>
        /\ pc' = IF stack' = << >> THEN "clean" ELSE "find"
    BY <1>2 DEF FindReturn, loops
  <2>2. Streams(stack') /\ (stack' # << >> => stack'[1].dir = Root)
    BY <2>1, FindCloses
  <2>3. found' \in Seq(Places) /\ Len(found) <= Len(found') /\ faults' \in 0 .. MaxFaults
    BY <2>1, LenProperties DEF IInv, TypeOK
  <2> QED BY <2>1, <2>2, <2>3, FindKeeps
<1>3. ASSUME NEW x \in Places,
             FindTooLong(x) \/ FindEntry(x) \/ FindShut(x) \/ StrdupFails(x) \/ AppendFails(x)
      PROVE  IInv'
  <2>1. /\ pc = "find" /\ Reads(x)
        /\ UNCHANGED <<there, proj, targ, path, code, others>>
        /\ found' = found \/ found' = Listed(x)
        /\ UNCHANGED faults \/ Fault
        /\ \/ /\ stack' = Stack(<<After(x)>>) \/ (IsDir(x) /\ stack' = Stack(<<After(x), Open(x)>>))
              /\ pc' = "find"
           \/ /\ stack' = Stack(<< >>)
              /\ pc' = IF stack' = << >> THEN "clean" ELSE "find"
    BY <1>3 DEF FindTooLong, FindEntry, FindShut, StrdupFails, AppendFails, loops
  <2>2. x # Top
    BY <2>1, FindReads
  <2>3. found' \in Seq(Places) /\ Len(found) <= Len(found')
    BY <2>1, <2>2, ListedIs, LenProperties DEF IInv, TypeOK
  <2>4. faults' \in 0 .. MaxFaults
    BY <2>1, BoundAssumption DEF IInv, TypeOK, Fault
  <2>5. Streams(stack') /\ (stack' # << >> => stack'[1].dir = Root)
    BY <2>1, FindReads, FindOpens, FindCloses
  <2>6. IF stack' = << >> THEN pc' = "clean" ELSE pc' = "find"
    BY <2>1, FindReads, FindOpens
  <2> QED BY <2>1, <2>3, <2>4, <2>5, <2>6, FindKeeps
<1> QED BY <1>1, <1>2, <1>3 DEF Finding

----------------------------------------------------------------------
\* The invariant of clean_up and of the loop of main around it.
LEMMA CurrentIs ==
    \/ Current = Null
    \/ /\ Current \in Children(found[proj]) /\ Current \in Places
       /\ Name[Current] = Targets[targ]
BY DEF Current, Child, Children

LEMMA CleanIInv ==
    ASSUME IInv, Cleaning
    PROVE  IInv'
<1>1. /\ pc \in {"clean", "returned"} /\ pc' \in {"enter", "clean", "done"}
      /\ stack = << >> /\ Streams(stack) /\ Rooted(there)
      /\ UNCHANGED <<there, stack, found, faults, others>>
  BY DEF Cleaning, CleanTarget, CleanTooLong, NextProject, Finish, Report, loops, IInv, Position
<1>2. Len(found) \in Nat /\ Len(Targets) \in Nat
  BY NameAssumption, LenProperties DEF IInv, TypeOK
<1>3. CASE CleanTarget
  <2>1. TypeOK'
    BY <1>3, <1>2, CurrentIs DEF IInv, TypeOK, CleanTarget, loops
  <2>2. Current' = Current
    BY <1>3 DEF CleanTarget, Current, loops
  <2>3. Position'
    BY <1>1, <1>3, <2>2 DEF Position, CleanTarget, Removal, loops
  <2> QED BY <1>1, <2>1, <2>3 DEF IInv
<1>4. CASE CleanTooLong \/ NextProject \/ Finish \/ Report
  <2>1. TypeOK'
    BY <1>4, <1>2, SMTT(30) DEF IInv, TypeOK, CleanTooLong, NextProject, Finish, Report, loops, Position, Removal
  <2>2. pc' \in {"clean", "done"} /\ stack' = << >>
    BY <1>1, <1>4 DEF CleanTooLong, NextProject, Finish, Report
  <2>3. Position'
    BY <2>2 DEF Position, Removal
  <2> QED BY <1>1, <2>1, <2>3 DEF IInv
<1> QED BY <1>3, <1>4 DEF Cleaning

----------------------------------------------------------------------
\* The invariant of remove_directory.
LEMMA RemoveKeeps ==
    ASSUME IInv, pc \in Removal, pc' \in Removal,
           Streams(stack'), stack' # << >> => stack'[1].dir = Current,
           there' \subseteq there, Rooted(there'),
           path' \in Places \union {Null}, code' \in 0 .. 3, faults' \in 0 .. MaxFaults,
           UNCHANGED <<found, proj, targ, others>>,
           pc' \in {"enter", "remove"} => code' <= 1 /\ stack' # << >>,
           pc' = "enter" => path' \in Children(stack'[Len(stack')].dir) /\ Kind[path'] = "dir"
    PROVE  IInv'
<1>1. TypeOK'
  BY StreamsTyped DEF IInv, TypeOK, Removal
<1>2. Current' = Current
  BY DEF Current
<1>3. Position'
  <2>1. proj <= Len(found) /\ targ <= Len(Targets) /\ Current \notin TooLong
    BY DEF IInv, Position
  <2>2. Innermost' = stack'[Len(stack')]
    BY DEF Innermost, Last
  <2> QED BY <1>2, <2>1, <2>2 DEF Position, Removal
<1> QED BY <1>1, <1>3 DEF IInv

LEMMA EnterReturnsIInv ==
    ASSUME IInv, EnterMissing \/ EnterNotDir \/ EnterShut
    PROVE  IInv'
<1>1. /\ pc = "enter" /\ pc' = "returned" /\ code' \in 0 .. 3
      /\ UNCHANGED <<there, stack, found, proj, targ, path, others>>
      /\ UNCHANGED faults \/ Fault
  BY DEF EnterMissing, EnterNotDir, EnterShut, Return, loops
<1>2. faults' \in 0 .. MaxFaults
  BY <1>1, BoundAssumption DEF IInv, TypeOK, Fault
<1>3. TypeOK'
  BY <1>1, <1>2 DEF IInv, TypeOK
<1>4. Current' = Current
  BY <1>1 DEF Current
<1>5. Position'
  BY <1>1, <1>4 DEF IInv, Position, Removal
<1> QED BY <1>1, <1>3, <1>5 DEF IInv, Rooted

LEMMA EnterOpens ==
    ASSUME IInv, EnterOpen
    PROVE  /\ stack' = With(stack, path, Entries(path)) /\ path \in Places /\ Kind[path] = "dir"
           /\ Streams(stack') /\ Len(stack) \in Nat /\ Len(stack') = Len(stack) + 1
           /\ \A k \in 1 .. Len(stack) : stack'[k] = stack[k]
           /\ stack'[Len(stack) + 1].dir = path /\ stack'[Len(stack) + 1].left = Entries(path)
           /\ stack' # << >> /\ stack'[1].dir = Current
<1>1. /\ pc = "enter" /\ path \in Places /\ Kind[path] = "dir"
      /\ stack' = With(stack, path, Entries(path))
  BY DEF EnterOpen, IsDir, IInv, TypeOK, With, Open
<1>2. /\ Streams(stack) /\ Entries(path) \subseteq Children(path)
      /\ stack # << >> => path \in Children(stack[Len(stack)].dir)
      /\ IF stack = << >> THEN path = Current ELSE stack[1].dir = Current
  BY <1>1 DEF IInv, Position, Removal, Entries, Innermost, Last
<1>3. Len(stack) \in Nat /\ (stack = << >> <=> Len(stack) = 0)
  BY <1>2, StreamsTyped
<1>4. Streams(With(stack, path, Entries(path)))
  BY <1>1, <1>2, Opened
<1>5. Len(With(stack, path, Entries(path))) = Len(stack) + 1
  BY <1>1, <1>2, Opened
<1>6. \A k \in 1 .. Len(stack) : With(stack, path, Entries(path))[k] = stack[k]
  BY <1>1, <1>2, Opened
<1>7. /\ With(stack, path, Entries(path))[Len(stack) + 1].dir = path
      /\ With(stack, path, Entries(path))[Len(stack) + 1].left = Entries(path)
  BY <1>1, <1>2, Opened
<1>8. stack' # << >>
  BY <1>1, <1>3, <1>4, <1>5, StreamsTyped
<1>9. stack'[1].dir = Current
  <2>1. CASE stack = << >>
    BY <1>1, <1>2, <1>3, <1>7, <2>1
  <2>2. CASE stack # << >>
    BY <1>1, <1>2, <1>3, <1>6, <2>2
  <2> QED BY <2>1, <2>2
<1> QED BY <1>1, <1>3, <1>4, <1>5, <1>6, <1>7, <1>8, <1>9

LEMMA EnterOpenIInv ==
    ASSUME IInv, EnterOpen
    PROVE  IInv'
<1>1. /\ pc = "enter" /\ pc' = "remove"
      /\ UNCHANGED <<there, found, proj, targ, path, code, faults, others>>
  BY DEF EnterOpen, loops
<1>2. Streams(stack') /\ stack' # << >> /\ stack'[1].dir = Current
  BY EnterOpens
<1>3. pc \in Removal /\ pc' \in Removal /\ code <= 1 /\ Rooted(there)
  BY <1>1 DEF IInv, Position, Removal
<1> QED BY <1>1, <1>2, <1>3, RemoveKeeps DEF IInv, TypeOK

\* The entry read in the removal, and what is left of its stream.
LEMMA RemoveReads ==
    ASSUME IInv, pc = "remove", NEW x, Reads(x)
    PROVE  LET ns == Stack(<<After(x)>>)
           IN  /\ x \in Children(stack[Len(stack)].dir) /\ x # Top /\ x \in Places
               /\ ns = Without(stack, x) /\ Streams(ns) /\ ns # << >> /\ ns[1].dir = Current
               /\ Len(stack) \in Nat \ {0} /\ Len(ns) = Len(stack)
               /\ \A k \in 1 .. Len(stack) : ns[k].dir = stack[k].dir
<1> DEFINE ns == Without(stack, x)
<1>1. Streams(stack) /\ stack # << >> /\ stack[1].dir = Current /\ Last(stack) = stack[Len(stack)]
  BY FrontIs DEF IInv, Position, Streams, Removal
<1>2. Len(stack) \in Nat \ {0}
  BY <1>1, StreamsTyped
<1>3. x \in Children(stack[Len(stack)].dir) /\ x # Top /\ x \in Places
  BY <1>1, <1>2 DEF Reads, Innermost, Streams, Children
<1>4. Streams(ns)
  BY <1>1, ReadStreams
<1>5. Len(ns) = Len(stack)
  BY <1>1, ReadLength
<1>6. \A k \in 1 .. Len(stack) : ns[k].dir = stack[k].dir
  BY <1>1, ReadDirs
<1>7. ns # << >> /\ ns[1].dir = Current
  BY <1>1, <1>2, <1>4, <1>5, <1>6, StreamsTyped
<1>8. Stack(<<After(x)>>) = ns
  BY DEF Stack, After, Innermost, Without
<1> HIDE DEF ns
<1> QED BY <1>2, <1>3, <1>4, <1>5, <1>6, <1>7, <1>8 DEF ns

LEMMA RemoveCloses ==
    ASSUME IInv, pc \in Removal, stack # << >>
    PROVE  LET ns == Stack(<< >>)
           IN  /\ Streams(ns) /\ (ns # << >> => ns[1].dir = Current)
               /\ Len(stack) \in Nat \ {0} /\ Len(ns) = Len(stack) - 1
               /\ \A k \in 1 .. Len(ns) : ns[k] = stack[k]
<1> DEFINE ns == Shorter(stack)
<1>1. Streams(stack) /\ stack[1].dir = Current
  BY DEF IInv, Position
<1>2. Streams(ns)
  BY <1>1, Closed
<1>3. Len(ns) = Len(stack) - 1
  BY <1>1, Closed
<1>4. \A k \in 1 .. Len(ns) : ns[k] = stack[k]
  BY <1>1, Closed
<1>5. ns # << >> => 1 \in 1 .. Len(ns)
  BY <1>2, StreamsTyped
<1>6. Len(stack) \in Nat \ {0}
  BY <1>1, StreamsTyped
<1>7. Stack(<< >>) = ns
  BY DEF Stack, Shorter
<1> HIDE DEF ns
<1> QED BY <1>1, <1>2, <1>3, <1>4, <1>5, <1>6, <1>7

\* Removing what nothing is in leaves a tree.
LEMMA RootedWithout ==
    ASSUME NEW t, Rooted(t), NEW x, \A y \in t \ {Top} : Parent[y] # x
    PROVE  Rooted(t \ {x})
BY DEF Rooted

\* A removal that breaks off closes its stream and returns an error.
LEMMA BreakIInv ==
    ASSUME IInv,
           RmdirFails \/ \E x \in Places : RemoveTooLong(x) \/ RemoveGone(x) \/ UnlinkFails(x)
    PROVE  IInv'
<1>1. /\ pc = "remove" /\ pc' = "returned" /\ code' = 3 /\ stack' = Stack(<< >>)
      /\ UNCHANGED <<there, found, proj, targ, path, others>>
      /\ UNCHANGED faults \/ Fault
  BY DEF RmdirFails, RemoveTooLong, RemoveGone, UnlinkFails, Break, Return, loops
<1>2. pc \in Removal /\ pc' \in Removal /\ stack # << >>
  BY <1>1 DEF IInv, Position, Removal
<1>3. Streams(stack') /\ (stack' # << >> => stack'[1].dir = Current)
  BY <1>1, <1>2, RemoveCloses
<1>4. faults' \in 0 .. MaxFaults
  BY <1>1, BoundAssumption DEF IInv, TypeOK, Fault
<1> QED BY <1>1, <1>2, <1>3, <1>4, RemoveKeeps DEF IInv, TypeOK

LEMMA RemoveFileIInv ==
    ASSUME IInv, NEW x \in Places, RemoveFile(x)
    PROVE  IInv'
<1>1. /\ pc = "remove" /\ pc' = "remove" /\ Reads(x) /\ stack' = Stack(<<After(x)>>)
      /\ x \in there /\ ~IsDir(x) /\ there' = there \ {x}
      /\ UNCHANGED <<found, proj, targ, path, code, faults, others>>
  BY DEF RemoveFile, loops
<1>2. Streams(stack') /\ stack' # << >> /\ stack'[1].dir = Current
  BY <1>1, RemoveReads
<1>3. Rooted(there')
  <2>1. \A y \in there \ {Top} : Parent[y] # x
    BY <1>1, TreeAssumption DEF IsDir, IInv, TypeOK
  <2>2. Rooted(there)
    BY DEF IInv
  <2> QED BY <1>1, <2>1, <2>2, RootedWithout
<1>4. pc \in Removal /\ pc' \in Removal /\ code <= 1
  BY <1>1 DEF IInv, Position, Removal
<1> QED BY <1>1, <1>2, <1>3, <1>4, RemoveKeeps DEF IInv, TypeOK

LEMMA DescendIInv ==
    ASSUME IInv, NEW x \in Places, Descend(x)
    PROVE  IInv'
<1>1. /\ pc = "remove" /\ pc' = "enter" /\ Reads(x) /\ stack' = Stack(<<After(x)>>)
      /\ path' = x /\ Kind[x] = "dir"
      /\ UNCHANGED <<there, found, proj, targ, code, faults, others>>
  BY DEF Descend, IsDir, loops
<1>2. /\ Streams(stack') /\ stack' # << >> /\ stack'[1].dir = Current
      /\ x \in Children(stack'[Len(stack')].dir)
  BY <1>1, RemoveReads
<1>3. pc \in Removal /\ pc' \in Removal /\ code <= 1 /\ Rooted(there)
  BY <1>1 DEF IInv, Position, Removal
<1> QED BY <1>1, <1>2, <1>3, RemoveKeeps DEF IInv, TypeOK

LEMMA RemoveDirIInv ==
    ASSUME IInv, RemoveDir
    PROVE  IInv'
<1>1. /\ pc = "remove" /\ pc' = "returned" /\ code' = 0 /\ stack' = Stack(<< >>)
      /\ Entries(Innermost.dir) = {} /\ there' = there \ {Innermost.dir}
      /\ UNCHANGED <<found, proj, targ, path, faults, others>>
  BY DEF RemoveDir, Return, loops
<1>2. pc \in Removal /\ pc' \in Removal /\ stack # << >> /\ Rooted(there)
  BY <1>1 DEF IInv, Position, Removal
<1>3. Streams(stack') /\ (stack' # << >> => stack'[1].dir = Current)
  BY <1>1, <1>2, RemoveCloses
<1>4. Rooted(there')
  <2>1. \A y \in there \ {Top} : Parent[y] # Innermost.dir
    BY <1>1 DEF Entries, Children, IInv, TypeOK
  <2> QED BY <1>1, <1>2, <2>1, RootedWithout
<1> QED BY <1>1, <1>2, <1>3, <1>4, RemoveKeeps DEF IInv, TypeOK

LEMMA ResumeIInv ==
    ASSUME IInv, Resume
    PROVE  IInv'
<1>1. /\ pc = "returned" /\ stack # << >>
      /\ IF code > 1 THEN stack' = Stack(<< >>) /\ pc' = pc ELSE pc' = "remove" /\ stack' = stack
      /\ UNCHANGED <<there, found, proj, targ, path, code, faults, others>>
  BY DEF Resume, loops
<1>2. pc \in Removal /\ pc' \in Removal /\ Rooted(there) /\ Streams(stack) /\ stack[1].dir = Current
  BY <1>1 DEF IInv, Position, Removal
<1>3. Streams(stack') /\ (stack' # << >> => stack'[1].dir = Current)
  BY <1>1, <1>2, RemoveCloses
<1>4. pc' = "remove" => code' <= 1 /\ stack' # << >>
  BY <1>1 DEF IInv, TypeOK
<1> QED BY <1>1, <1>2, <1>3, <1>4, RemoveKeeps DEF IInv, TypeOK

LEMMA RemoveIInv ==
    ASSUME IInv, Removing
    PROVE  IInv'
BY EnterReturnsIInv, EnterOpenIInv, BreakIInv, RemoveFileIInv, DescendIInv, RemoveDirIInv,
   ResumeIInv DEF Removing

----------------------------------------------------------------------
\* The invariant of the others' steps.
LEMMA NoticedIs ==
    ASSUME IInv, NEW x \in Places \ {Top}, Noticed(x)
    PROVE  /\ Streams(stack') /\ Len(stack') = Len(stack)
           /\ \A k \in 1 .. Len(stack) : stack'[k].dir = stack[k].dir
<1>1. Streams(stack) /\ stack \in Seq(Stream) /\ Len(stack) \in Nat /\ DOMAIN stack = 1 .. Len(stack)
  BY StreamsTyped, LenProperties DEF IInv
<1>2. CASE UNCHANGED stack
  BY <1>1, <1>2
<1>3. CASE stack' = [i \in DOMAIN stack |->
                       IF stack[i].dir = Parent[x]
                       THEN [stack[i] EXCEPT !.left = (@ \ {x}) \union ({x} \intersect there')]
                       ELSE stack[i]]
  <2> DEFINE e(i) == IF stack[i].dir = Parent[x]
                     THEN [stack[i] EXCEPT !.left = (@ \ {x}) \union ({x} \intersect there')]
                     ELSE stack[i]
  <2>1. ASSUME NEW i \in 1 .. Len(stack)
        PROVE  /\ e(i) \in Stream /\ e(i).dir = stack[i].dir
               /\ e(i).left \subseteq Children(stack[i].dir)
    <3> DEFINE r == stack[i]
    <3>1. r \in [dir : Places, left : SUBSET Places] /\ r.left \subseteq Children(r.dir)
      BY <1>1, ElementOfSeq DEF Stream, Streams
    <3> HIDE DEF r
    <3>2. CASE r.dir = Parent[x]
      <4> DEFINE n == [r EXCEPT !.left = (@ \ {x}) \union ({x} \intersect there')]
      <4>1. n \in [dir : Places, left : SUBSET Places] /\ n.dir = r.dir
            /\ n.left = (r.left \ {x}) \union ({x} \intersect there')
        BY <3>1
      <4>2. n.left \subseteq Children(r.dir)
        BY <3>1, <3>2, <4>1 DEF Children
      <4>3. e(i) = n
        BY <3>2 DEF r
      <4> HIDE DEF n, e
      <4> QED BY <4>1, <4>2, <4>3 DEF Stream, r
    <3>3. CASE r.dir # Parent[x]
      BY <3>1, <3>3 DEF Stream, r
    <3> QED BY <3>2, <3>3
  <2>2. stack' = [i \in 1 .. Len(stack) |-> e(i)]
    BY <1>1, <1>3
  <2> HIDE DEF e
  <2>3. stack' \in Seq(Stream) /\ Len(stack') = Len(stack)
    BY <1>1, <2>1, <2>2
  <2>4. \A k \in 1 .. Len(stack) :
           stack'[k].dir = stack[k].dir /\ stack'[k].left \subseteq Children(stack[k].dir)
    BY <2>1, <2>2
  <2>5. ASSUME NEW k \in 1 .. Len(stack)
        PROVE  /\ Kind[stack'[k].dir] = "dir" /\ stack'[k].left \subseteq Children(stack'[k].dir)
               /\ \A j \in 1 .. k : stack'[j].dir \in Above[stack'[k].dir]
               /\ k > 1 => stack'[k].dir \in Children(stack'[k - 1].dir)
    <3>1. 1 .. k \subseteq 1 .. Len(stack) /\ (k > 1 => k - 1 \in 1 .. Len(stack))
      BY <1>1
    <3>2. /\ stack'[k].dir = stack[k].dir /\ \A j \in 1 .. k : stack'[j].dir = stack[j].dir
          /\ k > 1 => stack'[k - 1].dir = stack[k - 1].dir
      BY <2>4, <3>1
    <3> QED BY <1>1, <2>4, <3>2 DEF Streams
  <2>6. Streams(stack')
    BY <2>3, <2>5 DEF Streams
  <2> QED BY <2>3, <2>4, <2>6
<1> QED BY <1>2, <1>3 DEF Noticed

LEMMA OthersIInv ==
    ASSUME IInv, NEW x \in Places, OtherCreates(x) \/ OtherRemoves(x)
    PROVE  IInv'
<1>1. /\ x \in Places \ {Top} /\ Noticed(x) /\ others' \in 0 .. MaxOthers
      /\ UNCHANGED <<pc, found, proj, targ, path, code, faults>>
      /\ \/ there' = there \union {x} /\ Parent[x] \in there
         \/ there' = there \ {x} /\ Entries(x) = {}
  BY BoundAssumption DEF OtherCreates, OtherRemoves, Other, IsDir, loops, IInv, TypeOK
<1>2. /\ Streams(stack') /\ Len(stack') = Len(stack)
      /\ \A k \in 1 .. Len(stack) : stack'[k].dir = stack[k].dir
  BY <1>1, NoticedIs
<1>3. Rooted(there') /\ there' \subseteq Places
  <2>1. Rooted(there) /\ there \subseteq Places
    BY DEF IInv, TypeOK
  <2>2. CASE there' = there \union {x} /\ Parent[x] \in there
    BY <2>1, <2>2, <1>1 DEF Rooted
  <2>3. CASE there' = there \ {x} /\ Entries(x) = {}
    <3>1. \A y \in there \ {Top} : Parent[y] # x
      BY <2>1, <2>3 DEF Entries, Children
    <3> QED BY <2>1, <2>3, <3>1, RootedWithout
  <2> QED BY <1>1, <2>2, <2>3
<1>4. TypeOK'
  BY <1>1, <1>2, <1>3, StreamsTyped DEF IInv, TypeOK
<1>5. Position'
  <2>1. Current' = Current
    BY <1>1 DEF Current
  <2>2. /\ (stack = << >> <=> stack' = << >>) /\ Len(stack) \in Nat
        /\ stack # << >> => /\ stack'[1].dir = stack[1].dir
                            /\ Innermost'.dir = Innermost.dir
    <3>1. Streams(stack)
      BY DEF IInv
    <3>2. /\ (stack = << >> <=> stack' = << >>) /\ Len(stack) \in Nat
          /\ stack # << >> => 1 \in 1 .. Len(stack) /\ Len(stack) \in 1 .. Len(stack)
      BY <1>2, <3>1, StreamsTyped
    <3>3. Innermost' = stack'[Len(stack)] /\ Innermost = stack[Len(stack)]
      BY <1>2 DEF Innermost, Last
    <3> QED BY <1>2, <3>2, <3>3
  <2> QED BY <1>1, <2>1, <2>2 DEF IInv, Position, Removal
<1> QED BY <1>2, <1>3, <1>4, <1>5 DEF IInv

LEMMA NextIInv == IInv /\ [Next]_vars => IInv'
<1>1. ASSUME IInv, UNCHANGED vars
      PROVE  IInv'
  <2>1. /\ UNCHANGED <<pc, there, stack, found, proj, targ, path, code, faults, others>>
    BY <1>1 DEF vars, loops
  <2>2. Current' = Current /\ Innermost' = Innermost
    BY <2>1 DEF Current, Innermost, Last
  <2> QED BY <1>1, <2>1, <2>2 DEF IInv, TypeOK, Rooted, Position
<1> QED BY <1>1, FindIInv, CleanIInv, RemoveIInv, OthersIInv DEF Next, Broom

\* The invariant holds in every reachable state.
THEOREM BroomInvariance == Spec => []IInv
BY InitIInv, NextIInv, PTL DEF Spec

\* Type correctness; among the rest, no stream is ever open on anything but a
\* directory, also where the search or a removal meets a link or a file with
\* the name of a target (git-broom.c:119-125, 154-172).
THEOREM BroomTypeCorrect == Spec => []TypeOK
<1>1. IInv => TypeOK
  BY DEF IInv
<1> QED BY <1>1, BroomInvariance, PTL

----------------------------------------------------------------------
\* While a stream is open in a removal, the target is a directory of a project.
LEMMA CurrentTarget ==
    ASSUME IInv, pc \in Removal, stack # << >>
    PROVE  /\ Current = stack[1].dir /\ Current \in Children(found[proj]) /\ Current \in Places
           /\ Kind[Current] = "dir" /\ Current \notin TooLong /\ Name[Current] = Targets[targ]
           /\ proj \in DOMAIN found /\ targ \in DOMAIN Targets
           /\ Len(stack) \in Nat \ {0}
           /\ \A k \in 1 .. Len(stack) : stack[k].dir \in Places /\ Current \in Above[stack[k].dir]
<1>1. /\ Streams(stack) /\ Current = stack[1].dir /\ Current \notin TooLong
      /\ proj <= Len(found) /\ targ <= Len(Targets)
  BY DEF IInv, Position
<1>2. /\ Len(stack) \in Nat \ {0}
      /\ \A k \in 1 .. Len(stack) : stack[k].dir \in Places
  BY <1>1, StreamsTyped
<1>3. \A k \in 1 .. Len(stack) : Current \in Above[stack[k].dir]
  BY <1>1 DEF Streams
<1>4. Current \in Places /\ Kind[Current] = "dir"
  BY <1>1, <1>2 DEF Streams
<1>5. Current \in Children(found[proj]) /\ Name[Current] = Targets[targ]
  BY <1>4, CurrentIs, NullAssumption
<1>6. proj \in DOMAIN found /\ targ \in DOMAIN Targets
  <2>1. /\ DOMAIN found = 1 .. Len(found) /\ DOMAIN Targets = 1 .. Len(Targets)
        /\ Len(found) \in Nat /\ Len(Targets) \in Nat
    BY NameAssumption, LenProperties DEF IInv, TypeOK
  <2> QED BY <1>1, <2>1 DEF IInv, TypeOK
<1> QED BY <1>1, <1>2, <1>3, <1>4, <1>5, <1>6

\* What the program removes is the current target or something in it.
LEMMA RemovesTarget ==
    ASSUME IInv, [Next]_vars, others' = others, NEW x \in there \ there'
    PROVE  /\ pc = "remove" /\ Current \in Above[x] \intersect TargetDirs(found[proj], there)
           /\ proj \in DOMAIN found
<1>1. pc = "remove" /\ (RemoveFile(x) \/ (RemoveDir /\ x = Innermost.dir))
  <2>1. others \in Nat
    BY BoundAssumption DEF IInv, TypeOK
  <2>2. ASSUME NEW y \in Places, OtherCreates(y) \/ OtherRemoves(y)
        PROVE  FALSE
    BY <2>1, <2>2 DEF OtherCreates, OtherRemoves, Other
  <2>3. Broom \/ UNCHANGED vars
    BY <2>2 DEF Next
  <2>4. ASSUME Finding \/ Cleaning \/ UNCHANGED vars
        PROVE  FALSE
    <3>1. there' = there
      BY <2>4 DEF Finding, Search, SearchFails, FindReturn, FindTooLong, FindEntry, FindShut, StrdupFails,
            AppendFails, Cleaning, CleanTarget, CleanTooLong, NextProject, Finish, Report, vars
    <3> QED BY <3>1
  <2>5. Removing
    BY <2>3, <2>4 DEF Broom
  <2>6. ASSUME EnterMissing \/ EnterNotDir \/ EnterShut \/ EnterOpen \/ RmdirFails \/ Resume
        PROVE  FALSE
    BY <2>6 DEF EnterMissing, EnterNotDir, EnterShut, EnterOpen, RmdirFails, Resume
  <2>7. ASSUME NEW y \in Places, RemoveTooLong(y) \/ RemoveGone(y) \/ UnlinkFails(y) \/ Descend(y)
        PROVE  FALSE
    BY <2>7 DEF RemoveTooLong, RemoveGone, UnlinkFails, Descend
  <2>8. RemoveDir \/ \E y \in Places : RemoveFile(y)
    BY <2>5, <2>6, <2>7 DEF Removing
  <2>9. CASE RemoveDir
    BY <2>9 DEF RemoveDir
  <2>10. ASSUME NEW y \in Places, RemoveFile(y)
         PROVE  pc = "remove" /\ RemoveFile(x)
    <3>1. y = x
      BY <2>10 DEF RemoveFile
    <3> QED BY <2>10, <3>1 DEF RemoveFile
  <2> QED BY <2>8, <2>9, <2>10
<1>2. pc \in Removal /\ stack # << >>
  BY <1>1 DEF IInv, Position, Removal
<1> DEFINE d == stack[Len(stack)].dir
<1>3. /\ Current = stack[1].dir /\ Current \in Children(found[proj]) /\ Kind[Current] = "dir"
      /\ Current \notin TooLong /\ Name[Current] = Targets[targ] /\ proj \in DOMAIN found
      /\ targ \in DOMAIN Targets /\ d \in Places /\ Current \in Above[d]
  BY <1>2, CurrentTarget
<1>4. x \in Places /\ Current \in Above[x]
  <2>1. CASE RemoveDir /\ x = Innermost.dir
    BY <1>3, <2>1 DEF Innermost, Last
  <2>2. CASE RemoveFile(x)
    <3>1. Reads(x)
      BY <2>2 DEF RemoveFile
    <3>2. x \in Children(d)
      BY <1>1, <3>1, RemoveReads
    <3> QED BY <1>3, <3>2, ChildBelow
  <2> QED BY <1>1, <2>1, <2>2
<1>5. Current \in there
  <2>1. Above[x] \subseteq there
    BY <1>4, AboveInside DEF IInv, Rooted
  <2> QED BY <1>4, <2>1
<1> QED BY <1>1, <1>3, <1>4, <1>5 DEF TargetDirs

\* git-broom removes nothing but targets of the projects it has found, and
\* what is inside them, in every tree, whatever its links lead to, whatever
\* call fails and whatever other programs do meanwhile (git-broom.c:147-222).
THEOREM BroomRemovesTargets == Spec => OnlyTargets
<1>1. IInv /\ [Next]_vars =>
         [others' = others =>
            \A x \in there \ there' : \E i \in DOMAIN found :
               Above[x] \intersect TargetDirs(found[i], there) # {}]_vars
  BY RemovesTarget
<1> QED BY <1>1, BroomInvariance, PTL DEF Spec, OnlyTargets

\* remove_directory stops on the first error it meets: up through the calls it
\* was called from nothing more is removed (git-broom.c:132-146, 194-199).
THEOREM BroomStopsAtError == Spec => StopsAtFirstError
<1>1. IInv /\ [Next]_vars => [code > 1 /\ others' = others => UNCHANGED there]_vars
  <2> SUFFICES ASSUME IInv, [Next]_vars, code > 1, others' = others PROVE there' = there
    OBVIOUS
  <2>1. there \subseteq there'
    <3>1. ASSUME NEW x \in there, x \notin there'
          PROVE  FALSE
      <4>1. pc = "remove"
        BY <3>1, RemovesTarget
      <4> QED BY <4>1 DEF IInv, TypeOK, Position
    <3> QED BY <3>1
  <2>2. there' \subseteq there
    <3>1. others \in Nat
      BY BoundAssumption DEF IInv, TypeOK
    <3>2. ASSUME NEW y \in Places, OtherCreates(y) \/ OtherRemoves(y)
          PROVE  FALSE
      BY <3>1, <3>2 DEF OtherCreates, OtherRemoves, Other
    <3>3. CASE Finding \/ Cleaning \/ UNCHANGED vars
      BY <3>3 DEF Finding, Search, SearchFails, FindReturn, FindTooLong, FindEntry, FindShut, StrdupFails,
            AppendFails, Cleaning, CleanTarget, CleanTooLong, NextProject, Finish, Report, vars
    <3>4. CASE Removing
      BY <3>4 DEF Removing, EnterMissing, EnterNotDir, EnterShut, EnterOpen, RmdirFails, Resume,
            RemoveTooLong, RemoveGone, UnlinkFails, Descend, RemoveDir, RemoveFile
    <3> QED BY <3>2, <3>3, <3>4 DEF Next, Broom
  <2> QED BY <2>1, <2>2
<1> QED BY <1>1, BroomInvariance, PTL DEF Spec, StopsAtFirstError

\* A target that clean_up reports as cleaned is gone, although a directory
\* missing inside it was no error (git-broom.c:194-221, 249-258).
THEOREM BroomCleans == Spec => CleanedIsGone
<1>1. IInv /\ [Next]_vars =>
         [pc' = "returned" /\ stack' = << >> /\ others' = others /\ code' = 0
             => Current \notin there']_vars
  <2> SUFFICES ASSUME IInv, Next, pc' = "returned", stack' = << >>, others' = others, code' = 0
               PROVE  Current \notin there'
    BY DEF vars
  <2>1. others \in Nat
    BY BoundAssumption DEF IInv, TypeOK
  <2>2. ASSUME NEW y \in Places, OtherCreates(y) \/ OtherRemoves(y)
        PROVE  FALSE
    BY <2>1, <2>2 DEF OtherCreates, OtherRemoves, Other
  <2>3. ASSUME Finding \/ Cleaning
        PROVE  FALSE
    BY <2>3 DEF Finding, Search, SearchFails, FindReturn, FindTooLong, FindEntry, FindShut, StrdupFails,
          AppendFails, Cleaning, CleanTarget, CleanTooLong, NextProject, Finish, Report
  <2>4. ASSUME EnterMissing \/ EnterNotDir \/ EnterShut \/ EnterOpen \/ RmdirFails \/ Resume
        PROVE  FALSE
    BY <2>4 DEF EnterMissing, EnterNotDir, EnterShut, EnterOpen, RmdirFails, Resume, Break, Return
  <2>5. ASSUME NEW x \in Places, RemoveTooLong(x) \/ RemoveGone(x) \/ UnlinkFails(x)
        PROVE  FALSE
    <3>1. code' = 3
      BY <2>5 DEF RemoveTooLong, RemoveGone, UnlinkFails, Break, Return
    <3> QED BY <3>1
  <2>6. ASSUME NEW x \in Places, RemoveFile(x) \/ Descend(x)
        PROVE  FALSE
    <3>1. pc' # "returned"
      BY <2>6 DEF RemoveFile, Descend
    <3> QED BY <3>1
  <2>7. RemoveDir
    BY <2>2, <2>3, <2>4, <2>5, <2>6 DEF Next, Broom, Removing
  <2>8. pc \in Removal /\ stack # << >> /\ stack' = Stack(<< >>) /\ there' = there \ {Innermost.dir}
    BY <2>7 DEF RemoveDir, Removal, IInv, Position
  <2>9. Len(stack) = 1
    <3>1. Len(stack) \in Nat \ {0} /\ Len(stack') = Len(stack) - 1
      BY <2>8, RemoveCloses
    <3>2. Len(stack') = 0
      BY EmptySeq
    <3> QED BY <3>1, <3>2
  <2>10. Current = Innermost.dir
    BY <2>8, <2>9, CurrentTarget DEF Innermost, Last
  <2> QED BY <2>8, <2>10
<1> QED BY <1>1, BroomInvariance, PTL DEF Spec, CleanedIsGone

----------------------------------------------------------------------
\* An undisturbed sweep.  A step after which nothing has failed and nobody
\* interfered is one of the program without a fault, or none.
LEMMA Calm ==
    ASSUME IInv, [Next]_vars, Undisturbed'
    PROVE  /\ Undisturbed /\ others' = others /\ faults' = faults /\ ~Fault /\ before' = before
           /\ Finding \/ Cleaning \/ Removing \/ UNCHANGED vars
<1>1. others \in Nat /\ faults \in Nat
  BY BoundAssumption DEF IInv, TypeOK
<1>2. ASSUME NEW y \in Places, OtherCreates(y) \/ OtherRemoves(y)
      PROVE  FALSE
  <2>1. others' = others + 1
    BY <1>2 DEF OtherCreates, OtherRemoves, Other
  <2> QED BY <1>1, <2>1 DEF Undisturbed
<1>3. Finding \/ Cleaning \/ Removing \/ UNCHANGED vars
  BY <1>2 DEF Next, Broom
<1>4. others' = others /\ before' = before /\ (faults' = faults \/ Fault)
  <2>1. CASE Finding
    BY <2>1 DEF Finding, Search, SearchFails, FindReturn, FindTooLong, FindEntry, FindShut, StrdupFails,
          AppendFails
  <2>2. CASE Cleaning
    BY <2>2 DEF Cleaning, CleanTarget, CleanTooLong, NextProject, Finish, Report
  <2>3. CASE Removing
    BY <2>3 DEF Removing, EnterMissing, EnterNotDir, EnterShut, EnterOpen, RmdirFails, Resume,
          RemoveTooLong, RemoveGone, UnlinkFails, Descend, RemoveDir, RemoveFile
  <2>4. CASE UNCHANGED vars
    BY <2>4 DEF vars
  <2> QED BY <1>3, <2>1, <2>2, <2>3, <2>4
<1>5. ~Fault
  BY <1>1 DEF Fault, Undisturbed
<1> QED BY <1>3, <1>4, <1>5 DEF Undisturbed

LEMMA NothingAppears ==
    ASSUME IInv, Finding \/ Cleaning \/ Removing \/ UNCHANGED vars
    PROVE  there' \subseteq there
<1>1. CASE Finding \/ Cleaning \/ UNCHANGED vars
  BY <1>1 DEF Finding, Search, SearchFails, FindReturn, FindTooLong, FindEntry, FindShut, StrdupFails,
        AppendFails, Cleaning, CleanTarget, CleanTooLong, NextProject, Finish, Report, vars
<1>2. CASE Removing
  BY <1>2 DEF Removing, EnterMissing, EnterNotDir, EnterShut, EnterOpen, RmdirFails, Resume,
        RemoveTooLong, RemoveGone, UnlinkFails, Descend, RemoveDir, RemoveFile
<1> QED BY <1>1, <1>2

\* What is gone was in a target of a project there was at the start.
LEMMA SweptOnly ==
    ASSUME IInv, Undisturbed, Sweep, [Next]_vars, Undisturbed'
    PROVE  there' \subseteq before' /\ before' \ Swept(before') \subseteq there'
<1>1. others' = others /\ before' = before /\ there' \subseteq there
  BY Calm, NothingAppears
<1>2. ASSUME NEW x \in before \ Swept(before), x \notin there'
      PROVE  FALSE
  <2>1. x \in there \ there' /\ there \subseteq before /\ FoundOnly
    BY <1>2 DEF Sweep
  <2>2. /\ Current \in Above[x] \intersect TargetDirs(found[proj], there)
        /\ proj \in DOMAIN found
    BY <1>1, <2>1, RemovesTarget
  <2>3. found[proj] \in Projects(before)
    <3>1. proj \in 1 .. Len(found)
      BY <2>2, LenProperties DEF IInv, TypeOK
    <3> QED BY <2>1, <3>1 DEF FoundOnly, Found
  <2>4. Current \in TargetDirs(found[proj], before)
    BY <2>1, <2>2 DEF TargetDirs
  <2> QED BY <1>2, <2>2, <2>3, <2>4 DEF Swept
<1> QED BY <1>1, <1>2 DEF Sweep

----------------------------------------------------------------------
\* The search.  An entry below a place that has been read is below one of the
\* entries of that place, which is a directory.
LEMMA BelowEntry ==
    ASSUME IInv, NEW g \in there, NEW x \in Above[g], x # g
    PROVE  IsDir(x) /\ Above[g] \intersect Entries(x) # {}
<1>1. g \in Places /\ Rooted(there)
  BY DEF IInv, TypeOK
<1>2. PICK c \in Children(x) : c \in Above[g]
  BY <1>1, AboveChild
<1>3. Above[g] \subseteq there
  BY <1>1, AboveInside DEF Rooted
<1>4. x \in Places
  BY <1>1, AbovePlaces
<1>5. Kind[x] = "dir"
  BY <1>2, <1>4, ChildBelow
<1> QED BY <1>2, <1>3, <1>5 DEF IsDir, Entries

\* An entry that makes a project is below the start, and not the start itself.
LEMMA BelowRoot ==
    ASSUME IInv, there = before, NEW g \in GitEntries(before)
    PROVE  /\ g \in there /\ g \in Places /\ g # Top /\ g \notin TooLong /\ Name[g] = ".git"
           /\ Root \in Above[g] /\ Root # g
<1>1. /\ g \in there /\ g \in Places /\ g # Top /\ g \notin TooLong /\ Name[g] = ".git"
      /\ Root \in Above[Parent[g]]
  BY DEF GitEntries, IInv, TypeOK
<1>2. Parent[g] \in Places /\ g \in Children(Parent[g])
  BY <1>1, AboveEach DEF Children
<1>3. Root \in Above[g]
  BY <1>1, <1>2, ChildBelow
<1>4. g \notin Above[Parent[g]]
  BY <1>2, NoCycle
<1> QED BY <1>1, <1>3, <1>4

\* What the search takes for a project is one.
LEMMA ListedOnly ==
    ASSUME IInv, Searching, pc = "find", NEW x \in Places, Reads(x), x \notin TooLong,
           Name[x] = ".git"
    PROVE  Parent[x] \in Projects(before)
<1> DEFINE d == stack[Len(stack)].dir
<1>1. x \in Children(d) /\ x # Top
  BY FindReads
<1>2. Streams(stack) /\ stack # << >> /\ stack[1].dir = Root
  BY DEF IInv, Position
<1>3. Len(stack) \in 1 .. Len(stack) /\ 1 \in 1 .. Len(stack)
  BY <1>2, StreamsTyped
<1>4. Root \in Above[d]
  BY <1>2, <1>3 DEF Streams
<1>5. x \in before
  BY <1>3 DEF Searching, Reads, Innermost, Last
<1> QED BY <1>1, <1>4, <1>5 DEF Projects, Children, Root

LEMMA SearchSweep ==
    ASSUME IInv, Sweep, Search, before' = before
    PROVE  Sweep'
<1>1. /\ pc = "start" /\ pc' = "find" /\ stack' = <<[dir |-> Root, left |-> Entries(Root)]>>
      /\ UNCHANGED <<there, found, proj, targ, code>>
  BY DEF Search, Open, Root, loops
<1>2. there = before
  BY <1>1 DEF Sweep
<1>3. Len(stack') = 1 /\ stack'[1].left = Entries(Root)
  BY <1>1
<1>4. ASSUME NEW g \in GitEntries(before)
      PROVE  Above[g] \intersect stack'[1].left # {}
  BY <1>2, <1>3, <1>4, BelowRoot, BelowEntry
<1>5. Searching'
  <2>1. GitEntries(before') = GitEntries(before)
    BY DEF GitEntries, Root
  <2> QED BY <1>1, <1>2, <1>3, <1>4, <2>1 DEF Searching, Entries
<1> QED BY <1>1, <1>5 DEF Sweep, FoundOnly, Found, Removal

\* While each entry is found or still to come, the search goes on, and when no
\* stream is open it has found them all.
LEMMA FindSweeps ==
    ASSUME Sweep, pc = "find", before' = before, UNCHANGED <<there, proj, targ>>,
           Found' \subseteq Projects(before),
           \A k \in 1 .. Len(stack') : stack'[k].left \subseteq there,
           \A g \in GitEntries(before) :
              Parent[g] \in Found' \/ \E k \in 1 .. Len(stack') : Above[g] \intersect stack'[k].left # {},
           IF stack' = << >> THEN pc' = "clean" ELSE pc' = "find"
    PROVE  Sweep'
<1>1. there = before /\ proj' = 1 /\ targ' = 1
  BY DEF Sweep, Searching
<1>2. GitEntries(before') = GitEntries(before) /\ Projects(before') = Projects(before)
  BY DEF GitEntries, Root, Projects
<1>3. pc' = "find" => Searching'
  BY <1>1, <1>2 DEF Searching
<1>4. pc' = "clean" => FoundAll' /\ Done'
  <2> SUFFICES ASSUME pc' = "clean" PROVE FoundAll' /\ Done'
    OBVIOUS
  <2>1. 1 .. Len(stack') = {}
    BY EmptySeq
  <2>2. \A g \in GitEntries(before) : Parent[g] \in Found'
    BY <2>1
  <2>3. FoundAll'
    BY <1>2, <2>2 DEF FoundAll, GitEntries, Projects, Root
  <2>4. Done'
    <3>1. \A k \in 1 .. Len(found'), j \in 1 .. Len(Targets) : ~(k < 1 \/ (k = 1 /\ j < 1))
      OBVIOUS
    <3> QED BY <1>1, <3>1 DEF Done
  <2> QED BY <2>3, <2>4
<1>5. FoundOnly'
  BY <1>2 DEF FoundOnly
<1>6. there' \subseteq before' /\ before' \ Swept(before') \subseteq there'
  BY <1>1
<1> QED BY <1>1, <1>3, <1>4, <1>5, <1>6 DEF Sweep, Removal

LEMMA FindTooLongSweep ==
    ASSUME IInv, Sweep, NEW x \in Places, FindTooLong(x), before' = before
    PROVE  Sweep'
<1>1. /\ pc = "find" /\ pc' = "find" /\ Reads(x) /\ x \in TooLong /\ stack' = Stack(<<After(x)>>)
      /\ UNCHANGED <<there, found, proj, targ>>
  BY DEF FindTooLong, loops
<1>2. Streams(stack) /\ stack # << >> /\ Searching /\ FoundOnly
  BY <1>1 DEF IInv, Position, Sweep
<1>3. stack' = Without(stack, x) /\ stack' # << >>
  <2>1. stack' = Without(stack, x)
    BY <1>1 DEF Stack, After, Innermost, Without
  <2> QED BY <1>1, <2>1, FindReads
<1>4. Len(stack') = Len(stack)
  BY <1>2, <1>3, ReadLength
<1>5. \A k \in 1 .. Len(stack) :
         stack'[k].left = IF k = Len(stack) THEN stack[k].left \ {x} ELSE stack[k].left
  <2>1. ASSUME NEW k \in 1 .. Len(stack)
        PROVE  /\ k = Len(stack) => Without(stack, x)[k].left = stack[k].left \ {x}
               /\ k # Len(stack) => Without(stack, x)[k].left = stack[k].left
    <3>1. Streams(stack) /\ stack # << >>
      BY <1>2
    <3> QED BY <3>1, ReadLeft
  <2> QED BY <1>3, <2>1
<1>6. ASSUME NEW g \in GitEntries(before), Parent[g] \notin Found
      PROVE  \E k \in 1 .. Len(stack') : Above[g] \intersect stack'[k].left # {}
  <2>1. PICK k \in 1 .. Len(stack) : Above[g] \intersect stack[k].left # {}
    BY <1>2, <1>6 DEF Searching
  <2>2. g \in Places /\ g \notin TooLong
    BY <1>2, BelowRoot DEF Searching
  <2>3. x \notin Above[g]
    BY <1>1, <2>2, TooLongBelow
  <2> QED BY <1>4, <1>5, <2>1, <2>3
<1>7. \A k \in 1 .. Len(stack') : stack'[k].left \subseteq there
  BY <1>2, <1>4, <1>5 DEF Searching
<1>8. Found' = Found
  BY <1>1 DEF Found
<1> QED BY <1>1, <1>2, <1>3, <1>6, <1>7, <1>8, FindSweeps DEF FoundOnly

LEMMA FindEntrySweep ==
    ASSUME IInv, Sweep, NEW x \in Places, FindEntry(x), before' = before
    PROVE  Sweep'
<1>1. /\ pc = "find" /\ pc' = "find" /\ Reads(x) /\ x \notin TooLong /\ found' = Listed(x)
      /\ UNCHANGED <<there, proj, targ>>
      /\ stack' = Stack(IF IsDir(x) THEN <<After(x), Open(x)>> ELSE <<After(x)>>)
  BY DEF FindEntry
<1>2. Streams(stack) /\ stack # << >> /\ Searching /\ FoundOnly
  BY <1>1 DEF IInv, Position, Sweep
<1>3. x \in Children(stack[Len(stack)].dir) /\ x # Top
  BY <1>1, FindReads
<1>4. Found' = IF Name[x] = ".git" THEN Found \union {Parent[x]} ELSE Found
  <2>1. Found' = {Listed(x)[k] : k \in 1 .. Len(Listed(x))}
    BY <1>1 DEF Found
  <2>2. {Listed(x)[k] : k \in 1 .. Len(Listed(x))}
           = IF Name[x] = ".git" THEN Found \union {Parent[x]} ELSE Found
    BY <1>3, ListedIs
  <2> QED BY <2>1, <2>2
<1>5. Found' \subseteq Projects(before)
  BY <1>1, <1>2, <1>4, ListedOnly DEF FoundOnly
<1> DEFINE n == Len(stack)
           st == Without(stack, x)
<1>6. Streams(st) /\ n \in Nat \ {0}
  BY <1>2, ReadStreams, ReadLength
<1>7. Len(st) = n
  BY <1>2, ReadLength
<1>8. \A k \in 1 .. n : st[k].dir = stack[k].dir
  BY <1>2, ReadDirs
<1>9. \A k \in 1 .. n : st[k].left \subseteq stack[k].left /\ stack[k].left \subseteq st[k].left \union {x}
  <2>1. \A k \in 1 .. n : /\ k = n => st[k].left = stack[k].left \ {x}
                          /\ k # n => st[k].left = stack[k].left
    BY <1>2, ReadLeft
  <2> HIDE DEF st, n
  <2> QED BY <2>1
<1>10. /\ stack' # << >> /\ n <= Len(stack') /\ Len(stack') \in Nat
       /\ \A k \in 1 .. n : stack'[k] = st[k]
       /\ IF IsDir(x) THEN Len(stack') = n + 1 /\ stack'[n + 1].left = Entries(x)
                      ELSE Len(stack') = n
  <2>1. CASE ~IsDir(x)
    <3>1. stack' = st
      BY <1>1, <2>1 DEF Stack, After, Innermost, Without
    <3>2. st # << >>
      BY <1>6, <1>7, StreamsTyped
    <3> HIDE DEF st, n
    <3> QED BY <1>6, <1>7, <2>1, <3>1, <3>2
  <2>2. CASE IsDir(x)
    <3>1. stack' = Stack(<<After(x), Open(x)>>)
      BY <1>1, <2>2
    <3>2. stack' # << >>
      BY <1>1, <2>2, <3>1, FindOpens
    <3>3. stack' = With(st, x, Entries(x))
      BY <1>1, <2>2, <3>1, FindOpens
    <3>4. Kind[x] = "dir" /\ Entries(x) \subseteq Children(x)
      BY <2>2 DEF IsDir, Entries
    <3>5. x \in Children(st[Len(st)].dir)
      BY <1>3, <1>6, <1>7, <1>8
    <3> HIDE DEF st, n
    <3>6. Len(stack') = Len(st) + 1
      BY <1>6, <3>3, <3>4, <3>5, Opened
    <3>7. \A k \in 1 .. Len(st) : stack'[k] = st[k]
      BY <1>6, <3>3, <3>4, <3>5, Opened
    <3>8. stack'[Len(st) + 1].left = Entries(x)
      BY <1>6, <3>3, <3>4, <3>5, Opened
    <3> QED BY <1>6, <1>7, <2>2, <3>2, <3>6, <3>7, <3>8
  <2> QED BY <2>1, <2>2
<1> HIDE DEF n, st
<1>11. ASSUME NEW g \in GitEntries(before), Parent[g] \notin Found'
       PROVE  \E k \in 1 .. Len(stack') : Above[g] \intersect stack'[k].left # {}
  <2>1. /\ g \in there /\ Name[g] = ".git"
    BY <1>2, BelowRoot DEF Searching
  <2>2. g # x
    BY <1>4, <1>11, <2>1
  <2>3. Parent[g] \notin Found
    BY <1>4, <1>11
  <2>4. PICK k \in 1 .. n : Above[g] \intersect stack[k].left # {}
    BY <1>2, <2>3 DEF Searching, n
  <2>5. CASE x \in Above[g]
    <3>1. IsDir(x) /\ Above[g] \intersect Entries(x) # {}
      BY <2>1, <2>2, <2>5, BelowEntry
    <3>2. n + 1 \in 1 .. Len(stack') /\ stack'[n + 1].left = Entries(x)
      BY <1>6, <1>10, <3>1
    <3> QED BY <3>1, <3>2
  <2>6. CASE x \notin Above[g]
    <3>1. k \in 1 .. Len(stack') /\ stack'[k] = st[k]
      BY <1>6, <1>10
    <3>2. Above[g] \intersect stack'[k].left # {}
      BY <1>9, <2>4, <2>6, <3>1
    <3> QED BY <3>1, <3>2
  <2> QED BY <2>5, <2>6
<1>12. ASSUME NEW k \in 1 .. Len(stack')
       PROVE  stack'[k].left \subseteq there
  <2>1. CASE k <= n
    <3>1. k \in 1 .. n
      BY <1>6, <1>10, <2>1
    <3>2. stack'[k].left \subseteq stack[k].left
      BY <1>9, <1>10, <3>1
    <3> QED BY <1>2, <3>1, <3>2 DEF Searching, n
  <2>2. CASE k > n
    <3>1. k = n + 1 /\ stack'[n + 1].left = Entries(x)
      BY <1>6, <1>10, <2>2
    <3> QED BY <3>1 DEF Entries
  <2> QED BY <1>6, <1>10, <2>1, <2>2
<1> QED BY <1>1, <1>5, <1>10, <1>11, <1>12, FindSweeps

LEMMA FindReturnSweep ==
    ASSUME IInv, Sweep, FindReturn, before' = before
    PROVE  Sweep'
<1>1. /\ pc = "find" /\ Innermost.left = {} /\ stack' = Stack(<< >>)
      /\ UNCHANGED <<there, found, proj, targ>>
      /\ pc' = IF stack' = << >> THEN "clean" ELSE "find"
  BY DEF FindReturn, loops
<1>2. Streams(stack) /\ stack # << >> /\ Searching /\ FoundOnly
  BY <1>1 DEF IInv, Position, Sweep
<1>3. stack' = Shorter(stack)
  BY <1>1 DEF Stack, Shorter
<1>4. Len(stack') = Len(stack) - 1 /\ Len(stack) \in Nat \ {0}
  BY <1>2, <1>3, Closed
<1>5. \A k \in 1 .. Len(stack') : stack'[k] = stack[k]
  BY <1>2, <1>3, Closed
<1>6. stack[Len(stack)].left = {}
  BY <1>1 DEF Innermost, Last
<1>7. ASSUME NEW g \in GitEntries(before), Parent[g] \notin Found
      PROVE  \E k \in 1 .. Len(stack') : Above[g] \intersect stack'[k].left # {}
  <2>1. PICK k \in 1 .. Len(stack) : Above[g] \intersect stack[k].left # {}
    BY <1>2, <1>7 DEF Searching
  <2>2. k # Len(stack)
    BY <1>6, <2>1
  <2>3. k \in 1 .. Len(stack')
    BY <1>4, <2>2
  <2> QED BY <1>5, <2>1, <2>3
<1>8. \A k \in 1 .. Len(stack') : stack'[k].left \subseteq there
  BY <1>2, <1>4, <1>5 DEF Searching
<1>9. Found' = Found
  BY <1>1 DEF Found
<1> QED BY <1>1, <1>2, <1>7, <1>8, <1>9, FindSweeps DEF FoundOnly

LEMMA FindSweep ==
    ASSUME IInv, Sweep, Finding, ~Fault, before' = before
    PROVE  Sweep'
<1>1. ~SearchFails /\ \A x \in Places : ~FindShut(x) /\ ~StrdupFails(x) /\ ~AppendFails(x)
  BY DEF SearchFails, FindShut, StrdupFails, AppendFails
<1> QED BY <1>1, SearchSweep, FindTooLongSweep, FindEntrySweep, FindReturnSweep DEF Finding

----------------------------------------------------------------------
\* Cleaning keeps what the search has found, and what is gone is gone.
LEMMA SweepKeeps ==
    ASSUME Sweep, pc \notin {"start", "find"}, before' = before, found' = found,
           there' \subseteq there
    PROVE  /\ FoundOnly' /\ FoundAll'
           /\ \A k \in 1 .. Len(found), j \in 1 .. Len(Targets) : Gone(k, j) => Gone(k, j)'
           /\ \A k \in 1 .. Len(found), j \in 1 .. Len(Targets) :
                 k < proj \/ (k = proj /\ j < targ) => Gone(k, j)'
<1>1. Found' = Found /\ Projects(before') = Projects(before)
  BY DEF Found
<1>2. FoundOnly /\ FoundAll /\ Done
  BY DEF Sweep
<1>3. ASSUME NEW k \in 1 .. Len(found), NEW j \in 1 .. Len(Targets), Gone(k, j)
      PROVE  Gone(k, j)'
  BY <1>3 DEF Gone, Cleanable
<1> QED BY <1>1, <1>2, <1>3 DEF FoundOnly, FoundAll, Done

\* What has become of a target when its call has returned.
LEMMA ReturnedGone ==
    ASSUME IInv, Sweep, pc = "returned", stack = << >>
    PROVE  Gone(proj, targ)
<1>1. IF code <= 1 THEN Exact ELSE ~Cleanable(Current)
  BY DEF Sweep, Removal
<1>2. CASE code <= 1
  BY <1>1, <1>2 DEF Exact, Gone, Current
<1>3. CASE ~(code <= 1)
  BY <1>1, <1>3 DEF Gone, Current
<1> QED BY <1>2, <1>3

LEMMA CleanSweep ==
    ASSUME IInv, Sweep, Cleaning, before' = before,
           there' \subseteq before' /\ before' \ Swept(before') \subseteq there'
    PROVE  Sweep'
<1>1. /\ pc \in {"clean", "returned"} /\ pc' \in {"enter", "clean", "done"} /\ found' = found
      /\ there' = there /\ stack = << >> /\ stack' = << >>
  BY DEF Cleaning, CleanTarget, CleanTooLong, NextProject, Finish, Report, loops, IInv, Position
<1>2. /\ FoundOnly' /\ FoundAll'
      /\ \A k \in 1 .. Len(found), j \in 1 .. Len(Targets) : Gone(k, j) => Gone(k, j)'
      /\ \A k \in 1 .. Len(found), j \in 1 .. Len(Targets) :
            k < proj \/ (k = proj /\ j < targ) => Gone(k, j)'
  BY <1>1, SweepKeeps
<1>3. proj \in Nat /\ targ \in Nat /\ Len(found) \in Nat /\ Len(Targets) \in Nat
  BY NameAssumption, LenProperties DEF IInv, TypeOK
<1>4. Done'
  <2>1. CASE CleanTarget \/ Finish
    BY <1>1, <1>2, <2>1 DEF CleanTarget, Finish, loops, Done
  <2>2. CASE CleanTooLong \/ Report
    <3>1. targ' = targ + 1 /\ proj' = proj
      BY <2>2 DEF CleanTooLong, Report
    <3>2. Gone(proj, targ)
      <4>1. CASE CleanTooLong
        BY <4>1 DEF CleanTooLong, Gone, Current
      <4>2. CASE Report
        BY <4>2, ReturnedGone DEF Report
      <4> QED BY <2>2, <4>1, <4>2
    <3>3. \A k \in 1 .. Len(found), j \in 1 .. Len(Targets) :
             k < proj \/ (k = proj /\ j < targ + 1) => Gone(k, j)'
      <4>1. ASSUME NEW k \in 1 .. Len(found), NEW j \in 1 .. Len(Targets), k = proj, j < targ + 1
            PROVE  j < targ \/ j = targ
        BY <1>3, <4>1
      <4> QED BY <1>2, <3>2, <4>1
    <3> QED BY <1>1, <3>1, <3>3 DEF Done
  <2>3. CASE NextProject
    <3>1. targ' = 1 /\ proj' = proj + 1 /\ targ > Len(Targets)
      BY <2>3 DEF NextProject
    <3>2. \A k \in 1 .. Len(found), j \in 1 .. Len(Targets) :
             k < proj' \/ (k = proj' /\ j < targ') => k < proj \/ (k = proj /\ j < targ)
      BY <1>3, <3>1
    <3> QED BY <1>1, <1>2, <3>2 DEF Done
  <2> QED BY <2>1, <2>2, <2>3 DEF Cleaning
<1>5. pc' \in Removal => code' <= 1 /\ Exact'
  <2> SUFFICES ASSUME pc' \in Removal PROVE code' <= 1 /\ Exact'
    OBVIOUS
  <2>1. CleanTarget
    BY <1>1 DEF Cleaning, CleanTarget, CleanTooLong, NextProject, Finish, Report, Removal
  <2>2. pc' = "enter" /\ code' = 0
    BY <2>1 DEF CleanTarget
  <2>3. 1 .. Len(stack') = {}
    BY <1>1, EmptySeq
  <2> QED BY <2>2, <2>3 DEF Exact, ExactStack
<1>6. pc' = "done" => proj' > Len(found')
  BY DEF Cleaning, CleanTarget, CleanTooLong, NextProject, Finish, Report, loops, IInv, Position
<1> QED BY <1>1, <1>2, <1>4, <1>5, <1>6 DEF Sweep

----------------------------------------------------------------------
\* The removal.  A step keeps all of this, if it keeps the streams exact or
\* is stopped by what cannot be cleaned.
LEMMA RemoveSweeps ==
    ASSUME IInv, Sweep, pc \in Removal, pc' \in Removal, before' = before,
           UNCHANGED <<found, proj, targ>>, there' \subseteq there,
           there' \subseteq before' /\ before' \ Swept(before') \subseteq there',
           IF code' <= 1 THEN Exact' ELSE ~Cleanable(Current)
    PROVE  Sweep'
<1>1. pc \notin {"start", "find", "done"} /\ pc' \notin {"start", "find", "done"}
  BY DEF Removal
<1>2. /\ FoundOnly' /\ FoundAll'
      /\ \A k \in 1 .. Len(found), j \in 1 .. Len(Targets) :
            k < proj \/ (k = proj /\ j < targ) => Gone(k, j)'
  BY <1>1, SweepKeeps
<1>3. Done'
  BY <1>2 DEF Done
<1>4. Current' = Current /\ (Cleanable(Current)' <=> Cleanable(Current))
  BY DEF Current, Cleanable
<1>5. IF code' <= 1 THEN Exact' ELSE ~Cleanable(Current)'
  BY <1>4
<1> QED BY <1>1, <1>2, <1>3, <1>5 DEF Sweep

\* The streams of a removal are of different directories.
LEMMA StreamsDiffer ==
    ASSUME NEW st, Streams(st), NEW k \in 1 .. Len(st), NEW j \in 1 .. k - 1
    PROVE  st[j].dir # st[k].dir
<1>1. Len(st) \in Nat /\ \A i \in 1 .. Len(st) : st[i].dir \in Places
  BY StreamsTyped
<1>2. j \in 1 .. Len(st) /\ j + 1 \in 1 .. Len(st) /\ j + 1 \in 1 .. k /\ j + 1 > 1 /\ (j + 1) - 1 = j
  BY <1>1
<1>3. st[j + 1].dir \in Children(st[j].dir) /\ st[j + 1].dir \in Above[st[k].dir]
  BY <1>2 DEF Streams
<1>4. st[j].dir \in Places /\ st[j + 1].dir \notin Above[st[j].dir]
  BY <1>1, <1>2, <1>3, NoCycle
<1> QED BY <1>3, <1>4

\* Exact streams stay exact: when the call is about a place that is gone, ...
LEMMA ExactReturned ==
    ASSUME NEW st, NEW t, NEW p, ExactStack(st, t, p), p \notin t, Null \notin t
    PROVE  ExactStack(st, t, Null)
<1>1. ASSUME NEW k \in 1 .. Len(st)
      PROVE  (Children(st[k].dir) \intersect t) \ {Deeper(st, p, k)}
                = (Children(st[k].dir) \intersect t) \ {Deeper(st, Null, k)}
  <2>1. CASE k < Len(st)
    BY <2>1 DEF Deeper
  <2>2. CASE ~(k < Len(st))
    <3>1. Deeper(st, p, k) = p /\ Deeper(st, Null, k) = Null
      BY <2>2 DEF Deeper
    <3> QED BY <3>1
  <2> QED BY <2>1, <2>2
<1> QED BY <1>1 DEF ExactStack

\* ... when it is opened, ...
LEMMA ExactOpened ==
    ASSUME NEW st, NEW t, NEW p \in t, NEW ns, Null \notin t, ExactStack(st, t, p),
           Len(st) \in Nat, Len(ns) = Len(st) + 1, \A k \in 1 .. Len(st) : ns[k] = st[k],
           ns[Len(st) + 1].dir = p, ns[Len(st) + 1].left = Children(p) \intersect t
    PROVE  ExactStack(ns, t, Null)
<1>1. ASSUME NEW k \in 1 .. Len(ns)
      PROVE  ns[k].dir \in t /\ ns[k].left = (Children(ns[k].dir) \intersect t) \ {Deeper(ns, Null, k)}
  <2>1. CASE k = Len(st) + 1
    <3>1. Deeper(ns, Null, k) = Null
      BY <2>1 DEF Deeper
    <3> QED BY <2>1, <3>1
  <2>2. CASE k # Len(st) + 1
    <3>1. k \in 1 .. Len(st) /\ k < Len(ns) /\ ns[k] = st[k]
      BY <2>2
    <3>2. Deeper(ns, Null, k) = ns[k + 1].dir
      BY <3>1 DEF Deeper
    <3>3. Deeper(st, p, k) = ns[k + 1].dir
      <4>1. CASE k < Len(st)
        <5>1. k + 1 \in 1 .. Len(st)
          BY <3>1, <4>1
        <5> QED BY <4>1, <5>1 DEF Deeper
      <4>2. CASE ~(k < Len(st))
        <5>1. k = Len(st)
          BY <3>1, <4>2
        <5> QED BY <5>1 DEF Deeper
      <4> QED BY <4>1, <4>2
    <3>4. st[k].dir \in t /\ st[k].left = (Children(st[k].dir) \intersect t) \ {Deeper(st, p, k)}
      BY <3>1 DEF ExactStack
    <3> QED BY <3>1, <3>2, <3>3, <3>4
  <2> QED BY <2>1, <2>2
<1> QED BY <1>1 DEF ExactStack

\* ... when an entry is read, which then goes, or which a call is about, ...
LEMMA ExactRead ==
    ASSUME NEW st, Streams(st), st # << >>, NEW t, NEW u, NEW x, NEW p, Null \notin t,
           x \in Children(st[Len(st)].dir), ExactStack(st, t, Null),
           \/ u = t \ {x} /\ p = Null /\ Kind[x] # "dir"
           \/ u = t /\ p = x
    PROVE  ExactStack(Without(st, x), u, p)
<1> DEFINE ns == Without(st, x)
           n == Len(st)
<1>1. n \in Nat \ {0} /\ Len(ns) = n
  BY ReadLength
<1>2. \A k \in 1 .. n : ns[k].dir = st[k].dir
  BY ReadDirs
<1>3. \A k \in 1 .. n : /\ k = n => ns[k].left = st[k].left \ {x}
                        /\ k # n => ns[k].left = st[k].left
  BY ReadLeft
<1> HIDE DEF ns
<1>4. \A k \in 1 .. n : st[k].dir \in u
  <2>1. ASSUME NEW k \in 1 .. n
        PROVE  st[k].dir \in t /\ Kind[st[k].dir] = "dir"
    BY DEF ExactStack, Streams
  <2> QED BY <2>1
<1>5. ASSUME NEW k \in 1 .. n
      PROVE  ns[k].left = (Children(st[k].dir) \intersect u) \ {Deeper(ns, p, k)}
  <2>1. st[k].left = (Children(st[k].dir) \intersect t) \ {Deeper(st, Null, k)}
    BY DEF ExactStack
  <2>2. CASE k = n
    <3>1. Deeper(st, Null, k) = Null /\ Deeper(ns, p, k) = p
      BY <1>1, <2>2 DEF Deeper
    <3>2. ns[k].left = st[k].left \ {x}
      BY <1>3, <2>2
    <3> QED BY <2>1, <3>1, <3>2
  <2>3. CASE k # n
    <3>1. k + 1 \in 1 .. n /\ k < n /\ k \in 1 .. n - 1 /\ n \in 1 .. n
      BY <1>1, <2>3
    <3>2. Deeper(ns, p, k) = Deeper(st, Null, k)
      BY <1>1, <1>2, <3>1 DEF Deeper
    <3>3. ns[k].left = st[k].left
      BY <1>3, <2>3
    <3>4. st[k].dir # st[n].dir
      BY <3>1, StreamsDiffer
    <3>5. x \notin Children(st[k].dir)
      BY <3>4 DEF Children
    <3>6. Children(st[k].dir) \intersect u = Children(st[k].dir) \intersect t
      BY <3>5
    <3> QED BY <2>1, <3>2, <3>3, <3>6
  <2> QED BY <2>2, <2>3
<1>6. ExactStack(ns, u, p)
  BY <1>1, <1>2, <1>4, <1>5 DEF ExactStack
<1> QED BY <1>6 DEF ns

\* ... and when a directory is removed, whose stream is closed.
LEMMA ExactRemoved ==
    ASSUME NEW st, Streams(st), st # << >>, NEW t, Null \notin t, ExactStack(st, t, Null)
    PROVE  ExactStack(Shorter(st), t \ {st[Len(st)].dir}, Null)
<1> DEFINE ns == Shorter(st)
           n == Len(st)
           d == st[n].dir
           u == t \ {d}
<1>1. n \in Nat \ {0} /\ Len(ns) = n - 1
  BY Closed
<1>2. \A k \in 1 .. Len(ns) : ns[k] = st[k]
  BY Closed
<1> HIDE DEF ns
<1>3. ASSUME NEW k \in 1 .. n - 1
      PROVE  st[k].dir \in u /\ st[k].left = (Children(st[k].dir) \intersect u) \ {Deeper(ns, Null, k)}
  <2>1. k \in 1 .. n /\ n \in 1 .. n /\ k + 1 \in 1 .. n /\ k < n
    BY <1>1
  <2>2. /\ st[k].dir \in t
        /\ st[k].left = (Children(st[k].dir) \intersect t) \ {st[k + 1].dir}
    BY <2>1 DEF ExactStack, Deeper
  <2>3. st[k].dir # d
    BY <2>1, StreamsDiffer
  <2>4. CASE k = n - 1
    <3>1. k + 1 = n /\ Deeper(ns, Null, k) = Null
      BY <1>1, <2>4 DEF Deeper
    <3> QED BY <2>2, <2>3, <3>1
  <2>5. CASE k # n - 1
    <3>1. k + 1 \in 1 .. n - 1 /\ k < n - 1 /\ n - 1 \in 1 .. n /\ k \in 1 .. (n - 1) - 1 /\ n > 1
      BY <1>1, <2>5
    <3>2. Deeper(ns, Null, k) = st[k + 1].dir
      BY <1>1, <1>2, <3>1 DEF Deeper
    <3>3. d \in Children(st[n - 1].dir)
      BY <2>1, <3>1 DEF Streams
    <3>4. st[k].dir # st[n - 1].dir
      BY <3>1, StreamsDiffer
    <3>5. d \notin Children(st[k].dir)
      BY <3>3, <3>4 DEF Children
    <3>6. Children(st[k].dir) \intersect u = Children(st[k].dir) \intersect t
      BY <3>5
    <3> QED BY <2>2, <2>3, <3>2, <3>6
  <2> QED BY <2>4, <2>5
<1> HIDE DEF u
<1>4. ExactStack(ns, u, Null)
  BY <1>1, <1>2, <1>3 DEF ExactStack
<1> QED BY <1>4 DEF ns, u, d, n

LEMMA ExactIs ==
    ASSUME IInv, Sweep, pc \in Removal, code <= 1
    PROVE  /\ Streams(stack) /\ Null \notin there /\ Exact
           /\ pc # "enter" => ExactStack(stack, there, Null)
<1>1. Streams(stack) /\ there \subseteq Places
  BY DEF IInv, TypeOK
<1> QED BY <1>1, NullAssumption DEF Sweep, Exact

LEMMA EnterReturnsSweep ==
    ASSUME IInv, Sweep, EnterMissing \/ EnterNotDir, ~Fault, before' = before,
           there' \subseteq before' /\ before' \ Swept(before') \subseteq there'
    PROVE  Sweep'
<1>1. /\ pc = "enter" /\ pc' = "returned" /\ pc \in Removal /\ pc' \in Removal
      /\ UNCHANGED <<there, stack, found, proj, targ, path>>
  BY DEF EnterMissing, EnterNotDir, Return, loops, Removal
<1>2. ExactStack(stack, there, path) /\ Null \notin there
  BY <1>1, ExactIs DEF Exact, IInv, Position
<1>3. IF stack = << >> THEN path = Current ELSE path \in Children(Innermost.dir) /\ Kind[path] = "dir"
  BY <1>1 DEF IInv, Position
<1>4. CASE EnterMissing
  <2>1. code' = 1 /\ path \notin there
    BY <1>4 DEF EnterMissing, Return
  <2>2. ExactStack(stack', there', Null)
    BY <1>1, <1>2, <2>1, ExactReturned
  <2>3. Current' = Current
    BY <1>1 DEF Current
  <2>4. stack' = << >> => Current' \notin there'
    BY <1>1, <1>3, <2>1, <2>3
  <2>5. Exact'
    BY <1>1, <2>2, <2>4 DEF Exact
  <2> QED BY <1>1, <2>1, <2>5, RemoveSweeps
<1>5. CASE EnterNotDir
  <2>1. code' = 2 /\ Kind[path] # "dir"
    BY <1>5 DEF EnterNotDir, Return, IsDir
  <2>2. ~Cleanable(Current)
    BY <1>3, <2>1 DEF Cleanable
  <2> QED BY <1>1, <2>1, <2>2, RemoveSweeps
<1> QED BY <1>4, <1>5

LEMMA EnterOpenSweep ==
    ASSUME IInv, Sweep, EnterOpen, before' = before,
           there' \subseteq before' /\ before' \ Swept(before') \subseteq there'
    PROVE  Sweep'
<1>1. /\ pc = "enter" /\ pc' = "remove" /\ path \in there /\ pc \in Removal /\ pc' \in Removal
      /\ UNCHANGED <<there, found, proj, targ, code>> /\ code <= 1
  BY DEF EnterOpen, IsDir, loops, Removal, IInv, Position
<1>2. ExactStack(stack, there, path) /\ Null \notin there
  BY <1>1, ExactIs DEF Exact
<1>3. /\ Len(stack) \in Nat /\ Len(stack') = Len(stack) + 1
      /\ \A k \in 1 .. Len(stack) : stack'[k] = stack[k]
      /\ stack'[Len(stack) + 1].dir = path
      /\ stack'[Len(stack) + 1].left = Children(path) \intersect there
  BY EnterOpens DEF Entries
<1>4. ExactStack(stack', there, Null)
  BY <1>1, <1>2, <1>3, ExactOpened
<1>5. Exact'
  BY <1>1, <1>4 DEF Exact
<1> QED BY <1>1, <1>5, RemoveSweeps

\* Undisturbed, a removal breaks off only at a path that is too long.
LEMMA BreakSweep ==
    ASSUME IInv, Sweep, ~Fault, before' = before,
           RmdirFails \/ \E x \in Places : RemoveTooLong(x) \/ RemoveGone(x) \/ UnlinkFails(x),
           there' \subseteq before' /\ before' \ Swept(before') \subseteq there'
    PROVE  Sweep'
<1>1. /\ pc = "remove" /\ pc' = "returned" /\ code' = 3 /\ pc \in Removal /\ pc' \in Removal
      /\ UNCHANGED <<there, found, proj, targ>>
  BY DEF RmdirFails, RemoveTooLong, RemoveGone, UnlinkFails, Break, Return, loops, Removal
<1>2. stack # << >> /\ code <= 1
  BY <1>1 DEF IInv, Position
<1>3. ExactStack(stack, there, Null) /\ Null \notin there
  BY <1>1, <1>2, ExactIs
<1> DEFINE d == stack[Len(stack)].dir
<1>4. Len(stack) \in 1 .. Len(stack) /\ d \in Places /\ Current \in Above[d] /\ Kind[Current] = "dir"
  BY <1>1, <1>2, CurrentTarget
<1>5. Innermost.dir = d /\ d \in there /\ Innermost.left = Entries(d)
  <2>1. Deeper(stack, Null, Len(stack)) = Null
    BY <1>4 DEF Deeper
  <2>2. Innermost.dir = d /\ d \in there /\ Innermost.left = Entries(d) \ {Null}
    BY <1>3, <1>4, <2>1 DEF ExactStack, Innermost, Last, Entries
  <2> QED BY <1>3, <2>2 DEF Entries
<1>6. ~RmdirFails
  BY <1>5 DEF RmdirFails
<1>7. ASSUME NEW x \in Places, RemoveGone(x) \/ UnlinkFails(x)
      PROVE  FALSE
  <2>1. CASE RemoveGone(x)
    BY <1>5, <2>1 DEF RemoveGone, Reads, Entries
  <2>2. CASE UnlinkFails(x)
    BY <2>2 DEF UnlinkFails
  <2> QED BY <1>7, <2>1, <2>2
<1>8. PICK x \in Places : RemoveTooLong(x)
  BY <1>6, <1>7
<1>9. x \in TooLong /\ x \in Children(d) /\ x \in before
  BY <1>5, <1>8 DEF RemoveTooLong, Reads, Entries, Sweep
<1>10. Current \in Above[x]
  BY <1>4, <1>9, ChildBelow
<1>11. ~Cleanable(Current)
  BY <1>9, <1>10 DEF Cleanable
<1> QED BY <1>1, <1>11, RemoveSweeps

LEMMA RemoveReadSweep ==
    ASSUME IInv, Sweep, NEW x \in Places, RemoveFile(x) \/ Descend(x), before' = before,
           there' \subseteq before' /\ before' \ Swept(before') \subseteq there'
    PROVE  Sweep'
<1>1. /\ pc = "remove" /\ pc \in Removal /\ pc' \in Removal /\ Reads(x)
      /\ stack' = Stack(<<After(x)>>) /\ there' \subseteq there
      /\ UNCHANGED <<found, proj, targ, code>>
  BY DEF RemoveFile, Descend, loops, Removal
<1>2. stack # << >> /\ code <= 1
  BY <1>1 DEF IInv, Position
<1>3. ExactStack(stack, there, Null) /\ Null \notin there /\ Streams(stack)
  BY <1>1, <1>2, ExactIs
<1>4. x \in Children(stack[Len(stack)].dir) /\ stack' = Without(stack, x)
  BY <1>1, RemoveReads
<1>5. Exact'
  <2>1. CASE RemoveFile(x)
    <3>1. pc' = "remove" /\ there' = there \ {x} /\ Kind[x] # "dir"
      BY <1>1, <2>1 DEF RemoveFile, IsDir
    <3>2. ExactStack(stack', there', Null)
      BY <1>2, <1>3, <1>4, <3>1, ExactRead
    <3> QED BY <3>1, <3>2 DEF Exact
  <2>2. CASE Descend(x)
    <3>1. pc' = "enter" /\ path' = x /\ there' = there
      BY <2>2 DEF Descend
    <3>2. ExactStack(stack', there', path')
      BY <1>2, <1>3, <1>4, <3>1, ExactRead
    <3> QED BY <3>1, <3>2 DEF Exact
  <2> QED BY <2>1, <2>2
<1> QED BY <1>1, <1>2, <1>5, RemoveSweeps

LEMMA RemoveDirSweep ==
    ASSUME IInv, Sweep, RemoveDir, before' = before,
           there' \subseteq before' /\ before' \ Swept(before') \subseteq there'
    PROVE  Sweep'
<1>1. /\ pc = "remove" /\ pc' = "returned" /\ code' = 0 /\ pc \in Removal /\ pc' \in Removal
      /\ stack' = Stack(<< >>) /\ there' = there \ {Innermost.dir}
      /\ UNCHANGED <<found, proj, targ>>
  BY DEF RemoveDir, Return, loops, Removal
<1>2. stack # << >> /\ code <= 1
  BY <1>1 DEF IInv, Position
<1>3. ExactStack(stack, there, Null) /\ Null \notin there /\ Streams(stack)
  BY <1>1, <1>2, ExactIs
<1>4. stack' = Shorter(stack) /\ there' = there \ {stack[Len(stack)].dir}
  BY <1>1 DEF Stack, Shorter, Innermost, Last
<1>5. ExactStack(stack', there', Null)
  BY <1>2, <1>3, <1>4, ExactRemoved
<1>6. stack' = << >> => Current' \notin there'
  <2>1. Current' = Current /\ Current = stack[1].dir
    BY <1>1, <1>2, CurrentTarget DEF Current
  <2>2. Len(stack') = Len(stack) - 1 /\ Len(stack) \in Nat
    BY <1>2, <1>3, <1>4, Closed
  <2>3. stack' = << >> => Len(stack) = 1
    BY <2>2, EmptySeq
  <2> QED BY <1>4, <2>1, <2>3
<1>7. Exact'
  BY <1>1, <1>5, <1>6 DEF Exact
<1> QED BY <1>1, <1>7, RemoveSweeps

LEMMA ResumeSweep ==
    ASSUME IInv, Sweep, Resume, before' = before,
           there' \subseteq before' /\ before' \ Swept(before') \subseteq there'
    PROVE  Sweep'
<1>1. /\ pc = "returned" /\ pc \in Removal /\ pc' \in Removal
      /\ UNCHANGED <<there, found, proj, targ, code>>
  BY DEF Resume, loops, Removal
<1>2. CASE code > 1
  <2>1. ~(code <= 1)
    BY <1>2 DEF IInv, TypeOK
  <2>2. ~Cleanable(Current)
    BY <1>1, <2>1 DEF Sweep
  <2> QED BY <1>1, <2>1, <2>2, RemoveSweeps
<1>3. CASE ~(code > 1)
  <2>1. code <= 1 /\ pc' = "remove" /\ stack' = stack
    BY <1>3 DEF IInv, TypeOK, Resume
  <2>2. ExactStack(stack, there, Null)
    BY <1>1, <2>1, ExactIs
  <2>3. Exact'
    BY <1>1, <2>1, <2>2 DEF Exact
  <2> QED BY <1>1, <2>1, <2>3, RemoveSweeps
<1> QED BY <1>2, <1>3

LEMMA RemoveSweep ==
    ASSUME IInv, Sweep, Removing, ~Fault, before' = before,
           there' \subseteq before' /\ before' \ Swept(before') \subseteq there'
    PROVE  Sweep'
<1>1. ~EnterShut
  BY DEF EnterShut
<1> QED BY <1>1, EnterReturnsSweep, EnterOpenSweep, BreakSweep, RemoveReadSweep, RemoveDirSweep,
           ResumeSweep DEF Removing

----------------------------------------------------------------------
LEMMA InitSweep == Init => Sweep
<1> SUFFICES ASSUME Init PROVE Sweep
  OBVIOUS
<1>1. pc = "start" /\ there = before /\ found = << >> /\ proj = 1 /\ targ = 1
  BY DEF Init
<1>2. Found = {}
  BY <1>1, EmptySeq DEF Found
<1> QED BY <1>1, <1>2 DEF Sweep, FoundOnly, Removal

LEMMA StillSweep ==
    ASSUME Sweep, UNCHANGED vars
    PROVE  Sweep'
BY DEF Sweep, vars, loops, FoundOnly, FoundAll, Found, Searching, Done, Gone, Cleanable, Exact,
       Current

LEMMA NextSInv == SInv /\ [Next]_vars => SInv'
<1> SUFFICES ASSUME SInv, [Next]_vars PROVE SInv'
  OBVIOUS
<1>1. IInv /\ IInv'
  BY NextIInv DEF SInv
<1>2. ASSUME Undisturbed'
      PROVE  Sweep'
  <2>1. /\ Undisturbed /\ ~Fault /\ before' = before
        /\ Finding \/ Cleaning \/ Removing \/ UNCHANGED vars
    BY <1>1, <1>2, Calm
  <2>2. Sweep
    BY <2>1 DEF SInv
  <2>3. there' \subseteq before' /\ before' \ Swept(before') \subseteq there'
    BY <1>1, <1>2, <2>1, <2>2, SweptOnly
  <2>4. CASE Finding
    BY <1>1, <2>1, <2>2, <2>4, FindSweep
  <2>5. CASE Cleaning
    BY <1>1, <2>1, <2>2, <2>3, <2>5, CleanSweep
  <2>6. CASE Removing
    BY <1>1, <2>1, <2>2, <2>3, <2>6, RemoveSweep
  <2>7. CASE UNCHANGED vars
    BY <2>2, <2>7, StillSweep
  <2> QED BY <2>1, <2>4, <2>5, <2>6, <2>7
<1> QED BY <1>1, <1>2 DEF SInv

\* At the end all targets of all projects are behind the two loops, and what
\* is still there in a target that can be removed whole would keep it there.
LEMMA SweepEnds ==
    ASSUME IInv, Sweep, pc = "done"
    PROVE  there \subseteq before \ Whole(before)
<1>1. there \subseteq before /\ FoundAll /\ Done /\ proj > Len(found)
  BY DEF Sweep, Removal
<1>2. ASSUME NEW x \in there, x \in Whole(before)
      PROVE  FALSE
  <2>1. PICK p \in Projects(before) :
            \E d \in Above[x] \intersect TargetDirs(p, before) :
               \A y \in before \intersect TooLong : d \notin Above[y]
    BY <1>2 DEF Whole
  <2>2. PICK d \in Above[x] \intersect TargetDirs(p, before) :
           \A y \in before \intersect TooLong : d \notin Above[y]
    BY <2>1
  <2>3. /\ d \in Children(p) /\ Kind[d] = "dir" /\ d \notin TooLong
    BY <2>2 DEF TargetDirs
  <2>4. PICK j \in DOMAIN Targets : Name[d] = Targets[j]
    BY <2>2 DEF TargetDirs
  <2>5. PICK k \in 1 .. Len(found) : found[k] = p
    BY <1>1, <2>2 DEF FoundAll, Found
  <2>6. Child(p, Targets[j]) = d
    <3>1. \A y \in Children(p) : Name[y] = Targets[j] => y = d
      BY <2>3, <2>4, NameAssumption DEF Children
    <3> QED BY <2>3, <2>4, <3>1 DEF Child
  <2>7. j \in 1 .. Len(Targets)
    BY NameAssumption, LenProperties
  <2>8. k < proj
    BY <1>1, LenProperties DEF IInv, TypeOK
  <2>9. Gone(k, j)
    BY <1>1, <2>5, <2>7, <2>8 DEF Done
  <2>10. d \in there
    <3>1. Above[x] \subseteq there
      BY <1>2, AboveInside DEF IInv, Rooted, TypeOK
    <3> QED BY <2>2, <3>1
  <2>11. ~Cleanable(d)
    BY <2>3, <2>5, <2>6, <2>9, <2>10 DEF Gone
  <2> QED BY <2>2, <2>3, <2>11 DEF Cleanable
<1> QED BY <1>1, <1>2

\* With nothing failing and nobody interfering, the tree left behind is the
\* tree found less the targets of all its projects, in whatever order the
\* directories are read: only what lies in them goes, and of one with no path
\* too long in it all goes (git-broom.c:47-126, 147-270).
THEOREM BroomSweepsExactly == Spec => []SweepsExactly
<1>1. Init => SInv
  BY InitIInv, InitSweep DEF SInv
<1>2. SInv => SweepsExactly
  <2> SUFFICES ASSUME SInv, pc = "done", faults = 0, others = 0
               PROVE  /\ before \ Swept(before) \subseteq there
                      /\ there \subseteq before \ Whole(before)
    BY DEF SweepsExactly
  <2>1. IInv /\ Sweep
    BY DEF SInv, Undisturbed
  <2>2. there \subseteq before \ Whole(before)
    BY <2>1, SweepEnds
  <2> QED BY <2>1, <2>2 DEF Sweep
<1> QED BY <1>1, <1>2, NextSInv, PTL DEF Spec
=============================================================================
