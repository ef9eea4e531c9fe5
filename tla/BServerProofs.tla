------------------------ MODULE BServerProofs ------------------------
(* The echo server for every number of clients, pieces and messages.     *)
EXTENDS BServer, SequenceTheorems, TLAPS

LEMMA MessageType ==
    ASSUME NEW c \in Clients
    PROVE  /\ Message(c) \in Seq({"text", "rest"})
           /\ Len(Message(c)) = Pieces[c] /\ Message(c) # << >>
<1> DEFINE R == [i \in 1 .. Pieces[c] - 1 |-> "rest"]
<1>1. Pieces[c] \in Nat /\ Pieces[c] > 0
  BY SizeAssumption
<1>2. R \in Seq({"text", "rest"}) /\ Len(R) = Pieces[c] - 1
  BY <1>1
<1>3. <<"text">> \in Seq({"text", "rest"}) /\ Len(<<"text">>) = 1
  OBVIOUS
<1> HIDE DEF R
<1>4. Message(c) = <<"text">> \o R
  BY DEF Message, R
<1>5. Message(c) \in Seq({"text", "rest"}) /\ Len(Message(c)) = Pieces[c]
  BY <1>1, <1>2, <1>3, <1>4, ConcatProperties
<1> QED
  BY <1>1, <1>5

LEMMA LongerNotEmpty ==
    ASSUME NEW S, NEW s \in Seq(S), NEW t \in Seq(S), t # << >>
    PROVE  s \o t # << >>
<1>1. Len(t) > 0 /\ Len(s) \in Nat /\ Len(t) \in Nat
  BY EmptySeq, LenProperties
<1>2. Len(s \o t) = Len(s) + Len(t)
  BY ConcatProperties
<1> QED
  BY <1>1, <1>2

LEMMA InitType == Init => TypeOK
BY DEF Init, TypeOK, Running

LEMMA ReadType ==
    ASSUME TypeOK, Read
    PROVE  TypeOK'
<1>1. conn \in Clients /\ conn # Null
  BY NullAssumption DEF TypeOK, Read, Running
<1>2. PICK n \in 1 .. Pieces[conn] :
         /\ n <= Len(up[conn])
         /\ up' = [up EXCEPT ![conn] = SubSeq(@, n + 1, Len(@))]
  BY DEF Read
<1>3. SubSeq(up[conn], n + 1, Len(up[conn])) \in Seq({"text", "rest"})
  <2>1. up[conn] \in Seq({"text", "rest"}) /\ n \in Nat
    BY <1>1, SizeAssumption DEF TypeOK
  <2> QED
    BY <2>1, SubSeqProperties
<1>4. up' \in [Clients -> Seq({"text", "rest"})]
  BY <1>1, <1>2, <1>3 DEF TypeOK
<1>5. printed' \in [Clients -> Nat]
  BY <1>1 DEF TypeOK, Read
<1> QED
  BY <1>1, <1>4, <1>5 DEF TypeOK, Read, client, Running

LEMMA NextType == TypeOK /\ [Next]_vars => TypeOK'
<1> SUFFICES ASSUME TypeOK, [Next]_vars PROVE TypeOK'
  OBVIOUS
<1> USE DEF TypeOK, Running, server, client, wires
<1>1. ASSUME NEW c \in Clients, Connect(c)
      PROVE  TypeOK'
  <2>1. Append(queue, c) \in Seq(Clients)
    BY AppendProperties
  <2>2. cpc' \in [Clients -> {"start", "input", "wait", "closed"}]
    BY <1>1 DEF Connect
  <2> QED
    BY <1>1, <2>1, <2>2 DEF Connect
<1>2. ASSUME NEW c \in Clients, Send(c)
      PROVE  TypeOK'
  <2>1. up[c] \o Message(c) \in Seq({"text", "rest"})
    BY MessageType, ConcatProperties
  <2>2. up' \in [Clients -> Seq({"text", "rest"})]
    BY <1>2, <2>1 DEF Send
  <2> QED
    BY <1>2, <2>2 DEF Send
<1>3. ASSUME NEW c \in Clients, Receive(c)
      PROVE  TypeOK'
  <2>1. PICK n \in 1 .. down[c] : down' = [down EXCEPT ![c] = @ - n]
    BY <1>3 DEF Receive
  <2>2. down' \in [Clients -> Nat]
    BY <2>1
  <2> QED
    BY <1>3, <2>2 DEF Receive
<1>4. ASSUME NEW c \in Clients, Refused(c) \/ Quit(c) \/ Interrupt(c) \/ ServerGone(c)
      PROVE  TypeOK'
  BY <1>4 DEF Refused, Quit, Interrupt, ServerGone, Leave
<1>5. CASE Accept
  <2>1. Head(queue) \in Clients /\ Tail(queue) \in Seq(Clients)
    BY <1>5, HeadTailProperties DEF Accept
  <2> QED
    BY <1>5, <2>1, NullAssumption DEF Accept
<1>6. CASE Read
  BY <1>6, ReadType
<1>7. CASE ReadEnd \/ ReadFails
  <2>1. CASE ReadEnd
    BY <2>1 DEF ReadEnd
  <2>2. CASE ReadFails
    <3>1. conn \in Clients
      BY <2>2 DEF ReadFails
    <3> QED
      BY <2>2, <3>1 DEF ReadFails
  <2> QED
    BY <1>7, <2>1, <2>2
<1>8. CASE Write \/ WriteLost
  <2>1. conn \in Clients /\ spc = "write"
    BY <1>8 DEF Write, WriteLost
  <2>2. CASE Write
    <3>1. down' \in [Clients -> Nat]
      <4>1. down[conn] + Pieces[conn] \in Nat
        BY <2>1, SizeAssumption
      <4>2. down' = [down EXCEPT ![conn] = down[conn] + Pieces[conn]]
        BY <2>2 DEF Write
      <4> QED
        BY <4>1, <4>2
    <3> QED
      BY <2>1, <2>2, <3>1 DEF Write
  <2>3. CASE WriteLost
    BY <2>1, <2>3 DEF WriteLost
  <2> QED
    BY <1>8, <2>2, <2>3
<1>9. CASE StartUp \/ WriteKilled \/ ServerFails \/ Stop
  <2>1. CASE StartUp
    BY <2>1 DEF StartUp
  <2>2. CASE WriteKilled \/ ServerFails \/ Stop
    BY <2>2 DEF WriteKilled, ServerFails, Stop
  <2> QED
    BY <1>9, <2>1, <2>2
<1>10. CASE UNCHANGED vars
  BY <1>10 DEF vars
<1> QED
  BY <1>1, <1>2, <1>3, <1>4, <1>5, <1>6, <1>7, <1>8, <1>9, <1>10 DEF Next, Server

\* Type correctness of the server, its clients and the wires.
THEOREM TypeCorrect == Spec => []TypeOK
BY InitType, NextType, PTL DEF Spec

----------------------------------------------------------------------
\* c is connected: it is being served or waits to be accepted.
Connected(c) == conn = c \/ \E i \in DOMAIN queue : queue[i] = c

LEMMA NextNoMutualWait == TypeOK /\ NoMutualWait /\ [Next]_vars => NoMutualWait'
<1> SUFFICES ASSUME TypeOK, NoMutualWait, [Next]_vars,
                    NEW c \in Clients, Running', cpc'[c] = "wait", Connected(c)'
             PROVE  down'[c] > 0 \/ up'[c] # << >> \/ (spc' = "write" /\ conn' = c)
  BY DEF NoMutualWait, Connected
<1>0. /\ queue \in Seq(Clients) /\ up[c] \in Seq({"text", "rest"}) /\ down[c] \in Nat
      /\ cpc \in [Clients -> {"start", "input", "wait", "closed"}]
      /\ up \in [Clients -> Seq({"text", "rest"})] /\ down \in [Clients -> Nat]
      /\ conn \in Clients \union {Null}
  BY DEF TypeOK
<1>1. Running /\ cpc[c] = "wait" /\ Connected(c)
         => down[c] > 0 \/ up[c] # << >> \/ (spc = "write" /\ conn = c)
  BY DEF NoMutualWait, Connected
<1> USE DEF Running, server, client, wires
<1>2. ASSUME NEW d \in Clients, Connect(d)
      PROVE  down'[c] > 0 \/ up'[c] # << >> \/ (spc' = "write" /\ conn' = c)
  <2>1. c # d /\ cpc[c] = "wait"
    BY <1>0, <1>2 DEF Connect
  <2>2. /\ queue \in Seq(Clients) /\ Len(queue) \in Nat
        /\ DOMAIN queue = 1 .. Len(queue)
        /\ queue' = Append(queue, d)
    BY <1>2, <1>0, LenProperties DEF Connect
  <2>3. /\ DOMAIN queue' = 1 .. Len(queue) + 1
        /\ \A i \in 1 .. Len(queue) : queue'[i] = queue[i]
        /\ queue'[Len(queue) + 1] = d
    <3>1. Append(queue, d) \in Seq(Clients) /\ Len(Append(queue, d)) = Len(queue) + 1
      BY <2>2, AppendProperties
    <3>2. DOMAIN Append(queue, d) = 1 .. Len(queue) + 1
      BY <3>1, LenProperties
    <3> QED
      BY <2>2, <3>2, AppendProperties
  <2>4. \A i \in DOMAIN queue' : queue'[i] = c => i \in DOMAIN queue /\ queue[i] = c
    BY <2>1, <2>2, <2>3
  <2>5. conn' = conn /\ spc' = spc /\ down' = down /\ up' = up
    BY <1>0, <1>2 DEF Connect
  <2>6. Connected(c)
    BY <1>0, <2>4, <2>5 DEF Connected
  <2> QED
    BY <1>1, <2>1, <2>5, <2>6
<1>3. ASSUME NEW d \in Clients, Send(d)
      PROVE  down'[c] > 0 \/ up'[c] # << >> \/ (spc' = "write" /\ conn' = c)
  <2>1. CASE c = d
    <3>1. up[c] \o Message(c) # << >>
      BY <1>0, MessageType, LongerNotEmpty
    <3>2. up'[c] = up[c] \o Message(c)
      BY <1>3, <1>0, <2>1 DEF Send
    <3> QED
      BY <3>1, <3>2
  <2>2. CASE c # d
    BY <1>0, <1>1, <1>3, <2>2 DEF Send, Connected
  <2> QED
    BY <2>1, <2>2
<1>4. ASSUME NEW d \in Clients, Receive(d) \/ Refused(d) \/ Quit(d) \/ Interrupt(d) \/ ServerGone(d)
      PROVE  down'[c] > 0 \/ up'[c] # << >> \/ (spc' = "write" /\ conn' = c)
  <2>1. c # d
    BY <1>0, <1>4 DEF Receive, Refused, Quit, Interrupt, ServerGone, Leave
  <2>2. down'[c] = down[c] /\ up'[c] = up[c] /\ cpc[c] = "wait"
        /\ UNCHANGED <<spc, conn, queue>>
    BY <1>0, <1>4, <2>1 DEF Receive, Refused, Quit, Interrupt, ServerGone, Leave
  <2> QED
    BY <1>0, <1>1, <2>2 DEF Connected
<1>5. CASE Accept
  <2>1. queue \in Seq(Clients) /\ queue # << >> /\ queue' = Tail(queue) /\ conn' = Head(queue)
    BY <1>0, <1>5 DEF Accept
  <2>2. /\ Len(queue) \in Nat /\ Len(queue) > 0 /\ DOMAIN queue = 1 .. Len(queue)
        /\ conn' = queue[1]
        /\ Len(queue') = Len(queue) - 1 /\ DOMAIN queue' = 1 .. Len(queue')
        /\ \A i \in 1 .. Len(queue') : queue'[i] = queue[i + 1]
    BY <2>1, HeadTailProperties, EmptySeq, LenProperties
  <2>3. \E i \in DOMAIN queue : queue[i] = c
    <3>1. CASE conn' = c
      <4>1. 1 \in DOMAIN queue /\ queue[1] = c
        BY <2>2, <3>1
      <4> QED
        BY <4>1
    <3>2. CASE \E i \in DOMAIN queue' : queue'[i] = c
      <4>1. PICK i \in 1 .. Len(queue') : queue'[i] = c
        BY <2>2, <3>2
      <4>2. i \in 1 .. Len(queue) - 1 /\ queue[i + 1] = c
        BY <2>2, <4>1
      <4>3. i + 1 \in 1 .. Len(queue)
        BY <2>2, <4>2
      <4> QED
        BY <2>2, <4>2, <4>3
    <3> QED
      BY <1>0, <3>1, <3>2 DEF Connected
  <2>4. spc = "accept" /\ UNCHANGED <<cpc, down, up>>
    BY <1>0, <1>5 DEF Accept
  <2> QED
    BY <1>0, <1>1, <2>3, <2>4 DEF Connected
<1>6. CASE Read
  <2>1. CASE c = conn
    BY <1>0, <1>6, <2>1 DEF Read
  <2>2. CASE c # conn
    <3>1. up'[c] = up[c]
      BY <1>0, <1>6, <2>2 DEF Read
    <3> QED
      BY <1>0, <1>1, <1>6, <2>2, <3>1 DEF Read, Connected
  <2> QED
    BY <2>1, <2>2
<1>7. CASE ReadEnd \/ ReadFails
  <2>1. spc = "read" /\ conn' # c /\ UNCHANGED <<queue, cpc, down, up>>
    BY <1>0, <1>7, NullAssumption DEF ReadEnd, ReadFails
  <2>2. Connected(c)
    BY <1>0, <2>1 DEF Connected
  <2> QED
    BY <1>1, <2>1, <2>2
<1>8. CASE Write \/ WriteLost
  <2>1. spc = "write" /\ UNCHANGED <<conn, queue, cpc, up>>
    BY <1>0, <1>8 DEF Write, WriteLost
  <2>2. Connected(c)
    BY <1>0, <2>1 DEF Connected
  <2>3. CASE c = conn
    <3>1. Write /\ down[c] \in Nat
      BY <1>0, <1>8, <2>1, <2>3 DEF WriteLost
    <3>2. down'[c] = down[c] + Pieces[c] /\ Pieces[c] \in Nat \ {0}
      BY <1>0, <2>3, <3>1, SizeAssumption DEF Write
    <3> QED
      BY <3>1, <3>2
  <2>4. CASE c # conn
    <3>1. down'[c] = down[c]
      BY <1>0, <1>8, <2>4 DEF Write, WriteLost
    <3> QED
      BY <1>1, <2>1, <2>2, <2>4, <3>1
  <2> QED
    BY <2>3, <2>4
<1>9. CASE StartUp \/ WriteKilled \/ ServerFails \/ Stop
  <2>1. CASE StartUp
    <3>1. conn' = Null /\ queue' = << >>
      BY <2>1 DEF StartUp
    <3>2. ~Connected(c)'
      BY <3>1, NullAssumption DEF Connected
    <3> QED
      BY <3>2
  <2> QED
    BY <1>9, <2>1 DEF WriteKilled, ServerFails, Stop
<1>10. CASE UNCHANGED vars
  BY <1>1, <1>10 DEF vars, Connected
<1> QED
  BY <1>2, <1>3, <1>4, <1>5, <1>6, <1>7, <1>8, <1>9, <1>10 DEF Next, Server

\* The server and a client it serves never both wait to read: no deadlock,
\* however messages are split and whenever clients leave.
THEOREM NeverBothWait == Spec => []NoMutualWait
<1>1. Init => NoMutualWait
  BY DEF Init, NoMutualWait
<1> QED
  BY <1>1, NextNoMutualWait, TypeCorrect, PTL DEF Spec

----------------------------------------------------------------------
\* Of the clients whose messages arrive whole, only one that waits or has
\* left has a message or a reply under way, and each read is of a line.
Pending(c) == IF spc = "write" /\ conn = c THEN 1 ELSE 0
UnderWay(c) == Len(up[c]) + down[c] + Pending(c)
Whole == <<"text">>
Step(c) ==
    /\ UnderWay(c) <= IF cpc[c] \in {"wait", "closed"} THEN 1 ELSE 0
    /\ sent[c] = printed[c] + Len(up[c])
    /\ up[c] \in {<< >>, Whole}
LockStep == \A c \in Clients : Pieces[c] = 1 => Step(c)

LEMMA WholeMessage ==
    ASSUME NEW c \in Clients, Pieces[c] = 1
    PROVE  /\ Message(c) = Whole
           /\ Len(Whole) = 1 /\ Len(<< >>) = 0 /\ << >> # Whole
           /\ << >> \o Whole = Whole
           /\ Head(Whole) = "text"
           /\ SubSeq(Whole, 2, 1) = << >>
<1>1. Whole \in Seq({"text", "rest"}) /\ Len(Whole) = 1 /\ Whole[1] = "text"
  BY DEF Whole
<1>2. Message(c) = Whole
  <2>1. Message(c) \in Seq({"text", "rest"}) /\ Len(Message(c)) = 1
    BY MessageType
  <2>2. Message(c)[1] = "text"
    <3> DEFINE R == [i \in 1 .. 0 |-> "rest"]
    <3>1. R \in Seq({"text", "rest"})
      OBVIOUS
    <3>2. Message(c) = Whole \o R
      BY DEF Message, Whole
    <3> HIDE DEF R
    <3>3. (Whole \o R)[1] = Whole[1]
      BY <1>1, <3>1, ConcatProperties
    <3> QED
      BY <1>1, <3>2, <3>3, Zenon
  <2> QED
    BY <1>1, <2>1, <2>2, SeqEqual
<1>3. << >> \o Whole = Whole
  BY <1>1, ConcatEmptySeq
<1>4. Head(Whole) = "text"
  BY DEF Whole
<1>5. SubSeq(Whole, 2, 1) = << >>
  BY SubSeqEmpty
<1>6. Len(<< >>) = 0
  OBVIOUS
<1>7. << >> # Whole
  BY DEF Whole
<1> QED
  BY <1>1, <1>2, <1>3, <1>4, <1>5, <1>6, <1>7, Zenon

LEMMA NextLockStep ==
    ASSUME TypeOK, LockStep, [Next]_vars
    PROVE  LockStep'
<1> SUFFICES ASSUME NEW c \in Clients, Pieces[c] = 1
             PROVE  Step(c)'
  BY DEF LockStep
<1> DEFINE Same == /\ up'[c] = up[c] /\ down'[c] = down[c] /\ cpc'[c] = cpc[c]
                   /\ sent'[c] = sent[c] /\ printed'[c] = printed[c]
                   /\ Pending(c)' <= Pending(c)
<1>0. /\ up \in [Clients -> Seq({"text", "rest"})] /\ down \in [Clients -> Nat]
      /\ cpc \in [Clients -> {"start", "input", "wait", "closed"}]
      /\ sent \in [Clients -> Nat] /\ printed \in [Clients -> Nat]
      /\ down[c] \in Nat /\ sent[c] \in Nat /\ printed[c] \in Nat
  BY DEF TypeOK
<1>1. Pending(c) \in {0, 1} /\ Pending(c)' \in {0, 1}
  BY DEF Pending
<1>2. /\ Len(up[c]) + down[c] + Pending(c) <= IF cpc[c] \in {"wait", "closed"} THEN 1 ELSE 0
      /\ sent[c] = printed[c] + Len(up[c])
      /\ (up[c] = << >> /\ Len(up[c]) = 0) \/ (up[c] = Whole /\ Len(up[c]) = 1)
  <2>1. Step(c)
    BY DEF LockStep
  <2> QED
    <3>1. up[c] = << >> \/ up[c] = Whole
      BY <2>1 DEF Step
    <3>2. (up[c] = << >> /\ Len(up[c]) = 0) \/ (up[c] = Whole /\ Len(up[c]) = 1)
      BY <3>1, WholeMessage
    <3> QED
      BY <2>1, <3>2 DEF Step, UnderWay
<1>12. Len(up[c]) \in Nat
  BY <1>2
<1>3. ASSUME Same PROVE Step(c)'
  <2>1. UnderWay(c)' = Len(up[c]) + down[c] + Pending(c)'
    BY <1>3 DEF UnderWay
  <2>2. UnderWay(c)' <= Len(up[c]) + down[c] + Pending(c)
    BY <1>0, <1>1, <1>3, <1>12, <2>1
  <2>3. UnderWay(c)' \in Nat
    BY <1>0, <1>1, <1>12, <2>1
  <2>4. UnderWay(c)' <= IF cpc'[c] \in {"wait", "closed"} THEN 1 ELSE 0
    BY <1>0, <1>1, <1>2, <1>3, <1>12, <2>2, <2>3
  <2> QED
    BY <1>2, <1>3, <2>4 DEF Step
<1>4. ASSUME NEW d \in Clients, Connect(d) PROVE Step(c)'
  <2>1. CASE d = c
    <3>1. up' = up /\ down' = down /\ sent' = sent /\ printed' = printed
          /\ Pending(c)' = Pending(c) /\ cpc[c] = "start"
      BY <1>4, <2>1 DEF Connect, wires, Pending
    <3> QED
      BY <1>0, <1>1, <1>2, <3>1 DEF Step, UnderWay
  <2>2. CASE d # c
    <3>1. Same
      BY <1>0, <1>1, <1>4, <2>2 DEF Connect, wires, Pending
    <3> QED
      BY <1>3, <3>1
  <2> QED
    BY <2>1, <2>2
<1>5. ASSUME NEW d \in Clients, Send(d) PROVE Step(c)'
  <2>1. CASE d = c
    <3>1. up[c] = << >> /\ down[c] = 0 /\ Pending(c) = 0 /\ cpc[c] = "input"
      BY <1>0, <1>1, <1>2, <1>5, <2>1 DEF Send
    <3>2. up'[c] = Whole
      BY <1>0, <1>5, <2>1, <3>1, WholeMessage DEF Send
    <3>3. /\ down'[c] = 0 /\ Pending(c)' = 0 /\ cpc'[c] = "wait"
          /\ sent'[c] = sent[c] + 1 /\ printed'[c] = printed[c]
      BY <1>0, <1>5, <2>1, <3>1 DEF Send, server, Pending
    <3>4. UnderWay(c)' = 1 /\ Len(up'[c]) = 1
      BY <3>2, <3>3, WholeMessage DEF UnderWay
    <3>5. sent[c] = printed[c]
      BY <1>0, <1>2, <3>1, WholeMessage
    <3> QED
      BY <1>0, <3>2, <3>3, <3>4, <3>5 DEF Step
  <2>2. CASE d # c
    <3>1. Same
      BY <1>0, <1>1, <1>5, <2>2 DEF Send, server, Pending
    <3> QED
      BY <1>3, <3>1
  <2> QED
    BY <2>1, <2>2
<1>6. ASSUME NEW d \in Clients, Receive(d) PROVE Step(c)'
  <2>1. CASE d = c
    <3>1. PICK n \in 1 .. down[c] : down' = [down EXCEPT ![c] = @ - n]
      BY <1>6, <2>1 DEF Receive
    <3>2. down[c] = 1 /\ up[c] = << >> /\ Pending(c) = 0 /\ n = 1
      BY <1>0, <1>1, <1>2, <3>1
    <3>3. down'[c] = 0 /\ Pending(c)' = 0 /\ UNCHANGED <<up, sent, printed>>
      BY <1>0, <1>6, <3>1, <3>2 DEF Receive, server, Pending
    <3> QED
      BY <1>0, <1>2, <3>2, <3>3, WholeMessage DEF Step, UnderWay
  <2>2. CASE d # c
    <3>1. Same
      BY <1>0, <1>1, <1>6, <2>2 DEF Receive, server, Pending
    <3> QED
      BY <1>3, <3>1
  <2> QED
    BY <2>1, <2>2
<1>7. ASSUME NEW d \in Clients, Leave(d) PROVE Step(c)'
  <2>1. /\ UNCHANGED <<up, down, sent, printed>> /\ Pending(c)' = Pending(c)
        /\ (cpc'[c] = cpc[c] \/ cpc'[c] = "closed")
    BY <1>0, <1>7 DEF Leave, server, Pending
  <2>2. UnderWay(c)' = Len(up[c]) + down[c] + Pending(c)
    BY <2>1 DEF UnderWay
  <2>3. UnderWay(c)' <= IF cpc'[c] \in {"wait", "closed"} THEN 1 ELSE 0
    BY <1>0, <1>1, <1>2, <1>12, <2>1, <2>2
  <2> QED
    BY <1>2, <2>1, <2>3 DEF Step
<1>8. CASE StartUp \/ Accept \/ ReadEnd \/ ReadFails \/ WriteKilled \/ ServerFails \/ Stop
  <2>1. UNCHANGED <<up, down, sent, printed, cpc>> /\ spc' # "write"
    BY <1>8 DEF StartUp, Accept, ReadEnd, ReadFails, WriteKilled, ServerFails, Stop, client, wires
  <2>2. Same
    BY <1>1, <2>1 DEF Pending
  <2> QED
    BY <1>3, <2>2
<1>9. CASE Read
  <2>1. CASE c = conn
    <3>1. PICK n \in 1 .. Pieces[c] :
             /\ n <= Len(up[c])
             /\ up' = [up EXCEPT ![c] = SubSeq(@, n + 1, Len(@))]
      BY <1>9, <2>1 DEF Read
    <3>2. /\ n = 1 /\ up[c] = Whole /\ down[c] = 0
          /\ cpc[c] \in {"wait", "closed"} /\ Pending(c) = 0
      BY <1>0, <1>1, <1>2, <3>1
    <3>3. up'[c] = << >>
      BY <1>0, <3>1, <3>2, WholeMessage
    <3>4. printed'[c] = printed[c] + 1
      BY <1>0, <1>9, <2>1, <3>2, WholeMessage DEF Read
    <3>5. UNCHANGED <<down, cpc, sent>>
      BY <1>9 DEF Read, client
    <3> QED
      BY <1>0, <1>1, <1>2, <3>2, <3>3, <3>4, <3>5, WholeMessage DEF Step, UnderWay
  <2>2. CASE c # conn
    <3>1. Same
      BY <1>0, <1>1, <1>9, <2>2 DEF Read, client, Pending
    <3> QED
      BY <1>3, <3>1
  <2> QED
    BY <2>1, <2>2
<1>10. CASE Write \/ WriteLost
  <2>1. /\ UNCHANGED <<up, sent, printed, cpc>> /\ Pending(c)' = 0
        /\ spc = "write" /\ conn' = conn
    BY <1>10 DEF Write, WriteLost, client, Pending
  <2>2. down'[c] = down[c] \/ (Pending(c) = 1 /\ down'[c] = down[c] + 1)
    <3>1. CASE Write /\ c = conn
      <4>1. Pending(c) = 1
        BY <2>1, <3>1 DEF Pending
      <4>2. down'[c] = down[c] + 1
        BY <1>0, <3>1 DEF Write
      <4> QED
        BY <4>1, <4>2
    <3>2. CASE Write /\ c # conn
      BY <1>0, <3>2 DEF Write, client
    <3>3. CASE WriteLost
      BY <3>3 DEF WriteLost, client
    <3> QED
      BY <1>10, <3>1, <3>2, <3>3
  <2> QED
    BY <1>0, <1>1, <1>2, <2>1, <2>2 DEF Step, UnderWay
<1>11. CASE UNCHANGED vars
  <2>1. Same
    BY <1>1, <1>11 DEF vars, Pending
  <2> QED
    BY <1>3, <2>1
<1> QED
  BY <1>4, <1>5, <1>6, <1>7, <1>8, <1>9, <1>10, <1>11
     DEF Next, Server, Refused, Quit, Interrupt, ServerGone

LEMMA StaysInStep == Spec => []LockStep
<1>1. Init => LockStep
  <2> SUFFICES ASSUME Init, NEW c \in Clients, Pieces[c] = 1 PROVE Step(c)
    BY DEF LockStep
  <2>1. /\ up[c] = << >> /\ down[c] = 0 /\ sent[c] = 0 /\ printed[c] = 0
        /\ Pending(c) = 0 /\ Len(up[c]) = 0
    BY WholeMessage DEF Init, Pending
  <2> QED
    BY <2>1 DEF Step, UnderWay
<1> QED
  BY <1>1, NextLockStep, TypeCorrect, PTL DEF Spec

\* To a client whose messages arrive whole every reply answers the line it
\* has just sent, and every line it sends is printed or still under way.
THEOREM RepliesInStep == Spec => []InStep
<1>1. TypeOK /\ LockStep => InStep
  <2> SUFFICES ASSUME TypeOK, LockStep, NEW c \in Clients, Pieces[c] = 1
               PROVE  /\ Len(up[c]) + down[c] + Pending(c) <= 1
                      /\ sent[c] = printed[c] + Len(up[c])
    BY DEF InStep, Pending
  <2>1. Len(up[c]) \in Nat /\ down[c] \in Nat /\ Pending(c) \in {0, 1}
    BY LenProperties DEF TypeOK, Pending
  <2> QED
    BY <2>1 DEF LockStep, Step, UnderWay
<1> QED
  BY <1>1, StaysInStep, TypeCorrect, PTL

----------------------------------------------------------------------
\* A connection is in the queue once, or is the one that is served, and only
\* a client that has left, or whose connection the server has given up, has
\* a broken one.
Once ==
    /\ \A i, j \in DOMAIN queue : queue[i] = queue[j] => i = j
    /\ \A i \in DOMAIN queue : queue[i] # conn
    /\ \A c \in Clients : cpc[c] = "start" => ~Connected(c) /\ ~broken[c]
    /\ \A c \in Clients : broken[c] /\ Connected(c) => cpc[c] = "closed"

\* A client whose messages arrive whole has nothing under way to the server
\* once its connection is broken, and no reply is due to it.
NothingDue ==
    \A c \in Clients :
       Pieces[c] = 1 /\ broken[c] /\ Connected(c) => up[c] = << >> /\ Pending(c) = 0

KilledBySplit == spc = "killed" => conn \in Clients /\ Pieces[conn] > 1

LEMMA ConnectedByConnect ==
    ASSUME TypeOK, NEW d \in Clients, Connect(d)
    PROVE  /\ DOMAIN queue = 1 .. Len(queue) /\ Len(queue) \in Nat
           /\ DOMAIN queue' = 1 .. Len(queue) + 1 /\ queue'[Len(queue) + 1] = d
           /\ \A i \in 1 .. Len(queue) : queue'[i] = queue[i]
           /\ \A c \in Clients : Connected(c)' => c = d \/ Connected(c)
<1>1. queue \in Seq(Clients) /\ queue' = Append(queue, d) /\ conn' = conn
  BY DEF TypeOK, Connect
<1>2. Append(queue, d) \in Seq(Clients) /\ Len(Append(queue, d)) = Len(queue) + 1
  BY <1>1, AppendProperties
<1>3. DOMAIN Append(queue, d) = 1 .. Len(queue) + 1
  BY <1>2, LenProperties
<1>4. /\ DOMAIN queue = 1 .. Len(queue) /\ Len(queue) \in Nat
      /\ DOMAIN queue' = 1 .. Len(queue) + 1 /\ queue'[Len(queue) + 1] = d
      /\ \A i \in 1 .. Len(queue) : queue'[i] = queue[i]
  BY <1>1, <1>3, AppendProperties, LenProperties
<1> QED
  BY <1>1, <1>4 DEF Connected

LEMMA ConnectedByAccept ==
    ASSUME TypeOK, Accept
    PROVE  /\ 1 \in DOMAIN queue /\ conn' = queue[1]
           /\ \A i \in DOMAIN queue' : i + 1 \in DOMAIN queue /\ queue'[i] = queue[i + 1]
                                      /\ i \in Nat /\ i + 1 # 1
           /\ \A c \in Clients : Connected(c)' => Connected(c)
<1>1. queue \in Seq(Clients) /\ queue # << >> /\ queue' = Tail(queue) /\ conn' = Head(queue)
  BY DEF TypeOK, Accept
<1>2. /\ Len(queue) \in Nat /\ Len(queue) > 0 /\ DOMAIN queue = 1 .. Len(queue)
      /\ conn' = queue[1]
      /\ Len(queue') = Len(queue) - 1 /\ DOMAIN queue' = 1 .. Len(queue')
      /\ \A i \in 1 .. Len(queue') : queue'[i] = queue[i + 1]
  BY <1>1, HeadTailProperties, EmptySeq, LenProperties
<1>3. \A i \in DOMAIN queue' : i + 1 \in DOMAIN queue /\ queue'[i] = queue[i + 1]
                              /\ i \in Nat /\ i + 1 # 1
  BY <1>2
<1>4. 1 \in DOMAIN queue /\ conn' = queue[1]
  BY <1>2
<1>5. \A c \in Clients : Connected(c)' => Connected(c)
  BY <1>3, <1>4 DEF Connected
<1> QED
  BY <1>3, <1>4, <1>5

LEMMA NextOnce ==
    ASSUME TypeOK, Once, [Next]_vars
    PROVE  Once'
<1>0. /\ queue \in Seq(Clients) /\ conn \in Clients \union {Null} /\ Null \notin Clients
      /\ cpc \in [Clients -> {"start", "input", "wait", "closed"}]
      /\ broken \in [Clients -> BOOLEAN] /\ (Running => (spc = "accept" <=> conn = Null))
  BY NullAssumption DEF TypeOK
<1>1. ASSUME NEW d \in Clients, Connect(d) PROVE Once'
  <2>1. /\ DOMAIN queue = 1 .. Len(queue) /\ Len(queue) \in Nat
        /\ DOMAIN queue' = 1 .. Len(queue) + 1 /\ queue'[Len(queue) + 1] = d
        /\ \A i \in 1 .. Len(queue) : queue'[i] = queue[i]
    BY <1>1, ConnectedByConnect
  <2>2. conn' = conn /\ broken' = broken /\ cpc[d] = "start" /\ cpc' = [cpc EXCEPT ![d] = "input"]
    BY <1>1 DEF Connect, wires
  <2>3. ~Connected(d) /\ ~broken[d]
    BY <2>2 DEF Once
  <2>4. \A i \in DOMAIN queue : queue[i] # d
    BY <2>3 DEF Connected
  <2>5. \A i, j \in DOMAIN queue' : queue'[i] = queue'[j] => i = j
    BY <2>1, <2>4 DEF Once
  <2>6. \A i \in DOMAIN queue' : queue'[i] # conn'
    BY <2>1, <2>2, <2>3 DEF Once, Connected
  <2>7. \A c \in Clients : Connected(c)' => c = d \/ Connected(c)
    BY <1>1, ConnectedByConnect
  <2>8. \A c \in Clients : cpc'[c] = "start" => ~Connected(c)' /\ ~broken'[c]
    BY <1>0, <2>2, <2>7 DEF Once
  <2>9. \A c \in Clients : broken'[c] /\ Connected(c)' => cpc'[c] = "closed"
    BY <1>0, <2>2, <2>3, <2>7 DEF Once
  <2> QED
    BY <2>5, <2>6, <2>8, <2>9 DEF Once
<1>2. ASSUME NEW d \in Clients, Send(d) \/ Receive(d)
      PROVE  Once'
  <2>1. UNCHANGED <<conn, queue, broken>>
    BY <1>2 DEF Send, Receive, server
  <2>2. cpc[d] \in {"input", "wait"} /\ \A c \in Clients : cpc'[c] = cpc[c] \/ (c = d /\ cpc'[c] # "start")
    BY <1>0, <1>2 DEF Send, Receive
  <2> QED
    BY <2>1, <2>2 DEF Once, Connected
<1>3. ASSUME NEW d \in Clients, Leave(d)
      PROVE  Once'
  <2>1. UNCHANGED <<conn, queue>> /\ \A c \in Clients : c # d => cpc'[c] = cpc[c] /\ broken'[c] = broken[c]
    BY <1>0, <1>3 DEF Leave, server
  <2>2. cpc'[d] = "closed"
    BY <1>0, <1>3 DEF Leave
  <2> QED
    BY <2>1, <2>2 DEF Once, Connected
<1>4. CASE Accept
  <2>1. UNCHANGED <<cpc, broken>>
    BY <1>4 DEF Accept, client, wires
  <2>2. 1 \in DOMAIN queue /\ conn' = queue[1]
    BY <1>4, ConnectedByAccept
  <2>3. \A i \in DOMAIN queue' : i + 1 \in DOMAIN queue /\ queue'[i] = queue[i + 1]
                                /\ i \in Nat /\ i + 1 # 1
    BY <1>4, ConnectedByAccept
  <2>4. \A c \in Clients : Connected(c)' => Connected(c)
    BY <1>4, ConnectedByAccept
  <2>5. \A i, j \in DOMAIN queue' : queue'[i] = queue'[j] => i = j
    BY <2>3 DEF Once
  <2>6. \A i \in DOMAIN queue' : queue'[i] # conn'
    BY <2>2, <2>3 DEF Once
  <2> QED
    BY <2>1, <2>4, <2>5, <2>6 DEF Once
<1>5. CASE Read \/ Write \/ WriteLost
  <2>1. UNCHANGED <<conn, queue, cpc>>
    BY <1>5 DEF Read, Write, WriteLost, client
  <2>2. \A c \in Clients : broken'[c] => broken[c] \/ cpc[c] = "closed"
    BY <1>0, <1>5 DEF Read, Write, WriteLost
  <2> QED
    BY <2>1, <2>2 DEF Once, Connected
<1>6. CASE ReadEnd \/ ReadFails
  <2>1. conn' = Null /\ conn # Null /\ UNCHANGED <<queue, cpc>>
    BY <1>0, <1>6 DEF ReadEnd, ReadFails, client, Running
  <2>2. \A c \in Clients : Connected(c)' => Connected(c) /\ c # conn
    BY <1>0, <2>1 DEF Connected, Once
  <2>3. \A c \in Clients : broken'[c] => broken[c] \/ (c = conn /\ cpc[c] # "start")
    <3>1. CASE ReadEnd
      BY <3>1 DEF ReadEnd, wires
    <3>2. CASE ReadFails
      <4>1. \A c \in Clients : broken'[c] => broken[c] \/ c = conn
        BY <1>0, <3>2 DEF ReadFails
      <4>2. conn \in Clients => cpc[conn] # "start"
        BY DEF Once, Connected
      <4> QED
        BY <4>1, <4>2
    <3> QED
      BY <1>6, <3>1, <3>2
  <2>4. \A i \in DOMAIN queue : queue[i] \in Clients
    BY <1>0, ElementOfSeq, LenProperties
  <2> QED
    BY <1>0, <2>1, <2>2, <2>3, <2>4 DEF Once
<1>7. CASE StartUp
  <2>1. conn' = Null /\ queue' = << >> /\ UNCHANGED <<cpc, broken>>
    BY <1>7 DEF StartUp, client, wires
  <2>2. DOMAIN queue' = {}
    BY <2>1
  <2>3. \A c \in Clients : ~Connected(c)'
    BY <1>0, <2>1, <2>2 DEF Connected
  <2> QED
    BY <2>1, <2>2, <2>3 DEF Once
<1>8. CASE WriteKilled \/ ServerFails \/ Stop \/ UNCHANGED vars
  BY <1>8 DEF WriteKilled, ServerFails, Stop, vars, client, wires, Once, Connected
<1> QED
  BY <1>1, <1>2, <1>3, <1>4, <1>5, <1>6, <1>7, <1>8
     DEF Next, Server, Refused, Quit, Interrupt, ServerGone

LEMMA NextNothingDue ==
    ASSUME TypeOK, LockStep, Once, NothingDue, [Next]_vars
    PROVE  NothingDue'
<1> SUFFICES ASSUME NEW c \in Clients, Pieces[c] = 1, broken'[c], Connected(c)'
             PROVE  up'[c] = << >> /\ Pending(c)' = 0
  BY DEF NothingDue
<1>0. /\ cpc \in [Clients -> {"start", "input", "wait", "closed"}]
      /\ up \in [Clients -> Seq({"text", "rest"})]
      /\ broken \in [Clients -> BOOLEAN] /\ conn \in Clients \union {Null}
      /\ down[c] \in Nat /\ Null \notin Clients
  BY NullAssumption DEF TypeOK
<1>1. broken[c] /\ Connected(c) => up[c] = << >> /\ Pending(c) = 0 /\ cpc[c] = "closed"
  BY DEF NothingDue, Once
<1>2. down[c] > 0 \/ Pending(c) = 1 => up[c] = << >> /\ (down[c] > 0 => Pending(c) = 0)
  <2>1. /\ up[c] \in {<< >>, Whole}
        /\ Len(up[c]) + down[c] + Pending(c) <= IF cpc[c] \in {"wait", "closed"} THEN 1 ELSE 0
    BY DEF LockStep, Step, UnderWay
  <2>2. Pending(c) \in {0, 1}
    BY DEF Pending
  <2>3. up[c] = Whole => Len(up[c]) = 1
    BY WholeMessage
  <2>4. up[c] = << >> => Len(up[c]) = 0
    BY WholeMessage
  <2> QED
    BY <1>0, <2>1, <2>2, <2>3, <2>4
<1>3. ASSUME NEW d \in Clients, Connect(d) PROVE up'[c] = << >> /\ Pending(c)' = 0
  <2>1. UNCHANGED <<spc, conn, up, broken>> /\ cpc[d] = "start"
    BY <1>3 DEF Connect, wires
  <2>2. c # d
    BY <2>1 DEF Once
  <2>3. Connected(c)
    BY <1>3, <2>2, ConnectedByConnect
  <2> QED
    BY <1>1, <2>1, <2>3 DEF Pending
<1>4. ASSUME NEW d \in Clients, Send(d) \/ Receive(d)
      PROVE  up'[c] = << >> /\ Pending(c)' = 0
  <2>1. UNCHANGED <<spc, conn, queue, broken>> /\ cpc[d] # "closed"
    BY <1>4 DEF Send, Receive, server
  <2>2. Connected(c) /\ c # d
    BY <1>1, <2>1 DEF Connected
  <2>3. up'[c] = up[c]
    BY <1>0, <1>4, <2>2 DEF Send, Receive
  <2> QED
    BY <1>1, <2>1, <2>2, <2>3 DEF Pending
<1>5. ASSUME NEW d \in Clients, Leave(d) PROVE up'[c] = << >> /\ Pending(c)' = 0
  <2>1. UNCHANGED <<spc, conn, queue, up>> /\ (broken[c] \/ down[c] > 0)
    BY <1>0, <1>5 DEF Leave, server
  <2> QED
    BY <1>1, <1>2, <2>1 DEF Pending, Connected
<1>6. CASE Accept
  <2>1. UNCHANGED <<up, broken>> /\ spc' = "read"
    BY <1>6 DEF Accept, wires
  <2>2. Connected(c)
    BY <1>6, ConnectedByAccept
  <2> QED
    BY <1>1, <2>1, <2>2 DEF Pending
<1>7. CASE Read
  <2>1. UNCHANGED <<conn, queue, broken>>
    BY <1>7 DEF Read
  <2>2. Connected(c)
    BY <2>1 DEF Connected
  <2>3. c # conn
    <3>1. SUFFICES ASSUME c = conn PROVE FALSE
      OBVIOUS
    <3>2. PICK n \in 1 .. Pieces[c] : n <= Len(up[c])
      BY <1>7, <3>1 DEF Read
    <3>3. Len(up[c]) = 0
      BY <1>1, <2>1, <2>2, WholeMessage
    <3> QED
      BY <3>2, <3>3, SizeAssumption
  <2>4. up'[c] = up[c]
    BY <1>0, <1>7, <2>3 DEF Read
  <2> QED
    BY <1>1, <2>1, <2>2, <2>3, <2>4 DEF Pending
<1>8. CASE Write \/ WriteLost
  <2>1. spc' = "read" /\ UNCHANGED <<conn, queue, up>>
    BY <1>8 DEF Write, WriteLost
  <2>2. broken[c] \/ (c = conn /\ spc = "write")
    BY <1>0, <1>8 DEF Write, WriteLost
  <2>3. up[c] = << >>
    BY <1>1, <1>2, <2>1, <2>2 DEF Pending, Connected
  <2> QED
    BY <2>1, <2>3 DEF Pending
<1>9. CASE ReadEnd \/ ReadFails
  <2>1. conn' = Null /\ spc' = "accept" /\ UNCHANGED <<queue, up>>
    BY <1>9 DEF ReadEnd, ReadFails, wires
  <2>2. Connected(c) /\ c # conn
    BY <1>0, <2>1 DEF Connected, Once
  <2>3. broken[c]
    BY <1>0, <1>9, <2>2 DEF ReadEnd, ReadFails, wires
  <2> QED
    BY <1>1, <2>1, <2>2, <2>3 DEF Pending
<1>10. CASE StartUp
  <2>1. conn' = Null /\ DOMAIN queue' = {}
    BY <1>10 DEF StartUp
  <2> QED
    BY <1>0, <2>1 DEF Connected
<1>11. CASE WriteKilled \/ ServerFails \/ Stop \/ UNCHANGED vars
  <2>1. UNCHANGED <<conn, queue, up, broken>> /\ (spc' = spc \/ spc' # "write")
    BY <1>11 DEF WriteKilled, ServerFails, Stop, vars, wires
  <2> QED
    BY <1>1, <2>1 DEF Pending, Connected
<1> QED
  BY <1>3, <1>4, <1>5, <1>6, <1>7, <1>8, <1>9, <1>10, <1>11
     DEF Next, Server, Refused, Quit, Interrupt, ServerGone

LEMMA NextKilledBySplit ==
    ASSUME TypeOK, NothingDue, KilledBySplit, [Next]_vars
    PROVE  KilledBySplit'
<1>1. ASSUME WriteKilled PROVE KilledBySplit'
  <2>1. spc = "write" /\ broken[conn] /\ conn \in Clients /\ conn' = conn
    BY <1>1 DEF WriteKilled, TypeOK, Running
  <2>2. Connected(conn) /\ Pending(conn) = 1
    BY <2>1 DEF Connected, Pending
  <2>3. Pieces[conn] # 1
    BY <2>1, <2>2 DEF NothingDue
  <2>4. Pieces[conn] \in Nat \ {0}
    BY <2>1, SizeAssumption
  <2> QED
    BY <2>1, <2>3, <2>4 DEF KilledBySplit
<1>2. ASSUME ~WriteKilled PROVE KilledBySplit'
  <2>1. spc' # "killed" \/ (spc' = spc /\ conn' = conn)
    BY <1>2 DEF Next, Server, StartUp, Accept, Read, ReadEnd, ReadFails, Write, WriteLost,
          ServerFails, Stop, Connect, Send, Receive, Refused, Quit, Interrupt, ServerGone,
          Leave, server, vars
  <2> QED
    BY <2>1 DEF KilledBySplit
<1> QED
  BY <1>1, <1>2

\* What ends the server by a signal nobody has sent it is a client whose
\* messages or replies are split, and that leaves: one whose messages arrive
\* whole never does.
THEOREM OnlySplitKills == Spec => [](spc = "killed" => Pieces[conn] > 1)
<1>1. Init => Once /\ NothingDue /\ KilledBySplit
  BY NullAssumption DEF Init, Once, NothingDue, KilledBySplit, Connected
<1>2. TypeOK /\ LockStep /\ Once /\ NothingDue /\ KilledBySplit /\ [Next]_vars
         => (Once /\ NothingDue /\ KilledBySplit)'
  BY NextOnce, NextNothingDue, NextKilledBySplit
<1>3. KilledBySplit => (spc = "killed" => Pieces[conn] > 1)
  BY DEF KilledBySplit
<1> QED
  BY <1>1, <1>2, <1>3, StaysInStep, TypeCorrect, PTL DEF Spec
======================================================================
