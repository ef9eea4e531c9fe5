--------------------------- MODULE BServer ---------------------------
(* The echo server bserver/bserver.c with its clients bserver/bclient.c  *)
(* and the TCP connections between them.  A message is one write of      *)
(* BUFFER_SIZE - 1 bytes, a line with its NUL and what follows it in the *)
(* client's buffer; the connection of client c carries it, and a reply,  *)
(* as Pieces[c] pieces, of which one read takes any number up to a       *)
(* buffer full.                                                          *)
EXTENDS Integers, Sequences

CONSTANTS
    Clients, Null,
    Pieces,        \* pieces a client's messages and the replies to them
                   \* are split into; 1: they arrive whole
    Backlog,       \* CONN_QUEUE_SIZE
    MaxMessages    \* bound: messages a client sends

ASSUME NullAssumption == Null \notin Clients
ASSUME SizeAssumption ==
    Pieces \in [Clients -> Nat \ {0}] /\ Backlog \in Nat \ {0} /\ MaxMessages \in Nat

VARIABLES
    spc,           \* server: "down" (not listening yet), "accept", "read",
                   \* "write", "stopped" (SIGINT), "exited" (socket, bind,
                   \* listen or accept failed) or "killed" (SIGPIPE)
    conn,          \* the client being served
    queue,         \* connections not accepted yet
    cpc,           \* client: "start", "input", "wait" or "closed"
    up,            \* bytes to the server: "text" is a piece with a line
                   \* in it, "rest" one behind the NUL
    down,          \* pieces of replies on the way to the client
    broken,        \* has the connection been reset, or lost to the server
    sent, printed  \* auxiliary: lines typed, and printed by the server

server == <<spc, conn, queue>>
client == <<cpc, sent>>
wires == <<up, down, broken>>
vars == <<spc, conn, queue, cpc, up, down, broken, sent, printed>>

Running == spc \in {"accept", "read", "write"}
Message(c) == <<"text">> \o [i \in 1 .. Pieces[c] - 1 |-> "rest"]

----------------------------------------------------------------------
Init ==
    /\ spc = "down" /\ conn = Null /\ queue = << >>
    /\ cpc = [c \in Clients |-> "start"]
    /\ up = [c \in Clients |-> << >>]
    /\ down = [c \in Clients |-> 0]
    /\ broken = [c \in Clients |-> FALSE]
    /\ sent = [c \in Clients |-> 0] /\ printed = [c \in Clients |-> 0]

\* s_socket, s_bind and s_listen, which makes the accept queue ...
StartUp ==
    /\ spc = "down"
    /\ spc' = "accept"
    /\ conn' = Null /\ queue' = << >>
    /\ UNCHANGED <<client, wires, printed>>

\* ... and each of them, with the later s_accept, exits when it fails.
ServerFails ==
    /\ spc \in {"down", "accept"}
    /\ spc' = "exited"
    /\ UNCHANGED <<conn, queue, client, wires, printed>>

\* The kernel completes the connection before the server accepts it.
Connect(c) ==
    /\ cpc[c] = "start" /\ Running
    /\ Len(queue) < Backlog
    /\ cpc' = [cpc EXCEPT ![c] = "input"]
    /\ queue' = Append(queue, c)
    /\ UNCHANGED <<spc, conn, wires, sent, printed>>

\* Mutant of Send: does not wait for the answer.
SendOnly(c) ==
    /\ cpc[c] = "input" /\ sent[c] < MaxMessages
    /\ sent' = [sent EXCEPT ![c] = @ + 1]
    /\ up' = [up EXCEPT ![c] = @ \o Message(c)]
    /\ UNCHANGED <<server, cpc, down, broken, printed>>

\* c_write: one line is sent, and its answer waited for.
Send(c) ==
    /\ cpc[c] = "input" /\ sent[c] < MaxMessages
    /\ cpc' = [cpc EXCEPT ![c] = "wait"]
    /\ sent' = [sent EXCEPT ![c] = @ + 1]
    /\ up' = [up EXCEPT ![c] = @ \o Message(c)]
    /\ UNCHANGED <<server, down, broken, printed>>

\* One read takes some of what has arrived of the replies; a client that has
\* read any of it goes on to its next line.
Receive(c) ==
    /\ cpc[c] = "wait"
    /\ \E n \in 1 .. down[c] : down' = [down EXCEPT ![c] = @ - n]
    /\ cpc' = [cpc EXCEPT ![c] = "input"]
    /\ UNCHANGED <<server, up, broken, sent, printed>>

\* The client ends: the connection fails, the quit sequence or end of input,
\* SIGINT, or a write or read that fails because the server, or its end of
\* the connection, is gone.  Replies it has not read make its kernel reset
\* the connection.
Leave(c) ==
    /\ cpc' = [cpc EXCEPT ![c] = "closed"]
    /\ broken' = [broken EXCEPT ![c] = @ \/ down[c] > 0]
    /\ UNCHANGED <<server, up, down, sent, printed>>
Refused(c) == cpc[c] = "start" /\ Leave(c)
Quit(c) == cpc[c] = "input" /\ Leave(c)
Interrupt(c) == cpc[c] \in {"input", "wait"} /\ Leave(c)
ServerGone(c) == cpc[c] \in {"input", "wait"} /\ (~Running \/ broken[c]) /\ Leave(c)

\* s_accept.
Accept ==
    /\ spc = "accept"
    /\ queue # << >>
    /\ conn' = Head(queue) /\ queue' = Tail(queue)
    /\ spc' = "read"
    /\ UNCHANGED <<client, wires, printed>>

\* s_read_client: read a buffer, print it up to its first NUL, then answer.
Read ==
    /\ spc = "read"
    /\ \E n \in 1 .. Pieces[conn] :
          /\ n <= Len(up[conn])
          /\ up' = [up EXCEPT ![conn] = SubSeq(@, n + 1, Len(@))]
    /\ printed' = [printed EXCEPT ![conn] =
                      IF Head(up[conn]) = "text" THEN @ + 1 ELSE @]
    /\ spc' = "write"
    /\ UNCHANGED <<conn, queue, client, down, broken>>

\* Mutant of ReadEnd: a reset is not seen, the server keeps reading.
ReadEndOnlyReset ==
    /\ spc = "read"
    /\ cpc[conn] = "closed" /\ broken[conn]
    /\ conn' = Null /\ spc' = "accept"
    /\ UNCHANGED <<queue, client, wires, printed>>

\* End of file once the client has closed and its bytes are read, or an
\* error on a reset connection: the server closes it and accepts the next.
ReadEnd ==
    /\ spc = "read"
    /\ cpc[conn] = "closed"
    /\ up[conn] = << >> \/ broken[conn]
    /\ conn' = Null /\ spc' = "accept"
    /\ UNCHANGED <<queue, client, wires, printed>>

\* An error on a connection whose client is still there, which its kernel
\* has given up: the server takes it for the end, too.
ReadFails ==
    /\ spc = "read"
    /\ cpc[conn] # "closed"
    /\ broken' = [broken EXCEPT ![conn] = TRUE]
    /\ conn' = Null /\ spc' = "accept"
    /\ UNCHANGED <<queue, client, up, down, printed>>

\* Mutant of Write: the answer is left out, as if the client asked for none.
WriteNothing ==
    /\ spc = "write"
    /\ cpc[conn] # "closed"
    /\ spc' = "read"
    /\ UNCHANGED <<conn, queue, client, wires, printed>>

\* s_write_client: to a client that is there ...
Write ==
    /\ spc = "write"
    /\ cpc[conn] # "closed"
    /\ down' = [down EXCEPT ![conn] = @ + Pieces[conn]]
    /\ spc' = "read"
    /\ UNCHANGED <<conn, queue, client, up, broken, printed>>

\* ... to one that has closed, which is answered by a reset or is refused
\* with an error that is printed ...
WriteLost ==
    /\ spc = "write"
    /\ cpc[conn] = "closed"
    /\ broken' = [broken EXCEPT ![conn] = TRUE]
    /\ spc' = "read"
    /\ UNCHANGED <<conn, queue, client, up, down, printed>>

\* ... and on a connection known to be reset, which raises SIGPIPE; the
\* program leaves its default action, which ends the process.
WriteKilled ==
    /\ spc = "write"
    /\ broken[conn]
    /\ spc' = "killed"
    /\ UNCHANGED <<conn, queue, client, wires, printed>>

\* SIGINT, before or after its handler is installed.
Stop ==
    /\ spc = "down" \/ Running
    /\ spc' = "stopped"
    /\ UNCHANGED <<conn, queue, client, wires, printed>>

Server == StartUp \/ Accept \/ Read \/ ReadEnd \/ Write \/ WriteLost \/ WriteKilled

Next ==
    \/ Server \/ ReadFails \/ ServerFails \/ Stop
    \/ \E c \in Clients :
          \/ Connect(c) \/ Send(c) \/ Receive(c)
          \/ Refused(c) \/ Quit(c) \/ Interrupt(c) \/ ServerGone(c)

Spec == Init /\ [][Next]_vars

\* The server and a client that waits are not blocked for ever while there
\* is something for them to read.  Nobody has to type, quit or connect.
FairSpec ==
    /\ Spec
    /\ WF_vars(Server)
    /\ \A c \in Clients : WF_vars(Receive(c)) /\ WF_vars(ServerGone(c))

----------------------------------------------------------------------
TypeOK ==
    /\ spc \in {"down", "accept", "read", "write", "stopped", "exited", "killed"}
    /\ conn \in Clients \union {Null} /\ (Running => (spc = "accept" <=> conn = Null))
    /\ queue \in Seq(Clients)
    /\ cpc \in [Clients -> {"start", "input", "wait", "closed"}]
    /\ up \in [Clients -> Seq({"text", "rest"})]
    /\ down \in [Clients -> Nat] /\ broken \in [Clients -> BOOLEAN]
    /\ sent \in [Clients -> Nat] /\ printed \in [Clients -> Nat]

\* The server and the client it serves never both wait for bytes that
\* nobody will send: each read is answered, so a client that waits has an
\* answer coming or bytes the server has yet to read.
NoMutualWait ==
    \A c \in Clients :
       Running /\ cpc[c] = "wait" /\ (conn = c \/ \E i \in DOMAIN queue : queue[i] = c) =>
          down[c] > 0 \/ up[c] # << >> \/ (spc = "write" /\ conn = c)

\* A client whose messages are never split has at most one message or reply
\* under way, whatever happens to the others: the answer it reads is the one
\* to the line it just sent, and a line sent is a line printed.
InStep ==
    \A c \in Clients :
       Pieces[c] = 1 =>
          /\ Len(up[c]) + down[c] + (IF spc = "write" /\ conn = c THEN 1 ELSE 0) <= 1
          /\ sent[c] = printed[c] + Len(up[c])

\* A client the server has accepted gets its answer, unless it leaves or
\* the server ends.
Answered == \A c \in Clients : cpc[c] = "wait" /\ conn = c ~> cpc[c] # "wait"

\* When a client has left, the server goes on to accept the next one, unless
\* it is stopped by the signal it waits for.  Only a client whose messages
\* are split may, by leaving, end the server.
NextServed ==
    \A c \in Clients :
       conn = c /\ cpc[c] = "closed" ~>
          conn # c \/ spc = "stopped" \/ (spc = "killed" /\ Pieces[c] > 1)

\* "server is running until a stop signal is received" (bserver.c:185): what
\* clients send, and when they leave, does not end it.
RunsUntilStopped == spc # "killed"
======================================================================
