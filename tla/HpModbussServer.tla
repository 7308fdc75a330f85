--------------------------- MODULE HpModbussServer --------------------------
(***************************************************************************)
(* The Modbus server of src/src/hpModbuss.cpp: start(), stop() and the     *)
(* select() loop of the server thread, with the descriptors they open and  *)
(* close, the clients that come and go, and the other threads of the       *)
(* process (MQTT client, log), which open and close descriptors too.       *)
(*                                                                         *)
(* One thread calls start() and stop(), as main does.  A start() that      *)
(* fails up to modbus_tcp_listen() puts everything back and is a stutter;  *)
(* one that fails at the thread does not.  The destructor is a stop().     *)
(* What stop() and the server thread do without the mutex interleaves: one *)
(* action is one system call or one access to a shared member.             *)
(*                                                                         *)
(* A query is reduced to being there: complete ("query"), or something     *)
(* modbus_receive() rejects, an end of file included ("broken").  The      *)
(* replies a client leaves unread fill its connection at some time, and    *)
(* the sockets block: send() then waits until the client reads.            *)
(***************************************************************************)
EXTENDS Naturals

CONSTANTS
  Client,  \* connections of Modbus clients
  MaxFd    \* descriptors of the process, 1..MaxFd

ASSUME MaxFdAssumption == MaxFd \in Nat
ASSUME ClientAssumption == Client \cap {"free", "listen", "other"} = {}

Fd == 1..MaxFd
NoSocket == 0     \* stands for -1

VARIABLES
  running, server_socket,
  s,              \* ctx->s, the socket of the libmodbus context
  mb_mapping,     \* TRUE while mapping and context are allocated
  control,        \* where the caller of start() and stop() is
  thread,         \* where the server thread is, "none" if it is not joinable
  refset, rdset, fdmax, master_socket,  \* its locals; the loop takes what it
                                        \* has dealt with out of rdset
  fdTable,        \* what a descriptor is: "free", "listen", a client's
                  \* connection, or "other" for one of another thread
  backlog,        \* connections the kernel holds for accept()
  input,          \* what a connection has to read: "quiet", "query",
                  \* "broken", or "taken" while its query is unanswered
  full,           \* clients whose connection takes no more replies
  orphans         \* history: clients an earlier stop() left connected

shared == <<running, server_socket, mb_mapping, orphans>>
locals == <<refset, rdset, fdmax, master_socket>>
kernel == <<fdTable, backlog, input, full>>
vars == <<shared, s, control, thread, locals, kernel>>

Init ==
  /\ running = FALSE /\ server_socket = NoSocket /\ s = NoSocket
  /\ mb_mapping = FALSE /\ control = "idle" /\ thread = "none"
  /\ refset = {} /\ rdset = {} /\ fdmax = 0 /\ master_socket = NoSocket
  /\ fdTable = [fd \in Fd |-> "free"]
  /\ backlog = {} /\ input = [c \in Client |-> "quiet"] /\ full = {}
  /\ orphans = {}

-----------------------------------------------------------------------------
(* The kernel.                                                             *)

\* A new descriptor is the lowest free one.
Lowest(fd) ==
  fdTable[fd] = "free" /\ \A g \in Fd : g < fd => fdTable[g] # "free"

IsOpen(c) == \E fd \in Fd : fdTable[fd] = c

\* What a system call finds behind fd; -1 is as good as a closed one.
At(fd) == IF fd \in Fd THEN fdTable[fd] ELSE "free"

\* close(): a connection ends, and so do those that wait for accept() if
\* the socket is the listening one.  A closed descriptor is left alone.
Close(fd) ==
  LET ended == IF At(fd) = "listen" THEN backlog ELSE {At(fd)} \cap Client
  IN /\ fdTable' = [g \in Fd |-> IF g = fd THEN "free" ELSE fdTable[g]]
     /\ backlog' = backlog \ ended
     /\ input' = [c \in Client |-> IF c \in ended THEN "quiet" ELSE input[c]]
     /\ full' = full \ ended

Connect(c) ==
  /\ \E fd \in Fd : fdTable[fd] = "listen"
  /\ ~IsOpen(c) /\ c \notin backlog
  /\ backlog' = backlog \cup {c}
  /\ UNCHANGED <<shared, s, control, thread, locals, fdTable, input,
                 full>>

ClientActs(c) ==
  /\ IsOpen(c) \/ c \in backlog
  /\ UNCHANGED <<shared, s, control, thread, locals, fdTable, backlog>>
Send(c) ==
  /\ input[c] = "quiet" /\ input' = [input EXCEPT ![c] = "query"]
  /\ ClientActs(c) /\ UNCHANGED full
\* The client reads the replies that have piled up.
Reads(c) ==
  /\ c \in full /\ full' = full \ {c}
  /\ ClientActs(c) /\ UNCHANGED input
\* The client closes, which ends a send() to it, or sends what is no query.
Break(c) ==
  /\ input[c] # "broken" /\ input' = [input EXCEPT ![c] = "broken"]
  /\ full' \in {full, full \ {c}}
  /\ ClientActs(c)

\* Another thread of the process opens or closes a descriptor.
OtherOpens(fd) ==
  /\ Lowest(fd)
  /\ fdTable' = [fdTable EXCEPT ![fd] = "other"]
  /\ UNCHANGED <<shared, s, control, thread, locals, backlog, input,
                 full>>
OtherCloses(fd) ==
  /\ fdTable[fd] = "other"
  /\ fdTable' = [fdTable EXCEPT ![fd] = "free"]
  /\ UNCHANGED <<shared, s, control, thread, locals, backlog, input,
                 full>>

-----------------------------------------------------------------------------
(* start() and stop().                                                     *)

StartWith(fd, position) ==
  /\ control = "idle" /\ ~running
  /\ Lowest(fd)                    \* modbus_tcp_listen
  /\ fdTable' = [fdTable EXCEPT ![fd] = "listen"]
  /\ running' = TRUE /\ server_socket' = fd
  /\ s' = NoSocket /\ mb_mapping' = TRUE
  /\ thread' = position
  /\ orphans' = {c \in Client : IsOpen(c)}
  /\ UNCHANGED <<control, locals, backlog, input, full>>

Start(fd) == StartWith(fd, "begin")
\* std::thread throws: the exception reaches main, the rest stays as it is.
StartThrows(fd) == StartWith(fd, "none")

Stop ==
  /\ control = "idle" /\ running
  /\ running' = FALSE
  /\ control' = "close"
  /\ UNCHANGED <<server_socket, mb_mapping, orphans, s, thread, locals,
                 kernel>>

\* shutdown() and close() of the listening socket ...
StopCloses ==
  /\ control = "close"
  /\ Close(server_socket)
  /\ control' = "forget"
  /\ UNCHANGED <<shared, s, thread, locals>>

\* ... and the member is reset after it.
StopForgets ==
  /\ control = "forget"
  /\ server_socket' = NoSocket
  /\ control' = "modbus_close"
  /\ UNCHANGED <<running, mb_mapping, orphans, s, thread, locals, kernel>>

\* modbus_close closes the one socket the context knows.
ModbusClose ==
  /\ control = "modbus_close"
  /\ Close(s) /\ s' = NoSocket
  /\ control' = "join"
  /\ UNCHANGED <<shared, thread, locals>>

JoinIf(ended) ==
  /\ control = "join" /\ ended
  /\ control' = "free"

\* Faulty variant: the thread is left to itself.
StopDetaches ==
  /\ JoinIf(TRUE)
  /\ UNCHANGED <<shared, s, thread, locals, kernel>>

\* join(), if there is a thread to join.
StopJoins ==
  /\ JoinIf(thread \in {"none", "ended"})
  /\ thread' = "none"
  /\ refset' = {} /\ rdset' = {} /\ fdmax' = 0 /\ master_socket' = NoSocket
  /\ UNCHANGED <<shared, s, kernel>>

\* Mapping and context are freed.
StopFrees ==
  /\ control = "free"
  /\ mb_mapping' = FALSE
  /\ control' = "idle"
  /\ UNCHANGED <<running, server_socket, orphans, s, thread, locals, kernel>>

-----------------------------------------------------------------------------
(* The server thread.                                                      *)

Goto(from, to) == thread = from /\ thread' = to

\* stop() may have been quicker: FD_SET(-1) then sets a bit that no select()
\* looks at, because fdmax is -1 and the loop ends at once.
Begin ==
  /\ Goto("begin", "loop")
  /\ refset' = {server_socket} \ {NoSocket}
  /\ fdmax' = server_socket
  /\ UNCHANGED <<shared, s, control, rdset, master_socket, kernel>>

LoopTest ==
  /\ Goto("loop", IF running THEN "select" ELSE "ended")
  /\ UNCHANGED <<shared, s, control, locals, kernel>>

HasInput(fd) ==
  \/ At(fd) = "listen" /\ backlog # {}
  \/ \E c \in Client : At(fd) = c /\ input[c] \in {"query", "broken"}

SelectFinds(ready) ==
  /\ Goto("select", "scan")
  /\ rdset' = ready
  /\ UNCHANGED <<shared, s, control, refset, fdmax, master_socket, kernel>>

\* Faulty variant: the bits of refset are tested after select().
SelectAll == SelectFinds(refset)

\* select() returns the sockets with input, none after a second.  One that
\* stop() closes meanwhile may show up; so may one that is not ours.
Select ==
  \E stray \in SUBSET {fd \in refset : fdTable[fd] \in {"free", "other"}} :
    SelectFinds({fd \in refset : fd <= fdmax /\ HasInput(fd)} \cup stray)

\* A closed descriptor among those that select() is given: EBADF.
BadDescriptor == \E fd \in refset : fdTable[fd] = "free"

\* Whatever the error, a signal or a lack of memory too, the loop is left.
SelectFails ==
  /\ Goto("select", "ended")
  /\ UNCHANGED <<shared, s, control, locals, kernel>>

Next_fd(fd) ==
  /\ fd \in rdset /\ fd <= fdmax
  /\ \A g \in rdset : fd <= g
  /\ rdset' = rdset \ {fd}
  /\ master_socket' = fd
  /\ UNCHANGED <<shared, control, refset, fdmax, kernel>>

ScanListener(fd) ==
  /\ Goto("scan", "accept")
  /\ Next_fd(fd) /\ fd = server_socket
  /\ UNCHANGED s

ScanAs(fd, socket) ==
  /\ Goto("scan", "receive")
  /\ Next_fd(fd) /\ fd # server_socket
  /\ s' = socket                    \* modbus_set_socket

\* Faulty variant: modbus_set_socket only the first time.
ScanClientOnce(fd) == ScanAs(fd, IF s = NoSocket THEN fd ELSE s)
\* Every other socket is taken for a client's, the listening one too once
\* stop() has reset the member.
ScanClient(fd) == ScanAs(fd, fd)

ScanDone ==
  /\ Goto("scan", "loop")
  /\ \A fd \in rdset : fd > fdmax
  /\ UNCHANGED <<shared, s, control, locals, kernel>>

AcceptWith(c, fd, max) ==
  /\ Goto("accept", "scan")
  /\ At(server_socket) = "listen" /\ c \in backlog /\ Lowest(fd)
  /\ backlog' = backlog \ {c}
  /\ fdTable' = [fdTable EXCEPT ![fd] = c]
  /\ refset' = refset \cup {fd} /\ fdmax' = max
  /\ UNCHANGED <<shared, s, control, rdset, master_socket, input, full>>

\* Faulty variant: fdmax is kept as the count that select() takes.
AcceptCounts(c, fd) == AcceptWith(c, fd, fd + 1)
Accept(c, fd) == AcceptWith(c, fd, IF fd > fdmax THEN fd ELSE fdmax)

AcceptFailsTo(next) ==
  /\ Goto("accept", next)
  /\ \/ At(server_socket) # "listen"
     \/ \A fd \in Fd : fdTable[fd] # "free"
  /\ UNCHANGED <<shared, s, control, locals, kernel>>

\* Faulty variant: the loop is left when accept() fails.
AcceptFailsEnds == AcceptFailsTo("ended")
\* No listening socket any more, or no free descriptor: the client waits on.
AcceptFails == AcceptFailsTo("scan")

\* modbus_receive() waits without a limit for the first byte on ctx->s.
ReceiveQuery(c) ==
  /\ Goto("receive", "reply")
  /\ At(s) = c /\ input[c] = "query"
  /\ input' = [input EXCEPT ![c] = "taken"]
  /\ UNCHANGED <<shared, s, control, locals, fdTable, backlog, full>>

ReceiveFails ==
  /\ Goto("receive", "close")
  /\ \/ At(s) \in {"free", "listen"}
     \/ \E c \in Client : At(s) = c /\ input[c] = "broken"
  /\ UNCHANGED <<shared, s, control, locals, kernel>>

\* On a descriptor that became another thread's it waits for that one's peer.
ReceiveOther ==
  /\ Goto("receive", "close")
  /\ At(s) = "other"
  /\ UNCHANGED <<shared, s, control, locals, kernel>>

\* modbus_reply() makes the reply from the mapping and waits in send() until
\* the connection takes it or has ended.  The reply may be what fills it.
Reply ==
  /\ Goto("reply", "scan")
  /\ At(s) \notin full
  /\ input' = [c \in Client |->
       IF At(s) = c /\ input[c] = "taken" THEN "quiet" ELSE input[c]]
  /\ full' \in {full, full \cup ({At(s)} \cap Client)}
  /\ UNCHANGED <<shared, s, control, locals, fdTable, backlog>>

CloseWith(kept, max) ==
  /\ Goto("close", "scan")
  /\ Close(master_socket)
  /\ refset' = kept /\ fdmax' = max
  /\ UNCHANGED <<shared, s, control, rdset, master_socket>>

Lowered == IF master_socket = fdmax THEN fdmax - 1 ELSE fdmax
\* Faulty variants: FD_CLR is left out; fdmax is lowered with any socket.
CloseClientUncleared == CloseWith(refset, Lowered)
CloseClientLowers == CloseWith(refset \ {master_socket}, fdmax - 1)
CloseClient == CloseWith(refset \ {master_socket}, Lowered)

-----------------------------------------------------------------------------
Stopping ==
  StopCloses \/ StopForgets \/ ModbusClose \/ StopJoins \/ StopFrees
ServerThread ==
  \/ Begin \/ LoopTest \/ Select \/ SelectFails \/ ScanDone
  \/ \E fd \in Fd : ScanListener(fd) \/ ScanClient(fd)
  \/ \E c \in Client, fd \in Fd : Accept(c, fd)
  \/ AcceptFails
  \/ \E c \in Client : ReceiveQuery(c)
  \/ ReceiveFails \/ Reply \/ CloseClient
Surroundings ==
  \/ \E c \in Client : Connect(c) \/ Send(c) \/ Reads(c) \/ Break(c)
  \/ \E fd \in Fd : OtherOpens(fd) \/ OtherCloses(fd)

Next ==
  \/ \E fd \in Fd : Start(fd) \/ StartThrows(fd)
  \/ Stop \/ Stopping
  \/ ServerThread \/ ReceiveOther
  \/ Surroundings

Spec == Init /\ [][Next]_vars

\* Both threads are scheduled.  Nothing is asked of the clients: one that
\* never reads its replies may hold up the thread in send().
FairSpec == Spec /\ WF_vars(Stopping) /\ WF_vars(ServerThread)

-----------------------------------------------------------------------------
status == IF running THEN "running" ELSE "stopped"

(* Properties.                                                             *)

TypeOK ==
  /\ running \in BOOLEAN /\ mb_mapping \in BOOLEAN
  /\ server_socket \in Fd \cup {NoSocket} /\ s \in Fd \cup {NoSocket}
  /\ control \in {"idle", "close", "forget", "modbus_close", "join", "free"}
  /\ thread \in {"none", "begin", "loop", "select", "scan", "accept",
                 "receive", "reply", "close", "ended"}
  /\ refset \subseteq Fd /\ rdset \subseteq Fd
  /\ fdmax \in Fd \cup {NoSocket} /\ master_socket \in Fd \cup {NoSocket}
  /\ fdTable \in [Fd -> Client \cup {"free", "listen", "other"}]
  /\ backlog \subseteq Client /\ orphans \subseteq Client
  /\ input \in [Client -> {"quiet", "query", "broken", "taken"}]
  /\ full \subseteq Client

\* The sockets of this server: its listening one and its connections.
Watched ==
  {fd \in Fd : fdTable[fd] = "listen" \/ fdTable[fd] \in Client \ orphans}

\* While the server runs, refset is exactly its open sockets: none is
\* forgotten, and none that was closed, and perhaps reused by another
\* thread, is still watched (hpModbuss.cpp:100, 138, 155-156).
WatchesEveryConnection ==
  running /\ thread \notin {"none", "begin"} => refset = Watched

\* fdmax covers every watched socket, whatever order they close in
\* (hpModbuss.cpp:115, 139-141, 157-159).
FdmaxCovers == running => \A fd \in refset : fd <= fdmax

\* While status() says "running", the thread leaves its loop only by an error
\* of select() that it has not made itself: no client, no lack of descriptors
\* and no socket closed behind its back ends it (hpModbuss.cpp:116-120, 308).
EndsOnlyBySelect ==
  [][status = "running" /\ thread # "ended" /\ thread' = "ended" =>
       thread = "select" /\ ~BadDescriptor]_vars

\* Mapping and context outlive the thread that replies from them, though
\* stop() frees them without the mutex (hpModbuss.cpp:148-151, 193-202).
MappingOutlivesThread == thread \notin {"none", "ended"} => mb_mapping

\* While the server runs, modbus_receive(), which has no timeout for the
\* first byte, is only called with something to read: one silent client
\* cannot keep the others waiting (hpModbuss.cpp:124-149).
NeverWaitsOnQuiet == running /\ thread = "receive" => HasInput(s)

\* While the server runs, neither thread closes a descriptor that belongs to
\* another thread of the process (hpModbuss.cpp:155).
OthersKept ==
  [][\A fd \in Fd :
       running /\ fdTable[fd] = "other" /\ fdTable'[fd] # "other" =>
         UNCHANGED <<thread, control>>]_vars

\* The thread waits in send() on a client that does not read.
StuckSending == thread = "reply" /\ At(s) \in full
\* It waits for the first byte on what was once the listening socket: stop()
\* has closed it, and another thread has opened the number since.
StuckReceiving == thread = "receive" /\ At(s) \in {"free", "other"}

\* A query on a connection that the server accepted is taken up, or the
\* connection ends, or the server is stopped: also while other clients come,
\* go and break off, and while no descriptor is free.  Only a failing
\* select(), or a client that never reads its replies, keeps the thread from
\* it (hpModbuss.cpp:116-120, 148-151).
QueriesAnswered ==
  \A c \in Client :
    (input[c] \in {"query", "taken"} /\ IsOpen(c) /\ c \notin orphans)
      ~> \/ input[c] \notin {"query", "taken"} \/ ~running
         \/ thread = "ended"
         \/ []StuckSending

\* stop() returns, unless the thread it joins hangs for ever: in send() to a
\* client that never reads, if it comes to it after modbus_close(), which
\* would have freed it; or on the descriptor of the listening socket, if
\* another thread reused it before the server thread, which no longer knows
\* it as its own, waits on it for a query (hpModbuss.cpp:128, 148-151,
\* 186-193).
StopReturns ==
  control # "idle" ~>
    control = "idle" \/ []StuckSending \/ []StuckReceiving

-----------------------------------------------------------------------------
(* What the comments say.                                                  *)

\* hpModbuss.cpp:189: "modbus_close will close client sockets".
ClientSocketsClosed ==
  control = "idle" /\ ~running => \A c \in Client : ~IsOpen(c)
=============================================================================
