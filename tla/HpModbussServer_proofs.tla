----------------------- MODULE HpModbussServer_proofs -----------------------
(* The safety of the Modbus server, for any number of clients and          *)
(* descriptors.                                                            *)
EXTENDS HpModbussServer, TLAPS

\* The thread runs only between start() and the join of stop(), mapping and
\* context are there from start() to the end of stop().
ControlInv ==
  /\ running => control = "idle"
  /\ control = "free" => thread = "none"
  /\ control = "idle" /\ ~running => thread = "none"
  /\ mb_mapping <=> running \/ control # "idle"

Listening == running \/ control = "close"

\* There is one listening socket while there is one, connections wait only
\* for it, and no connection has two descriptors.
KernelInv ==
  /\ Listening => server_socket \in Fd
  /\ \A fd \in Fd : fdTable[fd] = "listen" <=> Listening /\ fd = server_socket
  /\ ~Listening => backlog = {}
  /\ \A fd, g \in Fd :
       fdTable[fd] \in Client /\ fdTable[g] = fdTable[fd] => fd = g
  /\ \A c \in backlog : ~IsOpen(c)
  /\ running => \A c \in orphans : IsOpen(c)

Scan == {"scan", "accept", "receive", "reply", "close"}
Busy == {"receive", "reply", "close"}

\* What holds of the locals also while stop() is under way ...
LocalsInv ==
  /\ thread \in {"none", "begin"} => refset = {}
  /\ thread \in Busy => master_socket \in Fd
  /\ Listening /\ thread \in Busy => master_socket # server_socket

\* ... and what holds while the server runs: what remains in rdset has
\* input, and the socket that is dealt with is not among it.
RunningInv ==
  running =>
    /\ thread \in {"none", "begin"} => Watched = {server_socket}
    /\ thread \notin {"none", "begin"} => refset = Watched
    /\ \A fd \in refset : fd <= fdmax
    /\ thread \in Scan =>
         rdset \subseteq refset /\ \A fd \in rdset : HasInput(fd)
    /\ thread = "accept" => server_socket \notin rdset
    /\ thread \in Busy => s = master_socket /\ s \in refset /\ s \notin rdset
    /\ thread = "receive" => HasInput(s)

IInv == TypeOK /\ ControlInv /\ KernelInv /\ LocalsInv /\ RunningInv

-----------------------------------------------------------------------------
\* The types are kept: fdmax is only lowered when it is a descriptor.
LEMMA TypeStep == IInv /\ [Next]_vars => TypeOK'
<1> SUFFICES ASSUME IInv, [Next]_vars PROVE TypeOK' OBVIOUS
<1> USE MaxFdAssumption, ClientAssumption DEF IInv, Fd, NoSocket
<1>1. ASSUME NEW fd \in Fd, Start(fd) PROVE TypeOK'
  BY <1>1 DEF Start, StartWith, Lowest, IsOpen, TypeOK, LocalsInv, shared,
         locals, kernel
<1>2. ASSUME NEW fd \in Fd, StartThrows(fd) PROVE TypeOK'
  BY <1>2 DEF StartThrows, StartWith, Lowest, IsOpen, TypeOK, LocalsInv,
         shared, locals, kernel
<1>3. CASE Stop
  BY <1>3 DEF Stop, TypeOK, LocalsInv, shared, locals, kernel
<1>4. CASE StopCloses
  BY <1>4 DEF StopCloses, Close, At, TypeOK, LocalsInv, shared, locals, kernel
<1>5. CASE StopForgets
  BY <1>5 DEF StopForgets, TypeOK, LocalsInv, shared, locals, kernel
<1>6. CASE ModbusClose
  BY <1>6 DEF ModbusClose, Close, At, TypeOK, LocalsInv, shared, locals,
         kernel
<1>7. CASE StopJoins
  BY <1>7 DEF StopJoins, JoinIf, TypeOK, LocalsInv, shared, locals, kernel
<1>8. CASE StopFrees
  BY <1>8 DEF StopFrees, TypeOK, LocalsInv, shared, locals, kernel
<1>9. CASE Begin
  BY <1>9 DEF Begin, Goto, TypeOK, LocalsInv, shared, locals, kernel
<1>10. CASE LoopTest
  BY <1>10 DEF LoopTest, Goto, TypeOK, LocalsInv, shared, locals, kernel
<1>11. CASE Select
  BY <1>11 DEF Select, SelectFinds, Goto, TypeOK, LocalsInv, shared, locals,
         kernel
<1>12. CASE SelectFails
  BY <1>12 DEF SelectFails, Goto, TypeOK, LocalsInv, shared, locals, kernel
<1>13. CASE ScanDone
  BY <1>13 DEF ScanDone, Goto, TypeOK, LocalsInv, shared, locals, kernel
<1>14. ASSUME NEW fd \in Fd, ScanListener(fd) PROVE TypeOK'
  BY <1>14 DEF ScanListener, Goto, Next_fd, TypeOK, LocalsInv, shared, locals,
         kernel
<1>15. ASSUME NEW fd \in Fd, ScanClient(fd) PROVE TypeOK'
  BY <1>15 DEF ScanClient, ScanAs, Goto, Next_fd, TypeOK, LocalsInv, shared,
         locals,
         kernel
<1>16. ASSUME NEW c \in Client, NEW fd \in Fd, Accept(c, fd) PROVE TypeOK'
  BY <1>16 DEF Accept, AcceptWith, Goto, At, Lowest, TypeOK, LocalsInv,
         shared, locals,
         kernel
<1>17. CASE AcceptFails
  BY <1>17 DEF AcceptFails, AcceptFailsTo, Goto, At, TypeOK, LocalsInv,
         shared, locals,
         kernel
<1>18. ASSUME NEW c \in Client, ReceiveQuery(c) PROVE TypeOK'
  BY <1>18 DEF ReceiveQuery, Goto, At, TypeOK, LocalsInv, shared, locals,
         kernel
<1>19. CASE ReceiveFails
  BY <1>19 DEF ReceiveFails, Goto, At, TypeOK, LocalsInv, shared, locals,
         kernel
<1>20. CASE Reply
  BY <1>20 DEF Reply, Goto, At, TypeOK, LocalsInv, shared, locals, kernel
<1>21. CASE CloseClient
  <2>1. fdmax' \in Fd \cup {NoSocket}
    BY <1>21 DEF CloseClient, CloseWith, Lowered, Goto, TypeOK, LocalsInv, Busy
  <2>2. /\ fdTable' \in [Fd -> Client \cup {"free", "listen", "other"}]
        /\ backlog' \subseteq Client
        /\ input' \in [Client -> {"quiet", "query", "broken", "taken"}]
        /\ full' \subseteq Client
    BY <1>21 DEF CloseClient, CloseWith, Lowered, Close, TypeOK
  <2> QED BY <1>21, <2>1, <2>2 DEF CloseClient, CloseWith, Lowered, Goto,
         TypeOK, shared, locals
<1>22. CASE ReceiveOther
  BY <1>22 DEF ReceiveOther, Goto, At, TypeOK, LocalsInv, shared, locals,
         kernel
<1>23. ASSUME NEW c \in Client, Connect(c) PROVE TypeOK'
  BY <1>23 DEF Connect, IsOpen, TypeOK, LocalsInv, shared, locals, kernel
<1>24. ASSUME NEW c \in Client, Send(c) PROVE TypeOK'
  BY <1>24 DEF Send, ClientActs, TypeOK, LocalsInv, shared, locals, kernel
<1>25. ASSUME NEW c \in Client, Reads(c) PROVE TypeOK'
  BY <1>25 DEF Reads, ClientActs, TypeOK, LocalsInv, shared, locals, kernel
<1>26. ASSUME NEW c \in Client, Break(c) PROVE TypeOK'
  BY <1>26 DEF Break, ClientActs, TypeOK, LocalsInv, shared, locals, kernel
<1>27. ASSUME NEW fd \in Fd, OtherOpens(fd) PROVE TypeOK'
  BY <1>27 DEF OtherOpens, Lowest, TypeOK, LocalsInv, shared, locals, kernel
<1>28. ASSUME NEW fd \in Fd, OtherCloses(fd) PROVE TypeOK'
  BY <1>28 DEF OtherCloses, TypeOK, LocalsInv, shared, locals, kernel
<1>29. CASE UNCHANGED vars
  BY <1>29 DEF vars, TypeOK, LocalsInv, At, shared, locals, kernel
<1> QED
  BY <1>1, <1>2, <1>3, <1>4, <1>5, <1>6, <1>7, <1>8, <1>9, <1>10, <1>11,
     <1>12, <1>13, <1>14, <1>15, <1>16, <1>17, <1>18, <1>19, <1>20, <1>21,
     <1>22, <1>23, <1>24, <1>25, <1>26, <1>27, <1>28, <1>29
        DEF Next, Stopping, ServerThread, Surroundings

\* The threads follow each other through start() and stop().
LEMMA ControlStep == IInv /\ [Next]_vars => ControlInv'
<1> SUFFICES ASSUME IInv, [Next]_vars PROVE ControlInv' OBVIOUS
<1> USE MaxFdAssumption, ClientAssumption DEF IInv, Fd, NoSocket
<1>1. ASSUME NEW fd \in Fd, Start(fd) PROVE ControlInv'
  BY <1>1 DEF Start, StartWith, Lowest, IsOpen, TypeOK, ControlInv, shared,
         locals, kernel
<1>2. ASSUME NEW fd \in Fd, StartThrows(fd) PROVE ControlInv'
  BY <1>2 DEF StartThrows, StartWith, Lowest, IsOpen, TypeOK, ControlInv,
         shared, locals, kernel
<1>3. CASE Stop
  BY <1>3 DEF Stop, TypeOK, ControlInv, shared, locals, kernel
<1>4. CASE StopCloses
  BY <1>4 DEF StopCloses, Close, At, TypeOK, ControlInv, shared, locals,
         kernel
<1>5. CASE StopForgets
  BY <1>5 DEF StopForgets, TypeOK, ControlInv, shared, locals, kernel
<1>6. CASE ModbusClose
  BY <1>6 DEF ModbusClose, Close, At, TypeOK, ControlInv, shared, locals,
         kernel
<1>7. CASE StopJoins
  BY <1>7 DEF StopJoins, JoinIf, TypeOK, ControlInv, shared, locals, kernel
<1>8. CASE StopFrees
  BY <1>8 DEF StopFrees, TypeOK, ControlInv, shared, locals, kernel
<1>9. CASE Begin
  BY <1>9 DEF Begin, Goto, TypeOK, ControlInv, shared, locals, kernel
<1>10. CASE LoopTest
  BY <1>10 DEF LoopTest, Goto, TypeOK, ControlInv, shared, locals, kernel
<1>11. CASE Select
  BY <1>11 DEF Select, SelectFinds, Goto, TypeOK, ControlInv, shared, locals,
         kernel
<1>12. CASE SelectFails
  BY <1>12 DEF SelectFails, Goto, TypeOK, ControlInv, shared, locals, kernel
<1>13. CASE ScanDone
  BY <1>13 DEF ScanDone, Goto, TypeOK, ControlInv, shared, locals, kernel
<1>14. ASSUME NEW fd \in Fd, ScanListener(fd) PROVE ControlInv'
  BY <1>14 DEF ScanListener, Goto, Next_fd, TypeOK, ControlInv, shared,
         locals, kernel
<1>15. ASSUME NEW fd \in Fd, ScanClient(fd) PROVE ControlInv'
  BY <1>15 DEF ScanClient, ScanAs, Goto, Next_fd, TypeOK, ControlInv, shared,
         locals,
         kernel
<1>16. ASSUME NEW c \in Client, NEW fd \in Fd, Accept(c, fd) PROVE ControlInv'
  BY <1>16 DEF Accept, AcceptWith, Goto, At, Lowest, TypeOK, ControlInv,
         shared, locals,
         kernel
<1>17. CASE AcceptFails
  BY <1>17 DEF AcceptFails, AcceptFailsTo, Goto, At, TypeOK, ControlInv,
         shared, locals,
         kernel
<1>18. ASSUME NEW c \in Client, ReceiveQuery(c) PROVE ControlInv'
  BY <1>18 DEF ReceiveQuery, Goto, At, TypeOK, ControlInv, shared, locals,
         kernel
<1>19. CASE ReceiveFails
  BY <1>19 DEF ReceiveFails, Goto, At, TypeOK, ControlInv, shared, locals,
         kernel
<1>20. CASE Reply
  BY <1>20 DEF Reply, Goto, At, TypeOK, ControlInv, shared, locals, kernel
<1>21. CASE CloseClient
  BY <1>21 DEF CloseClient, CloseWith, Lowered, Close, At, Goto, TypeOK,
         ControlInv, shared,
         locals, kernel
<1>22. CASE ReceiveOther
  BY <1>22 DEF ReceiveOther, Goto, At, TypeOK, ControlInv, shared, locals,
         kernel
<1>23. ASSUME NEW c \in Client, Connect(c) PROVE ControlInv'
  BY <1>23 DEF Connect, IsOpen, TypeOK, ControlInv, shared, locals, kernel
<1>24. ASSUME NEW c \in Client, Send(c) PROVE ControlInv'
  BY <1>24 DEF Send, ClientActs, TypeOK, ControlInv, shared, locals, kernel
<1>25. ASSUME NEW c \in Client, Reads(c) PROVE ControlInv'
  BY <1>25 DEF Reads, ClientActs, TypeOK, ControlInv, shared, locals, kernel
<1>26. ASSUME NEW c \in Client, Break(c) PROVE ControlInv'
  BY <1>26 DEF Break, ClientActs, TypeOK, ControlInv, shared, locals, kernel
<1>27. ASSUME NEW fd \in Fd, OtherOpens(fd) PROVE ControlInv'
  BY <1>27 DEF OtherOpens, Lowest, TypeOK, ControlInv, shared, locals, kernel
<1>28. ASSUME NEW fd \in Fd, OtherCloses(fd) PROVE ControlInv'
  BY <1>28 DEF OtherCloses, TypeOK, ControlInv, shared, locals, kernel
<1>29. CASE UNCHANGED vars
  BY <1>29 DEF vars, TypeOK, ControlInv, At, shared, locals, kernel
<1> QED
  BY <1>1, <1>2, <1>3, <1>4, <1>5, <1>6, <1>7, <1>8, <1>9, <1>10, <1>11,
     <1>12, <1>13, <1>14, <1>15, <1>16, <1>17, <1>18, <1>19, <1>20, <1>21,
     <1>22, <1>23, <1>24, <1>25, <1>26, <1>27, <1>28, <1>29
        DEF Next, Stopping, ServerThread, Surroundings

\* The kernel's tables stay consistent.
LEMMA KernelStep == IInv /\ [Next]_vars => KernelInv'
<1> SUFFICES ASSUME IInv, [Next]_vars PROVE KernelInv' OBVIOUS
<1> USE MaxFdAssumption, ClientAssumption DEF IInv, Fd, NoSocket
<1>1. ASSUME NEW fd \in Fd, Start(fd) PROVE KernelInv'
  BY <1>1 DEF Start, StartWith, Lowest, IsOpen, TypeOK, ControlInv, KernelInv,
         LocalsInv, RunningInv, Listening, Watched, Busy, shared, locals,
         kernel
<1>2. ASSUME NEW fd \in Fd, StartThrows(fd) PROVE KernelInv'
  BY <1>2 DEF StartThrows, StartWith, Lowest, IsOpen, TypeOK, ControlInv,
         KernelInv, LocalsInv, RunningInv, Listening, Watched, Busy, shared,
         locals, kernel
<1>3. CASE Stop
  BY <1>3 DEF Stop, TypeOK, ControlInv, KernelInv, LocalsInv, RunningInv,
         Listening, IsOpen, Watched, Busy, shared, locals, kernel
<1>4. CASE StopCloses
  BY <1>4 DEF StopCloses, Close, At, TypeOK, ControlInv, KernelInv, LocalsInv,
         RunningInv, Listening, IsOpen, Watched, Busy, shared, locals, kernel
<1>5. CASE StopForgets
  BY <1>5 DEF StopForgets, TypeOK, ControlInv, KernelInv, LocalsInv,
         RunningInv, Listening, IsOpen, Watched, Busy, shared, locals, kernel
<1>6. CASE ModbusClose
  BY <1>6 DEF ModbusClose, Close, At, TypeOK, ControlInv, KernelInv,
         LocalsInv, RunningInv, Listening, IsOpen, Watched, Busy, shared,
         locals, kernel
<1>7. CASE StopJoins
  BY <1>7 DEF StopJoins, JoinIf, TypeOK, ControlInv, KernelInv, LocalsInv,
         RunningInv, Listening, IsOpen, Watched, Busy, shared, locals, kernel
<1>8. CASE StopFrees
  BY <1>8 DEF StopFrees, TypeOK, ControlInv, KernelInv, LocalsInv, RunningInv,
         Listening, IsOpen, Watched, Busy, shared, locals, kernel
<1>9. CASE Begin
  BY <1>9 DEF Begin, Goto, TypeOK, ControlInv, KernelInv, LocalsInv,
         RunningInv, Listening, IsOpen, Watched, Busy, shared, locals, kernel
<1>10. CASE LoopTest
  BY <1>10 DEF LoopTest, Goto, TypeOK, ControlInv, KernelInv, LocalsInv,
         RunningInv, Listening, IsOpen, Watched, Busy, shared, locals, kernel
<1>11. CASE Select
  BY <1>11 DEF Select, SelectFinds, Goto, TypeOK, ControlInv, KernelInv,
         LocalsInv,
         RunningInv, Listening, IsOpen, Watched, Busy, shared, locals, kernel
<1>12. CASE SelectFails
  BY <1>12 DEF SelectFails, Goto, TypeOK, ControlInv, KernelInv, LocalsInv,
         RunningInv, Listening, IsOpen, Watched, Busy, shared, locals, kernel
<1>13. CASE ScanDone
  BY <1>13 DEF ScanDone, Goto, TypeOK, ControlInv, KernelInv, LocalsInv,
         RunningInv, Listening, IsOpen, Watched, Busy, shared, locals, kernel
<1>14. ASSUME NEW fd \in Fd, ScanListener(fd) PROVE KernelInv'
  BY <1>14 DEF ScanListener, Goto, Next_fd, TypeOK, ControlInv, KernelInv,
         LocalsInv, RunningInv, Listening, IsOpen, Watched, Busy, shared,
         locals, kernel
<1>15. ASSUME NEW fd \in Fd, ScanClient(fd) PROVE KernelInv'
  BY <1>15 DEF ScanClient, ScanAs, Goto, Next_fd, TypeOK, ControlInv,
         KernelInv,
         LocalsInv, RunningInv, Listening, IsOpen, Watched, Busy, shared,
         locals, kernel
<1>16. ASSUME NEW c \in Client, NEW fd \in Fd, Accept(c, fd) PROVE KernelInv'
  BY <1>16 DEF Accept, AcceptWith, Goto, At, Lowest, TypeOK, ControlInv,
         KernelInv,
         LocalsInv, RunningInv, Listening, IsOpen, Watched, Busy, shared,
         locals, kernel
<1>17. CASE AcceptFails
  BY <1>17 DEF AcceptFails, AcceptFailsTo, Goto, At, TypeOK, ControlInv,
         KernelInv,
         LocalsInv, RunningInv, Listening, IsOpen, Watched, Busy, shared,
         locals, kernel
<1>18. ASSUME NEW c \in Client, ReceiveQuery(c) PROVE KernelInv'
  BY <1>18 DEF ReceiveQuery, Goto, At, TypeOK, ControlInv, KernelInv,
         LocalsInv, RunningInv, Listening, IsOpen, Watched, Busy, shared,
         locals, kernel
<1>19. CASE ReceiveFails
  BY <1>19 DEF ReceiveFails, Goto, At, TypeOK, ControlInv, KernelInv,
         LocalsInv, RunningInv, Listening, IsOpen, Watched, Busy, shared,
         locals, kernel
<1>20. CASE Reply
  BY <1>20 DEF Reply, Goto, At, TypeOK, ControlInv, KernelInv, LocalsInv,
         RunningInv, Listening, IsOpen, Watched, Busy, shared, locals, kernel
<1>21. CASE CloseClient
  BY <1>21 DEF CloseClient, CloseWith, Lowered, Close, At, Goto, TypeOK,
         ControlInv, KernelInv,
         LocalsInv, RunningInv, Listening, IsOpen, Watched, Busy, shared,
         locals, kernel
<1>22. CASE ReceiveOther
  BY <1>22 DEF ReceiveOther, Goto, At, TypeOK, ControlInv, KernelInv,
         LocalsInv, RunningInv, Listening, IsOpen, Watched, Busy, shared,
         locals, kernel
<1>23. ASSUME NEW c \in Client, Connect(c) PROVE KernelInv'
  BY <1>23 DEF Connect, IsOpen, TypeOK, ControlInv, KernelInv, LocalsInv,
         RunningInv, Listening, Watched, Busy, shared, locals, kernel
<1>24. ASSUME NEW c \in Client, Send(c) PROVE KernelInv'
  BY <1>24 DEF Send, ClientActs, TypeOK, ControlInv, KernelInv, LocalsInv,
         RunningInv, Listening, IsOpen, Watched, Busy, shared, locals, kernel
<1>25. ASSUME NEW c \in Client, Reads(c) PROVE KernelInv'
  BY <1>25 DEF Reads, ClientActs, TypeOK, ControlInv, KernelInv, LocalsInv,
         RunningInv, Listening, IsOpen, Watched, Busy, shared, locals, kernel
<1>26. ASSUME NEW c \in Client, Break(c) PROVE KernelInv'
  BY <1>26 DEF Break, ClientActs, TypeOK, ControlInv, KernelInv, LocalsInv,
         RunningInv, Listening, IsOpen, Watched, Busy, shared, locals, kernel
<1>27. ASSUME NEW fd \in Fd, OtherOpens(fd) PROVE KernelInv'
  BY <1>27 DEF OtherOpens, Lowest, TypeOK, ControlInv, KernelInv, LocalsInv,
         RunningInv, Listening, IsOpen, Watched, Busy, shared, locals, kernel
<1>28. ASSUME NEW fd \in Fd, OtherCloses(fd) PROVE KernelInv'
  BY <1>28 DEF OtherCloses, TypeOK, ControlInv, KernelInv, LocalsInv,
         RunningInv, Listening, IsOpen, Watched, Busy, shared, locals, kernel
<1>29. CASE UNCHANGED vars
  BY <1>29 DEF vars, TypeOK, ControlInv, KernelInv, LocalsInv, RunningInv,
         Listening, IsOpen, Watched, Busy, At, shared, locals, kernel
<1> QED
  BY <1>1, <1>2, <1>3, <1>4, <1>5, <1>6, <1>7, <1>8, <1>9, <1>10, <1>11,
     <1>12, <1>13, <1>14, <1>15, <1>16, <1>17, <1>18, <1>19, <1>20, <1>21,
     <1>22, <1>23, <1>24, <1>25, <1>26, <1>27, <1>28, <1>29
        DEF Next, Stopping, ServerThread, Surroundings

\* The locals of the thread stay consistent.
LEMMA LocalsStep == IInv /\ [Next]_vars => LocalsInv'
<1> SUFFICES ASSUME IInv, [Next]_vars PROVE LocalsInv' OBVIOUS
<1> USE MaxFdAssumption, ClientAssumption DEF IInv, Fd, NoSocket
<1>1. ASSUME NEW fd \in Fd, Start(fd) PROVE LocalsInv'
  BY <1>1 DEF Start, StartWith, Lowest, IsOpen, TypeOK, ControlInv, KernelInv,
         LocalsInv, RunningInv, Listening, Busy, Watched, shared, locals,
         kernel
<1>2. ASSUME NEW fd \in Fd, StartThrows(fd) PROVE LocalsInv'
  BY <1>2 DEF StartThrows, StartWith, Lowest, IsOpen, TypeOK, ControlInv,
         KernelInv, LocalsInv, RunningInv, Listening, Busy, Watched, shared,
         locals, kernel
<1>3. CASE Stop
  BY <1>3 DEF Stop, TypeOK, ControlInv, KernelInv, LocalsInv, RunningInv,
         Listening, Busy, Watched, shared, locals, kernel
<1>4. CASE StopCloses
  BY <1>4 DEF StopCloses, Close, At, TypeOK, ControlInv, KernelInv, LocalsInv,
         RunningInv, Listening, Busy, Watched, shared, locals, kernel
<1>5. CASE StopForgets
  BY <1>5 DEF StopForgets, TypeOK, ControlInv, KernelInv, LocalsInv,
         RunningInv, Listening, Busy, Watched, shared, locals, kernel
<1>6. CASE ModbusClose
  BY <1>6 DEF ModbusClose, Close, At, TypeOK, ControlInv, KernelInv,
         LocalsInv, RunningInv, Listening, Busy, Watched, shared, locals,
         kernel
<1>7. CASE StopJoins
  BY <1>7 DEF StopJoins, JoinIf, TypeOK, ControlInv, KernelInv, LocalsInv,
         RunningInv, Listening, Busy, Watched, shared, locals, kernel
<1>8. CASE StopFrees
  BY <1>8 DEF StopFrees, TypeOK, ControlInv, KernelInv, LocalsInv, RunningInv,
         Listening, Busy, Watched, shared, locals, kernel
<1>9. CASE Begin
  BY <1>9 DEF Begin, Goto, TypeOK, ControlInv, KernelInv, LocalsInv,
         RunningInv, Listening, Busy, Watched, shared, locals, kernel
<1>10. CASE LoopTest
  BY <1>10 DEF LoopTest, Goto, TypeOK, ControlInv, KernelInv, LocalsInv,
         RunningInv, Listening, Busy, Watched, shared, locals, kernel
<1>11. CASE Select
  BY <1>11 DEF Select, SelectFinds, Goto, TypeOK, ControlInv, KernelInv,
         LocalsInv,
         RunningInv, Listening, Busy, Watched, shared, locals, kernel
<1>12. CASE SelectFails
  BY <1>12 DEF SelectFails, Goto, TypeOK, ControlInv, KernelInv, LocalsInv,
         RunningInv, Listening, Busy, Watched, shared, locals, kernel
<1>13. CASE ScanDone
  BY <1>13 DEF ScanDone, Goto, TypeOK, ControlInv, KernelInv, LocalsInv,
         RunningInv, Listening, Busy, Watched, shared, locals, kernel
<1>14. ASSUME NEW fd \in Fd, ScanListener(fd) PROVE LocalsInv'
  BY <1>14 DEF ScanListener, Goto, Next_fd, TypeOK, ControlInv, KernelInv,
         LocalsInv, RunningInv, Listening, Busy, Watched, shared, locals,
         kernel
<1>15. ASSUME NEW fd \in Fd, ScanClient(fd) PROVE LocalsInv'
  BY <1>15 DEF ScanClient, ScanAs, Goto, Next_fd, TypeOK, ControlInv,
         KernelInv,
         LocalsInv, RunningInv, Listening, Busy, Watched, shared, locals,
         kernel
<1>16. ASSUME NEW c \in Client, NEW fd \in Fd, Accept(c, fd) PROVE LocalsInv'
  BY <1>16 DEF Accept, AcceptWith, Goto, At, Lowest, TypeOK, ControlInv,
         KernelInv,
         LocalsInv, RunningInv, Listening, Busy, Watched, shared, locals,
         kernel
<1>17. CASE AcceptFails
  BY <1>17 DEF AcceptFails, AcceptFailsTo, Goto, At, TypeOK, ControlInv,
         KernelInv,
         LocalsInv, RunningInv, Listening, Busy, Watched, shared, locals,
         kernel
<1>18. ASSUME NEW c \in Client, ReceiveQuery(c) PROVE LocalsInv'
  BY <1>18 DEF ReceiveQuery, Goto, At, TypeOK, ControlInv, KernelInv,
         LocalsInv, RunningInv, Listening, Busy, Watched, shared, locals,
         kernel
<1>19. CASE ReceiveFails
  BY <1>19 DEF ReceiveFails, Goto, At, TypeOK, ControlInv, KernelInv,
         LocalsInv, RunningInv, Listening, Busy, Watched, shared, locals,
         kernel
<1>20. CASE Reply
  BY <1>20 DEF Reply, Goto, At, TypeOK, ControlInv, KernelInv, LocalsInv,
         RunningInv, Listening, Busy, Watched, shared, locals, kernel
<1>21. CASE CloseClient
  BY <1>21 DEF CloseClient, CloseWith, Lowered, Close, At, Goto, TypeOK,
         ControlInv, KernelInv,
         LocalsInv, RunningInv, Listening, Busy, Watched, shared, locals,
         kernel
<1>22. CASE ReceiveOther
  BY <1>22 DEF ReceiveOther, Goto, At, TypeOK, ControlInv, KernelInv,
         LocalsInv, RunningInv, Listening, Busy, Watched, shared, locals,
         kernel
<1>23. ASSUME NEW c \in Client, Connect(c) PROVE LocalsInv'
  BY <1>23 DEF Connect, IsOpen, TypeOK, ControlInv, KernelInv, LocalsInv,
         RunningInv, Listening, Busy, Watched, shared, locals, kernel
<1>24. ASSUME NEW c \in Client, Send(c) PROVE LocalsInv'
  BY <1>24 DEF Send, ClientActs, TypeOK, ControlInv, KernelInv, LocalsInv,
         RunningInv, Listening, Busy, Watched, shared, locals, kernel
<1>25. ASSUME NEW c \in Client, Reads(c) PROVE LocalsInv'
  BY <1>25 DEF Reads, ClientActs, TypeOK, ControlInv, KernelInv, LocalsInv,
         RunningInv, Listening, Busy, Watched, shared, locals, kernel
<1>26. ASSUME NEW c \in Client, Break(c) PROVE LocalsInv'
  BY <1>26 DEF Break, ClientActs, TypeOK, ControlInv, KernelInv, LocalsInv,
         RunningInv, Listening, Busy, Watched, shared, locals, kernel
<1>27. ASSUME NEW fd \in Fd, OtherOpens(fd) PROVE LocalsInv'
  BY <1>27 DEF OtherOpens, Lowest, TypeOK, ControlInv, KernelInv, LocalsInv,
         RunningInv, Listening, Busy, Watched, shared, locals, kernel
<1>28. ASSUME NEW fd \in Fd, OtherCloses(fd) PROVE LocalsInv'
  BY <1>28 DEF OtherCloses, TypeOK, ControlInv, KernelInv, LocalsInv,
         RunningInv, Listening, Busy, Watched, shared, locals, kernel
<1>29. CASE UNCHANGED vars
  BY <1>29 DEF vars, TypeOK, ControlInv, KernelInv, LocalsInv, RunningInv,
         Listening, Busy, Watched, At, shared, locals, kernel
<1> QED
  BY <1>1, <1>2, <1>3, <1>4, <1>5, <1>6, <1>7, <1>8, <1>9, <1>10, <1>11,
     <1>12, <1>13, <1>14, <1>15, <1>16, <1>17, <1>18, <1>19, <1>20, <1>21,
     <1>22, <1>23, <1>24, <1>25, <1>26, <1>27, <1>28, <1>29
        DEF Next, Stopping, ServerThread, Surroundings

\* refset and rdset stay right while the server runs.
LEMMA RunningStep == IInv /\ [Next]_vars => RunningInv'
<1> SUFFICES ASSUME IInv, [Next]_vars PROVE RunningInv' OBVIOUS
<1> USE MaxFdAssumption, ClientAssumption DEF IInv, Fd, NoSocket
<1>1. ASSUME NEW fd \in Fd, Start(fd) PROVE RunningInv'
  BY <1>1 DEF Start, StartWith, Lowest, IsOpen, TypeOK, ControlInv, KernelInv,
         LocalsInv, RunningInv, Listening, Watched, Busy, Scan, HasInput, At,
         shared, locals, kernel
<1>2. ASSUME NEW fd \in Fd, StartThrows(fd) PROVE RunningInv'
  BY <1>2 DEF StartThrows, StartWith, Lowest, IsOpen, TypeOK, ControlInv,
         KernelInv, LocalsInv, RunningInv, Listening, Watched, Busy, Scan,
         HasInput, At, shared, locals, kernel
<1>3. CASE Stop
  BY <1>3 DEF Stop, TypeOK, ControlInv, KernelInv, LocalsInv, RunningInv,
         Listening, IsOpen, Watched, Busy, Scan, HasInput, At, shared, locals,
         kernel
<1>4. CASE StopCloses
  BY <1>4 DEF StopCloses, Close, At, TypeOK, ControlInv, KernelInv, LocalsInv,
         RunningInv, Listening, IsOpen, Watched, Busy, Scan, HasInput, shared,
         locals, kernel
<1>5. CASE StopForgets
  BY <1>5 DEF StopForgets, TypeOK, ControlInv, KernelInv, LocalsInv,
         RunningInv, Listening, IsOpen, Watched, Busy, Scan, HasInput, At,
         shared, locals, kernel
<1>6. CASE ModbusClose
  BY <1>6 DEF ModbusClose, Close, At, TypeOK, ControlInv, KernelInv,
         LocalsInv, RunningInv, Listening, IsOpen, Watched, Busy, Scan,
         HasInput, shared, locals, kernel
<1>7. CASE StopJoins
  BY <1>7 DEF StopJoins, JoinIf, TypeOK, ControlInv, KernelInv, LocalsInv,
         RunningInv, Listening, IsOpen, Watched, Busy, Scan, HasInput, At,
         shared, locals, kernel
<1>8. CASE StopFrees
  BY <1>8 DEF StopFrees, TypeOK, ControlInv, KernelInv, LocalsInv, RunningInv,
         Listening, IsOpen, Watched, Busy, Scan, HasInput, At, shared, locals,
         kernel
<1>9. CASE Begin
  BY <1>9 DEF Begin, Goto, TypeOK, ControlInv, KernelInv, LocalsInv,
         RunningInv, Listening, IsOpen, Watched, Busy, Scan, HasInput, At,
         shared, locals, kernel
<1>10. CASE LoopTest
  BY <1>10 DEF LoopTest, Goto, TypeOK, ControlInv, KernelInv, LocalsInv,
         RunningInv, Listening, IsOpen, Watched, Busy, Scan, HasInput, At,
         shared, locals, kernel
<1>11. CASE Select
  <2> SUFFICES ASSUME running' PROVE RunningInv'
    BY DEF RunningInv
  <2>1. /\ running /\ thread = "select" /\ thread' = "scan"
        /\ UNCHANGED <<shared, s, control, refset, fdmax, kernel>>
    BY <1>11 DEF Select, SelectFinds, Goto, shared, kernel
  <2>2. refset = Watched /\ Watched' = Watched
    BY <2>1 DEF RunningInv, Watched, shared, kernel
  <2>3. {fd \in refset : fdTable[fd] \in {"free", "other"}} = {}
    BY <2>2 DEF Watched
  <2>4. rdset' = {fd \in refset : fd <= fdmax /\ HasInput(fd)}
    BY <1>11, <2>3 DEF Select, SelectFinds
  <2>5. \A fd \in rdset' : HasInput(fd)'
    BY <2>1, <2>4 DEF HasInput, At, kernel
  <2> QED BY <2>1, <2>2, <2>4, <2>5 DEF RunningInv, Scan, Busy
<1>12. CASE SelectFails
  BY <1>12 DEF SelectFails, Goto, TypeOK, ControlInv, KernelInv, LocalsInv,
         RunningInv, Listening, IsOpen, Watched, Busy, Scan, HasInput, At,
         shared, locals, kernel
<1>13. CASE ScanDone
  BY <1>13 DEF ScanDone, Goto, TypeOK, ControlInv, KernelInv, LocalsInv,
         RunningInv, Listening, IsOpen, Watched, Busy, Scan, HasInput, At,
         shared, locals, kernel
<1>14. ASSUME NEW fd \in Fd, ScanListener(fd) PROVE RunningInv'
  BY <1>14 DEF ScanListener, Goto, Next_fd, TypeOK, ControlInv, KernelInv,
         LocalsInv, RunningInv, Listening, IsOpen, Watched, Busy, Scan,
         HasInput, At, shared, locals, kernel
<1>15. ASSUME NEW fd \in Fd, ScanClient(fd) PROVE RunningInv'
  BY <1>15 DEF ScanClient, ScanAs, Goto, Next_fd, TypeOK, ControlInv,
         KernelInv,
         LocalsInv, RunningInv, Listening, IsOpen, Watched, Busy, Scan,
         HasInput, At, shared, locals, kernel
<1>16. ASSUME NEW c \in Client, NEW fd \in Fd, Accept(c, fd) PROVE RunningInv'
  BY <1>16 DEF Accept, AcceptWith, Goto, At, Lowest, TypeOK, ControlInv,
         KernelInv,
         LocalsInv, RunningInv, Listening, IsOpen, Watched, Busy, Scan,
         HasInput, shared, locals, kernel
<1>17. CASE AcceptFails
  BY <1>17 DEF AcceptFails, AcceptFailsTo, Goto, At, TypeOK, ControlInv,
         KernelInv,
         LocalsInv, RunningInv, Listening, IsOpen, Watched, Busy, Scan,
         HasInput, shared, locals, kernel
<1>18. ASSUME NEW c \in Client, ReceiveQuery(c) PROVE RunningInv'
  BY <1>18 DEF ReceiveQuery, Goto, At, TypeOK, ControlInv, KernelInv,
         LocalsInv, RunningInv, Listening, IsOpen, Watched, Busy, Scan,
         HasInput, shared, locals, kernel
<1>19. CASE ReceiveFails
  BY <1>19 DEF ReceiveFails, Goto, At, TypeOK, ControlInv, KernelInv,
         LocalsInv, RunningInv, Listening, IsOpen, Watched, Busy, Scan,
         HasInput, shared, locals, kernel
<1>20. CASE Reply
  BY <1>20 DEF Reply, Goto, At, TypeOK, ControlInv, KernelInv, LocalsInv,
         RunningInv, Listening, IsOpen, Watched, Busy, Scan, HasInput, shared,
         locals, kernel
<1>21. CASE CloseClient
  BY <1>21 DEF CloseClient, CloseWith, Lowered, Close, At, Goto, TypeOK,
         ControlInv, KernelInv,
         LocalsInv, RunningInv, Listening, IsOpen, Watched, Busy, Scan,
         HasInput, shared, locals, kernel
<1>22. CASE ReceiveOther
  BY <1>22 DEF ReceiveOther, Goto, At, TypeOK, ControlInv, KernelInv,
         LocalsInv, RunningInv, Listening, IsOpen, Watched, Busy, Scan,
         HasInput, shared, locals, kernel
<1>23. ASSUME NEW c \in Client, Connect(c) PROVE RunningInv'
  BY <1>23 DEF Connect, IsOpen, TypeOK, ControlInv, KernelInv, LocalsInv,
         RunningInv, Listening, Watched, Busy, Scan, HasInput, At, shared,
         locals, kernel
<1>24. ASSUME NEW c \in Client, Send(c) PROVE RunningInv'
  BY <1>24 DEF Send, ClientActs, TypeOK, ControlInv, KernelInv, LocalsInv,
         RunningInv, Listening, IsOpen, Watched, Busy, Scan, HasInput, At,
         shared, locals, kernel
<1>25. ASSUME NEW c \in Client, Reads(c) PROVE RunningInv'
  BY <1>25 DEF Reads, ClientActs, TypeOK, ControlInv, KernelInv, LocalsInv,
         RunningInv, Listening, IsOpen, Watched, Busy, Scan, HasInput, At,
         shared, locals, kernel
<1>26. ASSUME NEW c \in Client, Break(c) PROVE RunningInv'
  BY <1>26 DEF Break, ClientActs, TypeOK, ControlInv, KernelInv, LocalsInv,
         RunningInv, Listening, IsOpen, Watched, Busy, Scan, HasInput, At,
         shared, locals, kernel
<1>27. ASSUME NEW fd \in Fd, OtherOpens(fd) PROVE RunningInv'
  BY <1>27 DEF OtherOpens, Lowest, TypeOK, ControlInv, KernelInv, LocalsInv,
         RunningInv, Listening, IsOpen, Watched, Busy, Scan, HasInput, At,
         shared, locals, kernel
<1>28. ASSUME NEW fd \in Fd, OtherCloses(fd) PROVE RunningInv'
  BY <1>28 DEF OtherCloses, TypeOK, ControlInv, KernelInv, LocalsInv,
         RunningInv, Listening, IsOpen, Watched, Busy, Scan, HasInput, At,
         shared, locals, kernel
<1>29. CASE UNCHANGED vars
  BY <1>29 DEF vars, TypeOK, ControlInv, KernelInv, LocalsInv, RunningInv,
         Listening, IsOpen, Watched, Busy, Scan, HasInput, At, At, shared,
         locals, kernel
<1> QED
  BY <1>1, <1>2, <1>3, <1>4, <1>5, <1>6, <1>7, <1>8, <1>9, <1>10, <1>11,
     <1>12, <1>13, <1>14, <1>15, <1>16, <1>17, <1>18, <1>19, <1>20, <1>21,
     <1>22, <1>23, <1>24, <1>25, <1>26, <1>27, <1>28, <1>29
        DEF Next, Stopping, ServerThread, Surroundings

-----------------------------------------------------------------------------
LEMMA InitIInv == Init => IInv
  BY MaxFdAssumption, ClientAssumption
  DEF Init, IInv, TypeOK, ControlInv, KernelInv, LocalsInv, RunningInv,
      Listening, Busy, Scan, Fd, NoSocket

\* The invariant, which the theorems below read off.
THEOREM Invariance == Spec => []IInv
<1>1. IInv /\ [Next]_vars => IInv'
  BY TypeStep, ControlStep, KernelStep, LocalsStep, RunningStep DEF IInv
<1> QED BY InitIInv, <1>1, PTL DEF Spec

\* The types: fdmax and the sockets stay descriptors (hpModbuss.cpp:87-164).
THEOREM TypeCorrect == Spec => []TypeOK
<1>1. IInv => TypeOK
  BY DEF IInv
<1> QED BY Invariance, <1>1, PTL

\* refset is exactly the open sockets of the server (hpModbuss.cpp:100, 138,
\* 156), for any number of clients and whatever other threads open.
THEOREM RefsetTheorem == Spec => []WatchesEveryConnection
<1>1. IInv => WatchesEveryConnection
  BY DEF IInv, RunningInv, WatchesEveryConnection
<1> QED BY Invariance, <1>1, PTL

\* fdmax covers them (hpModbuss.cpp:139-141, 157-159).
THEOREM FdmaxTheorem == Spec => []FdmaxCovers
<1>1. IInv => FdmaxCovers
  BY DEF IInv, RunningInv, FdmaxCovers
<1> QED BY Invariance, <1>1, PTL

\* The running server's thread ends only by an error of select() that is not
\* a closed descriptor of its own (hpModbuss.cpp:116-120, 308).
THEOREM EndsTheorem == Spec => EndsOnlyBySelect
<1> DEFINE Ends == status = "running" /\ thread # "ended" /\ thread' = "ended"
<1>1. IInv /\ [Next]_vars => (Ends => thread = "select" /\ ~BadDescriptor)
  <2> SUFFICES ASSUME IInv, [Next]_vars, running, thread # "ended",
                      thread' = "ended"
               PROVE  thread = "select" /\ ~BadDescriptor
    BY DEF status
  <2>1. ~Stopping
    BY DEF Stopping, StopCloses, StopForgets, ModbusClose, StopJoins, JoinIf,
           StopFrees, IInv, ControlInv
  <2>2. CASE Surroundings
    BY <2>2 DEF Surroundings, Connect, Send, Reads, Break, ClientActs,
                OtherOpens, OtherCloses
  <2>3. CASE Stop \/ \E fd \in Fd : Start(fd) \/ StartThrows(fd)
    BY <2>3 DEF Stop, Start, StartThrows, StartWith
  <2>4. CASE SelectFails
    <3>1. thread = "select" /\ refset = Watched
      BY <2>4 DEF SelectFails, Goto, IInv, RunningInv
    <3> QED BY <3>1, ClientAssumption DEF BadDescriptor, Watched
  <2>5. CASE ServerThread \/ ReceiveOther
    BY <2>4, <2>5 DEF ServerThread, Begin, LoopTest, Select, SelectFinds,
       ScanDone, ScanListener, ScanClient, ScanAs, Accept, AcceptWith,
       AcceptFails, AcceptFailsTo, ReceiveQuery, ReceiveFails, ReceiveOther,
       Reply, CloseClient, CloseWith, Goto
  <2>6. CASE UNCHANGED vars
    BY <2>6 DEF vars
  <2> QED BY <2>1, <2>2, <2>3, <2>5, <2>6 DEF Next
<1>2. IInv /\ [Next]_vars =>
        [Ends => thread = "select" /\ ~BadDescriptor]_vars
  BY <1>1
<1> QED BY Invariance, <1>2, PTL DEF Spec, EndsOnlyBySelect

\* Mapping and context outlive the thread: stop() waits for its end and only
\* then frees them (hpModbuss.cpp:193-202).
THEOREM MappingTheorem == Spec => []MappingOutlivesThread
<1>1. IInv => MappingOutlivesThread
  BY DEF IInv, ControlInv, MappingOutlivesThread
<1> QED BY Invariance, <1>1, PTL

\* No silent client holds up the thread (hpModbuss.cpp:148-149).
THEOREM NeverWaitsTheorem == Spec => []NeverWaitsOnQuiet
<1>1. IInv => NeverWaitsOnQuiet
  BY DEF IInv, RunningInv, NeverWaitsOnQuiet
<1> QED BY Invariance, <1>1, PTL

\* The running server closes no descriptor of another thread
\* (hpModbuss.cpp:155).
THEOREM OthersKeptTheorem == Spec => OthersKept
<1> DEFINE Kept(fd) ==
      running /\ fdTable[fd] = "other" /\ fdTable'[fd] # "other" =>
        UNCHANGED <<thread, control>>
<1>1. IInv /\ [Next]_vars => \A fd \in Fd : Kept(fd)
  <2> SUFFICES ASSUME IInv, [Next]_vars, NEW h \in Fd, running,
                      fdTable[h] = "other", fdTable'[h] # "other"
               PROVE  UNCHANGED <<thread, control>>
    OBVIOUS
  <2>1. CASE Surroundings
    BY <2>1 DEF Surroundings, Connect, Send, Reads, Break, ClientActs,
                OtherOpens, OtherCloses
  <2>2. CASE \E fd \in Fd : Start(fd) \/ StartThrows(fd)
    BY <2>2 DEF Start, StartThrows, StartWith
  <2>3. CASE Stop \/ Stopping
    BY <2>3 DEF Stop, Stopping, StopCloses, StopForgets, ModbusClose,
                StopJoins, JoinIf, StopFrees, IInv, ControlInv, kernel
  <2>4. ASSUME NEW c \in Client, NEW fd \in Fd, Accept(c, fd)
        PROVE  FALSE
    BY <2>4 DEF Accept, AcceptWith, Lowest, IInv, TypeOK
  <2>5. CASE CloseClient
    <3>1. thread = "close"
      BY <2>5 DEF CloseClient, CloseWith, Lowered, Goto
    <3>2. master_socket \in Watched
      BY <3>1 DEF IInv, RunningInv, Busy
    <3>3. master_socket # h
      BY <3>2, ClientAssumption DEF Watched
    <3> QED BY <2>5, <3>3 DEF CloseClient, CloseWith, Lowered, Close
  <2>6. CASE ServerThread \/ ReceiveOther
    BY <2>4, <2>5, <2>6 DEF ServerThread, Begin, LoopTest, Select,
           SelectFinds, SelectFails,
       ScanDone, ScanListener, ScanClient, ScanAs, Next_fd, AcceptFails,
       AcceptFailsTo, ReceiveQuery,
       ReceiveFails, ReceiveOther, Reply, kernel
  <2>7. CASE UNCHANGED vars
    BY <2>7 DEF vars, kernel
  <2> QED BY <2>1, <2>2, <2>3, <2>6, <2>7 DEF Next
<1>2. IInv /\ [Next]_vars => [\A fd \in Fd : Kept(fd)]_vars
  BY <1>1
<1> QED BY Invariance, <1>2, PTL DEF Spec, OthersKept
=============================================================================
