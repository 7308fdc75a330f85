---------------------------- MODULE HpModbussRegs ---------------------------
(***************************************************************************)
(* The holding registers of src/src/hpModbuss.cpp between the threads that *)
(* use them: set_holding_registers() and set_holding_register() copy words *)
(* under the mutex, into the map `registers' and into libmodbus' mapping;  *)
(* snapshot_holding_registers() and get_holding_register() read the map    *)
(* under the mutex; the server thread answers queries from the mapping     *)
(* without taking the mutex, and lets a client write into it.              *)
(*                                                                         *)
(* An update is numbered when its caller gets the mutex, and a word holds  *)
(* the number of the update that wrote it.  Unsynchronised words are read  *)
(* and written whole but in no particular order: the target is an ARM      *)
(* board, whose stores and loads may become visible in any order.          *)
(***************************************************************************)
EXTENDS Naturals

CONSTANTS
  Word,       \* the addresses in use: 54 from 0 in the code
  Sets,       \* the words one update may write: all in set_from_hpData, one
              \* in set_holding_register
  NbReg,      \* registers of the mapping (1000 in the code)
  Callers,    \* threads that set registers
  NoCaller,   \* the mutex is free
  Client,     \* what a client wrote into a register
  MaxUpdates  \* model bound: updates

ASSUME RegsAssumption ==
  /\ Word \subseteq Nat /\ Sets \subseteq SUBSET Word
  /\ NbReg \in Nat /\ MaxUpdates \in Nat
  /\ NoCaller \notin Callers /\ Client \notin Nat

VARIABLES
  mtx,            \* the caller that holds pimpl_->mtx, or NoCaller
  looping,        \* the callers inside the word loop
  left,           \* left[c]: the words caller c has still to write
  update,         \* update[c]: the number of c's update
  registers,      \* the map; 0 where nothing was set
  tab_registers,  \* the words of mb_mapping
  query,          \* words of the current query not yet copied
  reply,          \* words copied so far, as a function of the address
  answer,         \* the last reply a client got
  snapshot,       \* what the last reader of the map got, by address
  updates, done,  \* history: updates begun, the last one completed
  wrote,          \* history: wrote[n], the words of update n
  doneAtQuery,    \* history: done when the query came in
  clientWrote     \* history: words a client wrote since their last update began

lockVars == <<mtx, looping, left, update, registers, updates, done, wrote>>
serverVars == <<query, reply, answer, doneAtQuery>>
vars == <<lockVars, serverVars, tab_registers, snapshot, clientWrote>>

\* The words that the mapping has room for.
Mapped == {a \in Word : a < NbReg}
Empty == [a \in {} |-> 0]

Init ==
  /\ mtx = NoCaller /\ looping = {}
  /\ left = [c \in Callers |-> {}] /\ update = [c \in Callers |-> 0]
  /\ registers = [a \in Word |-> 0] /\ tab_registers = [a \in Mapped |-> 0]
  /\ query = {} /\ reply = Empty /\ answer = Empty
  /\ snapshot = registers
  /\ updates = 0 /\ done = 0 /\ doneAtQuery = 0
  /\ wrote = [n \in 1..MaxUpdates |-> {}] /\ clientWrote = {}

-----------------------------------------------------------------------------
(* Setting registers, and reading the map.                                 *)

LockIf(c, words, free) ==
  /\ free
  /\ c \notin looping /\ updates < MaxUpdates
  /\ mtx' = c /\ looping' = looping \cup {c}
  /\ left' = [left EXCEPT ![c] = words]
  /\ updates' = updates + 1 /\ update' = [update EXCEPT ![c] = updates + 1]
  /\ wrote' = [wrote EXCEPT ![updates + 1] = words]
  /\ clientWrote' = clientWrote \ words
  /\ UNCHANGED <<registers, done, serverVars, tab_registers, snapshot>>

\* Faulty variant: the loop runs without the mutex.
LockNot(c, words) == LockIf(c, words, TRUE)
Lock(c, words) == LockIf(c, words, mtx = NoCaller)

\* The word goes into the map, and into the mapping if that has room for it.
WriteIf(c, a, room) ==
  /\ c \in looping /\ a \in left[c]
  /\ left' = [left EXCEPT ![c] = @ \ {a}]
  /\ registers' = [registers EXCEPT ![a] = update[c]]
  /\ tab_registers' =
       IF room THEN [b \in DOMAIN tab_registers \cup {a} |->
                       IF b = a THEN update[c] ELSE tab_registers[b]]
               ELSE tab_registers
  /\ UNCHANGED <<mtx, looping, update, updates, done, wrote, serverVars,
                 snapshot, clientWrote>>

\* Faulty variants: the bound is off by one, a client's value is left to it,
\* a word is stored past the end.
WriteWordShort(c, a) == WriteIf(c, a, a + 1 < NbReg)
WriteWordPolite(c, a) == WriteIf(c, a, a < NbReg /\ tab_registers[a] # Client)
WriteWordUnbounded(c, a) == WriteIf(c, a, TRUE)
WriteWord(c, a) == WriteIf(c, a, a < NbReg)

Unlock(c) ==
  /\ c \in looping /\ left[c] = {}
  /\ mtx' = NoCaller /\ looping' = looping \ {c}
  /\ done' = update[c]
  /\ UNCHANGED <<left, update, registers, updates, wrote, serverVars,
                 tab_registers, snapshot, clientWrote>>

ReadIf(words, free) ==
  /\ free
  /\ snapshot' = [a \in words |-> registers[a]]
  /\ UNCHANGED <<lockVars, serverVars, tab_registers, clientWrote>>

\* Faulty variant: the map is copied without the mutex.
SnapshotUnlocked == ReadIf(Word, TRUE)
Snapshot == ReadIf(Word, mtx = NoCaller)

\* get_holding_register: throws if the word was never set, and holds 0 here.
Get(a) == ReadIf({a}, mtx = NoCaller)

-----------------------------------------------------------------------------
(* The server thread: modbus_receive and modbus_reply.                     *)

Idle == query = {} /\ reply = Empty

\* A query for a run of registers.
Receive(words) ==
  /\ Idle
  /\ query' = words /\ doneAtQuery' = done
  /\ UNCHANGED <<lockVars, reply, answer, tab_registers, snapshot,
                 clientWrote>>

CopyWord(a) ==
  /\ a \in query
  /\ query' = query \ {a}
  /\ reply' = [b \in DOMAIN reply \cup {a} |->
                 IF b = a THEN tab_registers[a] ELSE reply[b]]
  /\ UNCHANGED <<lockVars, answer, doneAtQuery, tab_registers, snapshot,
                 clientWrote>>

Reply ==
  /\ query = {} /\ reply # Empty
  /\ answer' = reply /\ reply' = Empty
  /\ UNCHANGED <<lockVars, query, doneAtQuery, tab_registers, snapshot,
                 clientWrote>>

\* A query that writes a register: libmodbus stores into the mapping.
ClientWrite(a) ==
  /\ Idle
  /\ tab_registers' = [tab_registers EXCEPT ![a] = Client]
  /\ clientWrote' = clientWrote \cup {a}
  /\ UNCHANGED <<lockVars, serverVars, snapshot>>

-----------------------------------------------------------------------------
Runs == {{a \in Mapped : first <= a /\ a <= last} :
           first \in Mapped, last \in Mapped} \ {{}}

Next ==
  \/ \E c \in Callers :
       \/ \E words \in Sets : Lock(c, words)
       \/ Unlock(c)
       \/ \E a \in Word : WriteWord(c, a)
  \/ Snapshot
  \/ \E a \in Word : Get(a)
  \/ \E words \in Runs : Receive(words)
  \/ \E a \in Mapped : CopyWord(a) \/ ClientWrite(a)
  \/ Reply

Spec == Init /\ [][Next]_vars

-----------------------------------------------------------------------------
(* Properties.                                                             *)

TypeOK ==
  /\ mtx \in Callers \cup {NoCaller} /\ looping \subseteq Callers
  /\ left \in [Callers -> SUBSET Word] /\ update \in [Callers -> 0..MaxUpdates]
  /\ registers \in [Word -> 0..MaxUpdates]
  /\ DOMAIN snapshot \subseteq Word
  /\ tab_registers \in [Mapped -> 0..MaxUpdates \cup {Client}]
  /\ query \subseteq Mapped
  /\ DOMAIN reply \subseteq Mapped /\ DOMAIN answer \subseteq Mapped
  /\ updates \in 0..MaxUpdates /\ done \in 0..MaxUpdates
  /\ doneAtQuery \in 0..MaxUpdates /\ clientWrote \subseteq Word
  /\ wrote \in [1..MaxUpdates -> SUBSET Word]

\* Of the first n updates, k was the last to write word a; 0 if none was.
IsLast(a, n, k) ==
  /\ k \in 0..n /\ (k # 0 => a \in wrote[k])
  /\ \A m \in k + 1..n : a \notin wrote[m]

\* Whoever reads the map sees the work of the first updates, however many,
\* each as a whole (hpModbuss.cpp:206-225, 294-304).
SnapshotWhole ==
  \E n \in 0..updates : \A a \in DOMAIN snapshot : IsLast(a, n, snapshot[a])

\* While nobody writes, the mapping tells what the map tells, but for the
\* registers a client overwrote.
MappingMirrors ==
  mtx = NoCaller =>
    \A a \in Mapped : tab_registers[a] \in {registers[a], Client}

\* A client's value lasts until the next update of its register at most:
\* none is left that no client wrote during or after that update.
ClientValuesExpire ==
  mtx = NoCaller =>
    \A a \in Mapped : tab_registers[a] = Client => a \in clientWrote

\* What the server guarantees without the mutex: a word of a reply comes
\* from an update of that word, and none that was complete when the query
\* came is newer; so a reply that no update overlaps is whole and current.
ReplyNotStale ==
  \A a \in DOMAIN reply :
    reply[a] # Client =>
      /\ reply[a] \in 0..updates
      /\ reply[a] # 0 => a \in wrote[reply[a]]
      /\ \A m \in reply[a] + 1..doneAtQuery : a \notin wrote[m]

\* A client that polls never sees a register go back to an older update.
AnswersNeverGoBack ==
  [][\A a \in DOMAIN answer \cap DOMAIN answer' :
       answer[a] # Client /\ answer'[a] # Client =>
         answer'[a] >= answer[a]]_vars

\* hpModbuss.hpp:51-52: setting the registers from an hpData "is
\* thread-safe".  A measurement is two words; a reply that holds both holds
\* them of one update.
MeasurementsWhole ==
  \A a \in DOMAIN answer :
    a % 2 = 0 /\ a + 1 \in DOMAIN answer
      /\ answer[a] # Client /\ answer[a + 1] # Client
    => answer[a] = answer[a + 1]
=============================================================================
