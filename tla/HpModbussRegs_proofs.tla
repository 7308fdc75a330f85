------------------------ MODULE HpModbussRegs_proofs -----------------------
(* Safety of the holding registers, for any words, callers and clients.    *)
EXTENDS HpModbussRegs, TLAPS

\* The mutex: its holder is the only caller in the loop, and its update is
\* the only one that is begun and not completed.
LockInv ==
  /\ mtx = NoCaller => looping = {} /\ done = updates
  /\ mtx # NoCaller =>
       /\ looping = {mtx} /\ update[mtx] = updates /\ updates = done + 1
       /\ left[mtx] \subseteq wrote[updates]

\* The map is the work of the completed updates, overwritten by the current
\* one in the words it has dealt with; the mapping tells the same, where no
\* client wrote.
Dealt(a) == IF mtx = NoCaller \/ a \in left[mtx] THEN done ELSE updates
RegistersInv == \A a \in Word : IsLast(a, Dealt(a), registers[a])
MappingInv ==
  \A a \in Mapped :
    /\ tab_registers[a] \in {registers[a], Client}
    /\ tab_registers[a] = Client /\ a \notin clientWrote =>
         mtx # NoCaller /\ a \in left[mtx]

\* What the server thread holds is at most as old as it may be.
Current(a, k) ==
  /\ k \in 0..updates /\ (k # 0 => a \in wrote[k])
  /\ \A m \in k + 1..doneAtQuery : a \notin wrote[m]
ReplyInv ==
  /\ doneAtQuery <= done
  /\ \A a \in DOMAIN reply :
       /\ reply[a] \in Nat \cup {Client}
       /\ reply[a] # Client =>
            /\ Current(a, reply[a]) /\ reply[a] <= registers[a]
            /\ a \in DOMAIN answer /\ answer[a] # Client =>
                 answer[a] <= reply[a]
AnswerInv ==
  \A a \in DOMAIN answer :
    /\ answer[a] \in Nat \cup {Client}
    /\ answer[a] # Client => answer[a] <= registers[a]

IInv ==
  /\ TypeOK /\ LockInv /\ RegistersInv /\ MappingInv
  /\ ReplyInv /\ AnswerInv /\ SnapshotWhole

-----------------------------------------------------------------------------
\* The inductive invariant holds at the start.
LEMMA Initially == Init => IInv
<1> SUFFICES ASSUME Init PROVE IInv
  OBVIOUS
<1> USE RegsAssumption DEF Init, Empty, Mapped
<1>1. TypeOK
  <2>1. 0 \in 0..MaxUpdates
    OBVIOUS
  <2>2. tab_registers \in [Mapped -> 0..MaxUpdates \cup {Client}]
    BY <2>1
  <2>3. /\ left \in [Callers -> SUBSET Word]
        /\ update \in [Callers -> 0..MaxUpdates]
        /\ registers \in [Word -> 0..MaxUpdates]
        /\ wrote \in [1..MaxUpdates -> SUBSET Word]
    BY <2>1
  <2>4. DOMAIN reply = {} /\ DOMAIN answer = {}
    OBVIOUS
  <2> QED
    BY <2>1, <2>2, <2>3, <2>4 DEF TypeOK
<1>2. LockInv /\ RegistersInv /\ MappingInv
  BY DEF LockInv, RegistersInv, MappingInv, Dealt, IsLast
<1>3. ReplyInv /\ AnswerInv
  BY DEF ReplyInv, AnswerInv
<1>4. SnapshotWhole
  <2>1. 0 \in 0..updates /\ \A a \in DOMAIN snapshot : IsLast(a, 0, snapshot[a])
    BY DEF IsLast
  <2> QED
    BY <2>1 DEF SnapshotWhole
<1> QED
  BY <1>1, <1>2, <1>3, <1>4 DEF IInv

\* A caller gets the mutex: only the words of the new update are affected.
LEMMA LockStep ==
  ASSUME IInv, NEW c \in Callers, NEW words \in Sets, Lock(c, words)
  PROVE  IInv'
<1> USE RegsAssumption DEF IInv
<1>1. /\ mtx = NoCaller /\ updates < MaxUpdates /\ mtx' = c /\ looping' = looping \cup {c}
      /\ left' = [left EXCEPT ![c] = words] /\ updates' = updates + 1
      /\ update' = [update EXCEPT ![c] = updates + 1]
      /\ wrote' = [wrote EXCEPT ![updates + 1] = words]
      /\ clientWrote' = clientWrote \ words
      /\ UNCHANGED <<registers, done, tab_registers, snapshot>>
      /\ UNCHANGED <<query, reply, answer, doneAtQuery>>
  BY DEF Lock, LockIf, serverVars
<1>2. /\ updates \in Nat /\ done = updates /\ looping = {} /\ words \subseteq Word
      /\ updates + 1 \in 1..MaxUpdates /\ MaxUpdates \in Nat
  BY <1>1 DEF TypeOK, LockInv
<1>3. TypeOK'
  BY <1>1, <1>2 DEF TypeOK, Mapped
<1>4. /\ wrote'[updates + 1] = words
      /\ \A n \in 1..updates : wrote'[n] = wrote[n]
  BY <1>1, <1>2 DEF TypeOK
<1>5. LockInv'
  BY <1>1, <1>2, <1>4 DEF TypeOK, LockInv
<1>6. \A a, k : \A n \in 0..updates : IsLast(a, n, k)' <=> IsLast(a, n, k)
  BY <1>2, <1>4 DEF IsLast
<1>7. RegistersInv'
  <2>1. SUFFICES ASSUME NEW a \in Word PROVE IsLast(a, Dealt(a), registers[a])'
    BY DEF RegistersInv
  <2>1a. Dealt(a) = updates /\ registers' = registers
    BY <1>1, <1>2 DEF Dealt
  <2>2. IsLast(a, updates, registers[a])
    BY <2>1a DEF RegistersInv
  <2>3. CASE a \in words
    <3>1. Dealt(a)' = updates
      BY <1>1, <1>2, <2>3 DEF Dealt, TypeOK
    <3>2. registers[a] \in 0..updates
      BY <2>2 DEF IsLast
    <3>3. registers[a] # 0 => a \in wrote'[registers[a]]
      BY <1>2, <1>4, <2>2 DEF IsLast
    <3>4. \A m \in registers[a] + 1..updates : a \notin wrote'[m]
      BY <1>2, <1>4, <2>2 DEF IsLast
    <3> QED
      BY <2>1a, <3>1, <3>2, <3>3, <3>4 DEF IsLast
  <2>4. CASE a \notin words
    <3>1. Dealt(a)' = updates + 1
      BY <1>1, <1>2, <2>4 DEF Dealt, TypeOK
    <3>2. registers[a] \in 0..updates + 1
      BY <1>2, <2>2 DEF IsLast
    <3>3. registers[a] # 0 => a \in wrote'[registers[a]]
      BY <1>2, <1>4, <2>2 DEF IsLast
    <3>4. \A m \in registers[a] + 1..updates + 1 : a \notin wrote'[m]
      BY <1>2, <1>4, <2>2, <2>4 DEF IsLast
    <3> QED
      BY <2>1a, <3>1, <3>2, <3>3, <3>4 DEF IsLast
  <2> QED
    BY <2>3, <2>4
<1>8. MappingInv'
  BY <1>1, <1>2 DEF TypeOK, MappingInv, Mapped
<1>9. ReplyInv'
  <2>1. \A a, k : Current(a, k) => Current(a, k)'
    BY <1>1, <1>2, <1>4 DEF Current, ReplyInv, TypeOK
  <2> QED
    BY <1>1, <2>1 DEF ReplyInv
<1>10. AnswerInv'
  BY <1>1 DEF AnswerInv
<1>11. SnapshotWhole'
  BY <1>1, <1>2, <1>6 DEF SnapshotWhole
<1> QED
  BY <1>3, <1>5, <1>7, <1>8, <1>9, <1>10, <1>11

\* A word is written: the one of the update under way.
LEMMA WriteStep ==
  ASSUME IInv, NEW c \in Callers, NEW a \in Word, WriteWord(c, a)
  PROVE  IInv'
<1> USE RegsAssumption DEF IInv
<1>1. /\ c \in looping /\ a \in left[c]
      /\ left' = [left EXCEPT ![c] = @ \ {a}]
      /\ registers' = [registers EXCEPT ![a] = update[c]]
      /\ UNCHANGED <<mtx, looping, update, updates, done, wrote, snapshot>>
      /\ UNCHANGED <<query, reply, answer, doneAtQuery, clientWrote>>
  BY DEF WriteWord, WriteIf, serverVars
<1>2. /\ mtx = c /\ update[c] = updates /\ updates = done + 1 /\ c # NoCaller
      /\ a \in wrote[updates] /\ updates \in 1..MaxUpdates /\ done \in Nat
  BY <1>1 DEF TypeOK, LockInv
<1>3. tab_registers' = IF a < NbReg THEN [tab_registers EXCEPT ![a] = updates]
                                    ELSE tab_registers
  <2>1. tab_registers' = IF a < NbReg THEN [b \in DOMAIN tab_registers \cup {a} |->
                                    IF b = a THEN updates ELSE tab_registers[b]]
                              ELSE tab_registers
    BY <1>2 DEF WriteWord, WriteIf
  <2>2. CASE a < NbReg
    <3>1. DOMAIN tab_registers \cup {a} = DOMAIN tab_registers
      BY <2>2 DEF Mapped, TypeOK
    <3> QED
      BY <2>1, <2>2, <3>1
  <2> QED
    BY <2>1, <2>2
<1>4. TypeOK'
  BY <1>1, <1>2, <1>3 DEF TypeOK, Mapped
<1>5. LockInv'
  BY <1>1, <1>2 DEF TypeOK, LockInv
<1>6. \A b, n, k : IsLast(b, n, k)' <=> IsLast(b, n, k)
  BY <1>1 DEF IsLast
<1>7. RegistersInv'
  <2>1. SUFFICES ASSUME NEW b \in Word PROVE IsLast(b, Dealt(b)', registers'[b])
    BY <1>6 DEF RegistersInv
  <2>2. CASE b = a
    <3>1. Dealt(b)' = updates /\ registers'[b] = updates
      BY <1>1, <1>2, <2>2 DEF Dealt, TypeOK
    <3> QED
      BY <1>2, <2>2, <3>1 DEF IsLast
  <2>3. CASE b # a
    <3>1. Dealt(b)' = Dealt(b) /\ registers'[b] = registers[b]
      BY <1>1, <1>2, <2>3 DEF Dealt, TypeOK
    <3> QED
      BY <3>1 DEF RegistersInv
  <2> QED
    BY <2>2, <2>3
<1>8. MappingInv'
  BY <1>1, <1>2, <1>3 DEF TypeOK, MappingInv, Mapped
<1>9. \A b \in Word : registers[b] <= registers'[b] /\ registers[b] \in Nat
  <2>1. registers[a] <= updates
    BY <1>2 DEF RegistersInv, Dealt, IsLast
  <2> QED
    BY <1>1, <1>2, <2>1 DEF TypeOK
<1>10. ReplyInv'
  <2>1. \A b, k : Current(b, k)' <=> Current(b, k)
    BY <1>1 DEF Current
  <2>2. DOMAIN reply \subseteq Word /\ registers' \in [Word -> Nat]
    BY <1>4 DEF TypeOK, Mapped
  <2> QED
    BY <1>1, <1>9, <2>1, <2>2 DEF ReplyInv
<1>11. AnswerInv'
  <2>1. DOMAIN answer \subseteq Word /\ registers' \in [Word -> Nat]
    BY <1>4 DEF TypeOK, Mapped
  <2> QED
    BY <1>1, <1>9, <2>1 DEF AnswerInv
<1>12. SnapshotWhole'
  BY <1>1, <1>6 DEF SnapshotWhole
<1> QED
  BY <1>4, <1>5, <1>7, <1>8, <1>10, <1>11, <1>12

\* The mutex is released: every word of the update is dealt with.
LEMMA UnlockStep ==
  ASSUME IInv, NEW c \in Callers, Unlock(c)
  PROVE  IInv'
<1> USE RegsAssumption DEF IInv
<1>1. /\ c \in looping /\ left[c] = {}
      /\ mtx' = NoCaller /\ looping' = looping \ {c} /\ done' = update[c]
      /\ UNCHANGED <<left, update, registers, updates, wrote, tab_registers>>
      /\ UNCHANGED <<query, reply, answer, doneAtQuery, snapshot, clientWrote>>
  BY DEF Unlock, serverVars
<1>2. mtx = c /\ update[c] = updates /\ updates = done + 1 /\ done \in Nat /\ c # NoCaller
  BY <1>1 DEF TypeOK, LockInv
<1>3. TypeOK'
  BY <1>1 DEF TypeOK
<1>4. LockInv'
  BY <1>1, <1>2 DEF LockInv
<1>5. \A b, n, k : IsLast(b, n, k)' <=> IsLast(b, n, k)
  BY <1>1 DEF IsLast
<1>6. RegistersInv'
  BY <1>1, <1>2, <1>5 DEF RegistersInv, Dealt
<1>7. MappingInv'
  BY <1>1, <1>2 DEF MappingInv
<1>8. ReplyInv' /\ AnswerInv'
  <2>1. \A b, k : Current(b, k)' <=> Current(b, k)
    BY <1>1 DEF Current
  <2> QED
    BY <1>1, <1>2, <2>1 DEF ReplyInv, AnswerInv, TypeOK
<1>9. SnapshotWhole'
  BY <1>1, <1>5 DEF SnapshotWhole
<1> QED
  BY <1>3, <1>4, <1>6, <1>7, <1>8, <1>9

\* Somebody reads the map between two updates.
LEMMA ReadStep ==
  ASSUME IInv, NEW words \in SUBSET Word, ReadIf(words, mtx = NoCaller)
  PROVE  IInv'
<1> USE RegsAssumption DEF IInv
<1>1. /\ mtx = NoCaller /\ snapshot' = [a \in words |-> registers[a]]
      /\ UNCHANGED <<mtx, looping, left, update, registers, updates, done, wrote>>
      /\ UNCHANGED <<query, reply, answer, doneAtQuery, tab_registers, clientWrote>>
  BY DEF ReadIf, lockVars, serverVars
<1>2. TypeOK'
  BY <1>1 DEF TypeOK
<1>3. \A b, n, k : IsLast(b, n, k)' <=> IsLast(b, n, k)
  BY <1>1 DEF IsLast
<1>4. LockInv' /\ RegistersInv' /\ MappingInv' /\ ReplyInv' /\ AnswerInv'
  <2>1. \A b, k : Current(b, k)' <=> Current(b, k)
    BY <1>1 DEF Current
  <2>2. LockInv' /\ MappingInv' /\ AnswerInv'
    BY <1>1 DEF LockInv, MappingInv, AnswerInv
  <2>3. RegistersInv'
    BY <1>1, <1>3 DEF RegistersInv, Dealt
  <2>4. ReplyInv'
    BY <1>1, <2>1 DEF ReplyInv
  <2> QED
    BY <2>2, <2>3, <2>4
<1>5. SnapshotWhole'
  <2>1. updates \in 0..updates /\ \A a \in Word : IsLast(a, updates, registers[a])
    BY <1>1 DEF RegistersInv, Dealt, LockInv, TypeOK
  <2>2. \A a \in DOMAIN snapshot' : a \in Word /\ snapshot'[a] = registers[a]
    BY <1>1
  <2>3. \A a \in DOMAIN snapshot' :
          /\ snapshot'[a] \in 0..updates
          /\ snapshot'[a] # 0 => a \in wrote[snapshot'[a]]
          /\ \A m \in snapshot'[a] + 1..updates : a \notin wrote[m]
    BY <2>1, <2>2 DEF IsLast
  <2>4. wrote' = wrote /\ updates' = updates
    BY <1>1
  <2> QED
    BY <2>1, <2>3, <2>4 DEF SnapshotWhole, IsLast
<1> QED
  BY <1>2, <1>4, <1>5

\* The server thread takes a query, copies a word, or replies; a client
\* writes.
LEMMA ServerStep ==
  ASSUME IInv,
         \/ \E words \in Runs : Receive(words)
         \/ \E a \in Mapped : CopyWord(a) \/ ClientWrite(a)
         \/ Reply
  PROVE  IInv'
<1> USE RegsAssumption DEF IInv
<1>1. /\ UNCHANGED <<mtx, looping, left, update, registers, updates, done, wrote>>
      /\ snapshot' = snapshot
  BY DEF Receive, CopyWord, ClientWrite, Reply, lockVars
<1>2. \A b, n, k : IsLast(b, n, k)' <=> IsLast(b, n, k)
  BY <1>1 DEF IsLast
<1>3. LockInv' /\ RegistersInv' /\ SnapshotWhole'
  BY <1>1, <1>2 DEF LockInv, RegistersInv, Dealt, SnapshotWhole
<1>4. ASSUME NEW words \in Runs, Receive(words) PROVE IInv'
  <2>1. words \subseteq Mapped
    BY DEF Runs
  <2>2. reply = Empty /\ reply' = reply /\ answer' = answer /\ DOMAIN reply = {}
    BY <1>4 DEF Receive, Idle, Empty
  <2>3. doneAtQuery' = done /\ query' = words
        /\ tab_registers' = tab_registers /\ clientWrote' = clientWrote
    BY <1>4 DEF Receive
  <2>4. TypeOK'
    BY <1>1, <2>1, <2>2, <2>3 DEF TypeOK
  <2>5. MappingInv' /\ AnswerInv'
    BY <1>1, <2>2, <2>3 DEF MappingInv, AnswerInv
  <2>6. ReplyInv'
    BY <1>1, <2>2, <2>3 DEF ReplyInv, TypeOK
  <2> QED
    BY <1>3, <2>4, <2>5, <2>6
<1>5. ASSUME NEW a \in Mapped, CopyWord(a) PROVE IInv'
  <2>1. /\ query' = query \ {a}
        /\ reply' = [b \in DOMAIN reply \cup {a} |->
                      IF b = a THEN tab_registers[a] ELSE reply[b]]
        /\ UNCHANGED <<answer, doneAtQuery, tab_registers, clientWrote>>
    BY <1>5 DEF CopyWord
  <2>2. TypeOK'
    BY <1>1, <2>1 DEF TypeOK
  <2>3. MappingInv' /\ AnswerInv'
    BY <1>1, <2>1 DEF MappingInv, AnswerInv
  <2>4. \A b, k : Current(b, k)' <=> Current(b, k)
    BY <1>1, <2>1 DEF Current
  <2>5. Current(a, registers[a]) /\ registers[a] \in Nat /\ a \in Word
    <3>1. a \in Word /\ done \in Nat /\ updates \in Nat /\ doneAtQuery \in Nat
      BY DEF TypeOK, Mapped
    <3>2. Dealt(a) \in {done, updates} /\ doneAtQuery <= done /\ done <= updates
      BY <3>1 DEF Dealt, LockInv, ReplyInv
    <3>3. IsLast(a, Dealt(a), registers[a])
      BY <3>1 DEF RegistersInv
    <3> QED
      BY <3>1, <3>2, <3>3 DEF IsLast, Current
  <2>6. tab_registers[a] \in {registers[a], Client}
    BY DEF MappingInv
  <2>7. ReplyInv'
    BY <1>1, <2>1, <2>4, <2>5, <2>6 DEF ReplyInv, AnswerInv
  <2> QED
    BY <1>3, <2>2, <2>3, <2>7
<1>6. ASSUME NEW a \in Mapped, ClientWrite(a) PROVE IInv'
  <2>1. /\ tab_registers' = [tab_registers EXCEPT ![a] = Client]
        /\ clientWrote' = clientWrote \cup {a}
        /\ UNCHANGED <<query, reply, answer, doneAtQuery>>
    BY <1>6 DEF ClientWrite, serverVars
  <2>2. TypeOK'
    BY <1>1, <2>1 DEF TypeOK, Mapped
  <2>3. MappingInv'
    BY <1>1, <2>1 DEF MappingInv, TypeOK
  <2>4. \A b, k : Current(b, k)' <=> Current(b, k)
    BY <1>1, <2>1 DEF Current
  <2>5. ReplyInv' /\ AnswerInv'
    BY <1>1, <2>1, <2>4 DEF ReplyInv, AnswerInv
  <2> QED
    BY <1>3, <2>2, <2>3, <2>5
<1>7. ASSUME Reply PROVE IInv'
  <2>1. /\ answer' = reply /\ reply' = Empty /\ DOMAIN reply' = {}
        /\ UNCHANGED <<query, doneAtQuery, tab_registers, clientWrote>>
    BY <1>7 DEF Reply, Empty
  <2>2. TypeOK'
    BY <1>1, <2>1 DEF TypeOK
  <2>3. MappingInv'
    BY <1>1, <2>1 DEF MappingInv
  <2>4. ReplyInv' /\ AnswerInv'
    BY <1>1, <2>1 DEF ReplyInv, AnswerInv
  <2> QED
    BY <1>3, <2>2, <2>3, <2>4
<1> QED
  BY <1>4, <1>5, <1>6, <1>7

\* One step preserves the inductive invariant.
LEMMA Inductive == IInv /\ [Next]_vars => IInv'
<1> SUFFICES ASSUME IInv, [Next]_vars PROVE IInv'
  OBVIOUS
<1>1. CASE UNCHANGED vars
  <2>1. /\ UNCHANGED <<mtx, looping, left, update, registers, updates, done, wrote>>
        /\ UNCHANGED <<query, reply, answer, doneAtQuery>>
        /\ UNCHANGED <<tab_registers, snapshot, clientWrote>>
    BY <1>1 DEF vars, lockVars, serverVars
  <2>2. \A b, n, k : IsLast(b, n, k)' <=> IsLast(b, n, k)
    BY <2>1 DEF IsLast
  <2>3. \A b, k : Current(b, k)' <=> Current(b, k)
    BY <2>1 DEF Current
  <2>4. TypeOK' /\ LockInv' /\ MappingInv' /\ AnswerInv'
    BY <2>1 DEF IInv, TypeOK, LockInv, MappingInv, AnswerInv
  <2>5. RegistersInv' /\ SnapshotWhole'
    BY <2>1, <2>2 DEF IInv, RegistersInv, Dealt, SnapshotWhole
  <2>6. ReplyInv'
    BY <2>1, <2>3 DEF IInv, ReplyInv
  <2> QED
    BY <2>4, <2>5, <2>6 DEF IInv
<1>2. CASE Snapshot \/ \E a \in Word : Get(a)
  BY <1>2, ReadStep DEF Snapshot, Get
<1> QED
  BY <1>1, <1>2, LockStep, WriteStep, UnlockStep, ServerStep DEF Next

\* The inductive invariant holds of every behaviour.
THEOREM Invariance == Spec => []IInv
  BY Initially, Inductive, PTL DEF Spec

-----------------------------------------------------------------------------
\* Every variable keeps its type; no word is stored past the mapping.
THEOREM TypeCorrect == Spec => []TypeOK
<1>1. IInv => TypeOK
  BY DEF IInv
<1> QED
  BY <1>1, Invariance, PTL

\* Whoever reads the map sees whole updates, whichever threads set registers
\* meanwhile: the mutex lets it see the map only between two of them.
THEOREM SnapshotsAreWhole == Spec => []SnapshotWhole
<1>1. IInv => SnapshotWhole
  BY DEF IInv
<1> QED
  BY <1>1, Invariance, PTL

\* While no caller holds the mutex, map and mapping differ at most in the
\* registers a client wrote.
THEOREM MapAndMapping == Spec => []MappingMirrors
<1>1. IInv => MappingMirrors
  BY DEF IInv, MappingInv, MappingMirrors
<1> QED
  BY <1>1, Invariance, PTL

\* What a client wrote into a register is gone after the register's next
\* update.
THEOREM ClientValuesGo == Spec => []ClientValuesExpire
<1>1. IInv => ClientValuesExpire
  BY DEF IInv, MappingInv, ClientValuesExpire
<1> QED
  BY <1>1, Invariance, PTL

\* A reply, read without the mutex, holds no word older than the update
\* that was complete when its query arrived.
THEOREM RepliesAreCurrent == Spec => []ReplyNotStale
<1>1. IInv => ReplyNotStale
  BY DEF IInv, ReplyInv, Current, ReplyNotStale
<1> QED
  BY <1>1, Invariance, PTL

\* No register that a client polls goes back to an older update, though the
\* server copies it while an update is under way.
THEOREM PollsMoveForward == Spec => AnswersNeverGoBack
<1>1. IInv /\ [Next]_vars =>
        [\A a \in DOMAIN answer \cap DOMAIN answer' :
           answer[a] # Client /\ answer'[a] # Client =>
             answer'[a] >= answer[a]]_vars
  <2> SUFFICES ASSUME IInv, [Next]_vars,
                      NEW a \in DOMAIN answer \cap DOMAIN answer',
                      answer[a] # Client, answer'[a] # Client
      PROVE answer'[a] >= answer[a]
    OBVIOUS
  <2>1. CASE Reply
    BY <2>1 DEF Reply, IInv, ReplyInv, AnswerInv
  <2>2. CASE answer' = answer
    BY <2>2 DEF IInv, AnswerInv
  <2>3. Reply \/ answer' = answer
    BY DEF Next, vars, serverVars, Lock, LockIf, Unlock, WriteWord, WriteIf,
       Snapshot, Get, ReadIf, Receive, CopyWord, ClientWrite
  <2> QED
    BY <2>1, <2>2, <2>3
<1> QED
  BY <1>1, Invariance, PTL DEF Spec, AnswersNeverGoBack
=============================================================================
