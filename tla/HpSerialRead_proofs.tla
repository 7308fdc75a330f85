-------------------------- MODULE HpSerialRead_proofs -----------------------
(***************************************************************************)
(* Proofs of the safety properties of HpSerialRead, for every byte set,    *)
(* CRC length, buffer size and line length.                                *)
(*                                                                         *)
(* None of the properties is inductive by itself: what hpRead returns is a *)
(* telegram only because of what `message', the flags and the CRC counter  *)
(* say of the bytes scanned so far.  ScanState is that relation.           *)
(***************************************************************************)
EXTENDS HpSerialRead, TLAPS

-----------------------------------------------------------------------------
(* The inductive invariant.                                                *)

\* The bytes scanned by a call lie between its start and what was read.
Bounds ==
  /\ consumed <= Len(line)
  /\ callFrom + num_of_bytes <= consumed
  /\ pc = "read" => i = num_of_bytes
  /\ pc \in {"closed", "failed"} =>
       num_of_bytes = 0 /\ i = 0 /\ raw_hp_message = <<>> /\ callFrom = 0

\* No telegram has started: nothing is kept, and no '/' was seen.
Idle ==
  ~reading_message =>
    /\ ~end_found
    /\ \A p \in (callFrom + 1)..scanned : line[p] # Slash

\* A telegram has started: message is the run of bytes from the last '/'.
Started ==
  reading_message =>
    /\ Len(message) > 0
    /\ callFrom < message[1]
    /\ message[1] + Len(message) - 1 = scanned
    /\ \A k \in 1..Len(message) : message[k] = message[1] + k - 1
    /\ line[message[1]] = Slash
    /\ \A p \in (message[1] + 1)..scanned : line[p] # Slash
    /\ ~end_found => \A p \in (message[1] + 1)..scanned : line[p] # Bang

\* Its data has ended: the first '!' is crc_bytes_read bytes back.
Ended ==
  end_found =>
    /\ reading_message
    /\ message[1] < scanned - crc_bytes_read
    /\ line[scanned - crc_bytes_read] = Bang
    /\ \A p \in (message[1] + 1)..(scanned - crc_bytes_read - 1) :
         line[p] # Bang

ScanState == pc \in {"read", "scan"} => Idle /\ Started /\ Ended

\* Where the last returned telegram lies.
Returned ==
  raw_hp_message # <<>> =>
    /\ raw_hp_message[1] >= 1
    /\ raw_hp_message[Len(raw_hp_message)] <= consumed
    /\ pc \in {"read", "scan"} =>
         raw_hp_message[Len(raw_hp_message)] <= callFrom

IInv ==
  TypeOK /\ Bounds /\ ScanState /\ Returned /\ ReturnsAFrame /\ NoFrameOverlooked

-----------------------------------------------------------------------------
(* Types and bounds.                                                       *)

\* Every step keeps the types and the bounds of the scan.
LEMMA TypeStep == TypeOK /\ Bounds /\ [Next]_vars => TypeOK' /\ Bounds'
<1> SUFFICES ASSUME TypeOK, Bounds, [Next]_vars
             PROVE  TypeOK' /\ Bounds'
  OBVIOUS
<1> USE SizeAssumption DEF TypeOK, Bounds, env, frame, call
<1>1. ASSUME NEW b \in Byte, Receive(b) PROVE TypeOK' /\ Bounds'
  BY <1>1 DEF Receive
<1>2. CASE HangUp
  BY <1>2 DEF HangUp
<1>3. CASE OpenPort
  BY <1>3 DEF OpenPort
<1>4. CASE OpenPortThrows
  BY <1>4 DEF OpenPortThrows
<1>5. CASE HpRead
  <2>1. <<>> \in Seq(Nat) /\ message' \in Seq(Nat)
    BY <1>5 DEF HpRead
  <2>2. reading_message' \in BOOLEAN /\ end_found' \in BOOLEAN
    BY <1>5 DEF HpRead
  <2>3. QED
    BY <1>5, <2>1, <2>2 DEF HpRead
<1>6. ASSUME NEW n \in 1..READ_BUFF, Read(n) PROVE TypeOK' /\ Bounds'
  BY <1>6 DEF Read
<1>7. scanned \in Nat
  BY DEF scanned
<1>8. CASE ScanStart
  <2>1. message' \in Seq(Nat)
    BY <1>7, <1>8 DEF ScanStart
  <2>2. reading_message' \in BOOLEAN /\ end_found' \in BOOLEAN
    BY <1>8 DEF ScanStart
  <2>3. crc_bytes_read' \in 0..(CRC_SIZE - 1)
    BY <1>8 DEF ScanStart
  <2>4. QED
    BY <1>8, <2>1, <2>2, <2>3 DEF ScanStart, Scanning, NextByte
<1>9. CASE ScanEnd
  BY <1>7, <1>9 DEF ScanEnd, Scanning, NextByte
<1>10. CASE ScanCrc
  BY <1>7, <1>10 DEF ScanCrc, Scanning, NextByte
<1>11. CASE ScanLastCrc
  BY <1>7, <1>11 DEF ScanLastCrc, Scanning
<1>12. CASE ScanData
  BY <1>7, <1>12 DEF ScanData, Scanning, NextByte
<1>13. CASE ScanSkip
  BY <1>13 DEF ScanSkip, Scanning, NextByte
<1>14. CASE ChunkDone
  BY <1>14 DEF ChunkDone
<1>15. CASE UNCHANGED vars
  BY <1>15 DEF vars
<1>16. QED
  BY <1>1, <1>2, <1>3, <1>4, <1>5, <1>6, <1>8, <1>9, <1>10, <1>11, <1>12,
     <1>13, <1>14, <1>15 DEF Next, InCall, ReadNothing

\* The scan index is a position that was read, and the byte under it was
\* received.
LEMMA ScanIndex ==
  ASSUME TypeOK, Bounds
  PROVE  /\ scanned \in Nat /\ callFrom <= scanned /\ scanned <= consumed
         /\ Scanning => scanned < consumed
  BY SizeAssumption DEF TypeOK, Bounds, scanned, Scanning

\* The same of any values, the next state's among them.
LEMMA IndexArith ==
  ASSUME NEW c \in Nat, NEW f \in Nat, NEW n \in 0..READ_BUFF, NEW k \in 0..n,
         f + n <= c
  PROVE  (c - n) + k \in Nat /\ f <= (c - n) + k
  BY SizeAssumption

\* The same, in the next state.
LEMMA ScanIndexNext ==
  ASSUME TypeOK', Bounds'
  PROVE  scanned' \in Nat /\ callFrom' \in Nat /\ callFrom' <= scanned'
<1>1. /\ consumed' \in Nat /\ callFrom' \in Nat
      /\ num_of_bytes' \in 0..READ_BUFF /\ i' \in 0..num_of_bytes'
  BY DEF TypeOK
<1>2. callFrom' + num_of_bytes' <= consumed'
  BY DEF Bounds
<1>3. scanned' = (consumed' - num_of_bytes') + i'
  BY DEF scanned
<1>4. QED
  BY <1>1, <1>2, <1>3, IndexArith

\* Bytes that were received stay as they are.
LEMMA LineKept ==
  ASSUME TypeOK, [Next]_vars
  PROVE  /\ Len(line) <= Len(line')
         /\ \A p \in 1..Len(line) : line'[p] = line[p]
<1> USE DEF TypeOK, env
<1>1. ASSUME NEW b \in Byte, Receive(b)
      PROVE  /\ Len(line) <= Len(line')
             /\ \A p \in 1..Len(line) : line'[p] = line[p]
  BY <1>1 DEF Receive
<1>2. CASE ~ \E b \in Byte : Receive(b)
  <2>1. line' = line
    BY <1>2 DEF Next, InCall, HangUp, OpenPort, OpenPortThrows, HpRead, Read,
       ReadNothing, ScanStart, ScanEnd, ScanCrc, ScanLastCrc, ScanData,
       ScanSkip, ChunkDone, NextByte, vars
  <2>2. QED
    BY <2>1
<1>3. QED
  BY <1>1, <1>2

\* A step onto the next byte moves the scan index by one and nothing else
\* that the position depends on.
LEMMA NextByteStep ==
  ASSUME TypeOK, Bounds, NextByte
  PROVE  /\ scanned' = scanned + 1
         /\ line' = line /\ pc' = pc /\ callFrom' = callFrom
         /\ consumed' = consumed /\ raw_hp_message' = raw_hp_message
  BY SizeAssumption DEF TypeOK, Bounds, NextByte, scanned, env, call

\* A run of consecutive positions stays one when the next position is added.
LEMMA Consecutive ==
  ASSUME NEW m \in Seq(Nat), NEW x \in Nat,
         Len(m) > 0, m[1] + Len(m) - 1 = x,
         \A k \in 1..Len(m) : m[k] = m[1] + k - 1
  PROVE  /\ Append(m, x + 1) \in Seq(Nat)
         /\ Len(Append(m, x + 1)) = Len(m) + 1
         /\ Append(m, x + 1)[1] = m[1]
         /\ \A k \in 1..Len(Append(m, x + 1)) :
              Append(m, x + 1)[k] = m[1] + k - 1
<1>1. Len(m) \in Nat /\ Append(m, x + 1) \in Seq(Nat)
  OBVIOUS
<1>2. Len(Append(m, x + 1)) = Len(m) + 1 /\ Append(m, x + 1)[1] = m[1]
  OBVIOUS
<1>3. ASSUME NEW k \in 1..(Len(m) + 1)
      PROVE  Append(m, x + 1)[k] = m[1] + k - 1
  <2>1. CASE k = Len(m) + 1
    BY <2>1
  <2>2. CASE k \in 1..Len(m)
    BY <2>2
  <2>3. QED
    BY <1>1, <2>1, <2>2
<1>4. QED
  BY <1>1, <1>2, <1>3

\* What a started telegram says once the byte under the index is added.
LEMMA MessageGrows ==
  ASSUME TypeOK, Bounds, Started, reading_message,
         message' = Append(message, scanned + 1)
  PROVE  /\ Len(message') > 0
         /\ message'[1] = message[1] /\ message[1] \in 1..scanned
         /\ callFrom < message[1]
         /\ message'[1] + Len(message') - 1 = scanned + 1
         /\ message'[Len(message')] = scanned + 1
         /\ \A k \in 1..Len(message') : message'[k] = message'[1] + k - 1
<1>1. /\ scanned \in Nat /\ message \in Seq(Nat) /\ Len(message) > 0
      /\ message[1] + Len(message) - 1 = scanned
      /\ \A k \in 1..Len(message) : message[k] = message[1] + k - 1
  BY ScanIndex DEF TypeOK, Started
<1>2. /\ message' \in Seq(Nat) /\ Len(message') = Len(message) + 1
      /\ message'[1] = message[1]
      /\ \A k \in 1..Len(message') : message'[k] = message[1] + k - 1
  BY <1>1, Consecutive
<1>3. message[1] \in 1..scanned /\ callFrom < message[1]
  <2>1. callFrom < message[1]
    BY DEF Started
  <2>2. callFrom \in Nat /\ message[1] \in Nat /\ Len(message) \in Nat
    BY <1>1 DEF TypeOK
  <2>3. QED
    BY <1>1, <2>1, <2>2
<1>4. message'[Len(message')] = scanned + 1
  BY <1>1, <1>2
<1>5. QED
  BY <1>1, <1>2, <1>3, <1>4

-----------------------------------------------------------------------------
(* What message and the flags say of the bytes scanned.                    *)

\* Every step keeps the relation between message, flags and bytes.
LEMMA ScanStateStep ==
  TypeOK /\ Bounds /\ ScanState /\ [Next]_vars => ScanState'
<1> SUFFICES ASSUME TypeOK, Bounds, ScanState, [Next]_vars
             PROVE  ScanState'
  OBVIOUS
<1> USE DEF ScanState
<1>0. /\ scanned \in Nat /\ callFrom \in Nat /\ callFrom <= scanned
      /\ Len(line) \in Nat /\ scanned <= Len(line)
      /\ message \in Seq(Nat) /\ crc_bytes_read \in Nat
      /\ reading_message \in BOOLEAN /\ end_found \in BOOLEAN
  BY ScanIndex, SizeAssumption DEF TypeOK, Bounds
<1>1. ASSUME NEW b \in Byte, Receive(b) PROVE ScanState'
  <2>1. \A p \in 1..Len(line) : line'[p] = line[p]
    BY <1>1, LineKept DEF Next
  <2>2. UNCHANGED <<consumed, pc, num_of_bytes, i, frame, call>>
    BY <1>1 DEF Receive
  <2>3. /\ scanned' = scanned /\ message' = message
        /\ reading_message' = reading_message /\ end_found' = end_found
        /\ crc_bytes_read' = crc_bytes_read /\ callFrom' = callFrom
    BY <2>2 DEF scanned, frame, call
  <2>4. ASSUME pc \in {"read", "scan"} PROVE Idle'
    <3>1. SUFFICES ASSUME ~reading_message
                   PROVE  ~end_found /\ \A p \in (callFrom + 1)..scanned :
                                          line'[p] # Slash
      BY <2>3 DEF Idle
    <3>2. ~end_found
      BY <2>4, <3>1 DEF Idle
    <3>3. ASSUME NEW p \in (callFrom + 1)..scanned PROVE line'[p] # Slash
      <4>1. line[p] # Slash
        BY <2>4, <3>1 DEF Idle
      <4>2. p \in 1..Len(line)
        BY <1>0
      <4>3. QED
        BY <2>1, <4>1, <4>2
    <3>4. QED
      BY <3>2, <3>3
  <2>5. ASSUME pc \in {"read", "scan"}, reading_message
        PROVE  /\ Started /\ message[1] \in 1..scanned
               /\ \A p \in message[1]..scanned : line'[p] = line[p]
    BY <1>0, <2>1, <2>5 DEF Started
  <2>6. ASSUME pc \in {"read", "scan"} PROVE Started'
    <3>1. CASE ~reading_message
      BY <2>3, <3>1 DEF Started
    <3>2. CASE reading_message
      <4>0. /\ line[message[1]] = Slash
            /\ \A p \in (message[1] + 1)..scanned : line[p] # Slash
            /\ ~end_found =>
                 \A p \in (message[1] + 1)..scanned : line[p] # Bang
        BY <2>5, <2>6, <3>2, Zenon DEF Started
      <4> DEFINE here == message[1]
      <4>9. /\ here \in 1..scanned /\ scanned \in Nat
            /\ \A p \in here..scanned : line'[p] = line[p]
        BY <1>0, <2>5, <2>6, <3>2
      <4> HIDE DEF here
      <4>8. /\ line'[here] = line[here]
            /\ \A p \in (here + 1)..scanned : line'[p] = line[p]
        BY <4>9
      <4> USE DEF here
      <4>1. /\ line'[message[1]] = Slash
            /\ \A p \in (message[1] + 1)..scanned : line'[p] # Slash
        BY <4>0, <4>8, Zenon
      <4>2. ~end_found =>
              \A p \in (message[1] + 1)..scanned : line'[p] # Bang
        BY <4>0, <4>8, Zenon
      <4>3. QED
        BY <2>3, <2>5, <2>6, <3>2, <4>1, <4>2 DEF Started
    <3>3. QED
      BY <3>1, <3>2
  <2>7. ASSUME pc \in {"read", "scan"} PROVE Ended'
    <3>1. CASE ~end_found
      BY <2>3, <3>1 DEF Ended
    <3>2. CASE end_found
      <4>1. Ended /\ reading_message
        BY <2>7, <3>2 DEF Ended
      <4>2. /\ line'[scanned - crc_bytes_read] = line[scanned - crc_bytes_read]
            /\ \A p \in (message[1] + 1)..(scanned - crc_bytes_read - 1) :
                 line'[p] = line[p]
        <5>1. PICK here \in 1..scanned, bang \in Nat :
                /\ here = message[1] /\ bang = scanned - crc_bytes_read
                /\ here < bang /\ bang <= scanned
          BY <1>0, <2>5, <2>7, <3>2, <4>1 DEF Ended
        <5>2. \A p \in here..scanned : line'[p] = line[p]
          BY <2>5, <2>7, <4>1, <5>1
        <5>3. /\ line'[bang] = line[bang]
              /\ \A p \in (here + 1)..(bang - 1) : line'[p] = line[p]
          <6>1. PICK last \in Nat : last = scanned
            BY <1>0
          <6>2. /\ here \in Nat /\ here < bang /\ bang <= last
                /\ \A p \in here..last : line'[p] = line[p]
            BY <5>1, <5>2, <6>1
          <6>3. /\ bang \in here..last
                /\ \A p \in (here + 1)..(bang - 1) : p \in here..last
            BY <5>1, <6>1, <6>2
          <6>4. QED
            BY <6>2, <6>3, Zenon
        <5>4. QED
          BY <5>1, <5>3
      <4>3. QED
        BY <2>3, <3>2, <4>1, <4>2 DEF Ended
    <3>3. QED
      BY <3>1, <3>2
  <2>8. QED
    BY <2>2, <2>4, <2>6, <2>7
<1>2. CASE HangUp \/ UNCHANGED vars
  <2>1. UNCHANGED <<line, consumed, pc, num_of_bytes, i, frame, call>>
    BY <1>2 DEF HangUp, vars, env
  <2>2. QED
    BY <2>1 DEF frame, call, scanned, Idle, Started, Ended
<1>3. CASE OpenPort \/ OpenPortThrows
  BY <1>3 DEF OpenPort, OpenPortThrows
<1>5. CASE HpRead
  <2>1. /\ reading_message' = FALSE /\ end_found' = FALSE
        /\ callFrom' = consumed /\ scanned' = consumed
    BY <1>5 DEF HpRead, scanned, TypeOK
  <2>2. QED
    BY <2>1 DEF Idle, Started, Ended, TypeOK
<1>6. ASSUME NEW n \in 1..READ_BUFF, Read(n) PROVE ScanState'
  <2>1. pc = "read" /\ UNCHANGED <<line, frame, call>>
    BY <1>6 DEF Read, env
  <2>2. scanned' = scanned
    BY <1>6, SizeAssumption DEF Read, scanned, TypeOK, Bounds
  <2>3. QED
    BY <2>1, <2>2 DEF frame, call, Idle, Started, Ended
<1>7. CASE ChunkDone
  <2>1. pc = "scan" /\ UNCHANGED <<line, consumed, num_of_bytes, i, frame, call>>
    BY <1>7 DEF ChunkDone, env
  <2>2. QED
    BY <2>1 DEF frame, call, scanned, Idle, Started, Ended
<1>8. CASE ScanStart
  <2>1. /\ scanned' = scanned + 1 /\ line' = line /\ callFrom' = callFrom
        /\ message' = <<scanned + 1>> /\ reading_message' = TRUE
        /\ end_found' = FALSE /\ line[scanned + 1] = Slash
    BY <1>8, NextByteStep DEF ScanStart, Byte_i
  <2>2. QED
    BY <1>0, <2>1 DEF Idle, Started, Ended
<1>9. CASE ScanEnd
  <2>1. /\ scanned' = scanned + 1 /\ line' = line /\ callFrom' = callFrom
        /\ message' = Append(message, scanned + 1)
        /\ reading_message' = reading_message /\ end_found' = TRUE
        /\ crc_bytes_read' = 0
        /\ line[scanned + 1] = Bang /\ reading_message /\ ~end_found
        /\ pc = "scan"
    BY <1>9, NextByteStep DEF ScanEnd, Byte_i, Scanning
  <2>2. Idle'
    BY <2>1 DEF Idle
  <2>3. /\ Len(message') > 0 /\ message'[1] = message[1]
        /\ message[1] \in 1..scanned /\ callFrom < message[1]
        /\ message'[1] + Len(message') - 1 = scanned + 1
        /\ \A k \in 1..Len(message') : message'[k] = message'[1] + k - 1
    BY <2>1, MessageGrows
  <2>4. /\ line[message[1]] = Slash
        /\ \A p \in (message[1] + 1)..scanned :
             line[p] # Slash /\ line[p] # Bang
    BY <2>1 DEF Started
  <2>5. \A p \in (message[1] + 1)..(scanned + 1) : line[p] # Slash
    <3> TAKE p \in (message[1] + 1)..(scanned + 1)
    <3>1. p = scanned + 1 \/ p \in (message[1] + 1)..scanned
      BY <1>0, <2>3
    <3>2. QED
      BY <2>1, <2>4, <3>1, DelimiterAssumption
  <2>6. Started'
    BY <2>1, <2>3, <2>4, <2>5 DEF Started
  <2>7. Ended'
    <3>1. /\ scanned' - crc_bytes_read' = scanned + 1
          /\ scanned' - crc_bytes_read' - 1 = scanned
      BY <1>0, <2>1
    <3>2. PICK end \in Nat : /\ end = scanned + 1
                            /\ end = scanned' - crc_bytes_read'
                            /\ end - 1 = scanned /\ message[1] < end
      BY <1>0, <2>3, <3>1
    <3>4. line'[end] = Bang
      BY <2>1, <3>2
    <3>5. \A p \in (message'[1] + 1)..(end - 1) : line'[p] # Bang
      BY <2>1, <2>3, <2>4, <3>2, Zenon
    <3>6. QED
      BY <2>1, <2>3, <3>2, <3>4, <3>5, Zenon DEF Ended
  <2>8. QED
    BY <2>2, <2>6, <2>7
<1>10. CASE ScanCrc
  <2>1. /\ scanned' = scanned + 1 /\ line' = line /\ callFrom' = callFrom
        /\ message' = Append(message, scanned + 1)
        /\ reading_message' = reading_message /\ end_found' = end_found
        /\ crc_bytes_read' = crc_bytes_read + 1
        /\ line[scanned + 1] # Slash /\ end_found
        /\ pc = "scan"
    BY <1>10, NextByteStep DEF ScanCrc, Byte_i, Scanning
  <2>2. reading_message /\ Started /\ Ended
    BY <2>1 DEF Ended
  <2>3. /\ Len(message') > 0 /\ message'[1] = message[1]
        /\ message[1] \in 1..scanned /\ callFrom < message[1]
        /\ message'[1] + Len(message') - 1 = scanned + 1
        /\ \A k \in 1..Len(message') : message'[k] = message'[1] + k - 1
    BY <2>1, <2>2, MessageGrows
  <2>4. line[message[1]] = Slash
    BY <2>2 DEF Started
  <2>5. \A p \in (message[1] + 1)..(scanned + 1) : line[p] # Slash
    <3> TAKE p \in (message[1] + 1)..(scanned + 1)
    <3>1. p = scanned + 1 \/ p \in (message[1] + 1)..scanned
      BY <1>0, <2>3
    <3>2. QED
      BY <2>1, <2>2, <3>1 DEF Started
  <2>6. Idle' /\ Started'
    BY <2>1, <2>2, <2>3, <2>4, <2>5 DEF Idle, Started
  <2>7. Ended'
    BY <1>0, <2>1, <2>2, <2>3 DEF Ended
  <2>8. QED
    BY <2>6, <2>7
<1>11. CASE ScanLastCrc
  BY <1>11 DEF ScanLastCrc
<1>12. CASE ScanData
  <2>1. /\ scanned' = scanned + 1 /\ line' = line /\ callFrom' = callFrom
        /\ message' = Append(message, scanned + 1)
        /\ reading_message' = reading_message /\ end_found' = end_found
        /\ line[scanned + 1] # Slash /\ line[scanned + 1] # Bang
        /\ reading_message /\ ~end_found
        /\ pc = "scan"
    BY <1>12, NextByteStep DEF ScanData, Byte_i, Scanning
  <2>2. Idle' /\ Ended'
    BY <2>1 DEF Idle, Ended
  <2>3. /\ Len(message') > 0 /\ message'[1] = message[1]
        /\ message[1] \in 1..scanned /\ callFrom < message[1]
        /\ message'[1] + Len(message') - 1 = scanned + 1
        /\ \A k \in 1..Len(message') : message'[k] = message'[1] + k - 1
    BY <2>1, MessageGrows
  <2>4. line[message[1]] = Slash
    BY <2>1 DEF Started
  <2>5. \A p \in (message[1] + 1)..(scanned + 1) :
          line[p] # Slash /\ line[p] # Bang
    <3> TAKE p \in (message[1] + 1)..(scanned + 1)
    <3>1. p = scanned + 1 \/ p \in (message[1] + 1)..scanned
      BY <1>0, <2>3
    <3>2. QED
      BY <2>1, <3>1 DEF Started
  <2>6. Started'
    BY <2>1, <2>3, <2>4, <2>5 DEF Started
  <2>7. QED
    BY <2>2, <2>6
<1>13. CASE ScanSkip
  <2>1. /\ scanned' = scanned + 1 /\ line' = line /\ callFrom' = callFrom
        /\ UNCHANGED frame
        /\ line[scanned + 1] # Slash /\ ~reading_message
        /\ pc = "scan"
    BY <1>13, NextByteStep DEF ScanSkip, Byte_i, Scanning
  <2>2. QED
    BY <1>0, <2>1 DEF frame, Idle, Started, Ended
<1>14. QED
  BY <1>1, <1>2, <1>3, <1>5, <1>6, <1>7, <1>8, <1>9, <1>10, <1>11, <1>12,
     <1>13 DEF Next, InCall, ReadNothing

-----------------------------------------------------------------------------
(* The telegram that a call returns.                                       *)

\* The last CRC byte completes a frame that starts at message[1].
LEMMA LastCrcFrame ==
  ASSUME TypeOK, Bounds, ScanState, ScanLastCrc
  PROVE  /\ raw_hp_message' # <<>> /\ Len(raw_hp_message') > 0
         /\ raw_hp_message'[1] = message[1]
         /\ message[1] \in 1..scanned /\ callFrom < message[1]
         /\ raw_hp_message'[Len(raw_hp_message')] = scanned + 1
         /\ \A k \in 1..Len(raw_hp_message') :
              raw_hp_message'[k] = raw_hp_message'[1] + k - 1
         /\ IsFrame(message[1], scanned + 1)
         /\ line' = line /\ scanned + 1 <= consumed /\ consumed' = consumed
<1>1. /\ reading_message /\ Started /\ Ended
      /\ raw_hp_message' = Append(message, scanned + 1)
      /\ line[scanned + 1] # Slash
      /\ crc_bytes_read + 1 = CRC_SIZE /\ end_found
      /\ line' = line /\ consumed' = consumed
  BY DEF ScanLastCrc, Scanning, ScanState, Ended, Byte_i, env
<1>2. /\ scanned \in Nat /\ scanned + 1 <= consumed
      /\ message \in Seq(Nat) /\ crc_bytes_read \in Nat
  BY ScanIndex, SizeAssumption DEF ScanLastCrc, TypeOK
<1>3. /\ Len(message) > 0 /\ callFrom < message[1]
      /\ message[1] + Len(message) - 1 = scanned
      /\ \A k \in 1..Len(message) : message[k] = message[1] + k - 1
      /\ message[1] \in 1..scanned /\ Len(message) \in Nat
  <2>1. /\ Len(message) > 0 /\ callFrom < message[1]
        /\ message[1] + Len(message) - 1 = scanned
        /\ \A k \in 1..Len(message) : message[k] = message[1] + k - 1
    BY <1>1 DEF Started
  <2>2. Len(message) \in Nat /\ message[1] \in Nat /\ callFrom \in Nat
    BY <1>2, <2>1 DEF TypeOK
  <2>3. message[1] \in 1..scanned
    BY <1>2, <2>1, <2>2
  <2>4. QED
    BY <2>1, <2>2, <2>3
<1>4. /\ raw_hp_message' \in Seq(Nat)
      /\ Len(raw_hp_message') = Len(message) + 1
      /\ raw_hp_message'[1] = message[1]
      /\ \A k \in 1..Len(raw_hp_message') :
           raw_hp_message'[k] = message[1] + k - 1
      /\ \A k \in 1..Len(raw_hp_message') :
           raw_hp_message'[k] = raw_hp_message'[1] + k - 1
  <2>1. /\ raw_hp_message' \in Seq(Nat)
        /\ Len(raw_hp_message') = Len(message) + 1
        /\ raw_hp_message'[1] = message[1]
        /\ \A k \in 1..Len(raw_hp_message') :
             raw_hp_message'[k] = message[1] + k - 1
    BY <1>1, <1>2, <1>3, Consecutive
  <2>2. QED
    BY <2>1
<1>5. /\ raw_hp_message' # <<>> /\ Len(raw_hp_message') > 0
      /\ raw_hp_message'[Len(raw_hp_message')] = scanned + 1
  <2>1. Len(raw_hp_message') \in 1..Len(raw_hp_message')
    BY <1>2, <1>3, <1>4
  <2>2. raw_hp_message' # <<>> /\ Len(raw_hp_message') > 0
    BY <1>3, <1>4, <2>1
  <2>3. raw_hp_message'[Len(raw_hp_message')]
          = message[1] + Len(raw_hp_message') - 1
    BY <1>4, <2>1
  <2>4. message[1] + (Len(message) + 1) - 1 = scanned + 1
    <3>1. /\ message[1] \in Nat /\ Len(message) \in Nat /\ scanned \in Nat
          /\ message[1] + Len(message) - 1 = scanned
      BY <1>2, <1>3
    <3>2. QED
      BY <3>1
  <2>5. QED
    BY <1>4, <2>2, <2>3, <2>4
<1>6. IsFrame(message[1], scanned + 1)
  <2>1. /\ (scanned + 1) - CRC_SIZE = scanned - crc_bytes_read
        /\ (scanned + 1) - CRC_SIZE - 1 = scanned - crc_bytes_read - 1
    BY <1>1, <1>2, SizeAssumption
  <2>2. ASSUME NEW p \in (message[1] + 1)..(scanned + 1)
        PROVE  line[p] # Slash
    <3>1. p = scanned + 1 \/ p \in (message[1] + 1)..scanned
      BY <1>2, <1>3
    <3>2. QED
      BY <1>1, <3>1 DEF Started
  <2>3. line[message[1]] = Slash
    BY <1>1 DEF Started
  <2>4. /\ message[1] < scanned - crc_bytes_read
        /\ line[scanned - crc_bytes_read] = Bang
        /\ \A p \in (message[1] + 1)..(scanned - crc_bytes_read - 1) :
             line[p] # Bang
    BY <1>1 DEF Ended
  <2>5. /\ message[1] < (scanned + 1) - CRC_SIZE
        /\ line[(scanned + 1) - CRC_SIZE] = Bang
        /\ \A p \in (message[1] + 1)..((scanned + 1) - CRC_SIZE - 1) :
             line[p] # Bang
    BY <2>1, <2>4
  <2>6. QED
    BY <2>2, <2>3, <2>5 DEF IsFrame
<1>7. QED
  BY <1>1, <1>2, <1>3, <1>4, <1>5, <1>6

\* Every other step leaves raw_hp_message alone.
LEMMA ReturnOnlyAtLastCrc ==
  ASSUME [Next]_vars, ~ScanLastCrc
  PROVE  raw_hp_message' = raw_hp_message
  BY DEF Next, InCall, Receive, HangUp, OpenPort, OpenPortThrows, HpRead, Read,
     ReadNothing, ScanStart, ScanEnd, ScanCrc, ScanData, ScanSkip, ChunkDone,
     NextByte, vars, call

\* The telegram returned last stays behind the bytes of the next call.
LEMMA ReturnedStep ==
  TypeOK /\ Bounds /\ ScanState /\ Returned /\ [Next]_vars => Returned'
<1> SUFFICES ASSUME TypeOK, Bounds, ScanState, Returned, [Next]_vars
             PROVE  Returned'
  OBVIOUS
<1>1. CASE ScanLastCrc
  <2>1. pc' = "caller" /\ message[1] >= 1
    BY <1>1, LastCrcFrame DEF ScanLastCrc
  <2>2. QED
    BY <1>1, <2>1, LastCrcFrame DEF Returned
<1>2. CASE ~ScanLastCrc
  <2>1. raw_hp_message' = raw_hp_message
    BY <1>2, ReturnOnlyAtLastCrc
  <2>2. raw_hp_message # <<>> =>
          raw_hp_message[Len(raw_hp_message)] \in Nat
    BY DEF TypeOK
  <2>3. consumed <= consumed' /\ consumed \in Nat /\ consumed' \in Nat
    <3>1. \/ consumed' = consumed \/ consumed' = Len(line)
          \/ \E n \in 1..READ_BUFF : consumed' = consumed + n
      BY Zenon DEF Next, InCall, Receive, HangUp, OpenPort, OpenPortThrows,
         HpRead, Read, ReadNothing, ScanStart, ScanEnd, ScanCrc, ScanLastCrc,
         ScanData, ScanSkip, ChunkDone, NextByte, vars
    <3>2. consumed \in Nat /\ Len(line) \in Nat /\ consumed <= Len(line)
      BY DEF TypeOK, Bounds
    <3>3. ASSUME NEW n \in 1..READ_BUFF, consumed' = consumed + n
          PROVE  consumed <= consumed' /\ consumed' \in Nat
      <4>1. n \in Nat
        BY SizeAssumption
      <4>2. QED
        BY <3>2, <3>3, <4>1
    <3>4. QED
      BY <3>1, <3>2, <3>3
  <2>4. pc' \in {"read", "scan"} =>
          \/ pc \in {"read", "scan"} /\ callFrom' = callFrom
          \/ callFrom' = consumed
    BY <1>2 DEF Next, InCall, Receive, HangUp, OpenPort, OpenPortThrows, HpRead,
       Read, ReadNothing, ScanStart, ScanEnd, ScanCrc, ScanData, ScanSkip,
       ChunkDone, NextByte, Scanning, vars, call
  <2>5. QED
    BY <2>1, <2>2, <2>3, <2>4 DEF Returned
<1>3. QED
  BY <1>1, <1>2

\* A frame of received bytes stays a frame.
LEMMA FrameKept ==
  ASSUME TypeOK, [Next]_vars, NEW s \in Nat, NEW e \in Nat,
         s >= 1, e <= Len(line)
  PROVE  IsFrame(s, e) <=> IsFrame(s, e)'
<1>1. \A p \in s..e : line'[p] = line[p]
  <2>1. Len(line) \in Nat
    BY DEF TypeOK
  <2>2. \A p \in s..e : p \in 1..Len(line)
    BY <2>1
  <2>3. QED
    BY <2>2, LineKept, Zenon
<1>2. \A p \in (s + 1)..e : p \in s..e
  OBVIOUS
<1>3. CASE s < e - CRC_SIZE
  <2>1. s \in s..e /\ e - CRC_SIZE \in s..e
    BY <1>3, SizeAssumption
  <2>2. \A p \in (s + 1)..(e - CRC_SIZE - 1) : p \in s..e
    BY <1>3, SizeAssumption
  <2>3. QED
    BY <1>1, <1>2, <2>1, <2>2 DEF IsFrame
<1>4. CASE ~ (s < e - CRC_SIZE)
  BY <1>4 DEF IsFrame
<1>5. QED
  BY <1>3, <1>4

\* What is returned is a telegram, and stays one.
LEMMA ReturnsAFrameStep ==
  TypeOK /\ Bounds /\ ScanState /\ Returned /\ ReturnsAFrame /\ [Next]_vars
    => ReturnsAFrame'
<1> SUFFICES ASSUME TypeOK, Bounds, ScanState, Returned, ReturnsAFrame,
                    [Next]_vars
             PROVE  ReturnsAFrame'
  OBVIOUS
<1>1. CASE ScanLastCrc
  <2>1. IsFrame(raw_hp_message[1], raw_hp_message[Len(raw_hp_message)])'
    BY <1>1, LastCrcFrame DEF IsFrame
  <2>2. QED
    BY <1>1, <2>1, LastCrcFrame DEF ReturnsAFrame
<1>2. CASE ~ScanLastCrc
  <2>1. raw_hp_message' = raw_hp_message
    BY <1>2, ReturnOnlyAtLastCrc
  <2>2. SUFFICES ASSUME raw_hp_message # <<>>
                 PROVE  IsFrame(raw_hp_message[1],
                                raw_hp_message[Len(raw_hp_message)])'
    BY <2>1 DEF ReturnsAFrame
  <2>3. /\ raw_hp_message[1] \in Nat
        /\ raw_hp_message[Len(raw_hp_message)] \in Nat
    <3>1. raw_hp_message \in Seq(Nat)
      BY DEF TypeOK
    <3>2. 1 \in 1..Len(raw_hp_message)
          /\ Len(raw_hp_message) \in 1..Len(raw_hp_message)
      BY <2>2, <3>1
    <3>3. QED
      BY <3>1, <3>2
  <2>4. PICK s \in Nat, e \in Nat :
          s = raw_hp_message[1] /\ e = raw_hp_message[Len(raw_hp_message)]
    BY <2>3
  <2>5. s >= 1 /\ e <= Len(line) /\ IsFrame(s, e)
    BY <2>2, <2>4 DEF TypeOK, Bounds, Returned, ReturnsAFrame
  <2>6. IsFrame(s, e)'
    BY <2>5, FrameKept
  <2>7. s = raw_hp_message'[1] /\ e = raw_hp_message'[Len(raw_hp_message')]
    BY <2>1, <2>4
  <2>8. QED
    BY <2>6, <2>7 DEF IsFrame
<1>3. QED
  BY <1>1, <1>2

-----------------------------------------------------------------------------
(* No complete telegram is scanned past.                                   *)

\* Scanning a byte that does not make the call return completes no frame.
LEMMA NoFrameEndsHere ==
  ASSUME TypeOK, Bounds, ScanState,
         ScanStart \/ ScanEnd \/ ScanCrc \/ ScanData \/ ScanSkip,
         NEW s \in (callFrom + 1)..(scanned + 1)
  PROVE  ~IsFrame(s, scanned + 1)
<1> SUFFICES ASSUME IsFrame(s, scanned + 1) PROVE FALSE
  OBVIOUS
<1> DEFINE b == (scanned + 1) - CRC_SIZE
<1>0. /\ scanned \in Nat /\ callFrom \in Nat /\ s \in Nat /\ b \in Nat
      /\ s < b /\ b <= scanned /\ s < scanned /\ callFrom < s
  BY ScanIndex, SizeAssumption DEF TypeOK, IsFrame
<1>1. /\ line[s] = Slash /\ line[b] = Bang
      /\ \A p \in (s + 1)..(scanned + 1) : line[p] # Slash
  BY DEF IsFrame
<1>2. /\ Idle /\ Started /\ Ended
  BY DEF ScanState, ScanStart, ScanEnd, ScanCrc, ScanData, ScanSkip, Scanning
<1>3. reading_message
  BY <1>0, <1>1, <1>2 DEF Idle
<1>4. /\ message[1] \in Nat /\ message[1] <= scanned
      /\ line[message[1]] = Slash
      /\ \A p \in (message[1] + 1)..scanned : line[p] # Slash
      /\ ~end_found => \A p \in (message[1] + 1)..scanned : line[p] # Bang
  <2>1. /\ line[message[1]] = Slash
        /\ \A p \in (message[1] + 1)..scanned : line[p] # Slash
        /\ ~end_found => \A p \in (message[1] + 1)..scanned : line[p] # Bang
        /\ Len(message) > 0 /\ message[1] + Len(message) - 1 = scanned
    BY <1>2, <1>3, Zenon DEF Started
  <2>2. message[1] \in Nat /\ Len(message) \in Nat
    BY <2>1 DEF TypeOK
  <2>3. message[1] <= scanned
    BY <1>0, <2>1, <2>2
  <2> QED
    BY <2>1, <2>2, <2>3
<1>5. s = message[1]
  <2>1. ~ (s < message[1])
    BY <1>0, <1>1, <1>4
  <2>2. ~ (message[1] < s)
    BY <1>0, <1>1, <1>4
  <2>3. QED
    BY <1>0, <1>4, <2>1, <2>2
<1>6. end_found
  BY <1>0, <1>1, <1>4, <1>5
<1>7. crc_bytes_read + 1 < CRC_SIZE /\ crc_bytes_read \in Nat
  <2>1. Byte_i # Slash
    BY <1>0, <1>1 DEF Byte_i
  <2>2. ScanCrc
    BY <1>3, <1>6, <2>1 DEF ScanStart, ScanEnd, ScanData, ScanSkip
  <2>3. QED
    BY <2>2, SizeAssumption DEF ScanCrc, TypeOK
<1>8. b < scanned - crc_bytes_read /\ b \in (message[1] + 1)..scanned
  BY <1>0, <1>4, <1>5, <1>7, SizeAssumption
<1>9. QED
  BY <1>0, <1>1, <1>2, <1>4, <1>6, <1>7, <1>8 DEF Ended

\* No step makes the call scan past a complete telegram.
LEMMA NoFrameOverlookedStep ==
  TypeOK /\ Bounds /\ ScanState /\ NoFrameOverlooked /\ [Next]_vars
    => NoFrameOverlooked'
<1> SUFFICES ASSUME TypeOK, Bounds, ScanState, NoFrameOverlooked, [Next]_vars,
                    pc' \in {"caller", "read", "scan"},
                    NEW s \in (callFrom' + 1)..scanned',
                    NEW e \in (callFrom' + 1)..scanned',
                    IsFrame(s, e)'
             PROVE  FALSE
  BY DEF NoFrameOverlooked
<1>0. /\ scanned \in Nat /\ callFrom \in Nat /\ callFrom <= scanned
      /\ scanned <= Len(line) /\ Len(line) \in Nat
      /\ scanned' \in Nat /\ callFrom' \in Nat /\ s < e
  <2>1. TypeOK' /\ Bounds'
    BY TypeStep
  <2>2. scanned' \in Nat /\ callFrom' \in Nat
    BY <2>1, ScanIndexNext
  <2>3. QED
    BY <2>2, ScanIndex, SizeAssumption DEF TypeOK, Bounds, IsFrame
<1>1. ASSUME s \in (callFrom + 1)..scanned, e \in (callFrom + 1)..scanned,
             pc \in {"caller", "read", "scan"}
      PROVE  FALSE
  <2>1. \A p \in s..e : line'[p] = line[p]
    BY <1>0, <1>1, LineKept
  <2>2. IsFrame(s, e)
    BY <1>0, <2>1, SizeAssumption DEF IsFrame
  <2>3. QED
    BY <1>1, <2>2 DEF NoFrameOverlooked
<1>2. CASE OpenPort \/ HpRead
  <2>1. consumed' \in Nat /\ consumed' = callFrom'
        /\ num_of_bytes' = 0 /\ i' = 0
    BY <1>2, TypeStep DEF OpenPort, HpRead, TypeOK, Bounds
  <2>2. \A c \in Nat : (c - 0) + 0 = c
    OBVIOUS
  <2>3. scanned' = callFrom'
    BY <2>1, <2>2 DEF scanned
  <2>4. \A c \in Nat : \A p, q \in (c + 1)..c : ~ (p < q)
    OBVIOUS
  <2>5. QED
    BY <1>0, <2>3, <2>4
<1>3. CASE ScanStart \/ ScanEnd \/ ScanCrc \/ ScanData \/ ScanSkip
  <2>1. NextByte /\ pc = "scan"
    BY <1>3 DEF ScanStart, ScanEnd, ScanCrc, ScanData, ScanSkip, Scanning
  <2>2. scanned' = scanned + 1 /\ callFrom' = callFrom /\ line' = line
    BY <2>1, NextByteStep
  <2>3. e = scanned + 1
    BY <1>0, <1>1, <2>1, <2>2
  <2>4. IsFrame(s, scanned + 1)
    BY <2>2, <2>3 DEF IsFrame
  <2>5. QED
    BY <1>3, <2>2, <2>4, NoFrameEndsHere
<1>4. CASE ~ (\/ OpenPort \/ HpRead
              \/ ScanStart \/ ScanEnd \/ ScanCrc \/ ScanData \/ ScanSkip)
  <2>1. callFrom' = callFrom /\ pc \in {"caller", "read", "scan"}
    BY <1>4 DEF Next, InCall, Receive, HangUp, OpenPortThrows, Read,
       ReadNothing, ScanLastCrc, ChunkDone, Scanning, vars, call, TypeOK
  <2>2. ASSUME NEW n \in 1..READ_BUFF, Read(n) PROVE scanned' = scanned
    BY <2>2, SizeAssumption DEF Read, scanned, TypeOK, Bounds
  <2>3. ASSUME ~ \E n \in 1..READ_BUFF : Read(n) PROVE scanned' = scanned
    <3>1. consumed' = consumed /\ num_of_bytes' = num_of_bytes /\ i' = i
      BY <1>4, <2>3 DEF Next, InCall, Receive, HangUp, OpenPortThrows,
         ReadNothing, ScanLastCrc, ChunkDone, vars
    <3>2. QED
      BY <3>1 DEF scanned
  <2>4. scanned' = scanned
    BY <2>2, <2>3
  <2>5. QED
    BY <1>1, <2>1, <2>4
<1>5. QED
  BY <1>2, <1>3, <1>4

-----------------------------------------------------------------------------
(* The invariant and the theorems.                                         *)

\* The inductive invariant holds at the start.
LEMMA Initially == Init => IInv
<1> SUFFICES ASSUME Init PROVE IInv
  OBVIOUS
<1>1. TypeOK
  <2>1. line \in Seq(Byte) /\ message \in Seq(Nat) /\ raw_hp_message \in Seq(Nat)
    BY DEF Init
  <2>2. reading_message \in BOOLEAN /\ end_found \in BOOLEAN /\ attached \in BOOLEAN
    BY DEF Init
  <2>3. QED
    BY <2>1, <2>2, SizeAssumption DEF Init, TypeOK
<1>2. Bounds
  BY DEF Init, Bounds
<1>3. ScanState /\ Returned /\ ReturnsAFrame /\ NoFrameOverlooked
  BY DEF Init, ScanState, Returned, ReturnsAFrame, NoFrameOverlooked
<1>4. QED
  BY <1>1, <1>2, <1>3 DEF IInv

\* One step preserves the inductive invariant.
LEMMA Inductive == IInv /\ [Next]_vars => IInv'
  BY TypeStep, ScanStateStep, ReturnedStep, ReturnsAFrameStep,
     NoFrameOverlookedStep DEF IInv

\* Every reachable state satisfies the inductive invariant.
THEOREM Invariance == Spec => []IInv
  BY Initially, Inductive, PTL DEF Spec

\* The scan variables keep their types: the chunk index stays inside the
\* buffer and the CRC counter below CRC_SIZE (hpSerialRead.cpp:88-120).
THEOREM TypeCorrect == Spec => []TypeOK
<1>1. IInv => TypeOK
  BY DEF IInv
<1>2. QED
  BY <1>1, Invariance, PTL

\* Whatever hpRead returns is one telegram of the line, byte for byte,
\* however read() cut the line into chunks (hpSerialRead.cpp:83-126).
THEOREM ReturnsOneFrame == Spec => []ReturnsAFrame
<1>1. IInv => ReturnsAFrame
  BY DEF IInv
<1>2. QED
  BY <1>1, Invariance, PTL

\* A call never scans past a complete telegram that began after the call
\* did (hpSerialRead.cpp:93-120).
THEOREM OverlooksNoFrame == Spec => []NoFrameOverlooked
<1>1. IInv => NoFrameOverlooked
  BY DEF IInv
<1>2. QED
  BY <1>1, Invariance, PTL

\* What is returned starts after the call began, and what was returned
\* before lies in front of it.
LEMMA OrderedStep ==
  IInv /\ [Next]_vars =>
    [raw_hp_message' # raw_hp_message =>
       /\ Len(raw_hp_message') > 0
       /\ raw_hp_message'[1] > callFrom
       /\ raw_hp_message # <<>> =>
            raw_hp_message[Len(raw_hp_message)] <= callFrom]_vars
<1> SUFFICES ASSUME IInv, [Next]_vars, raw_hp_message' # raw_hp_message
             PROVE  /\ Len(raw_hp_message') > 0
                    /\ raw_hp_message'[1] > callFrom
                    /\ raw_hp_message # <<>> =>
                         raw_hp_message[Len(raw_hp_message)] <= callFrom
  OBVIOUS
<1>1. ScanLastCrc
  BY ReturnOnlyAtLastCrc
<1>2. /\ Len(raw_hp_message') > 0 /\ raw_hp_message'[1] = message[1]
      /\ message[1] \in 1..scanned /\ callFrom < message[1]
  BY <1>1, LastCrcFrame DEF IInv
<1>3. pc = "scan" /\ Returned
  BY <1>1 DEF ScanLastCrc, Scanning, IInv
<1>4. callFrom \in Nat /\ scanned \in Nat
  BY ScanIndex DEF IInv, TypeOK
<1>5. QED
  BY <1>2, <1>3, <1>4 DEF Returned

\* No byte of an earlier telegram or call is in a later one
\* (hpSerialRead.cpp:69-76: the scan state is local to the call).
THEOREM CallsInOrder == Spec => FramesInOrder
  BY Invariance, OrderedStep, PTL DEF Spec, FramesInOrder
=============================================================================
