---------------------------- MODULE HpSerialRead ----------------------------
(***************************************************************************)
(* The serial reader of src/src/hpSerialRead.cpp: openPort() and the       *)
(* telegram framing loop of hpRead().                                      *)
(*                                                                         *)
(* The meter sends bytes at any moment; read() hands the queued bytes over *)
(* in chunks of any size up to the buffer; hpRead() scans each chunk byte  *)
(* by byte and returns at the last CRC byte of a telegram.  All the state  *)
(* of the scan is local to one call, the unscanned rest of the last chunk  *)
(* included.                                                               *)
(*                                                                         *)
(* A byte is identified by its position in `line', the bytes received so   *)
(* far, so that the vector `message' is a sequence of positions and two    *)
(* equal bytes are still told apart.  Bytes lost in a UART or tty overrun  *)
(* never appear in `line'.                                                 *)
(***************************************************************************)
EXTENDS Naturals, Sequences

CONSTANTS
  Byte,       \* the byte values
  Slash,      \* '/', the start delimiter
  Bang,       \* '!', the end-of-data delimiter
  CRC_SIZE,   \* bytes that follow '!'  (4 in the code)
  READ_BUFF,  \* sizeof(read_buff)      (256 in the code)
  MaxLine     \* model bound: how many bytes the meter sends

ASSUME DelimiterAssumption == Slash \in Byte /\ Bang \in Byte /\ Slash # Bang
ASSUME SizeAssumption ==
  CRC_SIZE \in Nat \ {0} /\ READ_BUFF \in Nat \ {0} /\ MaxLine \in Nat

VARIABLES
  line,             \* every byte the tty has queued, oldest first
  attached,         \* FALSE once the device has hung up
  consumed,         \* how many bytes of line were read or flushed
  pc,               \* where the thread is: "closed", "failed", "caller",
                    \* "read" (before read()) or "scan" (in the for loop)
  num_of_bytes, i,  \* size of the current chunk, bytes of it scanned
  message, reading_message, end_found, crc_bytes_read,  \* locals of hpRead
  raw_hp_message,   \* what the last call returned (<<>> before the first)
  callFrom          \* history: consumed at the last flush or call of hpRead

env == <<line, attached>>
frame == <<message, reading_message, end_found, crc_bytes_read>>
call == <<raw_hp_message, callFrom>>
vars == <<env, consumed, pc, num_of_bytes, i, frame, call>>

\* Bytes of line the reader has looked at, flushed or abandoned.
scanned == (consumed - num_of_bytes) + i

Init ==
  /\ line = <<>> /\ attached = TRUE /\ consumed = 0 /\ pc = "closed"
  /\ num_of_bytes = 0 /\ i = 0
  /\ message = <<>> /\ reading_message = FALSE
  /\ end_found = FALSE /\ crc_bytes_read = 0
  /\ raw_hp_message = <<>> /\ callFrom = 0

-----------------------------------------------------------------------------
(* The meter and the device.                                               *)

Receive(b) ==
  /\ attached /\ Len(line) < MaxLine
  /\ line' = Append(line, b)
  /\ UNCHANGED <<attached, consumed, pc, num_of_bytes, i, frame, call>>

\* The adapter is unplugged: from now on read() returns 0 or -1.
HangUp ==
  /\ attached
  /\ attached' = FALSE
  /\ UNCHANGED <<line, consumed, pc, num_of_bytes, i, frame, call>>

-----------------------------------------------------------------------------
(* openPort: open, sleep, tcflush, then the termios set-up.                *)

OpenPort ==
  /\ pc = "closed"
  /\ pc' = "caller"
  /\ consumed' = Len(line)    \* tcflush drops what was queued
  /\ callFrom' = Len(line)
  /\ UNCHANGED <<env, num_of_bytes, i, frame, raw_hp_message>>

\* open(), tcgetattr() or tcsetattr() fails: an exception main rethrows.
OpenPortThrows ==
  /\ pc = "closed"
  /\ pc' = "failed"
  /\ UNCHANGED <<env, consumed, num_of_bytes, i, frame, call>>

-----------------------------------------------------------------------------
(* hpRead.                                                                 *)

\* Faulty variant: the scan state outlives the call.
HpReadKeepsState ==
  /\ pc = "caller"
  /\ pc' = "read"
  /\ num_of_bytes' = 0 /\ i' = 0
  /\ callFrom' = consumed
  /\ UNCHANGED <<env, consumed, frame, raw_hp_message>>

HpRead ==
  /\ pc = "caller"
  /\ pc' = "read"
  /\ num_of_bytes' = 0 /\ i' = 0
  /\ message' = <<>> /\ reading_message' = FALSE
  /\ end_found' = FALSE /\ crc_bytes_read' = 0
  /\ callFrom' = consumed
  /\ UNCHANGED <<env, consumed, raw_hp_message>>

\* VMIN = 1: read() blocks until a byte is queued and may return fewer
\* bytes than are queued.
Read(n) ==
  /\ pc = "read" /\ attached
  /\ n <= READ_BUFF /\ consumed + n <= Len(line)
  /\ num_of_bytes' = n /\ i' = 0
  /\ consumed' = consumed + n
  /\ pc' = "scan"
  /\ UNCHANGED <<env, frame, call>>

\* num_of_bytes <= 0: the loop tries again, for ever.
ReadNothing ==
  /\ pc = "read" /\ ~attached
  /\ UNCHANGED vars

\* The byte under the loop index, and the common part of every branch that
\* goes on to the next byte.
Byte_i == line[scanned + 1]
NextByte ==
  /\ i' = i + 1
  /\ UNCHANGED <<env, consumed, pc, num_of_bytes, call>>
Scanning == pc = "scan" /\ i < num_of_bytes

\* Faulty variant: a new '/' does not reset the end-of-data flag.
ScanStartKeepsEnd ==
  /\ Scanning /\ Byte_i = Slash
  /\ message' = <<scanned + 1>>
  /\ reading_message' = TRUE
  /\ crc_bytes_read' = 0
  /\ UNCHANGED end_found
  /\ NextByte

\* '/' starts a telegram over, wherever it stands.
ScanStart ==
  /\ Scanning /\ Byte_i = Slash
  /\ message' = <<scanned + 1>>
  /\ reading_message' = TRUE
  /\ end_found' = FALSE
  /\ crc_bytes_read' = 0
  /\ NextByte

\* The first '!' of a telegram ends its data.
ScanEnd ==
  /\ Scanning /\ Byte_i = Bang /\ reading_message /\ ~end_found
  /\ message' = Append(message, scanned + 1)
  /\ end_found' = TRUE
  /\ crc_bytes_read' = 0
  /\ UNCHANGED reading_message
  /\ NextByte

\* Faulty variant: the CRC bytes are not counted up to CRC_SIZE.
ScanCrcRunsOn ==
  /\ Scanning /\ Byte_i # Slash /\ end_found
  /\ message' = Append(message, scanned + 1)
  /\ crc_bytes_read' = crc_bytes_read + 1
  /\ UNCHANGED <<reading_message, end_found>>
  /\ NextByte

\* A CRC byte that is not the last one; a second '!' counts as one.
ScanCrc ==
  /\ Scanning /\ Byte_i # Slash /\ end_found
  /\ crc_bytes_read + 1 # CRC_SIZE
  /\ message' = Append(message, scanned + 1)
  /\ crc_bytes_read' = crc_bytes_read + 1
  /\ UNCHANGED <<reading_message, end_found>>
  /\ NextByte

\* Faulty variant: hpRead returns one CRC byte too early.
ScanLastCrcEarly ==
  /\ Scanning /\ Byte_i # Slash /\ end_found
  /\ crc_bytes_read + 1 = CRC_SIZE
  /\ raw_hp_message' = message
  /\ pc' = "caller"
  /\ UNCHANGED <<env, consumed, num_of_bytes, i, frame, callFrom>>

\* The last CRC byte: hpRead returns, and the rest of the chunk is gone.
ScanLastCrc ==
  /\ Scanning /\ Byte_i # Slash /\ end_found
  /\ crc_bytes_read + 1 = CRC_SIZE
  /\ raw_hp_message' = Append(message, scanned + 1)
  /\ pc' = "caller"
  /\ UNCHANGED <<env, consumed, num_of_bytes, i, frame, callFrom>>

\* A data byte between '/' and '!'.
ScanData ==
  /\ Scanning /\ Byte_i \notin {Slash, Bang} /\ reading_message /\ ~end_found
  /\ message' = Append(message, scanned + 1)
  /\ UNCHANGED <<reading_message, end_found, crc_bytes_read>>
  /\ NextByte

\* Bytes before the first '/' are dropped.
ScanSkip ==
  /\ Scanning /\ Byte_i # Slash /\ ~reading_message
  /\ UNCHANGED frame
  /\ NextByte

\* Faulty variant: a chunk boundary ends the telegram.
ChunkDoneForgets ==
  /\ pc = "scan" /\ i = num_of_bytes
  /\ pc' = "read"
  /\ reading_message' = FALSE
  /\ UNCHANGED <<env, consumed, num_of_bytes, i, message, end_found,
                 crc_bytes_read, call>>

ChunkDone ==
  /\ pc = "scan" /\ i = num_of_bytes
  /\ pc' = "read"
  /\ UNCHANGED <<env, consumed, num_of_bytes, i, frame, call>>

-----------------------------------------------------------------------------
InCall ==
  \/ \E n \in 1..READ_BUFF : Read(n)
  \/ ScanStart \/ ScanEnd \/ ScanCrc \/ ScanLastCrc \/ ScanData \/ ScanSkip
  \/ ChunkDone

Next ==
  \/ \E b \in Byte : Receive(b)
  \/ HangUp
  \/ OpenPort \/ OpenPortThrows
  \/ HpRead \/ ReadNothing \/ InCall

Spec == Init /\ [][Next]_vars

\* The reading thread is scheduled: it takes a step of hpRead if it can.
FairSpec == Spec /\ WF_vars(InCall)

-----------------------------------------------------------------------------
(* Properties.                                                             *)

TypeOK ==
  /\ line \in Seq(Byte) /\ attached \in BOOLEAN
  /\ pc \in {"closed", "failed", "caller", "read", "scan"}
  /\ consumed \in Nat /\ callFrom \in Nat
  /\ num_of_bytes \in 0..READ_BUFF /\ i \in 0..num_of_bytes
  /\ message \in Seq(Nat) /\ raw_hp_message \in Seq(Nat)
  /\ reading_message \in BOOLEAN /\ end_found \in BOOLEAN
  /\ crc_bytes_read \in 0..(CRC_SIZE - 1)

\* The telegram grammar, independent of the scanner: bytes s..e of line are
\* a '/' with no '/' after it, data, the first '!', and CRC_SIZE bytes.
IsFrame(s, e) ==
  /\ line[s] = Slash
  /\ \A p \in (s + 1)..e : line[p] # Slash
  /\ s < e - CRC_SIZE
  /\ line[e - CRC_SIZE] = Bang
  /\ \A p \in (s + 1)..(e - CRC_SIZE - 1) : line[p] # Bang

\* hpRead returns exactly one telegram of the stream: consecutive received
\* bytes, across any chunking, that form a frame (hpSerialRead.cpp:83-126).
ReturnsAFrame ==
  raw_hp_message # <<>> =>
    /\ \A k \in 1..Len(raw_hp_message) :
         raw_hp_message[k] = raw_hp_message[1] + k - 1
    /\ IsFrame(raw_hp_message[1], raw_hp_message[Len(raw_hp_message)])

\* No call scans past a complete telegram without returning it, whatever
\* noise, restarted telegrams and chunk boundaries precede it: the call
\* returns the earliest frame that starts after the call did.
NoFrameOverlooked ==
  pc \in {"caller", "read", "scan"} =>
    \A s, e \in (callFrom + 1)..scanned : ~IsFrame(s, e)

\* Two calls never share a byte and return telegrams in line order: nothing
\* of an earlier telegram or of an earlier call reaches a later one.
FramesInOrder ==
  [][raw_hp_message' # raw_hp_message =>
       /\ Len(raw_hp_message') > 0
       /\ raw_hp_message'[1] > callFrom
       /\ raw_hp_message # <<>> =>
            raw_hp_message[Len(raw_hp_message)] <= callFrom]_vars

\* A whole telegram that starts after the call did.
FrameAhead == \E s, e \in (callFrom + 1)..Len(line) : IsFrame(s, e)

\* A call does not wait for ever once a whole telegram arrived after it
\* began, unless the device hangs up (hpRead has no other way out).
CallReturns ==
  (pc \in {"read", "scan"} /\ FrameAhead) ~> (pc = "caller" \/ ~attached)
=============================================================================
