# TLA+ models of the Hanport data parser

The Hanport data parser is a gateway for an electricity meter. It reads
telegrams from the meter's H1 (HAN) port over a serial line, checks their CRC,
parses the OBIS lines into one record, and exposes the record as MQTT topics and
as Modbus TCP holding registers. These modules model the C++ program under
`src/src/` and `src/include/`; the line numbers below refer to those files.

## 1. Inventory

| Part | State | Operations | Interacts with |
|---|---|---|---|
| Serial reader, `hpSerialRead.cpp` | descriptor; the scan state of a call is local (`message`, `reading_message`, `end_found`, `crc_bytes_read`, chunk) | `openPort`, `hpRead`, `closePort` | tty and meter; called by main |
| Message validator, `hpMessageValidator.cpp` | the telegram, its two CRCs | constructor, `message_to_string_arr`, getters | called by main, throws |
| Data parser, `hpDataParser.cpp`, `hpData.hpp` | lines; writes the caller's `hpData` | constructor, `parse_message` | called by main, throws half-way |
| Main loop, `main.cpp` | `heartbeat`, `data_obj`, `raw_hp_message` | start-up, the loop | calls everything; restarted by systemd (`deploy/hanport.service`) |
| MQTT publisher, `hpMqttPub.cpp` | client, connection, will, credentials | `connect`, `publish*`, `disconnect` | broker through the Paho client, whose threads reconnect by themselves |
| Modbus registers, `hpModbuss.cpp` | `registers` map, libmodbus mapping, mutex | `set_holding_register(s)`, `set_from_hpData`, `get_holding_register`, `snapshot_holding_registers` | main thread and server thread share the mapping |
| Modbus server, `hpModbuss.cpp` | context, listening socket, connected sockets, `running`, thread | `start`, `stop`, the select loop, `status` | Modbus clients; shares the mapping; shares the descriptors with MQTT client and log |
| Configuration, `config.cpp` | sections of keys | `loadFromFile`, `get` | main at start-up |
| Logger, `hpLogger.cpp` | | | used by nothing: main logs through spdlog |
| Deployment: unit, scripts, bundled libraries | | | the unit's restart policy |

What makes each part correct, and what is hard about it:

- **Serial reader.** Chunks end at arbitrary bytes, a telegram may be restarted
  by a `/` anywhere, noise may precede it, and a return drops the rest of the
  chunk. Every call must return exactly one telegram, the first that begins
  after the call, and never bytes of two.
- **Validator.** The CRC must accept exactly what the meter's CRC accepts; the
  transmitted CRC is parsed by `stoi`, which accepts more than four digits.
- **Parser.** A malformed line throws out of the middle of a telegram, and the
  record it was writing is the one main publishes next. 26 copied branches file
  values under fields.
- **Main loop.** Early returns (`continue`), exceptions of each stage and blocking
  calls decide what reaches topics and registers. The record must only ever hold
  values of telegrams with a correct CRC, and the newest of them.
- **Publisher.** The link may drop between any two of the 27 publishes of a
  round; failures are results that the callers combine and main ignores. `connect` and
  `publish` wait for the broker's answer without a timeout (78, 119).
- **Registers.** Written under a mutex by main and read without it by the server
  thread, word by word. A register's address is its place in 27 copied calls.
- **Server.** Which sockets `select` watches while clients come and go in any
  order, calls that block, such as a reply to a client that does not read, a process
  that runs out of descriptors, a `select` that fails or a thread that cannot be
  created, and shutdown against a thread in `select`, `accept`, `modbus_receive` or `send`.
- **Configuration.** Comment characters, brackets and `=` in any order.

The hazards, each at its line and with the properties that watch it, are in
`PROJECT.json`.

## 2. Modules

| Module | Models |
|---|---|
| `HpSerialRead`, `_proofs` | `openPort` and `hpRead`, byte by byte, with the meter and the adapter |
| `HpMessageValidator`, `_proofs` | the validator, one action per round of its loops: split, CRC text, CRC-16, lines; with the meter that computes the CRC and the line that disturbs it |
| `HpDataParser`, `_proofs` | the loop, the writes and the throws of the parser, over an abstract code table |
| `HpObisTable`, `MCHpDataParser` | the real table of 26 codes, in place of the abstract one; its theorem is in `HpDataParser_proofs` |
| `HanportMain`, `_proofs`, `MCHanportMain` | the process: start-up, loop, publishing, registers, death and restart; composes `HpDataParser` |
| `Gateway` | abstract: what the process promises its readers; `HanportMain` implements it |
| `HpData` | the fields of the record and their order in registers and topics |
| `HpEncoding`, `_proofs` | what becomes of a value on its way into registers and payloads |
| `HpModbussRegs`, `_proofs` | the registers between callers, readers, server thread and clients |
| `HpModbussServer`, `_proofs` | `start`, `stop` and the select loop, with descriptors, clients and other threads |
| `HpConfig`, `_proofs` | the INI reader, one action per line; and what a file means |
| `MCDataPath` | `HpMessageValidator`, `HpEncoding` and `HpConfig` side by side, for one run |

Definitions named as *faulty variant* are plausible mistakes in the definition that
follows them. Nothing of a specification uses them: they show that a
property notices the mistake (`PROJECT.json`, "mutants").

### HpSerialRead

A byte is its position in `line`, the bytes received so far, so that equal bytes
are told apart and a property can say which bytes a call returned. `pc` is where
the thread is: before the call (`caller`), before `read()` (`read`), in the
`for` loop (`scan`). One action is one `read()` or one iteration of the loop, split
by the branch it takes: `ScanStart` (93-101), `ScanEnd` (103-108), `ScanCrc` and
`ScanLastCrc` (110-120), `ScanData` and `ScanSkip` (122-125). `read()` returns any
number of queued bytes up to the buffer; the meter queues bytes at any moment.
After `HangUp` a `read()` returns 0 or -1 and the loop spins (`ReadNothing`).
The termios flags (45-65) only matter by making `read()` raw and blocking.
`callFrom` is a history variable: where the line stood when the call began.

`IsFrame` is the telegram grammar, stated on the bytes and without the scanner.

### HpMessageValidator

The meter first divides its telegram by the CRC-16 polynomial, one bit a step
(`MeterDivides`), as a textbook does it: the telegram's bits are the dividend, and
where a one stands the generator is taken away. Then the line delivers the telegram
(`Receive`): with the remainder as its CRC text and any disturbance of `Flips`, which
lies within 16 successive bits, or undisturbed with a text of `Garbled` in place of the
CRC. `Receive` is also the constructor: `extract_message` (26-42) cuts the data at the first
`!` or throws. `TextByte` and `ReadCrc` are `extract_crc` (45-62), `XorByte` and `ShiftBit` the
two loops of `calculate_crc` (65-79), `Compare` main's comparison (main.cpp:146),
`GetLine` and `LinesDone` the `getline` loop of `message_to_string_arr` (82-94).

Words and bytes are sets of one bits, polynomials sets of places, counted from the first
bit of the telegram. `quotient` (the places where a one bit fell out of the register)
and `from` (where the lines begin) are history variables; `sent`, `rest`,
`divided` and `flips` belong to the meter and the line. `Stoi` reads like std::stoi with base 16;
`Denotations` says which number a text denotes by its splits into blanks, sign,
prefix and digits, without reading from left to right.

`BurstsRejected` makes an exception for a disturbance that moves the first `!`: the
split comes before the check, and a new `!` changes which bytes are checked at all.

### HpEncoding and HpData

A step is the next value of a field or the next count. `Watts`, `Hundredths` and
`AsFloat` calculate with float32 exactly, on integers: a power is the number m of its
thousandths, `Excess` what `stof` adds to it, and `RoundedQuotient` the rounding to nearest,
half to even. A telegram's 0.251 kW becomes 250 W; no value loses more than one.
`HpData` has the fields, and `make_regs` and `publishIndividualFields` as the orders of the 27
copied calls.

### HpConfig

`ReadLine` is one round of the loop of `loadFromFile`: the line is skipped, opens a
section or keeps a value. `Says` gives the meaning of a file without the order of
evaluation: a line is a comment, a header or a pair by where its brackets, `=` and
comment characters stand (`Assigns`, `Bracketed`, `CommentLine`), and the last
pair of a section (`InSection`) gives a key its value. All white space is one
character.

`MCDataPath` puts the three machines beside each other: they share no state, and a behaviour
moves one of them only.

### HpDataParser and HpObisTable

A line is what decides its branch: skipped, an unknown code, or a known code with
a value or with a part that `set_value` cannot read. One action is one iteration.
`dt_obj` is main's record and survives the parser. `HpObisTable` replaces the
abstract table by the chain of comparisons at 71-194, in its order, and states
apart from it what the numbers of a code denote.

### HanportMain and Gateway

One action per stage of main, one per topic of a round of publishes, because the
link may drop between two of them. `publish` returns at once when not connected
(`PublishSkipped`), throws when the library refuses the message (`PublishRefused`), or sends
it (`PublishSends`) and then waits for the broker without a timeout (`pc` = `wait`,
`tok->wait()` at hpMqttPub.cpp:119). The wait ends with the acknowledgement (`PublishAcked`) or, when
the link drops, with an exception (`LinkDrop`, then `PublishThrows`); the broker may hand the
message on before either (`Deliver`), so that after an exception subscribers may have got it
or not. `Parser` is an instance of
`HpDataParser` over main's variables; `Parse` is one of its steps. `hpRead` is what
`HpSerialRead` shows of it, a blocking call that returns a telegram, and the
validator a verdict on it. A value is the number of the telegram that carried it, so
a property can tell an old value from a new one, and 0 is the initial value of the
members of `hpData`. `mapping` is `Nothing` when `start()` failed. `Die` covers
`return 1`, a log file that cannot be opened, exceptions nobody catches (constructor
of the publisher, `stoi` of the port, `openPort`) and signals; `Restart` is systemd's
`Restart=always`. The client library may reconnect at any moment once `connect()` was
called (`set_automatic_reconnect(true)`), also after a first attempt that failed: a
superset of what the library's versions do.

`Gateway` has no lines, stages or rounds: a telegram with a correct CRC is taken
over in one step (`Learn`), whatever part of it could be read, and registers and
topics are only ever written from what is known at that moment. The
refinement mapping of `ActsAsGateway` gives `known` the record from before the
telegram while one is being parsed (`dt_before`), so that the record's half-written
states must stay invisible, and `offered` the telegram that was not yet taken over.

### HpModbussRegs

An update is numbered when its caller gets the mutex, and a word holds the number of
the update that wrote it. `Lock` begins an update of the words of one of `Sets`: all of
them in `set_from_hpData`, one in `set_holding_register`. `WriteWord` is one iteration
of 219-224: it writes the map, and the mapping if the address is below its size.
`Snapshot` and `Get` read the map under the mutex. The server thread copies the
words of a query one by one, without the mutex (`CopyWord`, modbus_reply at 151),
and a client's write goes into the mapping (`ClientWrite`). The unsynchronised
access is a data race. It is modelled for the builds there are, in which a
16-bit word is loaded and stored whole, but the words of a loop in any order.

### HpModbussServer

One action is one system call or one access to a shared member, of the thread that
calls `start` and `stop` (`control`), of the server thread (`thread`), or of the
surroundings. `fdTable` says what each descriptor is: free, the listening socket, a
client's connection, or one of another thread of the process; a new descriptor is the
lowest free one, as POSIX has it, which is what makes a stale number dangerous. `refset`,
`rdset`, `fdmax` and `master_socket` are the thread's locals; the scan at 124 takes what it
has dealt with out of `rdset`. `select` may report a socket that `stop()` closes under
it, or fail with any error at any time (116-120), which ends the loop and leaves `running`
true. A query is reduced to being there, or to being something `modbus_receive` rejects; a
client's next query comes into view once its last one is answered. `full` are the
clients whose connection takes no more replies, because they do not read them: the sockets block,
and `Reply` is then a step only after the client reads (`Reads`) or the connection ends
(`Break`, or `modbus_close`, which shuts the socket down before it closes it). A `start()` that
fails up to `modbus_tcp_listen` (86) puts everything back and is a stutter; if the
constructor of the thread throws (87), listening socket, mapping and `running` stay without a
thread (`StartThrows`), and main goes on (main.cpp:96). `stop()` joins (`StopJoins`) and frees
mapping and context (`StopFrees`) in two steps. One thread calls `start` and `stop`, as main does.

If `stop()` is quicker than the new thread, the thread does `FD_SET(-1)`, which is
undefined; with glibc it sets a bit that no `select` looks at, and `Begin` models that.

## 3. Runs

| Run | Question | Result |
|---|---|---|
| `serial_safety` | does each call return exactly one telegram, the first? | holds |
| `serial_liveness` | does it return? | holds, unless the device hangs up |
| `parser` | what is in the record after a throw, and is every value filed under the field its code denotes? | the record before, overwritten by the lines in front of the malformed one; holds for all fields but the two of L3's reactive power |
| `obis_l3_reactive` | and L3's reactive import? | **violated**: 63.7.0 is filed as export (hpDataParser.cpp:155-157) |
| `gateway` | do topics and registers hold the last known values, through failures and restarts; does an accepted telegram get there; does the process implement `Gateway`? | holds; an accepted telegram does not get there while the broker leaves a publish unanswered |
| `heartbeat_without_message` | main.cpp:125 | **violated**: `hpRead` blocks in front of the writes |
| `logged_success` | main.cpp:175 | **violated**: the result of `publishAllData` is ignored |
| `registers_shared` | what do mutex and unlocked reads guarantee? | readers of the map see whole updates, replies are never stale and never go back |
| `measurements_whole` | hpModbuss.hpp:51-52 | **violated**: a reply may mix two updates in one measurement |
| `server` | does the loop watch its sockets and no others, answer every query, and end when it is told to? | holds, but for a failing `select`, a client that never reads, and a reused descriptor (below) |
| `client_sockets_closed` | hpModbuss.cpp:189 | **violated**: the clients' connections outlive `stop()` |
| `data_path` | does the validator accept what the meter accepts, and hand on all of it; what do registers and topics tell of a value; does `get()` say what the file says? | holds; a power may lose one watt |

Bounds, and why they are enough:

- `serial_safety`: 8 bytes of three classes, `/`, `!` and any other (the code
  compares with nothing else), CRC_SIZE 2 instead of 4 and chunks of up to 3. The
  shortest telegram has 4 bytes, so 8 bytes hold two telegrams, or one with noise,
  restarts and extra `!`s, cut everywhere. With CRC_SIZE 2 there is a first and
  a last CRC byte. The proofs have no bounds. `serial_liveness` takes 6 bytes.
- `parser`: two telegrams, each of one line with any of the 26 codes, or of up to three
  lines with three of the codes, two of which share a field: good lines stand before
  and after a malformed one, and a telegram meets what an earlier one left. The proofs
  have no bounds.
- `gateway`: three telegrams of four shapes (both fields; one field; broken off
  after one field; broken off at once), each valid or not, one restart, three topics.
  A difference between "last known" and "last received" needs two telegrams; with
  three, one can also be rejected or broken off between two good ones. The proofs have
  no bounds.
- `registers_shared`: two callers, a measurement of two words and a word past the
  end of the mapping, updates of all three, of one in the mapping and of the one past
  it, two updates: enough for an update to overlap a query and another caller. The
  proofs have no bounds.
- `server`: two clients and three descriptors: a listening socket and both connections;
  or descriptors of other threads below, between and above them, which move `fdmax` in
  every way; or none left for `accept`. Any number of starts, stops, queries and errors of
  `select`; any reply may be the one that fills its connection, so that no buffer size
  enters. Two clients let one wait while the thread hangs on the other. The safety proofs have no bounds.
- `data_path`: telegrams of up to two bytes of 0, 47 and 255 and a `!`, with no disturbance, of one bit, of two, and
  of a run of up to 16 bits at every place; bodies of up to five of LF, CR and `A` for the lines; all CRC texts of up to four
  characters over nine classes. Powers up to 3 kW, around the powers of two up to 2^23 thousandths, where
  the distance of floats changes, and the last ones below 10 MW; counts around every word limit and around
  every power of two beyond 2^24. Files of one line of up to four characters over
  the seven classes, or of four lines out of six. The proofs have no such bounds.

Deadlock is not checked where the program may really stop: the port cannot be
opened, the meter falls silent, the process stays down, every descriptor is taken,
or the bound is used up.

### Fairness

`HpSerialRead!FairSpec`: weak fairness of the steps of `hpRead`. The thread
blocks only in `read()` with no byte queued, and nothing disables its step but
a hang-up. Nothing is assumed of the meter.

`HanportMain!FairSpec`: weak fairness of main's own steps, start-up and loop without `hpRead`.
Every such step is local or a call that returns. Not fair is what others do: the line
(`hpRead`), link, death and restart, and the broker. The first `connect` (`MqttConnect`, hpMqttPub.cpp:78)
and the wait for an acknowledgement (`PublishAcked`, 119) have no timeout and may last for ever; a
publish's wait also ends when the link drops, because the session is clean and the library
then fails its tokens. `AcceptedIsExposed` therefore allows the process to die and
the broker to hold the connection without ever acknowledging (`[]Unanswered`). TLC violates
it without the second exception: main then stands in front of the register write too.

`HpModbussServer!FairSpec`: weak fairness of each of the two threads, which the operating
system schedules; `select` returns after a second at the latest. A blocking call is a step
only when it can return: `modbus_receive` when there is something to read, `Reply` when the
connection takes it or has ended. `ReceiveOther`, the wait for the peer of another
thread's connection, is not fair, and clients owe nothing: they need not send, read or
close. The exceptions of `QueriesAnswered` and `StopReturns` are what follows from that, each
stated as a thread that hangs for ever (`[]StuckSending`, `[]StuckReceiving`) or has ended.

### What the runs say of comments and guides

- main.cpp:179 ("write registers every loop") is not what happens after a rejected
  telegram, whose `continue` at 159 passes the write: the measured fields stay the last
  known ones (`RegistersLastKnown`), the heartbeat register lags behind the counter.
- hpModbuss.hpp:27 ("Stop the server and join the thread"): `StopReturns` has two exceptions, and
  TLC finds a violation without either. A client that does not read its replies holds the
  thread in `send()`; `modbus_close` frees the thread from the client it is at, but the scan may
  come to such a client afterwards, and the join then has no end (`[]StuckSending`). And between
  the `close` of the listening socket and the scan, another thread may get its descriptor; the
  server thread, which compares with the member that `stop()` has reset, takes it for a client's
  and waits on it (`[]StuckReceiving`).
- `status()` (hpModbuss.cpp:308) says "running" of a server without a thread: after an error of `select`, or
  after a `start()` whose thread could not be created. `EndsOnlyBySelect` says what is left: nothing
  else ends the thread, and the code does not itself hand `select` the closed descriptor that would.
- One client that does not read its replies keeps the server from all others for as long as it stays
  connected (`QueriesAnswered`), and a broker that does not acknowledge keeps main from the
  registers (`AcceptedIsExposed`).
- developerguide.md:559-560 says that the high word comes first; `float_to_regs` and
  `int_to_regs` put the low one first (`WordsRoundTrip`). developerguide.md:654-671 starts its
  register map with the voltage of L1 and has IEEE 754 floats throughout; the code starts with the
  heartbeat, and powers are integers (`EveryFieldOnce`, `AtMostOneWattLost`).
- developerguide.md:608 and 617 leave the delimiters out of the CRC; the code, like the meter,
  takes both in.
- userguide.md:104 gives 1502 for the default port, main.cpp:89 has 502; keys are
  case-sensitive, so that the lower-case `port` of `configs/bgs-lokal.ini` is not found.

## 4. Proofs

All theorems hold for every value of the constants that satisfies the named
assumptions of the component's module: `/` and `!` are two bytes, sizes are
positive (`HpSerialRead`); the table maps codes to fields and a malformed value is
no value (`HpDataParser`); topics are fields and shapes are sequences of lines
(`HanportMain`); addresses are naturals and a client's value is told apart from an update's
number (`HpModbussRegs`); clients are told apart from the other contents of a descriptor
(`HpModbussServer`). The three modules of the data path assume what comes in: the only
`!` of the meter's data is their last byte, a disturbance lies within 16 successive bits, and
`hpRead` returns four bytes behind the `!` (`HpMessageValidator`); powers have the four
digits of kilowatts of a telegram, counts are below 2^31 - 1, the last count an `int` can add one to,
written as a quotient because TLC's integers end there
(`HpEncoding`); a file is a sequence of lines (`HpConfig`).

**HpSerialRead.** None of the properties is inductive: that hpRead returns a telegram
rests on what the flags say of the bytes scanned so far. `IInv` adds
`Bounds` (the bytes of a call lie between its start and what was read),
`ScanState` (with `reading_message` false no `/` was seen since the call began; with
it true `message` is the run of bytes from the last `/`; with `end_found` the first
`!` lies `crc_bytes_read` bytes back) and `Returned` (the last telegram lies
before the running call). `LastCrcFrame` turns `ScanState` into a frame at the last
CRC byte, `NoFrameEndsHere` shows that no other byte completes one. The theorems
are `TypeCorrect`, `ReturnsOneFrame`, `OverlooksNoFrame` and `CallsInOrder`.

**HpDataParser and the table of HpObisTable.** `PrefixApplied` and `StopsAtFirstMalformed` are inductive with
the types. The one argument is how the last writer of a field changes when a line is added
(`PrefixSkips`, `PrefixWrites`). `FiledTheorem` goes on from there with the real table: every
branch assigns what its code denotes, or stays among L3's reactive powers, so that both
tables have the same writers of every other field.

**HanportMain.** `RegistersLastKnown` speaks of all telegrams of the process, the code of one
record. `Sound` holds the types and `Working`: while a telegram is parsed, the
record is `dt_before` overwritten by the first `line_no` lines. `Newest` adds that the
record holds the newest of the values held so far, `Shows` that the registers did so at
their last write, `Agrees` that they and the topics of a faultless round show the same record.
`ActsAsGatewayTheorem` maps each action to a step of `Gateway` or to a stutter: `Parsed` is
`Learn` of the fields the telegram held before it broke off, `Working` says which.

**HpModbussRegs.** `IInv` adds the mutex (`LockInv`: the only caller in the loop holds
it, and only its update is unfinished), what the map holds during an update
(`RegistersInv`: a word has its last update among those that dealt with it), and that
what the server copied is at least the update complete when the query came and at most
the map's (`ReplyInv`, `AnswerInv`). Theorems: `TypeCorrect`, `SnapshotsAreWhole`,
`MapAndMapping`, `ClientValuesGo`, `RepliesAreCurrent` and `PollsMoveForward`.

**HpModbussServer.** `IInv` ties the position of each thread to the other's, to what is open and
to the locals. The central part says that while the server runs, `refset` is the
watched sockets and what is left in `rdset` still has something to read:
clients can only add to it, and only the thread takes it away. Theorems:
`TypeCorrect`, `RefsetTheorem`, `FdmaxTheorem`, `EndsTheorem`, `MappingTheorem`,
`NeverWaitsTheorem` and `OthersKeptTheorem`. `EndsTheorem` rests on the central part: the watched
sockets are open, so that `select` never meets a closed one while the server runs. `MappingTheorem` rests
on `ControlInv`: mapping and context are there from `start()` until the position between join and frees, where
there is no thread left; only the wait of the join leads there.

**HpMessageValidator.** No property is inductive: that the loop leaves a remainder says
nothing in the middle of a byte. `IInv` adds

- `MeterInv`: what is left of the meter's dividend differs from the telegram by a multiple of the generator,
  `Times(divided)`, and is zero in the places dealt with;
- `CrcInv`: after `i` bytes and `j` bits the register, moved to where the loop stands, differs from
  the bits dealt with by `Times(quotient)` (`Divided`);
- `DataInv`, `VerdictInv`: the data are the disturbed telegram up to its first `!`,
  `transmitted_crc` is what `Stoi` made of the text, and the verdict is their comparison;
- `LinesInv`: the lines cut so far are the data up to the next one.

`ShiftedMeans` shows that one shift of the register is one step of the division, with the
least significant bit as the highest exponent. `BurstsCorrect` follows from `TimesSpan`, a product
with the generator spans at least 17 places, or none (its first and last place cannot cancel), so that two
data that differ within 16 places cannot leave the same remainder, and from
`DivisionUnique`: if they do not differ, meter and loop leave the same one. `StoiHex` shows that
four digits are read as the number they were written from. `CrcTextCorrect` rests on `Denoted`:
a text splits in one longest way (`SplitUnique`, `SplitExists`), which is the way `Stoi` goes.
TLC checked `IInv` on a small instance before the proof.

**HpEncoding.** The only invariant is the range of the inputs. `BitLengthIs` characterises the number
of binary digits, `WattsBounds` turns the two roundings and the truncation into bounds on a quotient,
`AsFloatNear` and `AsFloatGrows` follow a count across a power of two. `WordsTheorem`: the two
words of every 32-bit number. `ListsComplete` goes through the pieces of `make_regs` and of
`publishIndividualFields`: a field is in exactly one piece (`PiecesOnce`), there once, and a
concatenation holds once what one of its parts holds once (`ConcatOnce`, `FourPieces`).

**HpConfig.** `ConfigInv` says that the current section is the one the next line belongs to, that what is
kept is said, and that every pair read is kept. Most of the proof is about a line: `Inked` is the
stretch between its blanks, `TrimsToTrim` shows that `Trim` is what `TrimsTo` describes,
`AssignsIs`, `CutIs` and `PairIs` that the branches of the code tell a line as `CommentLine`, `Bracketed` and
`Pair` do, although they look at the trimmed line and the definitions at the whole one.

Only model-checked: liveness (`CallReturns`, `AcceptedIsExposed`, `QueriesAnswered`,
`StopReturns`), which the prover does not handle. Every invariant and every action property
that a run checks is also a theorem.

## 5. Not modelled

- `disconnect` and the destructor of the publisher: main's loop has no end, a signal ends
  the process without them. The last will acts in the broker only; the code never
  publishes on its topic, so that the retained "offline" stays after a reconnect.
- What the client library does after a first `connect` that failed: it is not part of the
  repository, and `HanportMain` allows both.
- `start()` after `stop()` in view of the registers: the new mapping starts with zeros while
  the map keeps its values (hpModbuss.cpp:75) until the next update. main starts the
  server once. `modbus_free` and the mapping's memory are abstracted to `mb_mapping`.
- Powers beyond a telegram's four digits of kilowatts, whose cast to an int (hpModbuss.cpp:259)
  is undefined from 2^31 W on, and `stof`'s other inputs, such as `nan`.
- `HanportMain` and `HpSerialRead` in one module: `hpRead` keeps nothing between calls but the
  position in the line, and `HpSerialRead` shows that it returns whole telegrams; the
  registers are likewise summarised by `mapping`, whose word-wise view is `HpModbussRegs`.
- Shell scripts, packaging and bundled libraries (no state of the program),
  `hpLogger.cpp` and `parse_time` (never used), log texts, file permissions, the hardening
  options of the unit.
