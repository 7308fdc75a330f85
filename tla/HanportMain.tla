----------------------------- MODULE HanportMain ----------------------------
(***************************************************************************)
(* The gateway process of src/src/main.cpp: start-up, and the loop that    *)
(* reads a telegram, validates it, parses it into the hpData object,       *)
(* publishes every field to MQTT and copies all of them into the Modbus    *)
(* registers.  The process may die at any point and systemd restarts it.   *)
(*                                                                         *)
(* Parsing is the component HpDataParser.  hpRead() is reduced to what     *)
(* HpSerialRead shows of it: a blocking call that returns one telegram.    *)
(* A publish waits for the broker's answer without a limit, and the link   *)
(* may drop before, while and after it does; make_regs and the copy under  *)
(* the mutex are one step.                                                 *)
(*                                                                         *)
(* The values a telegram carries are its number, counted from the first    *)
(* start on: a value says which telegram it comes from, and 0 is the       *)
(* initial value of hpData's members.                                      *)
(***************************************************************************)
EXTENDS Naturals, Sequences, FiniteSetsExt

CONSTANTS
  Code, Field, FieldOf,  \* the OBIS code table, as in HpDataParser
  Topics,       \* the fields in the order publishIndividualFields sends them
  Heartbeat,    \* the counter's topic and registers
  Malformed,    \* a value set_value() cannot read
  Shapes,       \* the telegrams the meter may send: sequences of lines, a
                \* well-formed data line carrying the value TRUE
  Nothing,      \* a topic nothing was published on, absent registers
  MaxReceived,  \* model bound: telegrams the meter sends
  MaxRestarts   \* model bound: restarts of the service

ASSUME TopicAssumption ==
  /\ FieldOf \in [Code -> Field] /\ Heartbeat \notin Field
  /\ Topics \in Seq(Field \cup {Heartbeat})
ASSUME ShapeAssumption ==
  /\ Malformed \notin Nat /\ Malformed # TRUE
  /\ Shapes \subseteq
       Seq([kind : {"no_dash", "clock", "unknown"}]
             \cup [kind : {"data"}, obis : Code, value : {TRUE, Malformed}])
ASSUME BoundAssumption == MaxReceived \in Nat /\ MaxRestarts \in Nat

Exposed == Field \cup {Heartbeat}

VARIABLES
  pc,           \* where main is, "down" when no process runs
  heartbeat,    \* the loop counter and data_obj.heartbeat
  data_obj,     \* the measured fields of the hpData object
  raw_hp_message,  \* the telegram hpRead returned: [valid, lines]
  message_array, line_no, outcome, dt_before, telegrams,  \* the parser's
  connected,    \* client_->is_connected()
  topic_no,     \* how many topics this round has dealt with
  allSuccess,   \* no publish of the last round failed
  mapping,      \* the holding registers, Nothing while no server runs
  seen,         \* the last value a subscriber got on each topic
  received,     \* history: telegrams the meter sent
  log,          \* history: the telegrams this process got, oldest first
  restarts      \* how often systemd restarted the service

parser == <<message_array, line_no, outcome, dt_before, telegrams>>
mqtt == <<connected, topic_no, allSuccess, seen>>
history == <<received, log, restarts>>
vars == <<pc, heartbeat, data_obj, raw_hp_message, parser, mqtt, mapping,
          history>>

Parser == INSTANCE HpDataParser
            WITH Value <- 0..MaxReceived, Zero <- 0, i <- line_no,
                 dt_obj <- data_obj, Telegrams <- {},
                 MaxTelegrams <- MaxReceived

\* The registers that make_regs builds, and the payloads of the topics.
Current == [x \in Exposed |-> IF x = Heartbeat THEN heartbeat ELSE data_obj[x]]

Init ==
  /\ pc = "start" /\ heartbeat = 0 /\ Parser!Init
  /\ raw_hp_message = Nothing
  /\ connected = FALSE /\ topic_no = 0 /\ allSuccess = FALSE
  /\ mapping = Nothing /\ seen = [x \in Exposed |-> Nothing]
  /\ received = 0 /\ log = <<>> /\ restarts = 0

-----------------------------------------------------------------------------
(* Start-up.                                                               *)

\* The process ends: return 1, an uncaught exception, a signal.  Its
\* sockets close with it.
Die ==
  /\ pc' = "down"
  /\ mapping' = Nothing /\ connected' = FALSE
  /\ UNCHANGED <<heartbeat, data_obj, raw_hp_message, parser, topic_no,
                 allSuccess, seen, history>>

\* A new process, whose counter starts at the given number.
RestartAt(count) ==
  /\ pc = "down" /\ restarts < MaxRestarts
  /\ restarts' = restarts + 1
  /\ pc' = "start"
  /\ heartbeat' = count /\ data_obj' = [f \in Field |-> 0]
  /\ raw_hp_message' = Nothing
  /\ message_array' = <<>> /\ line_no' = 0 /\ outcome' = "idle"
  /\ dt_before' = data_obj'
  /\ topic_no' = 0 /\ allSuccess' = FALSE
  /\ log' = <<>>
  /\ UNCHANGED <<telegrams, connected, mapping, seen, received>>

\* Faulty variant: the counter goes on where the last process left it.
RestartKeepsHeartbeat == RestartAt(heartbeat)
\* systemd: Restart=always.
Restart == RestartAt(0)

Goto(from, to) == pc = from /\ pc' = to
Data == <<heartbeat, data_obj, raw_hp_message, parser, history>>

LoadConfig == Goto("start", "mqtt") /\ UNCHANGED <<Data, mqtt, mapping>>
\* No configuration, or no log file (the logger throws).
LoadConfigFails == pc = "start" /\ Die

\* connect() waits for the broker or for the client library to give up; it
\* may fail, and main goes on without.
MqttConnect ==
  /\ Goto("mqtt", "modbus")
  /\ connected' \in BOOLEAN
  /\ UNCHANGED <<Data, topic_no, allSuccess, seen, mapping>>

\* The constructor of the client rethrows, and nothing catches it.
MqttThrows == pc = "mqtt" /\ Die

\* start(): a mapping of zeros, or an exception that main logs.
ModbusStart ==
  /\ Goto("modbus", "serial")
  /\ mapping' \in {[x \in Exposed |-> 0], Nothing}
  /\ UNCHANGED <<Data, mqtt>>

\* std::stoi throws on a port that is not a number.
PortThrows == pc = "modbus" /\ Die

OpenPort == Goto("serial", "init") /\ UNCHANGED <<Data, mqtt, mapping>>
OpenPortThrows == pc = "serial" /\ Die

\* set_from_hpData writes into the mapping if there is one.
SetFromHpData == mapping' = IF mapping = Nothing THEN Nothing ELSE Current

InitRegisters ==
  /\ Goto("init", "loop")
  /\ SetFromHpData
  /\ UNCHANGED <<Data, mqtt>>

-----------------------------------------------------------------------------
(* The loop.                                                               *)

Tick ==
  /\ Goto("loop", "hpRead")
  /\ heartbeat' = heartbeat + 1
  /\ UNCHANGED <<data_obj, raw_hp_message, parser, mqtt, mapping, history>>

\* The lines of telegram number n of the given shape.
Stamped(shape, n) ==
  [k \in 1..Len(shape) |->
     IF shape[k].kind = "data" /\ shape[k].value # Malformed
       THEN [shape[k] EXCEPT !.value = n] ELSE shape[k]]

\* hpRead blocks until the meter has sent a telegram.  It is valid if the
\* constructor of the validator does not throw and the two CRCs agree.
HpRead(shape, valid) ==
  /\ Goto("hpRead", "validate")
  /\ received < MaxReceived
  /\ received' = received + 1
  /\ raw_hp_message' = [valid |-> valid, lines |-> Stamped(shape, received + 1)]
  /\ UNCHANGED <<heartbeat, data_obj, parser, mqtt, mapping, log, restarts>>

\* The validator throws or main does, and the loop starts over.
Reject ==
  /\ Goto("validate", "loop")
  /\ ~raw_hp_message.valid
  /\ log' = Append(log, raw_hp_message)
  /\ UNCHANGED <<heartbeat, data_obj, raw_hp_message, parser, mqtt, mapping,
                 received, restarts>>

AcceptIf(valid) ==
  /\ Goto("validate", "parse")
  /\ valid
  /\ Parser!Construct(raw_hp_message.lines)
  /\ log' = Append(log, raw_hp_message)
  /\ UNCHANGED <<heartbeat, raw_hp_message, mqtt, mapping, received, restarts>>

\* Faulty variant: a CRC mismatch is logged and the telegram parsed.
AcceptAnything == AcceptIf(TRUE)
Accept == AcceptIf(raw_hp_message.valid)

Parse ==
  /\ pc = "parse" /\ Parser!ParseStep
  /\ UNCHANGED <<pc, heartbeat, raw_hp_message, mqtt, mapping, history>>

\* parse_message returned or threw: either way main clears the telegram and
\* goes on to publish what data_obj holds.
Parsed ==
  /\ Goto("parse", "publish")
  /\ Parser!Leave
  /\ raw_hp_message' = Nothing
  /\ topic_no' = 0 /\ allSuccess' = TRUE
  /\ UNCHANGED <<heartbeat, connected, mapping, seen, history>>

\* publish() of the next topic returns.
topic == Topics[topic_no + 1]
Publishing(from) ==
  /\ Goto(from, "publish") /\ topic_no < Len(Topics)
  /\ topic_no' = topic_no + 1
  /\ UNCHANGED <<Data, connected, mapping>>

\* Faulty variant: publish() waits for the link.
PublishWaits ==
  /\ pc = "publish" /\ topic_no < Len(Topics) /\ ~connected
  /\ UNCHANGED vars

\* isConnected() is false.
PublishSkipped ==
  /\ Publishing("publish") /\ ~connected
  /\ allSuccess' = FALSE
  /\ UNCHANGED seen

\* The client takes the message, and main waits for the token ...
PublishSends ==
  /\ Goto("publish", "wait") /\ topic_no < Len(Topics) /\ connected
  /\ UNCHANGED <<Data, mqtt, mapping>>

\* ... or the client throws at once.
PublishRefused ==
  /\ Publishing("publish") /\ connected
  /\ allSuccess' = FALSE
  /\ UNCHANGED seen

\* The broker hands the message on, perhaps only when the link is lost.
Delivered == seen' = [seen EXCEPT ![topic] = Current[topic]]
Deliver ==
  /\ pc \in {"wait", "failed"} /\ topic_no < Len(Topics)
  /\ Delivered
  /\ UNCHANGED <<pc, Data, connected, topic_no, allSuccess, mapping>>

\* Faulty variant: the result of the last topic is the result of all.
PublishAckedForgives == Publishing("wait") /\ Delivered /\ allSuccess' = TRUE

\* tok->wait() returns: the broker acknowledged the message.
PublishAcked == Publishing("wait") /\ Delivered /\ UNCHANGED allSuccess

\* tok->wait() throws.
PublishThrows ==
  /\ Publishing("failed")
  /\ allSuccess' = FALSE
  /\ UNCHANGED seen

\* publishAllData returns and main logs "Data published successfully".
PublishDone ==
  /\ Goto("publish", "write") /\ topic_no = Len(Topics)
  /\ UNCHANGED <<Data, mqtt, mapping>>

\* Faulty variant: registers that hold a value are not overwritten.
WriteRegistersOnce ==
  /\ Goto("write", "loop")
  /\ mapping' = IF mapping = Nothing THEN Nothing
                ELSE [x \in Exposed |-> IF mapping[x] = 0 THEN Current[x]
                                                          ELSE mapping[x]]
  /\ UNCHANGED <<Data, mqtt>>

WriteRegisters ==
  /\ Goto("write", "loop")
  /\ SetFromHpData
  /\ UNCHANGED <<Data, mqtt>>

-----------------------------------------------------------------------------
(* The surroundings.                                                       *)

\* With the connection the client gives up the token that main waits for.
LinkDrop ==
  /\ connected
  /\ connected' = FALSE
  /\ pc' = IF pc = "wait" THEN "failed" ELSE pc
  /\ UNCHANGED <<Data, topic_no, allSuccess, seen, mapping>>

\* set_automatic_reconnect(true): the client library reconnects by itself.
Reconnect ==
  /\ ~connected /\ pc \notin {"down", "start", "mqtt"}
  /\ connected' = TRUE
  /\ UNCHANGED <<pc, Data, topic_no, allSuccess, seen, mapping>>

Kill == pc # "down" /\ Die

-----------------------------------------------------------------------------
StartUp == LoadConfig \/ ModbusStart \/ OpenPort \/ InitRegisters
StartUpFails ==
  LoadConfigFails \/ MqttThrows \/ PortThrows \/ OpenPortThrows
Publish ==
  \/ PublishSkipped \/ PublishSends \/ PublishRefused \/ PublishThrows
  \/ PublishDone
Loop == Tick \/ Reject \/ Accept \/ Parse \/ Parsed \/ Publish \/ WriteRegisters
Broker == MqttConnect \/ Deliver \/ PublishAcked

Next ==
  \/ StartUp \/ StartUpFails \/ Loop
  \/ \E shape \in Shapes, valid \in BOOLEAN : HpRead(shape, valid)
  \/ Broker \/ LinkDrop \/ Reconnect \/ Kill \/ Restart

Spec == Init /\ [][Next]_vars

\* The main thread is scheduled.  Nothing makes the meter send, nor the
\* broker answer: neither wait has a timeout.
FairSpec == Spec /\ WF_vars(StartUp \/ Loop)

-----------------------------------------------------------------------------
(* Properties.                                                             *)

TypeOK ==
  /\ pc \in {"down", "start", "mqtt", "modbus", "serial", "init", "loop",
             "hpRead", "validate", "parse", "publish", "wait", "failed",
             "write"}
  /\ heartbeat \in 0..MaxReceived + 1
  /\ data_obj \in [Field -> 0..MaxReceived]
  /\ connected \in BOOLEAN /\ allSuccess \in BOOLEAN
  /\ topic_no \in 0..Len(Topics)
  /\ mapping # Nothing => mapping \in [Exposed -> 0..MaxReceived + 1]
  /\ \A x \in Exposed : seen[x] # Nothing => seen[x] \in 0..MaxReceived + 1

\* The values that the telegrams of this process hold for field f: those of
\* the lines of f in front of a telegram's first malformed line.
HeldBy(t, f) ==
  {t.lines[k].value : k \in
     {k \in 1..Len(t.lines) :
        /\ t.lines[k].kind = "data" /\ FieldOf[t.lines[k].obis] = f
        /\ \A m \in 1..k : ~Parser!IsMalformed(t.lines[m])}}
Held(f) ==
  UNION {HeldBy(log[n], f) : n \in {n \in 1..Len(log) : log[n].valid}}

\* The newest of them, 0 before there is one.
LastKnown(f) == Max(Held(f) \cup {0})

\* Between two rounds of the loop every register holds the last known value
\* of its field: the newest readable one of a telegram with a correct CRC,
\* whatever was rejected or broke off since (main.cpp:127-185).
RegistersLastKnown ==
  pc \in {"loop", "hpRead", "validate"} /\ mapping # Nothing =>
    \A f \in Field : mapping[f] = LastKnown(f)

\* Whatever a subscriber receives is the last known value of its field at
\* that moment; only after a restart can it fall back, to 0, and stays there
\* only while no telegram of the new process held the field.
PublishesLastKnown ==
  [][\A f \in Field : seen'[f] # seen[f] =>
       /\ seen'[f] = LastKnown(f)
       /\ seen[f] = Nothing \/ seen'[f] > seen[f] \/ Held(f) = {}]_vars

\* After a round in which every publish was acknowledged, MQTT and Modbus
\* tell the same, the heartbeat included, until the next round writes.
ChannelsAgree ==
  /\ pc \in {"loop", "hpRead", "validate"}
  /\ allSuccess /\ mapping # Nothing
  => \A x \in {Topics[k] : k \in 1..Len(Topics)} : seen[x] = mapping[x]

\* The broker holds the connection and owes main an acknowledgement.
Unanswered == pc = "wait" /\ connected

\* A telegram that passed the CRC check reaches the registers, also when it
\* breaks off in a malformed line, when no broker is there and when the link
\* is lost in the middle of a publish.  What can keep it out for ever is a
\* broker that holds the connection and never acknowledges: publish() waits
\* for it without a timeout, in front of the register write
\* (hpMqttPub.cpp:119, main.cpp:174-181).
AcceptedIsExposed ==
  \A n \in 1..MaxReceived :
    (pc = "parse" /\ heartbeat = n) ~>
      \/ pc = "down"
      \/ pc = "loop" /\ heartbeat = n
           /\ (mapping = Nothing \/ mapping[Heartbeat] = n)
      \/ []Unanswered

\* What a gateway is to do, with its readers in view: see Gateway.  The
\* telegram in work is known once it is parsed, as far as that went.
Known == IF pc = "parse" THEN dt_before
         ELSE IF pc = "down" THEN [f \in Field |-> 0] ELSE data_obj
Box == INSTANCE Gateway
         WITH known <- Known, beat <- IF pc = "down" THEN 0 ELSE heartbeat,
              offered <- pc \in {"validate", "parse"} /\ raw_hp_message.valid,
              heard <- received, registers <- mapping, topics <- seen

\* The process is such a gateway: its readers never see a telegram half
\* parsed, twice, or one that failed its check (main.cpp:121-186).
ActsAsGateway == Box!Spec

-----------------------------------------------------------------------------
(* What the comments and the log say.                                      *)

\* main.cpp:125: "always expose heartbeat even if no serial message arrives".
\* A broker that owes an answer for ever is no part of it.
HeartbeatWithoutMessage ==
  \A n \in 1..MaxReceived :
    heartbeat = n ~>
      \/ pc = "down" \/ mapping = Nothing \/ mapping[Heartbeat] >= n
      \/ []Unanswered

\* main.cpp:175: "Data published successfully to MQTT".
LoggedSuccessIsTrue == [][pc = "publish" /\ pc' = "write" => allSuccess]_vars
=============================================================================
