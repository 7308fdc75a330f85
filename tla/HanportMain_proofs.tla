-------------------------- MODULE HanportMain_proofs ------------------------
(***************************************************************************)
(* Proofs about the process of main.cpp: the registers and topics carry    *)
(* the last known value of every field, MQTT and Modbus agree after a      *)
(* round without a failure, and the process implements Gateway, for every  *)
(* code table, every set of telegrams and any number of restarts.          *)
(*                                                                         *)
(* Sound relates the record to the telegram in work (Working), Newest the  *)
(* record to the telegrams of this process, Shows the readers' view to the *)
(* record.  Each is inductive relative to the ones before it.              *)
(***************************************************************************)
EXTENDS HanportMain, TLAPS

Places == {"down", "start", "mqtt", "modbus", "serial", "init", "loop",
           "hpRead", "validate", "parse", "publish", "wait", "failed", "write"}

SentLine(n) ==
  [kind : {"no_dash", "clock", "unknown"}]
    \cup [kind : {"data"}, obis : Code, value : {n, Malformed}]
Sent(n) == [valid : BOOLEAN, lines : Seq(SentLine(n))]

Writes(f, n) ==
  \E k \in 1..n : /\ message_array[k].kind = "data"
                  /\ FieldOf[message_array[k].obis] = f

\* The telegram in work: the record is the one before it with the first
\* line_no lines applied, none of them malformed.
Working ==
  /\ raw_hp_message.valid = TRUE /\ message_array = raw_hp_message.lines
  /\ line_no \in 0..Len(message_array)
  /\ outcome \in {"parsing", "parsed", "thrown"}
  /\ \A k \in 1..line_no : ~Parser!IsMalformed(message_array[k])
  /\ data_obj =
       [f \in Field |-> IF Writes(f, line_no) THEN received ELSE dt_before[f]]
  /\ outcome = "parsed" => line_no = Len(message_array)
  /\ outcome = "thrown" =>
       \/ line_no = Len(message_array)
       \/ line_no < Len(message_array)
            /\ Parser!IsMalformed(message_array[line_no + 1])
  /\ Len(log) > 0 /\ log[Len(log)] = raw_hp_message

SeenSound ==
  /\ seen = [x \in Exposed |-> seen[x]]
  /\ \A x \in Exposed : seen[x] # Nothing => seen[x] \in 0..received + 1
  /\ \A f \in Field : seen[f] # Nothing => seen[f] \in 0..received

Sound ==
  /\ pc \in Places
  /\ received \in 0..MaxReceived
  /\ heartbeat \in 0..received + 1
  /\ pc \notin {"hpRead", "down"} => heartbeat <= received
  /\ data_obj \in [Field -> 0..received] /\ dt_before \in [Field -> 0..received]
  /\ connected \in BOOLEAN /\ allSuccess \in BOOLEAN
  /\ topic_no \in 0..Len(Topics)
  /\ mapping # Nothing => mapping \in [Exposed -> 0..received + 1]
  /\ SeenSound
  /\ pc \in {"validate", "parse"} =>
       received > 0 /\ raw_hp_message \in Sent(received)
  /\ log \in Seq(UNION {Sent(n) : n \in 1..received})
  /\ pc = "parse" => Working

-----------------------------------------------------------------------------
LEMMA CurrentType ==
  ASSUME Sound
  PROVE  /\ Current \in [Exposed -> 0..received + 1]
         /\ \A f \in Field : Current[f] = data_obj[f] /\ Current[f] \in 0..received
BY TopicAssumption DEF Sound, Current, Exposed

LEMMA SoundInit == Init => Sound
<1> SUFFICES ASSUME Init PROVE Sound
  OBVIOUS
<1>1. data_obj = [f \in Field |-> 0] /\ dt_before = data_obj
  BY DEF Init, Parser!Init
<1>2. SeenSound
  BY TopicAssumption DEF Init, SeenSound, Exposed
<1>3. log \in Seq(UNION {Sent(n) : n \in 1..received})
  BY DEF Init
<1>4. 0 \in 0..Len(Topics) /\ 0 \in 0..MaxReceived
  BY TopicAssumption, BoundAssumption
<1>5. connected \in BOOLEAN /\ allSuccess \in BOOLEAN
  BY DEF Init
<1>6. /\ pc = "start" /\ received = 0 /\ heartbeat = 0 /\ topic_no = 0
      /\ mapping = Nothing
  BY DEF Init
<1> QED
  BY <1>1, <1>2, <1>3, <1>4, <1>5, <1>6 DEF Sound, Places

\* The lines of a shape become lines that carry the telegram's number.
LEMMA StampedLines ==
  ASSUME NEW shape \in Shapes, NEW n \in Nat
  PROVE  Stamped(shape, n) \in Seq(SentLine(n))
<1> DEFINE L == [kind : {"no_dash", "clock", "unknown"}]
             \cup [kind : {"data"}, obis : Code, value : {TRUE, Malformed}]
<1>1. shape \in Seq(L)
  BY ShapeAssumption
<1>2. ASSUME NEW k \in 1..Len(shape)
      PROVE  Stamped(shape, n)[k] \in SentLine(n)
  <2>1. shape[k] \in L
    <3> HIDE DEF L
    <3> QED
      BY <1>1
  <2>2. Stamped(shape, n)[k] =
          IF shape[k].kind = "data" /\ shape[k].value # Malformed
            THEN [shape[k] EXCEPT !.value = n] ELSE shape[k]
    BY DEF Stamped
  <2>3. CASE shape[k] \in [kind : {"no_dash", "clock", "unknown"}]
    BY <2>2, <2>3 DEF SentLine
  <2>4. CASE shape[k] \in
               [kind : {"data"}, obis : Code, value : {TRUE, Malformed}]
    BY <2>2, <2>4 DEF SentLine
  <2> QED
    BY <2>1, <2>3, <2>4
<1>3. Len(shape) \in Nat
  BY <1>1
<1> QED
  BY <1>2, <1>3 DEF Stamped

\* Steps that leave the process's data alone.
Publishes == PublishSkipped \/ PublishRefused \/ PublishAcked \/ PublishThrows
Away == LoadConfig \/ MqttConnect \/ ModbusStart \/ OpenPort \/ InitRegisters
          \/ Publishes \/ PublishSends \/ Deliver \/ PublishDone
          \/ WriteRegisters \/ LinkDrop \/ Reconnect

\* Steps by which subscribers get a message.
Delivers == PublishAcked \/ Deliver

LEMMA NextCases ==
  ASSUME Next
  PROVE  Away \/ Die \/ Restart \/ Tick \/ Reject \/ Accept \/ Parse \/ Parsed
           \/ \E shape \in Shapes, valid \in BOOLEAN : HpRead(shape, valid)
BY DEF Next, StartUp, StartUpFails, Loop, Publish, Broker, Away,
       Publishes, LoadConfigFails, MqttThrows, PortThrows, OpenPortThrows, Kill

-----------------------------------------------------------------------------
(* Sound is preserved.                                                     *)

\* What the steps do to received and seen.
LEMMA AwayKeepsData == ASSUME Away PROVE UNCHANGED Data
BY DEF Away, Publishes, LoadConfig, MqttConnect, ModbusStart, OpenPort,
     InitRegisters, PublishSkipped, PublishSends, PublishRefused,
     PublishAcked, PublishThrows, Deliver, PublishDone, Publishing, Goto,
     WriteRegisters, LinkDrop, Reconnect

LEMMA DeliversTopic ==
  ASSUME Delivers
  PROVE  /\ Away /\ Delivered /\ pc \in {"wait", "failed"}
         /\ topic_no < Len(Topics) /\ mapping' = mapping
BY DEF Delivers, Away, Publishes, PublishAcked, Deliver, Publishing, Goto

LEMMA SeenSteps ==
  ASSUME Next
  PROVE  seen' = seen \/ Delivers
<1>1. CASE Away
  BY <1>1 DEF Away, Publishes, LoadConfig, MqttConnect, ModbusStart, OpenPort,
       InitRegisters, PublishSkipped, PublishSends, PublishRefused,
       PublishThrows, PublishDone, Delivers, WriteRegisters, LinkDrop,
       Reconnect, mqtt
<1>2. CASE Die \/ Restart \/ Tick \/ Reject \/ Accept \/ Parse \/ Parsed
  BY <1>2 DEF Die, Restart, RestartAt, Tick, Reject, Accept, AcceptIf, Parse,
       Parsed, mqtt
<1>3. CASE \E shape \in Shapes, valid \in BOOLEAN : HpRead(shape, valid)
  BY <1>3 DEF HpRead, mqtt
<1> QED
  BY <1>1, <1>2, <1>3, NextCases

LEMMA ReceivedSteps ==
  ASSUME Next
  PROVE  received' = received \/ received' = received + 1
<1>1. CASE Away
  BY <1>1, AwayKeepsData DEF Data, history
<1>2. CASE Die \/ Restart \/ Tick \/ Reject \/ Accept \/ Parse \/ Parsed
  BY <1>2 DEF Die, Restart, RestartAt, Tick, Reject, Accept, AcceptIf, Parse,
       Parsed, history
<1>3. CASE \E shape \in Shapes, valid \in BOOLEAN : HpRead(shape, valid)
  BY <1>3 DEF HpRead
<1> QED
  BY <1>1, <1>2, <1>3, NextCases

LEMMA SeenKept ==
  ASSUME Sound, Next
  PROVE  SeenSound'
<1>1. received \in Nat /\ received' \in Nat /\ received <= received'
  BY ReceivedSteps, BoundAssumption DEF Sound
<1>2. CASE seen' = seen
  <2>1. seen' = [x \in Exposed |-> seen'[x]]
    BY <1>2 DEF Sound, SeenSound
  <2>2. \A n \in 0..received : n \in 0..received'
    BY <1>1
  <2>3. \A a, b \in Nat : a <= b => 0..a + 1 \subseteq 0..b + 1
    OBVIOUS
  <2> QED
    BY <1>1, <1>2, <2>1, <2>2, <2>3 DEF Sound, SeenSound
<1>3. CASE Delivers
  <2>1. topic \in Exposed
    BY <1>3, DeliversTopic, TopicAssumption DEF topic, Exposed, Sound
  <2>2. seen' = [seen EXCEPT ![topic] = Current[topic]] /\ received' = received
    BY <1>3, DeliversTopic, AwayKeepsData DEF Delivered, Data, history
  <2>3. seen' = [x \in Exposed |-> IF x = topic THEN Current[x] ELSE seen[x]]
    BY <2>1, <2>2 DEF Sound, SeenSound
  <2>4. \A x \in Exposed : Current[x] \in 0..received + 1
    BY CurrentType
  <2>5. \A f \in Field : Current[f] \in 0..received /\ f \in Exposed
    BY CurrentType DEF Exposed
  <2> QED
    BY <2>2, <2>3, <2>4, <2>5 DEF Sound, SeenSound
<1> QED
  BY <1>2, <1>3, SeenSteps

LEMMA AwayPlaces ==
  ASSUME Away
  PROVE  \/ pc' = pc
         \/ /\ pc' \in Places \ {"hpRead", "down", "validate", "parse"}
            /\ pc \notin {"hpRead", "down", "validate", "parse"}
BY DEF Away, Publishes, LoadConfig, MqttConnect, ModbusStart, OpenPort,
     InitRegisters, PublishSkipped, PublishSends, PublishRefused,
     PublishAcked, PublishThrows, Deliver, PublishDone, Publishing, Goto,
     WriteRegisters, LinkDrop, Reconnect, Goto, Places

\* Steps that do not touch the process's data.
LEMMA SoundAway == ASSUME Sound, Away, Next PROVE Sound'
<1>1. UNCHANGED Data /\ UNCHANGED dt_before /\ UNCHANGED log
  BY AwayKeepsData DEF Data, parser, history
<1>2. \/ pc' = pc
      \/ /\ pc' \in Places \ {"hpRead", "down", "validate", "parse"}
         /\ pc \notin {"hpRead", "down", "validate", "parse"}
  BY AwayPlaces
<1>3. connected' \in BOOLEAN /\ allSuccess' \in BOOLEAN
  BY DEF Sound, Away, Publishes, LoadConfig, MqttConnect, ModbusStart,
       OpenPort, InitRegisters, PublishSkipped, PublishSends, PublishRefused,
       PublishAcked, PublishThrows, Deliver, PublishDone, Publishing, Goto,
       WriteRegisters, LinkDrop, Reconnect, mqtt
<1>4. topic_no' \in 0..Len(Topics)
  BY TopicAssumption DEF Sound, Away, Publishes, LoadConfig, MqttConnect,
       ModbusStart, OpenPort, InitRegisters, PublishSkipped, PublishSends,
       PublishRefused, PublishAcked, PublishThrows, Deliver, PublishDone,
       Publishing, Goto, WriteRegisters, LinkDrop, Reconnect, mqtt
<1>5. mapping' = mapping \/ mapping' = Nothing \/ mapping' = Current
        \/ mapping' = [x \in Exposed |-> 0]
  BY DEF Away, Publishes, LoadConfig, MqttConnect, ModbusStart, OpenPort,
       InitRegisters, PublishSkipped, PublishSends, PublishRefused,
       PublishAcked, PublishThrows, Deliver, PublishDone, Publishing, Goto,
       WriteRegisters, LinkDrop, Reconnect, SetFromHpData
<1>6. mapping' # Nothing => mapping' \in [Exposed -> 0..received + 1]
  BY <1>5, CurrentType, BoundAssumption DEF Sound
<1>7. Working /\ pc' = pc /\ pc = "parse" => Working'
  BY <1>1 DEF Working, Writes, Data, parser, history
<1>8. /\ received' = received /\ heartbeat' = heartbeat /\ data_obj' = data_obj
      /\ raw_hp_message' = raw_hp_message
  BY <1>1 DEF Data, history
<1> QED
  BY <1>1, <1>2, <1>3, <1>4, <1>6, <1>7, <1>8, SeenKept DEF Sound, Places

LEMMA SoundDown == ASSUME Sound, Die \/ Restart, Next PROVE Sound'
<1>1. CASE Die
  BY <1>1, SeenKept DEF Die, Sound, Places, parser, history
<1>2. CASE Restart
  <2>1. data_obj' = [f \in Field |-> 0] /\ dt_before' = data_obj'
    BY <1>2 DEF Restart, RestartAt
  <2>2. data_obj' \in [Field -> 0..received] /\ dt_before' \in [Field -> 0..received]
    BY <2>1, BoundAssumption DEF Sound
  <2>3. connected' \in BOOLEAN /\ allSuccess' \in BOOLEAN
    BY <1>2 DEF Restart, RestartAt, Sound
  <2>4. /\ pc' = "start" /\ received' = received /\ heartbeat' = 0
        /\ topic_no' = 0 /\ mapping' = mapping /\ log' = <<>>
    BY <1>2 DEF Restart, RestartAt
  <2>5. 0 \in 0..received + 1 /\ 0 \in 0..Len(Topics) /\ 0 <= received
    BY BoundAssumption, TopicAssumption DEF Sound
  <2>6. log' \in Seq(UNION {Sent(n) : n \in 1..received})
    BY <2>4
  <2> QED
    BY <2>2, <2>3, <2>4, <2>5, <2>6, SeenKept DEF Sound, Places
<1> QED
  BY <1>1, <1>2

LEMMA SoundLoop == ASSUME Sound, Tick \/ Reject \/ Parsed, Next PROVE Sound'
<1>1. CASE Tick
  BY <1>1, SeenKept, BoundAssumption
     DEF Tick, Goto, Sound, Places, parser, mqtt, history
<1>2. CASE Reject
  <2>1. log' \in Seq(UNION {Sent(n) : n \in 1..received})
    BY <1>2 DEF Reject, Goto, Sound
  <2> QED
    BY <1>2, <2>1, SeenKept DEF Reject, Goto, Sound, Places, parser, mqtt
<1>3. CASE Parsed
  <2>1. allSuccess' \in BOOLEAN /\ connected' \in BOOLEAN
    BY <1>3 DEF Parsed, Sound
  <2>2. topic_no' \in 0..Len(Topics)
    BY <1>3, TopicAssumption DEF Parsed
  <2> QED
    BY <1>3, <2>1, <2>2, SeenKept
       DEF Parsed, Goto, Sound, Places, Parser!Leave, history
<1> QED
  BY <1>1, <1>2, <1>3

LEMMA SoundRead ==
  ASSUME Sound, Next,
         NEW shape \in Shapes, NEW valid \in BOOLEAN, HpRead(shape, valid)
  PROVE  Sound'
<1>1. received' = received + 1 /\ received \in Nat /\ received' \in 0..MaxReceived
  BY BoundAssumption DEF HpRead, Sound
<1>2. raw_hp_message' \in Sent(received')
  <2>1. Stamped(shape, received + 1) \in Seq(SentLine(received + 1))
    BY <1>1, StampedLines
  <2>2. raw_hp_message' = [valid |-> valid, lines |-> Stamped(shape, received + 1)]
    BY DEF HpRead
  <2> QED
    BY <1>1, <2>1, <2>2 DEF Sent
<1>3. log' \in Seq(UNION {Sent(n) : n \in 1..received'})
  <2>1. UNION {Sent(n) : n \in 1..received}
          \subseteq UNION {Sent(n) : n \in 1..received'}
    BY <1>1
  <2>2. log' = log /\ log \in Seq(UNION {Sent(n) : n \in 1..received})
    BY DEF HpRead, Sound
  <2> DEFINE S == UNION {Sent(n) : n \in 1..received}
             T == UNION {Sent(n) : n \in 1..received'}
  <2> HIDE DEF S, T
  <2>3. S \subseteq T => (\A q \in Seq(S) : q \in Seq(T))
    OBVIOUS
  <2> QED
    BY <2>1, <2>2, <2>3 DEF S, T
<1>4. data_obj' \in [Field -> 0..received'] /\ dt_before' \in [Field -> 0..received']
  <2>1. \A n \in 0..received : n \in 0..received'
    BY <1>1
  <2> QED
    BY <2>1 DEF HpRead, Sound, parser
<1>5. mapping' # Nothing => mapping' \in [Exposed -> 0..received' + 1]
  <2>1. ASSUME NEW n \in 0..received + 1 PROVE n \in 0..received' + 1
    BY <1>1
  <2> QED
    BY <2>1 DEF HpRead, Sound
<1>6. /\ pc = "hpRead" /\ pc' = "validate" /\ heartbeat' = heartbeat
      /\ connected' = connected /\ allSuccess' = allSuccess
      /\ topic_no' = topic_no
  BY DEF HpRead, Goto, mqtt
<1>7. heartbeat' \in 0..received' + 1 /\ heartbeat' <= received'
  BY <1>1, <1>6 DEF Sound
<1> QED
  BY <1>1, <1>2, <1>3, <1>4, <1>5, <1>6, <1>7, SeenKept DEF Sound, Places

LEMMA SoundAccept == ASSUME Sound, Accept, Next PROVE Sound'
<1>1. /\ pc = "validate" /\ pc' = "parse" /\ raw_hp_message.valid
      /\ message_array' = raw_hp_message.lines /\ line_no' = 0
      /\ outcome' \in {"parsing", "thrown"}
      /\ outcome' = "thrown" => raw_hp_message.lines = <<>>
      /\ dt_before' = data_obj /\ data_obj' = data_obj
      /\ log' = Append(log, raw_hp_message) /\ raw_hp_message' = raw_hp_message
      /\ UNCHANGED <<heartbeat, received, connected, allSuccess, topic_no, mapping>>
  BY DEF Accept, AcceptIf, Goto, Parser!Construct, mqtt
<1>2. raw_hp_message \in Sent(received) /\ received \in 1..received
  BY <1>1, BoundAssumption DEF Sound
<1>3. log' \in Seq(UNION {Sent(n) : n \in 1..received})
  <2> DEFINE S == UNION {Sent(n) : n \in 1..received}
  <2>1. raw_hp_message \in S /\ log \in Seq(S)
    BY <1>2 DEF Sound
  <2> HIDE DEF S
  <2>2. log' \in Seq(S)
    BY <1>1, <2>1
  <2> QED
    BY <2>2 DEF S
<1>4. Len(log') > 0 /\ log'[Len(log')] = raw_hp_message
  BY <1>1 DEF Sound
<1>5. raw_hp_message.valid = TRUE /\ raw_hp_message.lines \in Seq(SentLine(received))
  BY <1>1, <1>2 DEF Sent
<1>6. data_obj' = [f \in Field |-> IF Writes(f, line_no)' THEN received'
                                                        ELSE dt_before'[f]]
  BY <1>1 DEF Sound, Writes
<1>7. Working'
  BY <1>1, <1>4, <1>5, <1>6 DEF Working, Writes
<1> QED
  BY <1>1, <1>2, <1>3, <1>7, SeenKept DEF Sound, Places

LEMMA SoundParse == ASSUME Sound, Parse, Next PROVE Sound'
<1>1. /\ pc = "parse" /\ Working /\ Parser!ParseStep /\ received > 0
      /\ UNCHANGED <<pc, heartbeat, raw_hp_message, mqtt, mapping, history>>
      /\ raw_hp_message \in Sent(received)
  BY DEF Parse, Sound
<1>2. message_array' = message_array /\ dt_before' = dt_before
  BY <1>1 DEF Parser!ParseStep, Parser!SkipLine, Parser!ParseData,
       Parser!ParseThrows, Parser!ParseDone
<1>3. received \in Nat /\ received \in 0..received
  BY BoundAssumption DEF Sound
<1>4. message_array \in Seq(SentLine(received))
  BY <1>1 DEF Working, Sent
<1>5. CASE Parser!SkipLine \/ Parser!ParseData
  <2>1. /\ line_no \in Nat /\ line_no < Len(message_array) /\ line_no' = line_no + 1
        /\ outcome' = outcome /\ outcome = "parsing"
    BY <1>1, <1>4, <1>5
       DEF Parser!SkipLine, Parser!ParseData, Parser!Parsing, Working
  <2> DEFINE l == message_array[line_no + 1]
  <2>2. l \in SentLine(received) /\ Parser!line = l
    BY <1>4, <2>1 DEF Parser!line
  <2>3. ~Parser!IsMalformed(l)
    BY <1>5, <2>2 DEF Parser!SkipLine, Parser!ParseData, Parser!IsMalformed
  <2>4. \A f \in Field : Writes(f, line_no')
                           <=> Writes(f, line_no) \/ (/\ l.kind = "data"
                                                     /\ FieldOf[l.obis] = f)
    BY <2>1 DEF Writes
  <2>5. data_obj' = [f \in Field |-> IF Writes(f, line_no') THEN received
                                                           ELSE dt_before[f]]
    <3>1. CASE Parser!SkipLine
      BY <1>1, <2>2, <2>4, <3>1 DEF Working, Parser!SkipLine
    <3>2. CASE Parser!ParseData
      <4>1. l.kind = "data" /\ l.value = received /\ FieldOf[l.obis] \in Field
        BY <2>2, <3>2, TopicAssumption DEF Parser!ParseData, SentLine
      <4>2. data_obj' = [data_obj EXCEPT ![FieldOf[l.obis]] = received]
        BY <2>2, <3>2, <4>1 DEF Parser!ParseData
      <4>3. data_obj' = [f \in Field |-> IF f = FieldOf[l.obis] THEN received
                                                               ELSE data_obj[f]]
        BY <4>1, <4>2 DEF Sound
      <4> QED
        BY <1>1, <2>4, <4>1, <4>3 DEF Working
    <3> QED
      BY <1>5, <3>1, <3>2
  <2>6. data_obj' \in [Field -> 0..received]
    BY <1>3, <2>5 DEF Sound
  <2>7. Working'
    <3>1. \A k \in 1..line_no' : ~Parser!IsMalformed(message_array[k])
      BY <1>1, <2>1, <2>3 DEF Working
    <3>2. line_no' \in 0..Len(message_array)
      BY <1>4, <2>1
    <3>3. (\A f \in Field : Writes(f, line_no)' <=> Writes(f, line_no'))
      BY <1>2 DEF Writes
    <3>4. (\A k \in 1..line_no : ~Parser!IsMalformed(message_array[k]))'
      BY <1>2, <3>1 DEF Parser!IsMalformed
    <3>5. data_obj' = [f \in Field |-> IF Writes(f, line_no)' THEN received'
                                                             ELSE dt_before'[f]]
      BY <1>1, <1>2, <2>5, <3>3 DEF history
    <3> QED
      BY <1>1, <1>2, <2>1, <3>2, <3>4, <3>5 DEF Working, history
  <2> QED
    BY <1>1, <1>2, <1>3, <2>6, <2>7, SeenKept DEF Sound, mqtt, history
<1>6. CASE Parser!ParseThrows \/ Parser!ParseDone
  <2>1. data_obj' = data_obj /\ line_no' = line_no
    BY <1>6 DEF Parser!ParseThrows, Parser!ParseDone
  <2>2. /\ outcome' \in {"parsed", "thrown"}
        /\ outcome' = "parsed" => line_no = Len(message_array)
        /\ outcome' = "thrown" => /\ line_no < Len(message_array)
                                  /\ Parser!IsMalformed(message_array[line_no + 1])
    BY <1>6 DEF Parser!ParseThrows, Parser!ParseDone, Parser!Parsing,
         Parser!line, Parser!IsMalformed
  <2>3. Working'
    BY <1>1, <1>2, <2>1, <2>2 DEF Working, history, Writes, Parser!IsMalformed
  <2> QED
    BY <1>1, <1>2, <2>1, <2>3, SeenKept DEF Sound, mqtt, history
<1> QED
  BY <1>1, <1>5, <1>6 DEF Parser!ParseStep

LEMMA SoundStep == ASSUME Sound, [Next]_vars PROVE Sound'
<1>1. CASE UNCHANGED vars
  <2>1. Parser!IsMalformed(message_array[line_no + 1])' =
          Parser!IsMalformed(message_array[line_no + 1])
    BY <1>1 DEF vars, parser, Parser!IsMalformed
  <2>2. (\A k \in 1..line_no : ~Parser!IsMalformed(message_array[k]))' =
          (\A k \in 1..line_no : ~Parser!IsMalformed(message_array[k]))
    BY <1>1 DEF vars, parser, Parser!IsMalformed
  <2>3. Working' = Working
    BY <1>1, <2>1, <2>2 DEF vars, parser, history, Working, Writes
  <2> QED
    BY <1>1, <2>3 DEF vars, parser, mqtt, history, Sound, SeenSound
<1>2. CASE Next
  BY <1>2, NextCases, SoundAway, SoundDown, SoundLoop, SoundRead, SoundAccept,
     SoundParse
<1> QED
  BY <1>1, <1>2

\* The record, the telegram in work and the history fit together in every
\* reachable state (main.cpp:121-186).
THEOREM SoundInvariance == Spec => []Sound
<1> QED
  BY SoundInit, SoundStep, PTL DEF Spec

\* The process keeps its types: counter, record and what readers see never
\* run ahead of the telegrams received.
THEOREM TypeCorrect == Spec => []TypeOK
<1>1. Sound => TypeOK
  <2> SUFFICES ASSUME Sound PROVE TypeOK
    OBVIOUS
  <2>1. /\ received \in Nat /\ MaxReceived \in Nat /\ received <= MaxReceived
    BY BoundAssumption DEF Sound
  <2>2. \A a, b \in Nat : a <= b => 0..a + 1 \subseteq 0..b + 1 /\ 0..a \subseteq 0..b
    OBVIOUS
  <2>3. 0..received + 1 \subseteq 0..MaxReceived + 1
        /\ 0..received \subseteq 0..MaxReceived
    BY <2>1, <2>2
  <2>4. pc \in {"down", "start", "mqtt", "modbus", "serial", "init", "loop",
                "hpRead", "validate", "parse", "publish", "wait", "failed",
                "write"}
    BY DEF Sound, Places
  <2>5. data_obj \in [Field -> 0..MaxReceived]
    BY <2>3 DEF Sound
  <2>6. mapping # Nothing => mapping \in [Exposed -> 0..MaxReceived + 1]
    BY <2>3 DEF Sound
  <2>7. \A x \in Exposed : seen[x] # Nothing => seen[x] \in 0..MaxReceived + 1
    BY <2>3 DEF Sound, SeenSound
  <2> QED
    BY <2>3, <2>4, <2>5, <2>6, <2>7 DEF Sound, TypeOK
<1> QED
  BY <1>1, SoundInvariance, PTL

-----------------------------------------------------------------------------
(* The record holds the newest values.                                     *)

\* v is the newest value that a set holds, 0 if it holds none.
NewestOf(S, v) == v \in S \cup {0} /\ \A h \in S : h <= v

\* What the telegrams of this process held before the one in work.
HeldBefore(f) ==
  UNION {HeldBy(log[n], f) : n \in {n \in 1..Len(log) - 1 : log[n].valid}}

Newest ==
  /\ pc \notin {"down", "parse"} =>
       \A f \in Field : NewestOf(Held(f), data_obj[f])
  /\ pc = "parse" =>
       \A f \in Field : NewestOf(HeldBefore(f), dt_before[f])

LEMMA HeldByRange ==
  ASSUME NEW n \in Nat, NEW t \in Sent(n), NEW f, NEW v \in HeldBy(t, f)
  PROVE  v = n
<1>1. PICK k \in 1..Len(t.lines) :
        /\ t.lines[k].kind = "data" /\ ~Parser!IsMalformed(t.lines[k])
        /\ v = t.lines[k].value
  <2>1. PICK k \in 1..Len(t.lines) :
          /\ t.lines[k].kind = "data"
          /\ \A m \in 1..k : ~Parser!IsMalformed(t.lines[m])
          /\ v = t.lines[k].value
    BY DEF HeldBy
  <2>2. k \in 1..k
    OBVIOUS
  <2> QED
    BY <2>1, <2>2
<1>2. t.lines[k] \in SentLine(n)
  BY DEF Sent
<1> QED
  BY <1>1, <1>2 DEF SentLine, Parser!IsMalformed

LEMMA LogRange ==
  ASSUME Sound
  PROVE  /\ \A n \in 1..Len(log), f \in Field :
              \A v \in HeldBy(log[n], f) : v \in 0..received
         /\ \A f \in Field : \A v \in Held(f) : v \in 0..received
         /\ received \in Nat
<1>1. received \in Nat
  BY BoundAssumption DEF Sound
<1>2. ASSUME NEW n \in 1..Len(log), NEW f \in Field, NEW v \in HeldBy(log[n], f)
      PROVE  v \in 0..received
  <2> DEFINE S == UNION {Sent(m) : m \in 1..received}
  <2>1. log[n] \in S
    <3>1. log \in Seq(S)
      BY DEF Sound
    <3> HIDE DEF S
    <3> QED
      BY <3>1
  <2>2. PICK m \in 1..received : log[n] \in Sent(m)
    BY <2>1
  <2>3. v = m
    BY <2>2, HeldByRange
  <2> QED
    BY <1>1, <2>3
<1> QED
  BY <1>1, <1>2 DEF Held

\* A valid telegram appended to the log adds what it holds.
LEMMA HeldSplit ==
  ASSUME Len(log) > 0, log[Len(log)] = raw_hp_message, raw_hp_message.valid = TRUE,
         Len(log) \in Nat, NEW f \in Field
  PROVE  Held(f) = HeldBefore(f) \cup HeldBy(raw_hp_message, f)
<1>1. \A n : n \in 1..Len(log) <=> n \in 1..Len(log) - 1 \/ n = Len(log)
  OBVIOUS
<1> QED
  BY <1>1 DEF Held, HeldBefore

\* What a parsed telegram holds for a field is what its lines wrote.
LEMMA HeldIsWritten ==
  ASSUME Sound, Parsed, NEW f \in Field
  PROVE  HeldBy(raw_hp_message, f) = IF Writes(f, line_no) THEN {received} ELSE {}
<1>1. /\ Working /\ outcome \in {"parsed", "thrown"} /\ pc = "parse"
      /\ received \in Nat /\ raw_hp_message \in Sent(received)
  BY BoundAssumption DEF Parsed, Goto, Parser!Leave, Sound
<1>2. /\ message_array = raw_hp_message.lines
      /\ line_no \in 0..Len(message_array)
      /\ message_array \in Seq(SentLine(received))
  BY <1>1 DEF Working, Sent
<1>3. ASSUME NEW k \in 1..Len(message_array),
             \A m \in 1..k : ~Parser!IsMalformed(message_array[m])
      PROVE  k \in 1..line_no
  BY <1>1, <1>2, <1>3 DEF Working
<1>4. ASSUME NEW v \in HeldBy(raw_hp_message, f)
      PROVE  v = received /\ Writes(f, line_no)
  <2>1. v = received
    BY <1>1, <1>4, HeldByRange
  <2>2. PICK k \in 1..Len(message_array) :
          /\ message_array[k].kind = "data"
          /\ FieldOf[message_array[k].obis] = f
          /\ \A m \in 1..k : ~Parser!IsMalformed(message_array[m])
    BY <1>2, <1>4 DEF HeldBy
  <2> QED
    BY <1>3, <2>1, <2>2 DEF Writes
<1>5. ASSUME Writes(f, line_no) PROVE received \in HeldBy(raw_hp_message, f)
  <2>1. PICK k \in 1..line_no : /\ message_array[k].kind = "data"
                               /\ FieldOf[message_array[k].obis] = f
    BY <1>5 DEF Writes
  <2>2. k \in 1..Len(message_array) /\ 1..k \subseteq 1..line_no
    BY <1>2
  <2>3. \A m \in 1..k : ~Parser!IsMalformed(message_array[m])
    BY <1>1, <2>2 DEF Working
  <2>4. message_array[k].value \in HeldBy(raw_hp_message, f)
    BY <1>2, <2>1, <2>2, <2>3 DEF HeldBy
  <2> QED
    BY <1>1, <2>4, HeldByRange
<1> QED
  BY <1>4, <1>5

\* What the steps do to what the log holds.
LEMMA HeldSteps ==
  ASSUME Sound, Next, NEW f \in Field
  PROVE  /\ ~Accept /\ ~Restart => Held(f)' = Held(f)
         /\ Restart => Held(f)' = {}
         /\ Accept => /\ HeldBefore(f)' = Held(f)
                      /\ Held(f)' = Held(f) \cup HeldBy(raw_hp_message, f)
<1>1. Len(log) \in Nat
  BY DEF Sound
<1>2. CASE log' = log /\ ~Restart /\ ~Accept
  BY <1>2 DEF Held
<1>3. CASE Reject /\ ~Accept /\ ~Restart
  <2>1. /\ log' = Append(log, raw_hp_message) /\ ~raw_hp_message.valid
        /\ Len(log') = Len(log) + 1 /\ log'[Len(log) + 1] = raw_hp_message
        /\ \A n \in 1..Len(log) : log'[n] = log[n]
    BY <1>3 DEF Reject, Sound
  <2>2. {n \in 1..Len(log') : log'[n].valid} = {n \in 1..Len(log) : log[n].valid}
    BY <1>1, <2>1
  <2> QED
    BY <1>3, <2>1, <2>2 DEF Held
<1>4. CASE Restart
  <2>1. log' = <<>> /\ ~Accept
    BY <1>4 DEF Restart, RestartAt, Accept, AcceptIf, Goto
  <2> QED
    BY <1>4, <2>1 DEF Held
<1>5. CASE Accept
  <2>1. /\ log' = Append(log, raw_hp_message) /\ raw_hp_message' = raw_hp_message
        /\ Len(log') = Len(log) + 1 /\ log'[Len(log) + 1] = raw_hp_message
        /\ \A n \in 1..Len(log) : log'[n] = log[n]
        /\ pc = "validate" /\ raw_hp_message.valid
    BY <1>5 DEF Accept, AcceptIf, Goto, Sound
  <2>2. Len(log') - 1 = Len(log)
    BY <1>1, <2>1
  <2>3. {n \in 1..Len(log') - 1 : log'[n].valid} = {n \in 1..Len(log) : log[n].valid}
    BY <2>1, <2>2
  <2>4. HeldBefore(f)' = Held(f)
    BY <2>1, <2>2, <2>3 DEF Held, HeldBefore
  <2>5. \A n : n \in 1..Len(log') <=> n \in 1..Len(log) \/ n = Len(log) + 1
    BY <1>1, <2>1
  <2>6. Held(f)' = Held(f) \cup HeldBy(raw_hp_message, f)
    BY <2>1, <2>5 DEF Held
  <2>7. ~Restart
    BY <2>1 DEF Restart, RestartAt
  <2> QED
    BY <1>5, <2>4, <2>6, <2>7
<1>6. log' = log \/ Reject \/ Accept \/ Restart
  <2>1. CASE Away
    BY <2>1, AwayKeepsData DEF Data, history
  <2>2. CASE Die \/ Tick \/ Parse \/ Parsed
    BY <2>2 DEF Die, Tick, Parse, Parsed, history
  <2>3. CASE \E shape \in Shapes, valid \in BOOLEAN : HpRead(shape, valid)
    BY <2>3 DEF HpRead
  <2> QED
    BY <2>1, <2>2, <2>3, NextCases
<1> QED
  BY <1>2, <1>3, <1>4, <1>5, <1>6

LEMMA NewestStep == ASSUME Sound, Newest, [Next]_vars PROVE Newest'
<1>1. CASE UNCHANGED vars
  BY <1>1 DEF vars, parser, history, Newest, Held, HeldBefore, NewestOf
<1>2. CASE Away
  <2>1. /\ data_obj' = data_obj /\ dt_before' = dt_before /\ log' = log
    BY <1>2, AwayKeepsData DEF Data, parser, history
  <2> QED
    BY <1>2, <2>1, AwayPlaces DEF Newest, Held, HeldBefore, NewestOf, Places
<1>3. CASE Die
  BY <1>3 DEF Die, Newest
<1>4. CASE Restart /\ Next
  <2>1. pc' = "start" /\ data_obj' = [f \in Field |-> 0]
    BY <1>4 DEF Restart, RestartAt
  <2>2. \A f \in Field : Held(f)' = {}
    BY <1>4, HeldSteps
  <2> QED
    BY <2>1, <2>2 DEF Newest, NewestOf
<1>5. CASE Next /\ (Tick \/ Reject \/ \E s \in Shapes, v \in BOOLEAN : HpRead(s, v))
  <2>1. /\ data_obj' = data_obj /\ pc' \notin {"down", "parse"}
        /\ pc \notin {"down", "parse"}
    BY <1>5 DEF Tick, Reject, HpRead, Goto
  <2>2. ~Accept /\ ~Restart
    BY <1>5, <2>1 DEF Tick, Reject, HpRead, Accept, AcceptIf, Restart, RestartAt, Goto
  <2>3. \A f \in Field : Held(f)' = Held(f)
    BY <1>5, <2>2, HeldSteps
  <2> QED
    BY <2>1, <2>3 DEF Newest, NewestOf
<1>6. CASE Next /\ Accept
  <2>1. pc = "validate" /\ pc' = "parse" /\ dt_before' = data_obj
    BY <1>6 DEF Accept, AcceptIf, Goto, Parser!Construct
  <2>2. \A f \in Field : HeldBefore(f)' = Held(f)
    BY <1>6, HeldSteps
  <2> QED
    BY <2>1, <2>2 DEF Newest, NewestOf
<1>7. CASE Parse
  <2>1. /\ pc = "parse" /\ pc' = pc /\ dt_before' = dt_before /\ log' = log
    BY <1>7 DEF Parse, Parser!ParseStep, Parser!SkipLine, Parser!ParseData,
         Parser!ParseThrows, Parser!ParseDone, history
  <2> QED
    BY <2>1 DEF Newest, HeldBefore, NewestOf
<1>8. CASE Next /\ Parsed
  <2>1. /\ pc = "parse" /\ pc' = "publish" /\ data_obj' = data_obj /\ log' = log
        /\ Working /\ Len(log) \in Nat
    BY <1>8 DEF Parsed, Goto, Parser!Leave, history, Sound
  <2>2. ASSUME NEW f \in Field PROVE NewestOf(Held(f), data_obj[f])
    <3>1. Held(f) = HeldBefore(f) \cup HeldBy(raw_hp_message, f)
      BY <2>1, HeldSplit DEF Working
    <3>2. HeldBy(raw_hp_message, f) = IF Writes(f, line_no) THEN {received} ELSE {}
      BY <1>8, HeldIsWritten
    <3>3. data_obj[f] = IF Writes(f, line_no) THEN received ELSE dt_before[f]
      BY <2>1 DEF Working
    <3>4. NewestOf(HeldBefore(f), dt_before[f])
      BY <2>1 DEF Newest
    <3>5. \A v \in Held(f) : v <= received
      BY LogRange
    <3> QED
      BY <3>1, <3>2, <3>3, <3>4, <3>5 DEF NewestOf
  <2>3. \A f \in Field : Held(f)' = Held(f)
    BY <2>1 DEF Held
  <2> QED
    BY <2>1, <2>2, <2>3 DEF Newest, NewestOf
<1> QED
  BY <1>1, <1>2, <1>3, <1>4, <1>5, <1>6, <1>7, <1>8, NextCases

LEMMA NewestInvariance == Spec => [](Sound /\ Newest)
<1>1. Init => Newest
  BY DEF Init, Newest, NewestOf, Held, Parser!Init
<1> QED
  BY <1>1, NewestStep, SoundInvariance, PTL DEF Spec

LEMMA LastKnownIs ==
  ASSUME Sound, Newest, pc \notin {"down", "parse"}, NEW f \in Field
  PROVE  LastKnown(f) = data_obj[f]
<1> DEFINE S == Held(f) \cup {0}
<1>1. data_obj[f] \in S /\ \A h \in S : h \in Nat /\ h <= data_obj[f]
  <2>1. NewestOf(Held(f), data_obj[f]) /\ data_obj[f] \in Nat
    BY LogRange DEF Newest, Sound
  <2> QED
    BY <2>1, LogRange DEF NewestOf
<1>2. \A x \in S : (\A y \in S : x >= y) <=> x = data_obj[f]
  BY <1>1
<1> QED
  BY <1>1, <1>2 DEF LastKnown, Max

-----------------------------------------------------------------------------
(* What the readers see.                                                   *)

Shows ==
  /\ pc \in {"start", "mqtt", "modbus"} => mapping = Nothing
  /\ pc = "down" => mapping = Nothing
  /\ pc \in {"loop", "hpRead", "validate"} /\ mapping # Nothing =>
       \A f \in Field : mapping[f] = data_obj[f]
  /\ \A f \in Field : seen[f] # Nothing /\ Held(f) # {} =>
       \E h \in Held(f) : seen[f] <= h

\* How the steps change the mapping.
LEMMA MappingSteps ==
  ASSUME Next
  PROVE  \/ mapping' = mapping /\ pc' \notin {"start", "mqtt", "modbus", "down"}
         \/ mapping' = mapping /\ pc \in {"start", "mqtt", "modbus", "down"}
         \/ mapping' = Nothing /\ pc' = "down"
         \/ ModbusStart
         \/ SetFromHpData /\ pc' = "loop" /\ (InitRegisters \/ WriteRegisters)
<1>1. CASE Away
  BY <1>1 DEF Away, Publishes, LoadConfig, MqttConnect, OpenPort,
       InitRegisters, Data, PublishSkipped, PublishSends, PublishRefused,
       PublishAcked, PublishThrows, Deliver, PublishDone, Publishing, Goto,
       WriteRegisters, LinkDrop, Reconnect, Goto
<1>2. CASE Die \/ Restart \/ Tick \/ Reject \/ Accept \/ Parse \/ Parsed
  BY <1>2 DEF Die, Restart, RestartAt, Tick, Reject, Accept, AcceptIf, Parse,
       Parsed, Goto
<1>3. CASE \E shape \in Shapes, valid \in BOOLEAN : HpRead(shape, valid)
  BY <1>3 DEF HpRead, Goto
<1> QED
  BY <1>1, <1>2, <1>3, NextCases

\* Where a step into the quiet part of the loop comes from.
LEMMA QuietSteps ==
  ASSUME Next, pc' \in {"loop", "hpRead", "validate"}
  PROVE  \/ InitRegisters \/ WriteRegisters
         \/ /\ pc \in {"loop", "hpRead", "validate"} /\ data_obj' = data_obj
            /\ mapping' = mapping /\ seen' = seen /\ allSuccess' = allSuccess
<1>1. CASE Away
  BY <1>1 DEF Away, Publishes, LoadConfig, MqttConnect, ModbusStart, OpenPort,
       Data, PublishSkipped, PublishSends, PublishRefused, PublishAcked,
       PublishThrows, Deliver, PublishDone, Publishing, Goto, LinkDrop,
       Reconnect, Goto
<1>2. CASE Die \/ Restart \/ Tick \/ Reject \/ Accept \/ Parse \/ Parsed
  BY <1>2 DEF Die, Restart, RestartAt, Tick, Reject, Accept, AcceptIf, Parse,
       Parsed, Goto, mqtt
<1>3. CASE \E shape \in Shapes, valid \in BOOLEAN : HpRead(shape, valid)
  BY <1>3 DEF HpRead, Goto, mqtt
<1> QED
  BY <1>1, <1>2, <1>3, NextCases

LEMMA ShowsStep == ASSUME Sound, Newest, Shows, [Next]_vars PROVE Shows'
<1>1. CASE UNCHANGED vars
  BY <1>1 DEF vars, mqtt, history, Shows, Held
<1>2. CASE Next
  <2>1. /\ pc' \in {"start", "mqtt", "modbus"} => mapping' = Nothing
        /\ pc' = "down" => mapping' = Nothing
    BY <1>2, MappingSteps DEF Shows, ModbusStart, Goto
  <2>2. pc' \in {"loop", "hpRead", "validate"} /\ mapping' # Nothing =>
          \A f \in Field : mapping'[f] = data_obj'[f]
    <3>1. CASE InitRegisters \/ WriteRegisters
      BY <3>1, CurrentType DEF InitRegisters, WriteRegisters, SetFromHpData, Data
    <3> QED
      BY <1>2, <3>1, QuietSteps DEF Shows
  <2>3. ASSUME NEW f \in Field, seen'[f] # Nothing, Held(f)' # {}
        PROVE  \E h \in Held(f)' : seen'[f] <= h
    <3>1. seen[f] # Nothing => seen[f] \in Nat /\ seen[f] <= received
      BY LogRange DEF Sound, SeenSound
    <3>2. CASE seen' = seen /\ Accept
      <4>1. Held(f)' = Held(f) \cup HeldBy(raw_hp_message, f)
        BY <1>2, <3>2, HeldSteps
      <4>2. \A v \in HeldBy(raw_hp_message, f) : v = received
        BY <3>2, HeldByRange, LogRange DEF Accept, AcceptIf, Goto, Sound
      <4> QED
        BY <2>3, <3>1, <3>2, <4>1, <4>2, LogRange DEF Shows
    <3>3. CASE seen' = seen /\ ~Accept
      BY <1>2, <2>3, <3>3, HeldSteps DEF Shows
    <3>4. CASE Delivers
      <4>1. Held(f)' = Held(f) /\ pc \in {"wait", "failed"}
        BY <3>4, DeliversTopic, AwayKeepsData DEF Data, history, Held
      <4>2. topic = f \/ seen'[f] = seen[f]
        BY <3>4, DeliversTopic, TopicAssumption
           DEF Delivered, Sound, SeenSound, Exposed
      <4>3. CASE topic = f
        <5>1. seen'[f] = data_obj[f]
          BY <3>4, <4>3, DeliversTopic, CurrentType
             DEF Delivered, Sound, SeenSound, Exposed
        <5>2. NewestOf(Held(f), data_obj[f]) /\ data_obj[f] \in Nat
          BY <4>1, LogRange DEF Newest, Sound
        <5> QED
          BY <2>3, <4>1, <5>1, <5>2, LogRange DEF NewestOf
      <4> QED
        BY <2>3, <4>1, <4>2, <4>3 DEF Shows
    <3> QED
      BY <1>2, <3>2, <3>3, <3>4, SeenSteps
  <2> QED
    BY <2>1, <2>2, <2>3 DEF Shows
<1> QED
  BY <1>1, <1>2

LEMMA ShowsInvariance == Spec => [](Sound /\ Newest /\ Shows)
<1>1. Init => Shows
  BY DEF Init, Shows, Held
<1> QED
  BY <1>1, ShowsStep, NewestInvariance, PTL DEF Spec

\* Between two rounds every register holds the last known value of its
\* field, whatever was rejected or broke off since (main.cpp:127-185).
THEOREM RegistersTheorem == Spec => []RegistersLastKnown
<1>1. Sound /\ Newest /\ Shows => RegistersLastKnown
  BY LastKnownIs DEF Shows, RegistersLastKnown
<1> QED
  BY <1>1, ShowsInvariance, PTL

\* A subscriber only receives last known values, and falls back at most to
\* the 0 of a new process (main.cpp:173-178, hpMqttPub.cpp:135-178).
THEOREM PublishesTheorem == Spec => PublishesLastKnown
<1> DEFINE Step == \A f \in Field : seen'[f] # seen[f] =>
       /\ seen'[f] = LastKnown(f)
       /\ seen[f] = Nothing \/ seen'[f] > seen[f] \/ Held(f) = {}
<1>1. ASSUME Sound, Newest, Shows, Next PROVE Step
  <2>1. SUFFICES ASSUME NEW f \in Field, seen'[f] # seen[f]
                 PROVE  /\ seen'[f] = LastKnown(f)
                        /\ seen[f] = Nothing \/ seen'[f] > seen[f] \/ Held(f) = {}
    OBVIOUS
  <2>2. Delivered /\ pc \in {"wait", "failed"}
    BY <1>1, <2>1, SeenSteps, DeliversTopic
  <2>3. topic = f /\ seen'[f] = data_obj[f] /\ data_obj[f] \in Nat
    <3>1. seen = [x \in Exposed |-> seen[x]] /\ f \in Exposed
      BY <1>1 DEF Sound, SeenSound, Exposed
    <3>2. seen' = [seen EXCEPT ![topic] = Current[topic]]
      BY <2>2 DEF Delivered
    <3>3. topic = f /\ seen'[f] = Current[f]
      BY <2>1, <3>1, <3>2
    <3>4. data_obj[f] \in 0..received /\ received \in Nat
      BY <1>1, LogRange DEF Sound
    <3> QED
      BY <1>1, <3>3, <3>4, CurrentType
  <2>4. LastKnown(f) = data_obj[f] /\ NewestOf(Held(f), data_obj[f])
    BY <1>1, <2>2, LastKnownIs DEF Newest
  <2>5. ASSUME seen[f] # Nothing, Held(f) # {} PROVE seen'[f] > seen[f]
    <3>1. PICK h \in Held(f) : seen[f] <= h
      BY <1>1, <2>5 DEF Shows
    <3>2. h \in Nat /\ h <= data_obj[f] /\ seen[f] \in Nat
      BY <1>1, <2>4, <2>5, LogRange DEF NewestOf, Sound, SeenSound
    <3> QED
      BY <2>1, <2>3, <3>1, <3>2
  <2> QED
    BY <2>3, <2>4, <2>5
<1>2. ASSUME UNCHANGED vars PROVE Step
  BY <1>2 DEF vars, mqtt
<1>3. Sound /\ Newest /\ Shows /\ [Next]_vars => [Step]_vars
  BY <1>1, <1>2
<1> QED
  BY <1>3, ShowsInvariance, PTL DEF Spec, PublishesLastKnown

-----------------------------------------------------------------------------
(* MQTT and Modbus.                                                        *)

Agrees ==
  /\ pc \in {"start", "mqtt", "modbus", "serial", "init"} => allSuccess = FALSE
  /\ pc \in {"publish", "wait", "failed"} /\ allSuccess = TRUE =>
       \A k \in 1..topic_no : seen[Topics[k]] = Current[Topics[k]]
  /\ pc = "write" /\ allSuccess = TRUE =>
       \A k \in 1..Len(Topics) : seen[Topics[k]] = Current[Topics[k]]
  /\ pc \in {"loop", "hpRead", "validate"} /\ allSuccess = TRUE /\ mapping # Nothing =>
       \A k \in 1..Len(Topics) : seen[Topics[k]] = mapping[Topics[k]]

LEMMA AgreesPublish == ASSUME Sound, Agrees, Publishes PROVE Agrees'
<1>1. /\ pc \in {"publish", "wait", "failed"} /\ pc' = "publish"
      /\ topic_no' = topic_no + 1
      /\ topic_no < Len(Topics) /\ topic_no \in Nat
  BY DEF Publishes, PublishSkipped, PublishRefused, PublishAcked,
       PublishThrows, Publishing, Goto, Sound
<1>2. Current' = Current
  BY DEF Publishes, PublishSkipped, PublishRefused, PublishAcked,
       PublishThrows, Publishing, Data, Current
<1>3. CASE allSuccess' = FALSE
  BY <1>1, <1>3 DEF Agrees
<1>4. CASE PublishAcked
  <2>1. SUFFICES ASSUME allSuccess = TRUE, NEW k \in 1..topic_no + 1
                 PROVE  seen'[Topics[k]] = Current[Topics[k]]
    BY <1>1, <1>2, <1>4 DEF Agrees, PublishAcked
  <2>2. Topics[k] \in Exposed
    BY <1>1, TopicAssumption DEF Exposed
  <2>3. seen'[Topics[k]] = IF Topics[k] = topic THEN Current[Topics[k]]
                                                ELSE seen[Topics[k]]
    BY <1>4, <2>2 DEF PublishAcked, Delivered, Sound, SeenSound
  <2>4. k = topic_no + 1 \/ k \in 1..topic_no
    BY <1>1
  <2> QED
    BY <1>1, <2>1, <2>3, <2>4 DEF Agrees, topic
<1> QED
  BY <1>3, <1>4 DEF Publishes, PublishSkipped, PublishRefused, PublishThrows

LEMMA AgreesDeliver == ASSUME Sound, Agrees, Deliver PROVE Agrees'
<1>1. /\ pc \in {"wait", "failed"} /\ pc' = pc /\ topic_no' = topic_no
      /\ topic_no < Len(Topics) /\ topic_no \in Nat
      /\ allSuccess' = allSuccess
  BY DEF Deliver, Sound
<1>2. Current' = Current
  BY DEF Deliver, Data, Current
<1>3. SUFFICES ASSUME allSuccess = TRUE, NEW k \in 1..topic_no
               PROVE  seen'[Topics[k]] = Current[Topics[k]]
  BY <1>1, <1>2 DEF Agrees
<1>4. Topics[k] \in Exposed
  BY <1>1, TopicAssumption DEF Exposed
<1>5. seen'[Topics[k]] = IF Topics[k] = topic THEN Current[Topics[k]]
                                              ELSE seen[Topics[k]]
  BY <1>4 DEF Deliver, Delivered, Sound, SeenSound
<1> QED
  BY <1>1, <1>3, <1>5 DEF Agrees

LEMMA AgreesStep == ASSUME Sound, Agrees, [Next]_vars PROVE Agrees'
<1>1. CASE UNCHANGED vars
  BY <1>1 DEF vars, mqtt, Agrees, Current
<1>2. CASE Publishes \/ Deliver
  BY <1>2, AgreesPublish, AgreesDeliver
<1>3. CASE PublishDone
  <2>1. Current' = Current
    BY <1>3 DEF PublishDone, Data, Current
  <2> QED
    BY <1>3, <2>1 DEF PublishDone, Goto, mqtt, Agrees
<1>4. CASE WriteRegisters
  <2>1. mapping' # Nothing => mapping' = Current
    BY <1>4 DEF WriteRegisters, SetFromHpData
  <2> QED
    BY <1>4, <2>1 DEF WriteRegisters, Goto, mqtt, Agrees
<1>5. CASE LinkDrop \/ Reconnect \/ PublishSends
  <2>1. Current' = Current
    BY <1>5 DEF LinkDrop, Reconnect, PublishSends, Data, Current
  <2> QED
    BY <1>5, <2>1 DEF LinkDrop, Reconnect, PublishSends, Goto, mqtt, Agrees
<1>6. CASE LoadConfig \/ MqttConnect \/ ModbusStart \/ OpenPort \/ InitRegisters
  BY <1>6 DEF LoadConfig, MqttConnect, ModbusStart, OpenPort, InitRegisters,
       Goto, mqtt, Agrees
<1>7. CASE Die \/ Restart
  BY <1>7 DEF Die, Restart, RestartAt, Agrees
<1>8. CASE Accept \/ Parse
  BY <1>8 DEF Accept, AcceptIf, Parse, Goto, Agrees
<1>9. CASE Parsed
  BY <1>9 DEF Parsed, Goto, Agrees
<1>10. CASE Tick \/ Reject
  BY <1>10 DEF Tick, Reject, Goto, mqtt, Agrees
<1>11. CASE \E shape \in Shapes, valid \in BOOLEAN : HpRead(shape, valid)
  BY <1>11 DEF HpRead, Goto, mqtt, Agrees
<1> QED
  BY <1>1, <1>2, <1>3, <1>4, <1>5, <1>6, <1>7, <1>8, <1>9, <1>10, <1>11,
     NextCases DEF Away

\* After a round without a failed publish, topics and registers tell the
\* same until the next round writes (main.cpp:173-185).
THEOREM ChannelsTheorem == Spec => []ChannelsAgree
<1>1. Init => Agrees
  BY DEF Init, Agrees
<1>2. Spec => []Agrees
  BY <1>1, AgreesStep, SoundInvariance, PTL DEF Spec
<1>3. Sound /\ Agrees => ChannelsAgree
  <2> SUFFICES ASSUME Sound, Agrees, pc \in {"loop", "hpRead", "validate"},
                      allSuccess, mapping # Nothing,
                      NEW k \in 1..Len(Topics)
               PROVE  seen[Topics[k]] = mapping[Topics[k]]
    BY DEF ChannelsAgree
  <2>1. allSuccess = TRUE
    BY DEF Sound
  <2> QED
    BY <2>1 DEF Agrees
<1> QED
  BY <1>2, <1>3, SoundInvariance, PTL

-----------------------------------------------------------------------------
(* The process implements Gateway.                                         *)

Offered == pc \in {"validate", "parse"} /\ raw_hp_message.valid
BoxBeat == IF pc = "down" THEN 0 ELSE heartbeat

LEMMA BoxInit == Init => Box!Init
BY DEF Init, Parser!Init, Box!Init, Box!Zeros, Box!Exposed, Exposed, Known

\* Outside the parser the gateway's view is that of the process.
LEMMA BoxShows ==
  ASSUME pc \notin {"down", "parse"}
  PROVE  /\ Known = data_obj
         /\ Current = [x \in Exposed |-> Box!Shown(x)]
BY DEF Known, Current, Box!Shown, Exposed

LEMMA BoxAway == ASSUME Sound, Shows, Away PROVE [Box!Next]_(Box!vars)
<1>1. /\ heartbeat' = heartbeat /\ data_obj' = data_obj /\ received' = received
      /\ dt_before' = dt_before /\ raw_hp_message' = raw_hp_message
  BY AwayKeepsData DEF Data, parser, history
<1>2. /\ Known' = Known /\ BoxBeat' = BoxBeat /\ Offered' = Offered
  BY <1>1, AwayPlaces DEF Known, BoxBeat, Offered, Places
<1>3. CASE mapping' = mapping /\ seen' = seen
  BY <1>1, <1>2, <1>3 DEF Box!vars, BoxBeat, Offered
<1>4. CASE ModbusStart
  <2>1. mapping = Nothing /\ seen' = seen
    BY <1>4 DEF ModbusStart, Goto, Shows, mqtt
  <2>2. mapping' = mapping \/ mapping' = [x \in Box!Exposed |-> 0]
    BY <1>4, <2>1 DEF ModbusStart, Box!Exposed, Exposed
  <2> QED
    BY <1>1, <1>2, <1>3, <2>1, <2>2
       DEF Box!Next, Box!Serve, BoxBeat, Offered
<1>5. CASE InitRegisters \/ WriteRegisters
  <2>1. seen' = seen /\ SetFromHpData /\ pc \notin {"down", "parse"}
    BY <1>5 DEF InitRegisters, WriteRegisters, Goto, mqtt
  <2>2. mapping # Nothing => mapping' = [x \in Box!Exposed |-> Box!Shown(x)]
    BY <2>1, BoxShows DEF SetFromHpData, Box!Exposed, Exposed
  <2>3. mapping = Nothing => mapping' = mapping
    BY <2>1 DEF SetFromHpData
  <2> QED
    BY <1>1, <1>2, <1>3, <2>1, <2>2, <2>3
       DEF Box!Next, Box!Write, BoxBeat, Offered
<1>6. CASE Delivers
  <2>1. /\ mapping' = mapping /\ pc \notin {"down", "parse"}
        /\ topic \in Exposed
    BY <1>6, DeliversTopic, TopicAssumption DEF topic, Exposed, Sound
  <2>2. seen' = [seen EXCEPT ![topic] = Box!Shown(topic)]
    BY <1>6, <2>1, DeliversTopic, BoxShows DEF Delivered
  <2> QED
    BY <1>1, <1>2, <2>1, <2>2
       DEF Box!Next, Box!Publish, Box!Exposed, Exposed, BoxBeat, Offered
<1> QED
  BY <1>3, <1>4, <1>5, <1>6
     DEF Away, Publishes, Delivers, LoadConfig, MqttConnect, OpenPort,
         PublishSkipped, PublishSends, PublishRefused, PublishThrows,
         PublishDone, LinkDrop, Reconnect, Publishing, mqtt

LEMMA BoxStep == ASSUME Sound, Shows, [Next]_vars PROVE [Box!Next]_(Box!vars)
<1>1. CASE UNCHANGED vars
  BY <1>1 DEF vars, parser, mqtt, history, Box!vars, Known
<1>2. CASE Away
  BY <1>2, BoxAway
<1>3. CASE Die
  <2>1. /\ Known' = Box!Zeros /\ BoxBeat' = 0 /\ Offered' = FALSE
        /\ mapping' = Nothing /\ received' = received /\ seen' = seen
    BY <1>3 DEF Die, Known, Box!Zeros, BoxBeat, Offered, history
  <2> QED
    BY <2>1 DEF Box!Next, Box!End, BoxBeat, Offered
<1>4. CASE Restart
  <2>1. /\ Known' = Known /\ BoxBeat' = BoxBeat /\ Offered' = Offered
        /\ mapping' = mapping /\ received' = received /\ seen' = seen
    BY <1>4 DEF Restart, RestartAt, Known, BoxBeat, Offered
  <2> QED
    BY <2>1 DEF Box!vars, BoxBeat, Offered
<1>5. CASE Tick
  <2>1. /\ Known' = Known /\ BoxBeat' = BoxBeat + 1 /\ Offered' = Offered
        /\ mapping' = mapping /\ received' = received /\ seen' = seen
    BY <1>5 DEF Tick, Goto, Known, BoxBeat, Offered, parser, mqtt, history
  <2> QED
    BY <2>1 DEF Box!Next, Box!Beat, BoxBeat, Offered
<1>6. CASE \E shape \in Shapes, valid \in BOOLEAN : HpRead(shape, valid)
  <2>1. PICK valid \in BOOLEAN : /\ raw_hp_message'.valid = valid
                                /\ pc = "hpRead" /\ pc' = "validate"
                                /\ received' = received + 1
    BY <1>6 DEF HpRead, Goto
  <2>2. /\ Known' = Known /\ BoxBeat' = BoxBeat
        /\ mapping' = mapping /\ seen' = seen
    BY <1>6, <2>1 DEF HpRead, Known, BoxBeat, parser, mqtt
  <2>3. Offered = FALSE /\ Offered' = valid
    BY <2>1 DEF Offered
  <2>4. ~Offered /\ Offered' \in BOOLEAN
    BY <2>3
  <2> QED
    BY <2>1, <2>2, <2>4 DEF Box!Next, Box!Hear, BoxBeat, Offered
<1>7. CASE Reject
  <2>1. /\ Known' = Known /\ BoxBeat' = BoxBeat /\ Offered' = Offered
        /\ mapping' = mapping /\ received' = received /\ seen' = seen
    BY <1>7 DEF Reject, Goto, Known, BoxBeat, Offered, parser, mqtt
  <2> QED
    BY <2>1 DEF Box!vars, BoxBeat, Offered
<1>8. CASE Accept
  <2>1. /\ Known' = Known /\ BoxBeat' = BoxBeat /\ Offered' = Offered
        /\ mapping' = mapping /\ received' = received /\ seen' = seen
    BY <1>8 DEF Accept, AcceptIf, Goto, Parser!Construct, Known, BoxBeat, Offered, mqtt
  <2> QED
    BY <2>1 DEF Box!vars, BoxBeat, Offered
<1>9. CASE Parse
  <2>1. dt_before' = dt_before
    BY <1>9 DEF Parse, Parser!ParseStep, Parser!SkipLine, Parser!ParseData,
         Parser!ParseThrows, Parser!ParseDone
  <2>2. /\ Known' = Known /\ BoxBeat' = BoxBeat /\ Offered' = Offered
        /\ mapping' = mapping /\ received' = received /\ seen' = seen
    BY <1>9, <2>1 DEF Parse, Known, BoxBeat, Offered, mqtt, history
  <2> QED
    BY <2>2 DEF Box!vars, BoxBeat, Offered
<1>10. CASE Parsed
  <2> DEFINE F == {f \in Field : Writes(f, line_no)}
  <2>1. pc = "parse" /\ pc' = "publish" /\ Working /\ data_obj' = data_obj
    BY <1>10 DEF Parsed, Goto, Parser!Leave, Sound
  <2>2. Known' = [f \in Field |-> IF f \in F THEN received ELSE Known[f]]
    BY <2>1 DEF Known, Working
  <2>3. Offered /\ Offered' = FALSE
    BY <2>1 DEF Offered, Working
  <2>4. /\ BoxBeat' = BoxBeat /\ mapping' = mapping /\ received' = received
        /\ seen' = seen
    BY <1>10, <2>1 DEF Parsed, BoxBeat, history
  <2>5. F \in SUBSET Field
    OBVIOUS
  <2> HIDE DEF F
  <2> QED
    BY <2>2, <2>3, <2>4, <2>5 DEF Box!Next, Box!Learn, BoxBeat, Offered
<1> QED
  BY <1>1, <1>2, <1>3, <1>4, <1>5, <1>6, <1>7, <1>8, <1>9, <1>10, NextCases

\* The loop of main.cpp takes every valid telegram over as a whole and once,
\* and shows its readers nothing but what it knows: it is a Gateway.
THEOREM ActsAsGatewayTheorem == Spec => ActsAsGateway
<1> QED
  BY BoxInit, BoxStep, ShowsInvariance, PTL DEF Spec, ActsAsGateway, Box!Spec
=============================================================================
