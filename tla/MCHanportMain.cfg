\* Three telegrams of four shapes, each valid or not, one restart, and the
\* link to the broker dropping at any moment.
SPECIFICATION FairSpec
CONSTANTS
  Code = {"1-0:1.8.0", "1-0:32.7.0"}
  Field = {"active_energy_import_total", "l1_voltage_rms"}
  FieldOf <- TableOfTwo
  Heartbeat = "heartbeat"
  Topics <- TopicsOfThree
  Malformed = malformed
  Nothing = nothing
  Shapes <- SomeShapes
  MaxReceived = 3
  MaxRestarts = 1
INVARIANTS
  TypeOK
  RegistersLastKnown
  ChannelsAgree
PROPERTIES
  PublishesLastKnown
  AcceptedIsExposed
  ActsAsGateway
\* The meter may fall silent, the process stay down.
CHECK_DEADLOCK FALSE
