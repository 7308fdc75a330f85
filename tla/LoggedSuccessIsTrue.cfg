\* The log line against a broken link.
SPECIFICATION Spec
CONSTANTS
  Code = {"1-0:1.8.0", "1-0:32.7.0"}
  Field = {"active_energy_import_total", "l1_voltage_rms"}
  FieldOf <- TableOfTwo
  Heartbeat = "heartbeat"
  Topics <- TopicsOfThree
  Malformed = malformed
  Nothing = nothing
  Shapes <- SomeShapes
  MaxReceived = 2
  MaxRestarts = 1
PROPERTIES
  LoggedSuccessIsTrue
\* The meter may fall silent, the process stay down.
CHECK_DEADLOCK FALSE
