CONSTANTS
  Payload <- SomePayloads
  MaxPackets = 4
SPECIFICATION Spec
INVARIANTS TypeOK WholeAfterWhole NoForeignValue
CHECK_DEADLOCK FALSE
