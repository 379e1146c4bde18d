SPECIFICATION Spec
CONSTANTS
  Input <- TwoChunks
  Window = 2
  MaxRetransmits = 1
  DupAcks = 1
  MaxAcks = 1
  MayAbort = TRUE
INVARIANTS TypeOK AckedIsReceived WrittenIsDelivered NoLostWakeup
PROPERTIES ImplementsChannel
CHECK_DEADLOCK FALSE
