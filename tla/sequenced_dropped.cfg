CONSTANTS
  NumberRange = 32
  ResendBufferLength = 8
  DatagramArrayLength = 2
  SequenceWeight = 8
  Scenario <- MCSequenced
  MaxCopies = 1
  MaxPerDatagram = 2
  MaxDatagrams = 5
INIT ReliabilityInit
NEXT ReliabilityNext
INVARIANTS OnlyOldOnesDropped
CHECK_DEADLOCK FALSE
