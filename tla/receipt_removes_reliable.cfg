CONSTANTS
  NumberRange = 16
  ResendBufferLength = 8
  DatagramArrayLength = 2
  SequenceWeight = 8
  Scenario <- MCReceipt
  MaxCopies = 1
  MaxPerDatagram = 2
  MaxDatagrams = 5
INIT ReliabilityInit
NEXT ReliabilityNext
INVARIANTS ReliableOnesKept
CHECK_DEADLOCK FALSE
