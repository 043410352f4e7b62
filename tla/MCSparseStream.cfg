SPECIFICATION Spec
CONSTANTS
  Size = 4
  MaxChunk = 2
  Values = {0, 1}
  Zero = 0
  Hole = Hole
  SignBit = 8
  MaxWire = 2
  Faults = {"cut", "payload", "offset"}
INVARIANTS
  DeliveredWhole
  PartOfFile
  NoFalseReject
  SizeRespected
PROPERTIES
  TransferEnds
\* A transfer ends.
CHECK_DEADLOCK FALSE
