SPECIFICATION Spec
CONSTANTS
  DefaultMtu = 13
  MtuTx = 20
  MaxMtu = 24
  Threshold = 2
  NameLen = 2
  Objects <- MCObjects
  Chunk = 6
  SeqRange = 16
  SeqTries = 2
  RspByte <- MCRspByte
  MaxRequests = 4
  MaxFaults = 1
  MaxEmpty = 2
INVARIANTS BufferSound PacketFits CleanBetweenRequests StaleOnlyByCollision ProgressMatches
PROPERTIES RequestEnds TransferExact
