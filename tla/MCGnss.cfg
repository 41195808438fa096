SPECIFICATION FairGnssSpec
CONSTANTS
  p1 = p1
  p2 = p2
  Positions <- MCPositions
  NoPosition = NoPosition
  RXBUF = 7
  BURST = 4
  GLL_MAX = 1
INVARIANTS
  GnssTypeOK
  EpochTrue
PROPERTIES
  ImplementsFifo
  
  
