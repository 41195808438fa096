SPECIFICATION FairRxSpec
CONSTANTS
  RING = 4
  BUDGET = 2
  f1 = f1
  NoFrame = NoFrame
  f2 = f2
  b1 = b1
  b2 = b2
  b3 = b3
  b4 = b4
  b5 = b5
  Frames <- MCFrames
  Buffers <- MCBuffers
INVARIANTS
  RxTypeOK
  BuffersOwned
PROPERTIES
  ImplementsFifo
  RaisedIsReceived
