SPECIFICATION Spec
CONSTANTS
  e1 = e1
  e2 = e2
  Endpoints <- MCEndpoints1
  Lengths = {1}
  RxDatagrams <- MCDatagrams
  DRP_MTU = 4
  PACK_HDR = 1
  QUEUE_MAX = 2
  ID_MAX = 3
  TRY_TIMES = 2
  TIMEOUT_CNT = 1
PROPERTIES
  OnlyAcksAcknowledge
CHECK_DEADLOCK FALSE
