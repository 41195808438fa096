SPECIFICATION LinkSpec
CONSTANTS
  e1 = e1
  e2 = e2
  Endpoints <- MCEndpoints
  ReqEndpoints <- MCReqEndpoints
  RxDatagrams = {}
  Lengths = {1, 4, 5}
  DRP_MTU = 4
  PACK_HDR = 1
  QUEUE_MAX = 2
  ID_MAX = 3
  TRY_TIMES = 2
  TIMEOUT_CNT = 1
  NET_CAP = 2
INVARIANTS
  GotPrefix

  
  
CHECK_DEADLOCK FALSE
