SPECIFICATION GpsSpec
CONSTANTS
  SAMPLES = 2
  ANT_WAIT = 2
  PENDING_MAX = 2
  GPIO_FAILS = TRUE
  FIX_WHILE_OFF = TRUE
INVARIANTS
  GpsTypeOK
  

  
