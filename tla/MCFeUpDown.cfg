SPECIFICATION FairUpDownSpec
INVARIANTS
  UpDownTypeOK
  
  AtRest
PROPERTIES
  StoppedTwice
  
CHECK_DEADLOCK FALSE
