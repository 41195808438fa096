SPECIFICATION FairRecordsSpec
CONSTANTS
  Message <- MCFillWalk
  DEBOUNCE <- MCDebounce
  REPORT_MIN <- MCReportMin
  DURATION_CAP = 2
  a = a
  b = b
  Sites = {a, b}
  NoSite = NoSite
  WORK_MIN = 1
  FILL_IDLE = 1
  MOVE_MIN = 1
  PILE_MAX = 2
  HTTP_MAX = 1
INVARIANTS
  TypeOK
  NumberIsFresh
  FileIsCurrent

  
