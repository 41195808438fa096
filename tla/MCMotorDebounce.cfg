SPECIFICATION DebounceSpec
CONSTANTS
  Message <- MCMessage
  DEBOUNCE <- MCDebounce
  REPORT_MIN <- MCReportMin
  DURATION_CAP = 3
INVARIANTS
  MotorTypeOK
  Prompt
  DurationIsPeriod
PROPERTIES
  Debounced
