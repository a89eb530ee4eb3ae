SPECIFICATION FairSpec
CONSTANTS
  w = w
  r1 = r1
  r2 = r2
  t = t
  go = go
  blank = blank
  Blank <- BlankText
  Executions <- MCExecutions
  Request <- MCRequest
  Builds = {b0, b1}
  Legacy = {b0}
  ErrorType = {"continuum.permanent", "PolicyDeniedError", "ConnectionError"}
  Durations = {0}
  Class = "tool_call"
  None = None
INVARIANTS TypeOK OneKeyPerWork ReplayConforms PermanentIsFinal
PROPERTIES EveryExecutionCloses
CHECK_DEADLOCK FALSE
