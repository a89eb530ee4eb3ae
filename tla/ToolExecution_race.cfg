\* The same tables when a caller may name a version that is still in doubt.
SPECIFICATION Spec
CONSTANTS
  Sessions = {s1, s2}
  Workspaces = {w1}
  Versions = {v1}
  Executions = {e1}
  Keys = {k1}
  Risks = {1, 3}
  NamesCommitted = FALSE
  RisksRise = FALSE
  Null = Null
INVARIANTS ApprovedWhenRisky
