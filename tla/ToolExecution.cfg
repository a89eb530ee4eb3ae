\* Two sessions, two workspaces, callers that name versions they could read.
SPECIFICATION Spec
CONSTANTS
  Sessions = {s1, s2}
  Workspaces = {w1, w2}
  Versions = {v1}
  Executions = {e1, e2}
  Keys = {k1, k2}
  Risks = {1, 3}
  NamesCommitted = TRUE
  RisksRise = FALSE
  Null = Null
SYMMETRY Symmetry
INVARIANTS TypeOK ApprovedWhenRisky OneRowPerKey VersionOfWorkspace
