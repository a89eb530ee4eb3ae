\* The same chain with sessions that run REPEATABLE READ.
SPECIFICATION Spec
CONSTANTS
  Txns = {t1, t2}
  Workspaces = {w1}
  Events = {e1, e2}
  Schemas = {s1}
  Keys = {k1}
  Isolation = "repeatable read"
  MaxStatements = 2
  None = None
INVARIANTS ChainLinked
