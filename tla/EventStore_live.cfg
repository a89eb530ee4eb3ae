\* Two sessions, three inserts, two event ids: every statement ends.
SPECIFICATION CalmSpec
CONSTANTS
  Txns = {t1, t2}
  Workspaces = {w1, w2}
  Events = {e1, e2}
  Schemas = {s1}
  Keys = {k1}
  Isolation = "read committed"
  MaxStatements = 3
  None = None
PROPERTIES StatementEnds
