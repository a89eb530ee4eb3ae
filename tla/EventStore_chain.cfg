\* Two sessions, three inserts; one workspace under contention, or two that
\* share the sequence and the event ids.
SPECIFICATION ScopedSpec
CONSTANTS
  Txns = {t1, t2}
  Workspaces = {w1, w2}
  Events = {e1, e2, e3}
  Schemas = {s1}
  Keys = {k1}
  Isolation = "read committed"
  MaxStatements = 3
  None = None
SYMMETRY Symmetry
INVARIANTS TypeOK ChainLinked CompareAndAppend LockImpliesWriting SequenceUnique
PROPERTIES VisibleInOrder LogSpec
