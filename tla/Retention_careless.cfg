\* A job that does not.
SPECIFICATION Spec
CONSTANTS
  Artifacts = {a1}
  Sessions = {t1, t2}
  Days <- ScaledDays
  MaxTime = 2
  MaxCrashes = 1
  JobLocksRow = FALSE
  Null = Null

PROPERTIES NeverReachesHold
