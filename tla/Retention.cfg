\* A job that keeps the row locked and crashes once, against two sessions and
\* a migration.
SPECIFICATION FairSpec
CONSTANTS
  Artifacts = {a1}
  Sessions = {t1, t2}
  Days <- ScaledDays
  MaxTime = 2
  MaxCrashes = 1
  JobLocksRow = TRUE
  Null = Null
INVARIANTS TypeOK
PROPERTIES Ratchet DeletesOnlyDue DueIsResolved
