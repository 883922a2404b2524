\* The MANIFEST of any database that was ever opened.
SPECIFICATION Spec
CONSTANTS
  UserKey = {k1, k2}
  FlushAt = 2
  MaxSeq = 2
  MaxCrash = 1
INVARIANT ReopenRebuilds
