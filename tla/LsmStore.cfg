\* Three flushes that succeed or fail at any call, of puts and deletions in any
\* order; the process dies three times, at any point, and is started again.
SPECIFICATION Spec
CONSTANTS
  UserKey = {k1}
  FlushAt = 2
  MaxSeq = 6
  MaxCrash = 3
INVARIANTS
  ManifestIsVersion
  ListedTablesWhole
  OneOrphan
  NoWriteVanishes
