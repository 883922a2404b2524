\* A flush fails, as that of two versions of a key does; the next one succeeds.
SPECIFICATION Spec
CONSTANTS
  UserKey = {k1, k2}
  FlushAt = 2
  MaxSeq = 4
  MaxCrash = 0
INVARIANT ImmutablesNewer
