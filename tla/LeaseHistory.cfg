\* Three jobs, one of them enqueued twice, two workers and three leases: an id is
\* enqueued again, a job goes from one worker to another or back to the same
\* one, leases are over at once or extended, and late workers come back.
SPECIFICATION HSpec
CONSTANTS
  JobId = {j1, j2, j3}
  WorkerId = {w1, w2}
  LeaseDur <- MCLeaseDur
  ExtraDur <- MCExtraDur
  MaxClock = 2
  MaxSeq = 4
  MaxToken = 3
  Horizon = 3
SYMMETRY Symmetry
INVARIANTS
  HTypeOK
  Partition
  LeaseCovered
  TokensFenced
  FirstAttemptFIFO
  CompletedOnce
  LastHolderCompletes
  AttemptsAreGrants
  NothingLost
PROPERTIES
  RequeueOnlyExpired
  ReapTakesAllExpired
  ReapEmptiesHeap
  ImplementsVisibilityQueue
