\* Two workers and the cleaner; three leases; the drain lasts two ticks, as long
\* as a lease: an extended one is always completed, a crashed one is not extended.
SPECIFICATION WFairSpec
CONSTANTS
  JobId = {j1, j2}
  WorkerId = {w1, w2}
  LeaseDur <- MCLeaseDur
  ExtraDur <- MCExtraDur
  MaxClock = 4
  MaxSeq = 2
  MaxToken = 3
  Horizon = 5
  Budget = 1
  DrainRounds = 2
  RunTime = 2
INVARIANTS
  WTypeOK
  NoStuckLease
  EachJobCompletedOrReady
  RecordNeverAhead
PROPERTIES
  Ends
  ExpiredLeaseResolved
