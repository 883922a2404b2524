\* Every table of up to four of eight keys, in one to four blocks, undamaged or
\* damaged in any one place; any block may fail to be read at any time.
SPECIFICATION Spec
CONSTANTS
  UserKey = {1, 2}
  SeqNo = {1, 2}
  ByteBase = 2
  MaxEntries = 4
INVARIANTS
  ScanComplete
  ScanAscends
  GetFindsItsPut
