\* Blocks of one or two entries, up to five entries, keys that differ in every
\* part; any Append may fail.
SPECIFICATION Spec
CONSTANTS
  UserKey = {1, 2}
  SeqNo = {1, 2}
  ByteBase = 2
  ValueLen = {4, 30}
  KeyLen = 9
  BlockSize = 58
  MaxEntries = 5
INVARIANTS
  IndexAddressesBlocks
  NothingDropped
  SortedForSearch
  BlocksWithinTarget
\* After a failed Append the caller makes no more calls.
CHECK_DEADLOCK FALSE
