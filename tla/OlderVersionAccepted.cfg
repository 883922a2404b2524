\* Two versions of one user key, in the memtable's order.
SPECIFICATION Spec
CONSTANTS
  UserKey = {1, 2}
  SeqNo = {1, 2}
  ByteBase = 256
  ValueLen = {4, 30}
  KeyLen = 9
  BlockSize = 58
  MaxEntries = 5
INVARIANT OlderVersionAccepted
