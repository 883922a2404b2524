\* Two versions of two keys at most.
SPECIFICATION Spec
CONSTANTS
  UserKey = {1, 2}
  SeqNo = {1, 2}
  ByteBase = 2
  MaxEntries = 2
INVARIANT GetSeesSnapshot
