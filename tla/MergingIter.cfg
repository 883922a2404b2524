\* Two frozen memtables with three writes in all: overwritten, deleted and
\* equal internal keys, in one memtable or in both; children that fail.
SPECIFICATION ISpec
CONSTANTS
  UserKey = {1, 2}
  Value = {v1, v2}
  WriteSeq = {1, 2}
  Snapshot <- MCSnapshot
  SeqLimit = 3
  KeySize = 9
  ValueSize = 2
  MaxWrites = 3
  MaxFrozen = 2
  Target <- MCTarget
  ChildMayFail = TRUE
SYMMETRY Symmetry
INVARIANTS
  MemTypeOK
  GetIsNewestVisible
  BytesCoverMap
  MergedInOrder
  NothingSkipped
PROPERTIES
  ImplementsIterator
