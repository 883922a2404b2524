\* Words of six bits and bytes of four: filters of up to two keys, from the
\* smallest to those whose size wraps once or twice, or to zero.
SPECIFICATION Spec
CONSTANTS
  VarintBase = 4
  MaxDigits = 5
  KeyName = {k1, k2}
  WordBits = 6
  HashValue = {0, 1, 5, 7, 11, 18, 26, 29, 42, 50, 62, 63}
  Rotation = 2
  Multiplier = 37
  ByteBits = 4
  MinBits = 8
  MaxProbes = 3
  Probes = {0, 2, 3, 4}
  BitsPerKey = {1, 6, 13, 16, 31, 32, 35, 60, 66}
  MaxAdded = 3
SYMMETRY Symmetry
INVARIANTS
  NoFalseNegatives
  NoneWhenCutShort
  DecodeReadsBack
  FinishDefinedBelowLimit
\* One filter is made and stored.
CHECK_DEADLOCK FALSE
