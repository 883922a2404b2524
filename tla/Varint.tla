-------------------------------- MODULE Varint --------------------------------
(***************************************************************************)
(* The variable-length integers of lsm_mini_engine (sstable/varint.h): the *)
(* low digit first, and a digit's byte says whether another one follows.   *)
(***************************************************************************)
EXTENDS Integers, Sequences, FiniteSetsExt, SequencesExt

CONSTANTS VarintBase, \* 128: the digits, and the flag that another one follows
          MaxDigits   \* 10: GetVarint64 gives up when it has shifted by 63 bits

ASSUME VarintAssumption == VarintBase \in Nat \ {0, 1} /\ MaxDigits \in Nat \ {0}

\* Facts of arithmetic that the provers do not know.
ASSUME VarintPowers ==
  /\ VarintBase ^ 0 = 1
  /\ \A d \in 0 .. MaxDigits - 1 : VarintBase ^ (d + 1) = VarintBase * VarintBase ^ d

Digit(byte) == byte % VarintBase
IsLast(byte) == byte < VarintBase

FitsOneByteOrEqual(n) == n <= VarintBase
FitsOneByte(n) == n < VarintBase

PutVarint(value) ==
  LET put[n \in 0 .. value] ==
        IF FitsOneByte(n) THEN <<n>> ELSE <<Digit(n) + VarintBase>> \o put[n \div VarintBase]
  IN  put[value]

\* The number at the front of the bytes, and what follows it.
GetVarint(bytes) ==
  LET ends  == {i \in DOMAIN bytes : i <= MaxDigits /\ IsLast(bytes[i])}
      taken == Min(ends)
      last[i \in 0 .. taken] ==  \* what the last i of the digits make
        IF i = 0 THEN 0 ELSE Digit(bytes[taken + 1 - i]) + VarintBase * last[i - 1]
  IN  IF ends = {} THEN [ok |-> FALSE, value |-> 0, rest |-> bytes]
      ELSE [ok |-> TRUE, value |-> last[taken], rest |-> SubSeq(bytes, taken + 1, Len(bytes))]

=============================================================================
