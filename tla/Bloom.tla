-------------------------------- MODULE Bloom --------------------------------
(***************************************************************************)
(* The Bloom filter of lsm_mini_engine (sstable/bloom.cpp): keys are added *)
(* to a builder, Finish makes a filter of any number of bits per key,      *)
(* which is encoded, stored, maybe cut short, decoded and asked.           *)
(*                                                                         *)
(* A key's FNV hash is any word.  Widths are scaled down, as the constants *)
(* say; sums and products wrap where the code computes in 32 bits.         *)
(***************************************************************************)
EXTENDS Varint

CONSTANTS KeyName,    \* keys
          WordBits,   \* 32: the width of hashes and of num_bits
          HashValue,  \* the values of fnv1a32 that occur
          Rotation,   \* 15
          Multiplier, \* 0x9e3779b1
          ByteBits,   \* 8
          MinBits,    \* 64
          MaxProbes,  \* 64: Decode refuses more
          Probes,     \* the values of BloomBuilder::k
          BitsPerKey, \* what Finish is called with
          \* Bound, for model checking only.
          MaxAdded

Word == 2 ^ WordBits

ASSUME BloomAssumption ==
  /\ HashValue \subseteq 0 .. Word - 1 /\ Rotation \in 1 .. WordBits - 1
  /\ WordBits \in Nat /\ ByteBits \in Nat \ {0} /\ Multiplier \in Nat
  /\ MinBits \in 1 .. Word - ByteBits /\ Probes \subseteq Nat /\ BitsPerKey \subseteq Nat

\* A varint holds any number of bits and of probes that Decode accepts.
ASSUME EncodingAssumption ==
  /\ MaxProbes \in Nat
  /\ Word <= VarintBase ^ MaxDigits /\ MaxProbes < VarintBase ^ MaxDigits

\* A fact of arithmetic that the provers do not know.
ASSUME PowerAssumption == \A n \in 0 .. WordBits : 2 ^ n \in Nat \ {0}

VARIABLES k, hashes,  \* the BloomBuilder
          filter,     \* what Finish returned: [status, num_bits, k, bits]
          stored,     \* what was stored of its encoding: [head, body]
          decoded,    \* what Decode made of that
          \* For the properties.
          hash,       \* the hash of each key
          covered,    \* the keys added before Finish
          size        \* the size Finish was asked for, in bits

bvars == <<k, hashes, filter, stored, decoded, hash, covered, size>>

-----------------------------------------------------------------------------
(* Filters *)

\* A filter of no keys, and one whose computation the language does not define.
NoFilter == [status |-> "none", num_bits |-> 0, k |-> 0, bits |-> << >>]
Undefined == [NoFilter EXCEPT !.status = "undefined"]

Rotated(h) == ((h * 2 ^ Rotation) % Word) + (h \div 2 ^ (WordBits - Rotation))
Second(h) == (Rotated(h) * Multiplier) % Word

\* Probe i of a hash, where keys are added and where they are looked up.
AddedBit(h, i, num_bits) == ((h + i * Second(h)) % Word) % num_bits
AskedBitUnwrapped(h, i, num_bits) == (h + i * Second(h)) % num_bits
AskedBit(h, i, num_bits) == ((h + i * Second(h)) % Word) % num_bits

\* The number of bits is cut to a word, after it was compared.
NumBits(n, bits_per_key) == Max({n * bits_per_key, MinBits}) % Word

NumBytesCut(num_bits) == num_bits \div ByteBits
NumBytes(num_bits) == ((num_bits + ByteBits - 1) % Word) \div ByteBits

\* Finish: a filter of zero bits divides by zero, and a bit beyond the bytes is
\* written out of range.
Finished(bits_per_key) ==
  LET num_bits == NumBits(Len(hashes), bits_per_key)
      nbytes   == NumBytes(num_bits)
      probes   == Range(hashes) \X (0 .. k - 1)
      written  == {AddedBit(p[1], p[2], num_bits) : p \in probes}
  IN  IF hashes = << >> THEN [NoFilter EXCEPT !.status = "ok", !.k = k]
      ELSE IF probes # {} /\ num_bits = 0 THEN Undefined
      ELSE IF \E w \in written : w \div ByteBits >= nbytes THEN Undefined
      ELSE [status |-> "ok", num_bits |-> num_bits, k |-> k,
            bits |-> [b \in 1 .. nbytes |->
                       {w % ByteBits : w \in {x \in written : x \div ByteBits = b - 1}}]]

ByteThere(f, bit) == bit \div ByteBits < Len(f.bits)

DeniesBeyond(f, bit) ==
  ~ByteThere(f, bit) \/ bit % ByteBits \notin f.bits[(bit \div ByteBits) + 1]
Denies(f, bit) ==
  ByteThere(f, bit) /\ bit % ByteBits \notin f.bits[(bit \div ByteBits) + 1]

\* MayContain: probes in turn, up to one that is not set or whose byte is missing.
MayContain(f, h) ==
  LET bit(i) == AskedBit(h, i, f.num_bits)
  IN  \/ f.num_bits = 0 \/ f.bits = << >>
      \/ \A i \in 0 .. f.k - 1 :
           Denies(f, bit(i)) => \E j \in 0 .. i - 1 : ~ByteThere(f, bit(j))

Encoded(f) == [head |-> PutVarint(f.num_bits) \o PutVarint(f.k), body |-> f.bits]

\* Beginnings of an encoded filter.
CutShort(e) ==
  {[head |-> h, body |-> << >>] : h \in Prefixes(e.head) \ {e.head}}
    \cup {[head |-> e.head, body |-> b] : b \in Prefixes(e.body)}

Decode(e) ==
  LET nb == GetVarint(e.head)
      kk == GetVarint(nb.rest)
  IN  IF ~nb.ok \/ ~kk.ok \/ nb.value > Word \div 2 \/ kk.value > MaxProbes
        THEN [NoFilter EXCEPT !.status = "corruption"]
        ELSE [status |-> "ok", num_bits |-> nb.value, k |-> kk.value, bits |-> e.body]

-----------------------------------------------------------------------------
Init ==
  /\ k \in Probes /\ hashes = << >>
  /\ filter = NoFilter /\ decoded = NoFilter
  /\ stored = [head |-> << >>, body |-> << >>]
  /\ hash \in [KeyName -> HashValue] /\ covered = {} /\ size = 0

Add(key) ==
  /\ filter = NoFilter /\ Len(hashes) < MaxAdded
  /\ hashes' = Append(hashes, hash[key])
  /\ covered' = covered \cup {key}
  /\ UNCHANGED <<k, filter, stored, decoded, hash, size>>

Finish(bits_per_key) ==
  /\ filter = NoFilter
  /\ filter' = Finished(bits_per_key)
  /\ size' = Len(hashes) * bits_per_key
  /\ UNCHANGED <<k, hashes, stored, decoded, hash, covered>>

\* The filter is stored and read back, whole or cut short.
Store ==
  /\ filter.status = "ok" /\ decoded = NoFilter
  /\ \E e \in CutShort(Encoded(filter)) : stored' = e /\ decoded' = Decode(e)
  /\ UNCHANGED <<k, hashes, filter, hash, covered, size>>

Next ==
  \/ \E key \in KeyName : Add(key)
  \/ \E bits_per_key \in BitsPerKey : Finish(bits_per_key)
  \/ Store

Spec == Init /\ [][Next]_bvars

-----------------------------------------------------------------------------
\* A key that was added is never denied, also by a filter whose number of bits
\* wrapped.
NoFalseNegatives ==
  filter.status = "ok" => \A key \in covered : MayContain(filter, hash[key])

\* Neither is it denied by a filter that was stored and read back, nor by what is
\* left of one that was cut short.
NoneWhenCutShort ==
  decoded.status = "ok" => \A key \in covered : MayContain(decoded, hash[key])

\* A filter that was stored whole is read back as it was, unless Decode refuses
\* its parameters: builders make filters of more bits than it accepts.
DecodeReadsBack ==
  (decoded # NoFilter /\ stored = Encoded(filter)) =>
    IF filter.num_bits <= Word \div 2 /\ filter.k <= MaxProbes
      THEN decoded = filter ELSE decoded.status = "corruption"

\* Finish writes within the filter and never divides by zero as long as the size
\* it is asked for leaves room for a byte in a word; beyond that it may do either.
FinishDefinedBelowLimit ==
  filter = Undefined => size > Word - ByteBits

=============================================================================
