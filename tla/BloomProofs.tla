----------------------------- MODULE BloomProofs -----------------------------
(***************************************************************************)
(* Theorems about Bloom, for any widths, hashes and sizes: a filter denies *)
(* no key that was added to it, whatever became of its number of bits, and *)
(* its computation is defined up to the size where a word is too small.    *)
(* A filter that is stored is read back, or refused, or loses bytes whose   *)
(* keys it cannot deny: the varints of its parameters decode to themselves. *)
(***************************************************************************)
EXTENDS Bloom, DataLemmas

-----------------------------------------------------------------------------
(* Arithmetic *)

LEMMA WordNatural == Word \in Nat \ {0} /\ WordBits \in Nat
BY BloomAssumption, PowerAssumption DEF Word

LEMMA Remainder ==
  ASSUME NEW a \in Int, NEW b \in Nat \ {0}
  PROVE  a % b \in 0 .. b - 1
OBVIOUS

LEMMA Quotient ==
  ASSUME NEW a \in Nat, NEW d \in Nat \ {0}
  PROVE  a \div d \in Nat /\ d * (a \div d) <= a /\ a < d * (a \div d) + d
OBVIOUS

\* The last of n bits lies in the last of the bytes that n bits are rounded up to.
LEMMA RoundedUp ==
  ASSUME NEW a \in Nat, NEW n \in Nat, NEW d \in Nat \ {0}, a < n
  PROVE  a \div d < (n + d - 1) \div d
<1> DEFINE q == a \div d
           r == (n + d - 1) \div d
<1>1. q \in Nat /\ d * q <= a
  BY Quotient
<1>2. n + d - 1 \in Nat
  OBVIOUS
<1>3. r \in Nat /\ n + d - 1 < d * r + d
  BY <1>2, Quotient
<1> HIDE DEF q, r
<1>4. d * q < d * r
  BY <1>1, <1>3
<1>5. q < r
  <2> SUFFICES ASSUME r <= q PROVE FALSE
    BY <1>1, <1>3
  <2>1. PICK m \in Nat : q = r + m
    BY <1>1, <1>3
  <2>2. d * q = d * r + d * m /\ d * m \in Nat
    BY <2>1, <1>3
  <2> QED BY <2>2, <1>4, <1>1, <1>3
<1> QED BY <1>5 DEF q, r

LEMMA SecondIsWord ==
  ASSUME NEW h \in 0 .. Word - 1
  PROVE  Second(h) \in 0 .. Word - 1
<1> DEFINE left  == 2 ^ Rotation
           right == 2 ^ (WordBits - Rotation)
           low   == h * left
           word  == Word
           mixed == Rotated(h) * Multiplier
<1>1. left \in Nat /\ right \in Nat \ {0} /\ word \in Nat \ {0} /\ h \in Nat
  BY BloomAssumption, PowerAssumption, WordNatural
<1>2. Rotated(h) = (low % word) + (h \div right) /\ Second(h) = mixed % word
  BY DEF Rotated, Second
<1>3. low \in Nat
  <2> HIDE DEF left
  <2> QED BY <1>1
<1>4. h \div right \in Nat
  <2> HIDE DEF right
  <2> QED BY <1>1
<1>5. low % word \in Nat
  <2> HIDE DEF low, word
  <2> QED BY <1>1, <1>3
<1>6. Rotated(h) \in Nat
  <2> HIDE DEF low, right, word
  <2> QED BY <1>2, <1>4, <1>5
<1>7. mixed \in Nat
  BY <1>6, BloomAssumption
<1>8. mixed % word \in 0 .. word - 1
  <2> HIDE DEF mixed, word
  <2> QED BY <1>1, <1>7
<1> QED BY <1>2, <1>8

\* Every probe is one of the filter's bits.
LEMMA ProbeInFilter ==
  ASSUME NEW h \in 0 .. Word - 1, NEW i \in Nat, NEW n \in Nat \ {0}
  PROVE  AddedBit(h, i, n) \in 0 .. n - 1
<1> DEFINE sum  == h + i * Second(h)
           word == Word
           cut  == sum % word
<1>1. Second(h) \in Nat /\ h \in Nat /\ word \in Nat \ {0}
  BY SecondIsWord, WordNatural
<1>2. sum \in Nat
  BY <1>1
<1>3. cut \in Nat
  <2> HIDE DEF sum, word
  <2> QED BY <1>1, <1>2
<1>4. AddedBit(h, i, n) = cut % n
  BY DEF AddedBit
<1>5. cut % n \in 0 .. n - 1
  <2> HIDE DEF cut
  <2> QED BY <1>3
<1> QED BY <1>4, <1>5

-----------------------------------------------------------------------------
(* Finish *)

LEMMA MaxOfTwo ==
  ASSUME NEW a \in Nat, NEW b \in Nat
  PROVE  Max({a, b}) \in {a, b} /\ Max({a, b}) >= a /\ Max({a, b}) >= b
<1>1. \E x \in {a, b} : \A y \in {a, b} : x >= y
  <2>1. CASE a >= b
    BY <2>1
  <2>2. CASE b >= a
    BY <2>2
  <2> QED BY <2>1, <2>2
<1>2. Max({a, b}) \in {a, b} /\ \A y \in {a, b} : Max({a, b}) >= y
  BY <1>1 DEF Max
<1> QED BY <1>2

\* The number of bits is a word, that of bytes a number.
LEMMA Sizes ==
  ASSUME NEW m \in Nat, NEW bits_per_key \in Nat
  PROVE  /\ NumBits(m, bits_per_key) \in Nat
         /\ NumBytes(NumBits(m, bits_per_key)) \in Nat
<1> DEFINE n    == NumBits(m, bits_per_key)
           word == Word
           most == Max({m * bits_per_key, MinBits})
           up   == n + ByteBits - 1
           cut  == up % word
<1>1. word \in Nat \ {0} /\ ByteBits \in Nat \ {0} /\ MinBits \in Nat
  BY WordNatural, BloomAssumption
<1>2. most \in Nat
  <2>1. m * bits_per_key \in Nat
    OBVIOUS
  <2> QED BY <1>1, <2>1, MaxOfTwo
<1>3. n \in Nat
  <2>1. n = most % word
    BY DEF NumBits
  <2>2. most % word \in Nat
    <3> HIDE DEF most, word
    <3> QED BY <1>1, <1>2
  <2> QED BY <2>1, <2>2
<1>4. cut \in Nat
  <2> HIDE DEF n, word
  <2> QED BY <1>1, <1>3
<1>5. cut \div ByteBits \in Nat
  <2> HIDE DEF cut
  <2> QED BY <1>1, <1>4
<1> QED BY <1>3, <1>5 DEF NumBytes

LEMMA FinishedProbes ==
  ASSUME NEW bits_per_key, Finished(bits_per_key).status = "ok"
  PROVE  Finished(bits_per_key).k = k
BY Zenon DEF Finished, Undefined, NoFilter

\* What Finish makes of the hashes: a filter that denies none of their probes.
LEMMA FinishedFilter ==
  ASSUME NEW bits_per_key \in Nat, hashes \in Seq(0 .. Word - 1), k \in Nat,
         Finished(bits_per_key).status = "ok", hashes # << >>,
         NEW h \in Range(hashes), NEW i \in 0 .. k - 1
  PROVE  LET f == Finished(bits_per_key)
         IN  ~Denies(f, AddedBit(h, i, f.num_bits))
<1> DEFINE n       == NumBits(Len(hashes), bits_per_key)
           f       == Finished(bits_per_key)
           nbytes  == NumBytes(n)
           probes  == Range(hashes) \X (0 .. k - 1)
           written == {AddedBit(p[1], p[2], n) : p \in probes}
           bits    == [b \in 1 .. nbytes |->
                        {w % ByteBits : w \in {x \in written : x \div ByteBits = b - 1}}]
           bit     == AddedBit(h, i, n)
           at      == bit \div ByteBits
<1>1. /\ ~(probes # {} /\ n = 0)
      /\ f = [status |-> "ok", num_bits |-> n, k |-> k, bits |-> bits]
  BY Zenon DEF Finished, Undefined, NoFilter
<1>2. <<h, i>> \in probes
  OBVIOUS
<1>3. bit \in written
  BY <1>2
<1>4. n \in Nat \ {0} /\ nbytes \in Nat
  <2>1. Len(hashes) \in Nat
    OBVIOUS
  <2>2. n \in Nat /\ nbytes \in Nat
    BY <2>1, Sizes
  <2> HIDE DEF n, nbytes, probes
  <2> QED BY <1>1, <1>2, <2>2
<1>5. h \in 0 .. Word - 1
  <2> DEFINE words == 0 .. Word - 1
  <2>1. hashes \in Seq(words)
    OBVIOUS
  <2>2. PICK x \in DOMAIN hashes : h = hashes[x]
    BY DEF Range
  <2> HIDE DEF words
  <2>3. h \in words
    BY <2>1, <2>2
  <2> QED BY <2>3 DEF words
<1>6. bit \in Nat
  <2>1. i \in Nat
    OBVIOUS
  <2> HIDE DEF n
  <2>2. bit \in 0 .. n - 1
    BY <1>4, <1>5, <2>1, ProbeInFilter
  <2> QED BY <2>2, <1>4
<1>7. at \in Nat
  <2> HIDE DEF bit
  <2> QED BY <1>6, BloomAssumption
<1>8. ASSUME at < Len(bits) PROVE bit % ByteBits \in bits[at + 1]
  <2>1. Len(bits) = nbytes
    <3> HIDE DEF nbytes, written
    <3> QED BY <1>4
  <2>2. at + 1 \in 1 .. nbytes /\ (at + 1) - 1 = at
    <3> HIDE DEF at, bits, nbytes
    <3> QED BY <1>4, <1>7, <1>8, <2>1
  <2>3. bits[at + 1] = {w % ByteBits : w \in {x \in written : x \div ByteBits = (at + 1) - 1}}
    <3> HIDE DEF at, nbytes, written
    <3> QED BY <2>2
  <2>4. bit \in {x \in written : x \div ByteBits = (at + 1) - 1}
    <3> HIDE DEF written
    <3> QED BY <1>3, <2>2
  <2> HIDE DEF written, bits, bit
  <2> QED BY <2>3, <2>4
<1>9. ~Denies(f, bit)
  <2> HIDE DEF n, nbytes, bits, bit
  <2> QED BY <1>1, <1>8 DEF Denies, ByteThere
<1>10. f.num_bits = n
  <2> HIDE DEF n, bits
  <2> QED BY <1>1
<1> QED BY <1>9, <1>10, Zenon


-----------------------------------------------------------------------------
(* The invariant *)

\* The builder holds the hash of every key that was added.
BuilderInv ==
  /\ k \in Nat /\ hashes \in Seq(0 .. Word - 1)
  /\ hash \in [KeyName -> 0 .. Word - 1] /\ covered \subseteq KeyName
  /\ \A key \in covered : hash[key] \in Range(hashes)

FilterInv == BuilderInv /\ NoFalseNegatives

LEMMA AppendedRange ==
  ASSUME NEW S, NEW s \in Seq(S), NEW x \in S
  PROVE  /\ Append(s, x) \in Seq(S)
         /\ Range(s) \subseteq Range(Append(s, x)) /\ x \in Range(Append(s, x))
<1>1. /\ Append(s, x) \in Seq(S) /\ Len(Append(s, x)) = Len(s) + 1 /\ Len(s) \in Nat
      /\ \A i \in 1 .. Len(s) : Append(s, x)[i] = s[i]
      /\ Append(s, x)[Len(s) + 1] = x
  OBVIOUS
<1>2. DOMAIN s = 1 .. Len(s) /\ DOMAIN Append(s, x) = 1 .. Len(s) + 1
  BY <1>1
<1> QED BY <1>1, <1>2 DEF Range

LEMMA InitFilterInv == Init => FilterInv
<1> SUFFICES ASSUME Init PROVE FilterInv
  OBVIOUS
<1>1. k \in Nat /\ hash \in [KeyName -> 0 .. Word - 1]
  BY BloomAssumption DEF Init
<1>2. hashes \in Seq(0 .. Word - 1) /\ covered = {} /\ filter.status = "none"
  BY DEF Init, NoFilter
<1> QED BY <1>1, <1>2 DEF FilterInv, BuilderInv, NoFalseNegatives

LEMMA AddFilterInv ==
  ASSUME FilterInv, NEW key \in KeyName, Add(key)
  PROVE  FilterInv'
<1> DEFINE words == 0 .. Word - 1
<1>1. hashes \in Seq(words) /\ hash[key] \in words
  BY DEF FilterInv, BuilderInv
<1>2. /\ hashes' = Append(hashes, hash[key]) /\ covered' = covered \cup {key}
      /\ filter' = filter /\ filter.status = "none" /\ UNCHANGED <<k, hash>>
  BY DEF Add, NoFilter
<1> HIDE DEF words
<1>3. /\ hashes' \in Seq(words)
      /\ Range(hashes) \subseteq Range(hashes') /\ hash[key] \in Range(hashes')
  BY <1>1, <1>2, AppendedRange
<1>4. BuilderInv'
  BY <1>2, <1>3 DEF FilterInv, BuilderInv, words
<1> QED BY <1>2, <1>4 DEF FilterInv, NoFalseNegatives

LEMMA FinishFilterInv ==
  ASSUME FilterInv, NEW bits_per_key \in BitsPerKey, Finish(bits_per_key)
  PROVE  FilterInv'
<1>1. /\ filter' = Finished(bits_per_key) /\ UNCHANGED <<k, hashes, hash, covered>>
      /\ bits_per_key \in Nat
  BY BloomAssumption DEF Finish
<1>2. BuilderInv /\ BuilderInv'
  BY <1>1 DEF FilterInv, BuilderInv
<1>3. ASSUME filter'.status = "ok", NEW key \in covered
      PROVE  MayContain(filter', hash[key])
  <2>1. hash[key] \in Range(hashes)
    BY <1>2 DEF BuilderInv
  <2>2. hashes # << >>
    BY <2>1 DEF Range
  <2>3. filter'.k = k
    BY <1>1, <1>3, FinishedProbes
  <2>4. ASSUME NEW i \in 0 .. k - 1
        PROVE  ~Denies(filter', AddedBit(hash[key], i, filter'.num_bits))
    <3>1. Finished(bits_per_key).status = "ok" /\ hashes \in Seq(0 .. Word - 1) /\ k \in Nat
      BY <1>1, <1>2, <1>3 DEF BuilderInv
    <3> QED BY <1>1, <2>1, <2>2, <2>4, <3>1, FinishedFilter
  <2> QED BY <2>3, <2>4 DEF MayContain, AddedBit, AskedBit
<1> QED BY <1>1, <1>2, <1>3 DEF FilterInv, NoFalseNegatives

LEMMA NextFilterInv == FilterInv /\ [Next]_bvars => FilterInv'
<1> SUFFICES ASSUME FilterInv, [Next]_bvars PROVE FilterInv'
  OBVIOUS
<1>1. CASE Store \/ UNCHANGED bvars
  BY <1>1 DEF Store, bvars, FilterInv, BuilderInv, NoFalseNegatives, MayContain, Denies, ByteThere,
              AskedBit
<1>2. ASSUME NEW key \in KeyName, Add(key) PROVE FilterInv'
  BY <1>2, AddFilterInv
<1>3. ASSUME NEW bits_per_key \in BitsPerKey, Finish(bits_per_key) PROVE FilterInv'
  BY <1>3, FinishFilterInv
<1> QED BY <1>1, <1>2, <1>3 DEF Next

\* A filter denies no key that was added to its builder, for any hashes, any
\* number of probes and any size, those at which its number of bits wraps included.
THEOREM FilterDeniesNoKey == Spec => []NoFalseNegatives
<1>1. FilterInv => NoFalseNegatives
  BY DEF FilterInv
<1> QED BY <1>1, InitFilterInv, NextFilterInv, PTL DEF Spec

\* Below the limit neither the number of bits nor that of bytes wraps.
LEMMA SizesBelowLimit ==
  ASSUME NEW m \in Nat, NEW bits_per_key \in Nat, m * bits_per_key <= Word - ByteBits
  PROVE  LET n == NumBits(m, bits_per_key)
         IN  n \in Nat \ {0} /\ NumBytes(n) = (n + ByteBits - 1) \div ByteBits
<1> DEFINE n    == NumBits(m, bits_per_key)
           word == Word
           asked == m * bits_per_key
           most == Max({asked, MinBits})
           up   == n + ByteBits - 1
<1>1. /\ word \in Nat \ {0} /\ ByteBits \in Nat \ {0} /\ MinBits \in 1 .. word - ByteBits
      /\ asked \in Nat /\ asked <= word - ByteBits
  BY WordNatural, BloomAssumption
<1>2. most \in 1 .. word - ByteBits
  <2> HIDE DEF asked, word
  <2>1. most \in {asked, MinBits} /\ most >= MinBits
    BY <1>1, MaxOfTwo
  <2> HIDE DEF most
  <2> QED BY <1>1, <2>1
<1>3. n = most
  <2>1. n = most % word
    BY DEF NumBits
  <2>2. most % word = most
    <3> HIDE DEF most, word
    <3> QED BY <1>1, <1>2
  <2> QED BY <2>1, <2>2
<1>4. up % word = up
  <2> HIDE DEF most, word, n
  <2> QED BY <1>1, <1>2, <1>3
<1>5. n \in Nat \ {0}
  <2> HIDE DEF most, word, n
  <2> QED BY <1>1, <1>2, <1>3
<1>6. NumBytes(n) = up \div ByteBits
  <2>1. NumBytes(n) = (up % word) \div ByteBits
    BY DEF NumBytes
  <2> QED BY <2>1, <1>4, Zenon
<1> QED BY <1>5, <1>6, Zenon

\* Below the limit Finish divides by a number of bits and writes within the bytes.
LEMMA FinishedDefined ==
  ASSUME BuilderInv, NEW bits_per_key \in Nat, Len(hashes) * bits_per_key <= Word - ByteBits
  PROVE  Finished(bits_per_key) # Undefined
<1> DEFINE n       == NumBits(Len(hashes), bits_per_key)
           nbytes  == NumBytes(n)
           probes  == Range(hashes) \X (0 .. k - 1)
           written == {AddedBit(p[1], p[2], n) : p \in probes}
<1>1. Len(hashes) \in Nat /\ hashes \in Seq(0 .. Word - 1) /\ k \in Nat /\ ByteBits \in Nat \ {0}
  BY BloomAssumption DEF BuilderInv
<1>2. n \in Nat \ {0} /\ nbytes = (n + ByteBits - 1) \div ByteBits
  BY <1>1, SizesBelowLimit
<1>3. ASSUME NEW w \in written PROVE ~(w \div ByteBits >= nbytes)
  <2>1. PICK p \in probes : w = AddedBit(p[1], p[2], n)
    OBVIOUS
  <2>2. p[1] \in Range(hashes) /\ p[2] \in Nat
    BY <2>1, <1>1
  <2> DEFINE words == 0 .. Word - 1
  <2>3. PICK x \in DOMAIN hashes : p[1] = hashes[x]
    BY <2>2 DEF Range
  <2>4. hashes \in Seq(words)
    BY <1>1
  <2>5. p[1] \in words
    <3> HIDE DEF words
    <3> QED BY <2>3, <2>4
  <2>6. w \in 0 .. n - 1
    <3> HIDE DEF n
    <3> QED BY <2>1, <2>2, <2>5, <1>2, ProbeInFilter
  <2> HIDE DEF n, nbytes, written
  <2>7. w \in Nat /\ w < n
    BY <2>6, <1>2
  <2>8. w \div ByteBits < nbytes
    BY <2>7, <1>1, <1>2, RoundedUp
  <2>9. w \div ByteBits \in Nat /\ nbytes \in Nat
    <3>1. n + ByteBits - 1 \in Nat
      BY <1>1, <1>2
    <3> QED BY <3>1, <2>7, <1>1, <1>2, Quotient
  <2> QED BY <2>8, <2>9
<1>4. n # 0
  <2> HIDE DEF n
  <2> QED BY <1>2
<1>5. Undefined.status # "ok"
  BY DEF Undefined, NoFilter
<1>6. Finished(bits_per_key).status = "ok"
  <2>1. ~(probes # {} /\ n = 0) /\ ~(probes # {} /\ \E w \in written : w \div ByteBits >= nbytes)
    BY <1>3, <1>4
  <2> QED BY <2>1, Zenon DEF Finished, NoFilter
<1> QED BY <1>5, <1>6

\* Finish computes nothing undefined for sizes that leave room for a byte in a
\* word, whatever the hashes and the number of probes.
THEOREM FinishDefined == Spec => []FinishDefinedBelowLimit
<1> DEFINE Inv == FilterInv /\ FinishDefinedBelowLimit
<1>1. Init => Inv
  <2>1. NoFilter # Undefined
    BY DEF NoFilter, Undefined
  <2> QED BY <2>1, InitFilterInv DEF Init, FinishDefinedBelowLimit
<1>2. Inv /\ [Next]_bvars => Inv'
  <2> SUFFICES ASSUME FilterInv, FinishDefinedBelowLimit, [Next]_bvars
               PROVE  FinishDefinedBelowLimit'
    BY NextFilterInv
  <2>1. CASE UNCHANGED <<filter, size>>
    BY <2>1 DEF FinishDefinedBelowLimit, Undefined, NoFilter
  <2>2. ASSUME NEW bits_per_key \in BitsPerKey, Finish(bits_per_key)
        PROVE  FinishDefinedBelowLimit'
    <3> DEFINE asked == Len(hashes) * bits_per_key
    <3>1. bits_per_key \in Nat /\ filter' = Finished(bits_per_key) /\ size' = asked
      BY <2>2, BloomAssumption DEF Finish
    <3>2. asked \in Nat /\ Word - ByteBits \in Int
      <4>1. Len(hashes) \in Nat
        BY DEF FilterInv, BuilderInv
      <4> QED BY <4>1, <3>1, WordNatural, BloomAssumption
    <3>3. asked <= Word - ByteBits => filter' # Undefined
      BY <3>1, FinishedDefined DEF FilterInv
    <3>4. Undefined' = Undefined
      BY DEF Undefined, NoFilter
    <3> HIDE DEF asked
    <3> QED BY <3>1, <3>2, <3>3, <3>4 DEF FinishDefinedBelowLimit, Word
  <2>3. CASE \E key \in KeyName : Add(key)
    BY <2>1, <2>3 DEF Add
  <2>4. CASE Store \/ UNCHANGED bvars
    BY <2>1, <2>4 DEF Store, bvars
  <2> QED BY <2>2, <2>3, <2>4 DEF Next
<1> QED BY <1>1, <1>2, PTL DEF Spec

-----------------------------------------------------------------------------
(* Varints *)

\* What is left of a number when its lowest digit was taken.
LEMMA OtherDigits ==
  ASSUME NEW n \in Nat
  PROVE  /\ n \div VarintBase \in Nat /\ Digit(n) \in 0 .. VarintBase - 1
         /\ n = Digit(n) + VarintBase * (n \div VarintBase)
         /\ n # 0 => n \div VarintBase < n
<1> DEFINE q == n \div VarintBase
           r == n % VarintBase
<1>1. VarintBase \in Nat /\ VarintBase > 1
  BY VarintAssumption
<1>2. q \in Nat /\ r \in 0 .. VarintBase - 1 /\ n = VarintBase * q + r
  BY <1>1
<1> HIDE DEF q, r
<1>3. n # 0 => q < n
  <2> SUFFICES ASSUME n # 0, q >= n PROVE FALSE
    BY <1>2
  <2>1. PICK m \in Nat : VarintBase = 2 + m
    <3>1. VarintBase - 2 \in Nat /\ VarintBase = 2 + (VarintBase - 2)
      BY <1>1
    <3> QED BY <3>1
  <2>2. VarintBase * q = 2 * q + m * q /\ m * q \in Nat
    BY <2>1, <1>2
  <2> QED BY <1>2, <2>2
<1>4. VarintBase * q \in Nat
  BY <1>1, <1>2
<1> QED BY <1>2, <1>3, <1>4 DEF q, r, Digit

Puts(f, n) ==
  f = [m \in 0 .. n |-> IF FitsOneByte(m) THEN <<m>>
                        ELSE <<Digit(m) + VarintBase>> \o f[m \div VarintBase]]

PutsOf(n) ==
  CHOOSE f : f = [m \in 0 .. n |-> IF FitsOneByte(m) THEN <<m>>
                                   ELSE <<Digit(m) + VarintBase>> \o f[m \div VarintBase]]

LEMMA PutsExist ==
  ASSUME NEW n \in Nat
  PROVE  \E f : Puts(f, n)
<1> DEFINE S == {j \in Nat : \E f : Puts(f, j)}
<1>1. 0 \in S
  <2> DEFINE f == [m \in 0 .. 0 |-> <<m>>]
  <2>1. FitsOneByte(0)
    BY VarintAssumption DEF FitsOneByte
  <2>2. \A m \in 0 .. 0 : m = 0
    OBVIOUS
  <2>3. \A m \in 0 .. 0 : <<m>> = IF FitsOneByte(m) THEN <<m>>
                                  ELSE <<Digit(m) + VarintBase>> \o f[m \div VarintBase]
    BY <2>1, <2>2, Zenon
  <2>4. Puts(f, 0)
    BY <2>3, Zenon DEF Puts
  <2> QED BY <2>4
<1>2. \A j \in S : j + 1 \in S
  <2> SUFFICES ASSUME NEW j \in Nat, NEW f, Puts(f, j)
               PROVE  \E g : Puts(g, j + 1)
    OBVIOUS
  <2> DEFINE val(h, m) == IF FitsOneByte(m) THEN <<m>>
                          ELSE <<Digit(m) + VarintBase>> \o h[m \div VarintBase]
             g == [m \in 0 .. j + 1 |-> IF m = j + 1 THEN val(f, j + 1) ELSE f[m]]
  <2>1. \A m \in 0 .. j : f[m] = val(f, m)
    BY DEF Puts
  <2>2. \A m \in 0 .. j : g[m] = f[m]
    OBVIOUS
  <2>3. g[j + 1] = val(f, j + 1)
    OBVIOUS
  <2>4. ASSUME NEW m \in 0 .. j + 1, ~FitsOneByte(m)
        PROVE  m \div VarintBase \in 0 .. j
    <3>1. m # 0
      BY <2>4, VarintAssumption DEF FitsOneByte
    <3> QED BY <3>1, OtherDigits
  <2>5. g = [m \in 0 .. j + 1 |-> g[m]]
    OBVIOUS
  <2> HIDE DEF g
  <2>6. \A m \in 0 .. j + 1 : val(g, m) = val(f, m)
    BY <2>2, <2>4
  <2> HIDE DEF val
  <2>7. \A m \in 0 .. j + 1 : m \in 0 .. j \/ m = j + 1
    OBVIOUS
  <2>8. \A m \in 0 .. j + 1 : g[m] = val(g, m)
    BY <2>1, <2>2, <2>3, <2>6, <2>7
  <2>9. g = [m \in 0 .. j + 1 |-> val(g, m)]
    BY <2>5, <2>8, Zenon
  <2> QED BY <2>9 DEF Puts, val
<1> HIDE DEF S
<1>3. S \subseteq Nat
  BY DEF S
<1>4. S = Nat
  BY <1>1, <1>2, <1>3, AllNumbers
<1> QED BY <1>4 DEF S

LEMMA PutsOfIsPuts ==
  ASSUME NEW n \in Nat
  PROVE  /\ PutVarint(n) = PutsOf(n)[n]
         /\ \A m \in 0 .. n :
              PutsOf(n)[m] = IF FitsOneByte(m) THEN <<m>>
                             ELSE <<Digit(m) + VarintBase>> \o PutsOf(n)[m \div VarintBase]
<1>1. \E f : Puts(f, n)
  BY PutsExist
<1>2. Puts(PutsOf(n), n)
  BY <1>1 DEF Puts, PutsOf
<1>3. PutVarint(n) = PutsOf(n)[n]
  BY DEF PutVarint, PutsOf
<1> DEFINE f == PutsOf(n)
<1> HIDE DEF f
<1>4. f = [m \in 0 .. n |-> IF FitsOneByte(m) THEN <<m>>
                            ELSE <<Digit(m) + VarintBase>> \o f[m \div VarintBase]]
  BY <1>2 DEF Puts, f
<1>5. \A m \in 0 .. n : f[m] = IF FitsOneByte(m) THEN <<m>>
                               ELSE <<Digit(m) + VarintBase>> \o f[m \div VarintBase]
  BY <1>4, Zenon
<1> QED BY <1>3, <1>5 DEF f

\* The bytes s hold n: the last one alone says that none follows, their digits make
\* n, from the last one on, and there are no more of them than n needs.
Makes(s, f) ==
  f[0] = 0 /\ \A i \in 1 .. Len(s) : f[i] = Digit(s[Len(s) + 1 - i]) + VarintBase * f[i - 1]

Holds(s, n) ==
  /\ s \in Seq(Nat) /\ Len(s) > 0
  /\ \A i \in 1 .. Len(s) : IsLast(s[i]) <=> i = Len(s)
  /\ \A f : Makes(s, f) => f[Len(s)] = n
  /\ \A d \in 1 .. MaxDigits : n < VarintBase ^ d => Len(s) <= d

LEMMA OneByteHolds ==
  ASSUME NEW n \in Nat, FitsOneByte(n)
  PROVE  Holds(<<n>>, n)
<1> DEFINE s == <<n>>
<1>1. s \in Seq(Nat) /\ Len(s) = 1 /\ s[1] = n
  OBVIOUS
<1>2. IsLast(n) /\ Digit(n) = n
  BY VarintAssumption DEF FitsOneByte, IsLast, Digit
<1> HIDE DEF s
<1>3. \A i \in 1 .. Len(s) : i = 1
  BY <1>1
<1>4. ASSUME NEW f, Makes(s, f) PROVE f[Len(s)] = n
  <2>1. 1 \in 1 .. Len(s) /\ Len(s) + 1 - 1 = 1 /\ 1 - 1 = 0
    BY <1>1
  <2>2. f[1] = Digit(s[1]) + VarintBase * f[0] /\ f[0] = 0
    BY <1>4, <2>1 DEF Makes
  <2> QED BY <2>2, <1>1, <1>2, VarintAssumption
<1>5. Holds(s, n)
  BY <1>1, <1>2, <1>3, <1>4, VarintAssumption DEF Holds
<1> QED BY <1>5 DEF s

LEMMA PowerIsNatural ==
  ASSUME NEW d \in 0 .. MaxDigits
  PROVE  VarintBase ^ d \in Nat
<1> DEFINE S == {j \in Nat : j <= MaxDigits => VarintBase ^ j \in Nat}
<1>1. 0 \in S
  BY VarintPowers
<1>2. \A j \in S : j + 1 \in S
  <2> SUFFICES ASSUME NEW j \in S, j + 1 <= MaxDigits PROVE VarintBase ^ (j + 1) \in Nat
    OBVIOUS
  <2>1. j \in 0 .. MaxDigits - 1 /\ j <= MaxDigits
    BY VarintAssumption
  <2>2. VarintBase ^ (j + 1) = VarintBase * VarintBase ^ j
    BY <2>1, VarintPowers
  <2> QED BY <2>1, <2>2, VarintAssumption
<1>3. S \subseteq Nat
  OBVIOUS
<1> HIDE DEF S
<1>4. S = Nat
  BY <1>1, <1>2, <1>3, AllNumbers
<1> QED BY <1>4, VarintAssumption DEF S

\* A number below B * x has a quotient below x.
LEMMA QuotientBelow ==
  ASSUME NEW q \in Nat, NEW x \in Nat, NEW b \in Nat, b * q < b * x
  PROVE  q < x
<1> SUFFICES ASSUME x <= q PROVE FALSE
  OBVIOUS
<1>1. PICK m \in Nat : q = x + m
  <2>1. q - x \in Nat /\ q = x + (q - x)
    OBVIOUS
  <2> QED BY <2>1
<1>2. b * q = b * x + b * m /\ b * m \in Nat /\ b * x \in Nat
  BY <1>1
<1> QED BY <1>2

LEMMA MoreBytesHold ==
  ASSUME NEW n \in Nat, ~FitsOneByte(n), NEW t, Holds(t, n \div VarintBase)
  PROVE  Holds(<<Digit(n) + VarintBase>> \o t, n)
<1> DEFINE b == Digit(n) + VarintBase
           s == <<b>> \o t
           q == n \div VarintBase
           j == Len(t)
<1>1. /\ q \in Nat /\ Digit(n) \in 0 .. VarintBase - 1 /\ n = Digit(n) + VarintBase * q
      /\ VarintBase \in Nat /\ VarintBase > 1 /\ b \in Nat /\ b >= VarintBase
  <2>1. q \in Nat /\ Digit(n) \in 0 .. VarintBase - 1 /\ n = Digit(n) + VarintBase * q
    BY OtherDigits
  <2>2. VarintBase \in Nat /\ VarintBase > 1
    BY VarintAssumption
  <2> HIDE DEF q
  <2> QED BY <2>1, <2>2
<1>2. ~IsLast(b) /\ Digit(b) = Digit(n)
  <2>1. ~IsLast(b)
    BY <1>1 DEF IsLast
  <2>2. ASSUME NEW r \in 0 .. VarintBase - 1 PROVE (r + VarintBase) % VarintBase = r
    BY <1>1, <2>2
  <2>3. Digit(b) = (Digit(n) + VarintBase) % VarintBase
    BY DEF Digit
  <2> QED BY <1>1, <2>1, <2>2, <2>3
<1>3. t \in Seq(Nat) /\ j \in Nat /\ j > 0
  BY DEF Holds
<1>4. /\ s \in Seq(Nat) /\ Len(s) = j + 1 /\ s[1] = b
      /\ \A i \in 1 .. j : s[i + 1] = t[i]
  <2> HIDE DEF b
  <2>1. <<b>> \in Seq(Nat) /\ Len(<<b>>) = 1 /\ <<b>>[1] = b
    BY <1>1
  <2> DEFINE one == <<b>>
  <2>2. one \in Seq(Nat) /\ Len(one) = 1 /\ one[1] = b
    BY <2>1
  <2>3. s = one \o t
    BY DEF one
  <2> HIDE DEF one
  <2>4. /\ one \o t \in Seq(Nat) /\ Len(one \o t) = Len(one) + Len(t)
        /\ \A i \in 1 .. Len(one) + Len(t) :
             (one \o t)[i] = IF i <= Len(one) THEN one[i] ELSE t[i - Len(one)]
    BY <2>2, <1>3, ConcatProperties
  <2>5. Len(t) = j
    OBVIOUS
  <2> HIDE DEF s, j
  <2>6. /\ one \o t \in Seq(Nat) /\ Len(one \o t) = 1 + j
        /\ \A i \in 1 .. 1 + j : (one \o t)[i] = IF i <= 1 THEN one[i] ELSE t[i - 1]
    BY <2>2, <2>4, <2>5, Zenon
  <2>7. /\ 1 \in 1 .. 1 + j /\ 1 <= 1 /\ 1 + j = j + 1
        /\ \A i \in 1 .. j : i + 1 \in 1 .. 1 + j /\ ~(i + 1 <= 1) /\ (i + 1) - 1 = i
    BY <1>3
  <2> QED BY <2>2, <2>3, <2>6, <2>7
<1> HIDE DEF b, s, q, j
<1>5. \A i \in 1 .. j + 1 : i = 1 \/ (i - 1 \in 1 .. j /\ (i - 1) + 1 = i)
  BY <1>3
<1>6. \A i \in 1 .. Len(s) : IsLast(s[i]) <=> i = Len(s)
  <2>1. \A i \in 1 .. j : IsLast(t[i]) <=> i = j
    BY DEF Holds, j
  <2>2. ASSUME NEW i \in 1 .. j + 1 PROVE IsLast(s[i]) <=> i = j + 1
    <3>1. CASE i = 1
      BY <3>1, <1>2, <1>3, <1>4
    <3>2. CASE i - 1 \in 1 .. j /\ (i - 1) + 1 = i
      <4>1. s[i] = t[i - 1] /\ (i - 1 = j <=> i = j + 1)
        BY <3>2, <1>3, <1>4
      <4> QED BY <4>1, <3>2, <2>1
    <3> QED BY <3>1, <3>2, <1>5
  <2> QED BY <2>2, <1>4
<1>7. ASSUME NEW f, Makes(s, f) PROVE f[Len(s)] = n
  <2>1. f[0] = 0 /\ \A i \in 1 .. j + 1 : f[i] = Digit(s[j + 1 + 1 - i]) + VarintBase * f[i - 1]
    BY <1>4, <1>7 DEF Makes
  <2>2. ASSUME NEW i \in 1 .. j PROVE f[i] = Digit(t[j + 1 - i]) + VarintBase * f[i - 1]
    <3>1. i \in 1 .. j + 1 /\ j + 1 - i \in 1 .. j /\ (j + 1 - i) + 1 = j + 1 + 1 - i
      BY <1>3
    <3>2. s[j + 1 + 1 - i] = t[j + 1 - i]
      BY <3>1, <1>4
    <3> QED BY <3>1, <3>2, <2>1
  <2>3. Makes(t, f)
    BY <2>1, <2>2 DEF Makes, j
  <2>4. f[j] = q
    BY <2>3 DEF Holds, j, q
  <2>5. j + 1 \in 1 .. j + 1 /\ j + 1 + 1 - (j + 1) = 1 /\ (j + 1) - 1 = j
    BY <1>3
  <2>6. f[j + 1] = Digit(s[1]) + VarintBase * f[j]
    BY <2>1, <2>5
  <2> QED BY <2>4, <2>6, <1>1, <1>2, <1>4
<1>8. ASSUME NEW d \in 1 .. MaxDigits, n < VarintBase ^ d PROVE Len(s) <= d
  <2> DEFINE p == VarintBase ^ (d - 1)
  <2>1. d - 1 \in 0 .. MaxDigits - 1 /\ (d - 1) + 1 = d /\ d - 1 \in 0 .. MaxDigits
    BY VarintAssumption
  <2>2. VarintBase ^ d = VarintBase * p /\ p \in Nat
    BY <2>1, VarintPowers, PowerIsNatural
  <2> HIDE DEF p
  <2>3. VarintBase * q < VarintBase * p
    <3>1. VarintBase * q \in Nat /\ VarintBase * p \in Nat
      BY <1>1, <2>2
    <3> QED BY <3>1, <1>1, <1>8, <2>2
  <2>4. q < p
    BY <1>1, <2>2, <2>3, QuotientBelow
  <2>5. d # 1
    <3> SUFFICES ASSUME d = 1 PROVE FALSE
      OBVIOUS
    <3>1. VarintBase ^ d = VarintBase * 1
      BY VarintPowers, <2>1, <2>2 DEF p
    <3> QED BY <3>1, <1>1, <1>8 DEF FitsOneByte
  <2>6. d - 1 \in 1 .. MaxDigits
    BY <2>1, <2>5
  <2>7. j <= d - 1
    BY <2>4, <2>6 DEF Holds, p, j, q
  <2> QED BY <2>7, <1>3, <1>4
<1>9. Holds(s, n)
  BY <1>3, <1>4, <1>6, <1>7, <1>8 DEF Holds
<1> QED BY <1>9 DEF s, b

\* What PutVarint writes holds its number.
LEMMA PutVarintHolds ==
  ASSUME NEW n \in Nat
  PROVE  Holds(PutVarint(n), n)
<1> DEFINE f == PutsOf(n)
           S == {j \in Nat : \A m \in 0 .. j : m <= n => Holds(f[m], m)}
<1>1. /\ PutVarint(n) = f[n]
      /\ \A m \in 0 .. n : f[m] = IF FitsOneByte(m) THEN <<m>>
                                  ELSE <<Digit(m) + VarintBase>> \o f[m \div VarintBase]
  BY PutsOfIsPuts
<1> HIDE DEF f
<1>2. ASSUME NEW m \in 0 .. n, FitsOneByte(m) PROVE Holds(f[m], m)
  <2>1. m \in Nat
    OBVIOUS
  <2>2. f[m] = <<m>>
    BY <1>1, <1>2, Zenon
  <2>3. Holds(<<m>>, m)
    BY <1>2, <2>1, OneByteHolds
  <2> QED BY <2>2, <2>3, Zenon
<1>3. 0 \in S
  <2>1. FitsOneByte(0)
    BY VarintAssumption DEF FitsOneByte
  <2>2. \A m \in 0 .. 0 : m = 0 /\ 0 \in 0 .. n
    OBVIOUS
  <2> QED BY <1>2, <2>1, <2>2
<1>4. \A j \in S : j + 1 \in S
  <2> SUFFICES ASSUME NEW j \in S, j + 1 <= n PROVE Holds(f[j + 1], j + 1)
    OBVIOUS
  <2>1. j + 1 \in 0 .. n /\ j + 1 \in Nat
    OBVIOUS
  <2>2. CASE FitsOneByte(j + 1)
    BY <2>1, <2>2, <1>2
  <2>3. CASE ~FitsOneByte(j + 1)
    <3> DEFINE q == (j + 1) \div VarintBase
    <3>1. q \in Nat /\ q < j + 1
      BY <2>1, OtherDigits
    <3>2. q \in 0 .. j /\ q <= n
      BY <3>1
    <3>3. Holds(f[q], q)
      BY <3>2
    <3>4. f[j + 1] = <<Digit(j + 1) + VarintBase>> \o f[q]
      BY <1>1, <2>1, <2>3
    <3> QED BY <2>1, <2>3, <3>3, <3>4, MoreBytesHold
  <2> QED BY <2>2, <2>3
<1>5. S \subseteq Nat
  OBVIOUS
<1> HIDE DEF S
<1>6. S = Nat
  BY <1>3, <1>4, <1>5, AllNumbers
<1> QED BY <1>1, <1>6 DEF S

Lasts(f, s, n, m) ==
  f = [i \in 0 .. m |-> IF i = 0 THEN 0 ELSE Digit(s[n + 1 - i]) + VarintBase * f[i - 1]]

LastsOf(s, n) ==
  CHOOSE f : f = [i \in 0 .. n |-> IF i = 0 THEN 0
                                   ELSE Digit(s[n + 1 - i]) + VarintBase * f[i - 1]]

LEMMA LastsExist ==
  ASSUME NEW s, NEW n, NEW m \in Nat
  PROVE  \E f : Lasts(f, s, n, m)
<1> DEFINE S == {j \in Nat : \E f : Lasts(f, s, n, j)}
<1>1. 0 \in S
  <2>1. \A i \in 0 .. 0 : i = 0
    OBVIOUS
  <2>2. Lasts([i \in 0 .. 0 |-> 0], s, n, 0)
    BY <2>1 DEF Lasts
  <2> QED BY <2>2
<1>2. \A j \in S : j + 1 \in S
  <2> SUFFICES ASSUME NEW j \in Nat, NEW f, Lasts(f, s, n, j)
               PROVE  \E g : Lasts(g, s, n, j + 1)
    OBVIOUS
  <2> DEFINE val(h, i) == IF i = 0 THEN 0 ELSE Digit(s[n + 1 - i]) + VarintBase * h[i - 1]
             g == [i \in 0 .. j + 1 |-> IF i = j + 1 THEN val(f, j + 1) ELSE f[i]]
  <2>1. \A i \in 0 .. j : f[i] = val(f, i)
    BY DEF Lasts
  <2>2. (\A i \in 0 .. j : g[i] = f[i]) /\ g[j + 1] = val(f, j + 1)
    OBVIOUS
  <2>3. g = [i \in 0 .. j + 1 |-> g[i]]
    OBVIOUS
  <2> HIDE DEF g
  <2>4. \A i \in 0 .. j + 1 : val(g, i) = val(f, i)
    <3>1. \A i \in 0 .. j + 1 : i = 0 \/ i - 1 \in 0 .. j
      OBVIOUS
    <3> QED BY <2>2, <3>1
  <2> HIDE DEF val
  <2>5. \A i \in 0 .. j + 1 : i \in 0 .. j \/ i = j + 1
    OBVIOUS
  <2>6. \A i \in 0 .. j + 1 : g[i] = val(g, i)
    BY <2>1, <2>2, <2>4, <2>5
  <2>7. g = [i \in 0 .. j + 1 |-> val(g, i)]
    BY <2>3, <2>6, Zenon
  <2> QED BY <2>7 DEF Lasts, val
<1> HIDE DEF S
<1>3. S \subseteq Nat
  BY DEF S
<1>4. S = Nat
  BY <1>1, <1>2, <1>3, AllNumbers
<1> QED BY <1>4 DEF S

LEMMA LastsOfIsLasts ==
  ASSUME NEW s, NEW n \in Nat
  PROVE  /\ LastsOf(s, n)[0] = 0
         /\ \A i \in 1 .. n :
              LastsOf(s, n)[i] = Digit(s[n + 1 - i]) + VarintBase * LastsOf(s, n)[i - 1]
<1>1. \E f : Lasts(f, s, n, n)
  BY LastsExist
<1>2. Lasts(LastsOf(s, n), s, n, n)
  BY <1>1 DEF Lasts, LastsOf
<1> DEFINE f == LastsOf(s, n)
           val(i) == IF i = 0 THEN 0 ELSE Digit(s[n + 1 - i]) + VarintBase * f[i - 1]
<1> HIDE DEF f
<1>3. f = [i \in 0 .. n |-> val(i)]
  BY <1>2 DEF Lasts, f
<1> HIDE DEF val
<1>4. \A i \in 0 .. n : f[i] = val(i)
  BY <1>3, Zenon
<1>5. 0 \in 0 .. n /\ \A i \in 1 .. n : i \in 0 .. n /\ i # 0
  OBVIOUS
<1> QED BY <1>4, <1>5 DEF f, val

Ends(bytes) == {i \in DOMAIN bytes : i <= MaxDigits /\ IsLast(bytes[i])}

LEMMA GetVarintIs ==
  ASSUME NEW bytes
  PROVE  GetVarint(bytes) =
           IF Ends(bytes) = {} THEN [ok |-> FALSE, value |-> 0, rest |-> bytes]
           ELSE [ok |-> TRUE, value |-> LastsOf(bytes, Min(Ends(bytes)))[Min(Ends(bytes))],
                 rest |-> SubSeq(bytes, Min(Ends(bytes)) + 1, Len(bytes))]
BY Zenon DEF GetVarint, Ends, LastsOf

LEMMA AfterPart ==
  ASSUME NEW s \in Seq(Nat), NEW rest \in Seq(Nat)
  PROVE  SubSeq(s \o rest, Len(s) + 1, Len(s \o rest)) = rest
<1> DEFINE m == Len(s)
           r == Len(rest)
<1>1. m \in Nat /\ r \in Nat /\ Len(s \o rest) = m + r
  OBVIOUS
<1>2. SubSeq(s \o rest, m + 1, m + r) = SubSeq(rest, (m + 1) - m, (m + r) - m)
  BY <1>1, SubSeqOfConcat2
<1>3. (m + 1) - m = 1 /\ (m + r) - m = r
  BY <1>1
<1>4. SubSeq(rest, 1, r) = rest
  BY SubSeqFull
<1> QED BY <1>1, <1>2, <1>3, <1>4, Zenon

\* A varint is read back, with what follows it, if it has no more digits than are
\* read.
LEMMA GetWhole ==
  ASSUME NEW n \in Nat, NEW rest \in Seq(Nat)
  PROVE  LET s == PutVarint(n)
             g == GetVarint(s \o rest)
         IN  /\ Len(s) <= MaxDigits => g.ok /\ g.value = n /\ g.rest = rest
             /\ Len(s) > MaxDigits => ~g.ok
<1> DEFINE s == PutVarint(n)
           m == Len(s)
           e == s \o rest
<1>1. Holds(s, n)
  BY PutVarintHolds
<1> HIDE DEF s
<1>2. s \in Seq(Nat) /\ m \in Nat /\ m > 0 /\ MaxDigits \in Nat
  BY <1>1, VarintAssumption DEF Holds
<1>3. /\ e \in Seq(Nat) /\ Len(e) = m + Len(rest) /\ Len(rest) \in Nat
      /\ \A i \in 1 .. m : e[i] = s[i]
      /\ \A i \in 1 .. Len(rest) : e[m + i] = rest[i]
  BY <1>2
<1> HIDE DEF m, e
<1>4. DOMAIN e = 1 .. m + Len(rest)
  BY <1>3
<1>5. \A i \in 1 .. m : IsLast(e[i]) <=> i = m
  BY <1>1, <1>3 DEF Holds, m
<1>6. ASSUME m <= MaxDigits
      PROVE  GetVarint(e).ok /\ GetVarint(e).value = n /\ GetVarint(e).rest = rest
  <2>1. m \in Ends(e)
    BY <1>2, <1>3, <1>4, <1>5, <1>6 DEF Ends
  <2>2. ASSUME NEW i \in Ends(e) PROVE m <= i
    <3>1. i \in 1 .. m + Len(rest) /\ IsLast(e[i])
      BY <1>4 DEF Ends
    <3>2. i \in 1 .. m => i = m
      BY <3>1, <1>5
    <3> QED BY <3>1, <3>2, <1>2, <1>3
  <2>3. Ends(e) \subseteq Nat
    BY <1>2, <1>3, <1>4 DEF Ends
  <2>4. Min(Ends(e)) = m
    <3>1. Min(Ends(e)) \in Ends(e) /\ \A i \in Ends(e) : Min(Ends(e)) <= i
      BY <2>1, <2>2 DEF Min
    <3> QED BY <2>1, <2>2, <2>3, <3>1, <1>2
  <2>5. Makes(s, LastsOf(e, m))
    <3> DEFINE f == LastsOf(e, m)
    <3>1. f[0] = 0 /\ \A i \in 1 .. m : f[i] = Digit(e[m + 1 - i]) + VarintBase * f[i - 1]
      BY <1>2, LastsOfIsLasts
    <3> HIDE DEF f
    <3>2. \A i \in 1 .. m : m + 1 - i \in 1 .. m
      BY <1>2
    <3>3. \A i \in 1 .. m : e[m + 1 - i] = s[m + 1 - i]
      BY <3>2, <1>3
    <3>4. Makes(s, f)
      BY <3>1, <3>3 DEF Makes, m
    <3> QED BY <3>4 DEF f
  <2>6. LastsOf(e, m)[m] = n
    BY <1>1, <2>5 DEF Holds, m
  <2>7. SubSeq(e, m + 1, Len(e)) = rest
    BY <1>2, AfterPart DEF m, e
  <2>8. GetVarint(e) = [ok |-> TRUE, value |-> n, rest |-> rest]
    BY <2>1, <2>4, <2>6, <2>7, GetVarintIs
  <2> QED BY <2>8
<1>7. ASSUME m > MaxDigits PROVE ~GetVarint(e).ok
  <2>1. Ends(e) = {}
    <3> SUFFICES ASSUME NEW i \in 1 .. m + Len(rest), i <= MaxDigits, IsLast(e[i]) PROVE FALSE
      BY <1>4 DEF Ends
    <3>1. i \in 1 .. m /\ i # m
      BY <1>2, <1>3, <1>7
    <3> QED BY <3>1, <1>5
  <2>2. GetVarint(e) = [ok |-> FALSE, value |-> 0, rest |-> e]
    BY <2>1, GetVarintIs
  <2> QED BY <2>2
<1> QED BY <1>6, <1>7 DEF s, m, e

\* Of one that was cut short nothing is read.
LEMMA GetCut ==
  ASSUME NEW n \in Nat, NEW l \in Nat, l < Len(PutVarint(n))
  PROVE  ~GetVarint(SubSeq(PutVarint(n), 1, l)).ok
<1> DEFINE s == PutVarint(n)
           c == SubSeq(s, 1, l)
<1>1. Holds(s, n)
  BY PutVarintHolds
<1>2. s \in Seq(Nat) /\ Len(s) \in Nat /\ l < Len(s)
  BY <1>1 DEF Holds
<1> HIDE DEF s
<1>3. c \in Seq(Nat) /\ DOMAIN c = 1 .. l /\ \A i \in 1 .. l : c[i] = s[i]
  BY <1>2
<1> HIDE DEF c
<1>4. \A i \in 1 .. l : ~IsLast(c[i])
  <2>1. \A i \in 1 .. l : i \in 1 .. Len(s) /\ i # Len(s)
    BY <1>2
  <2> QED BY <2>1, <1>1, <1>3 DEF Holds
<1>5. Ends(c) = {}
  BY <1>3, <1>4 DEF Ends
<1>6. GetVarint(c) = [ok |-> FALSE, value |-> 0, rest |-> c]
  BY <1>5, GetVarintIs
<1> QED BY <1>6 DEF c, s

-----------------------------------------------------------------------------
(* What is stored *)

\* The beginnings of two sequences that are joined.
LEMMA BeginningsOfJoin ==
  ASSUME NEW a \in Seq(Nat), NEW b \in Seq(Nat), NEW l \in 0 .. Len(a) + Len(b)
  PROVE  /\ l < Len(a) => SubSeq(a \o b, 1, l) = SubSeq(a, 1, l)
         /\ l >= Len(a) => SubSeq(a \o b, 1, l) = a \o SubSeq(b, 1, l - Len(a))
<1> DEFINE c == SubSeq(a \o b, 1, l)
           e == a \o b
<1>1. /\ e \in Seq(Nat) /\ Len(e) = Len(a) + Len(b)
      /\ \A i \in 1 .. Len(a) : e[i] = a[i]
      /\ \A i \in 1 .. Len(b) : e[Len(a) + i] = b[i]
  <2>1. /\ e \in Seq(Nat) /\ Len(e) = Len(a) + Len(b)
        /\ \A i \in 1 .. Len(a) + Len(b) : e[i] = IF i <= Len(a) THEN a[i] ELSE b[i - Len(a)]
    BY ConcatProperties
  <2> HIDE DEF e
  <2>2. Len(a) \in Nat /\ Len(b) \in Nat
    OBVIOUS
  <2>3. /\ \A i \in 1 .. Len(a) : i \in 1 .. Len(a) + Len(b) /\ i <= Len(a)
        /\ \A i \in 1 .. Len(b) : /\ Len(a) + i \in 1 .. Len(a) + Len(b)
                                 /\ ~(Len(a) + i <= Len(a)) /\ (Len(a) + i) - Len(a) = i
    BY <2>2
  <2> QED BY <2>1, <2>3
<1> HIDE DEF e
<1>2. c \in Seq(Nat) /\ Len(c) = l /\ \A i \in 1 .. l : c[i] = e[i]
  <2>1. c = SubSeq(e, 1, l) /\ l \in 0 .. Len(e)
    BY <1>1 DEF e
  <2> HIDE DEF c
  <2> QED BY <2>1, <1>1
<1> HIDE DEF c
<1>3. ASSUME l < Len(a) PROVE c = SubSeq(a, 1, l)
  <2> DEFINE d == SubSeq(a, 1, l)
  <2>1. d \in Seq(Nat) /\ Len(d) = l /\ \A i \in 1 .. l : d[i] = a[i]
    BY <1>3
  <2> HIDE DEF d
  <2>2. ASSUME NEW i \in 1 .. l PROVE c[i] = d[i]
    <3>1. i \in 1 .. Len(a)
      BY <1>3
    <3>2. c[i] = e[i] /\ e[i] = a[i] /\ d[i] = a[i]
      BY <3>1, <1>1, <1>2, <2>1
    <3> QED BY <3>2
  <2>3. c = d
    BY <1>2, <2>1, <2>2, SeqEqual
  <2> QED BY <2>3 DEF d
<1>4. ASSUME l >= Len(a) PROVE c = a \o SubSeq(b, 1, l - Len(a))
  <2> DEFINE r == l - Len(a)
             p == SubSeq(b, 1, r)
             d == a \o p
  <2>1. r \in 0 .. Len(b) /\ Len(a) + r = l /\ Len(a) \in Nat
    BY <1>4
  <2> HIDE DEF r
  <2>2. p \in Seq(Nat) /\ Len(p) = r /\ \A i \in 1 .. r : p[i] = b[i]
    BY <2>1
  <2> HIDE DEF p
  <2>3. /\ d \in Seq(Nat) /\ Len(d) = l
        /\ \A i \in 1 .. Len(a) : d[i] = a[i]
        /\ \A i \in 1 .. r : d[Len(a) + i] = p[i]
    BY <2>1, <2>2
  <2> HIDE DEF d
  <2>4. ASSUME NEW i \in 1 .. l PROVE c[i] = d[i]
    <3>1. CASE i \in 1 .. Len(a)
      BY <1>1, <1>2, <2>3, <3>1
    <3>2. CASE i \notin 1 .. Len(a)
      <4>1. i - Len(a) \in 1 .. r /\ i - Len(a) \in 1 .. Len(b) /\ Len(a) + (i - Len(a)) = i
        BY <2>1, <3>2
      <4>2. d[Len(a) + (i - Len(a))] = p[i - Len(a)] /\ p[i - Len(a)] = b[i - Len(a)]
            /\ e[Len(a) + (i - Len(a))] = b[i - Len(a)]
        BY <4>1, <1>1, <2>2, <2>3
      <4>3. c[i] = e[i]
        BY <1>2
      <4> QED BY <4>1, <4>2, <4>3
    <3> QED BY <3>1, <3>2
  <2>5. c = d
    BY <1>2, <2>3, <2>4, SeqEqual
  <2> QED BY <2>5 DEF d, p, r
<1> QED BY <1>3, <1>4 DEF c, e

\* An encoding that has both parameters decodes to them, or is refused because of
\* them.
LEMMA DecodeWhole ==
  ASSUME NEW n \in Nat, NEW probes \in Nat, NEW body
  PROVE  LET d == Decode([head |-> PutVarint(n) \o PutVarint(probes), body |-> body])
         IN  IF n <= Word \div 2 /\ probes <= MaxProbes
               THEN d = [status |-> "ok", num_bits |-> n, k |-> probes, bits |-> body]
               ELSE d.status = "corruption"
<1> DEFINE a == PutVarint(n)
           b == PutVarint(probes)
           e == [head |-> a \o b, body |-> body]
           g == GetVarint(a \o b)
           h == GetVarint(g.rest)
           d == Decode(e)
           half == Word \div 2
           cap == VarintBase ^ MaxDigits
<1>1. Holds(a, n) /\ Holds(b, probes)
  BY PutVarintHolds
<1>2. a \in Seq(Nat) /\ b \in Seq(Nat) /\ Len(a) \in Nat /\ Len(b) \in Nat
  BY <1>1 DEF Holds
<1>3. /\ Len(a) <= MaxDigits => g.ok /\ g.value = n /\ g.rest = b
      /\ Len(a) > MaxDigits => ~g.ok
  BY <1>2, GetWhole
<1>4. /\ Len(b) <= MaxDigits => GetVarint(b).ok /\ GetVarint(b).value = probes
      /\ Len(b) > MaxDigits => ~GetVarint(b).ok
  <2>1. << >> \in Seq(Nat)
    OBVIOUS
  <2>2. b \o << >> = b
    BY <1>2, ConcatEmptySeq
  <2>3. /\ Len(b) <= MaxDigits => GetVarint(b \o << >>).ok /\ GetVarint(b \o << >>).value = probes
        /\ Len(b) > MaxDigits => ~GetVarint(b \o << >>).ok
    BY <2>1, GetWhole
  <2> HIDE DEF b
  <2> QED BY <2>2, <2>3
<1>5. /\ half \in Nat /\ cap \in Nat /\ MaxDigits \in 1 .. MaxDigits
      /\ n <= half => n < cap
      /\ probes <= MaxProbes => probes < cap
  <2> DEFINE word == Word
  <2>1. /\ word \in Nat \ {0} /\ word <= cap /\ MaxProbes < cap /\ MaxProbes \in Nat
        /\ MaxDigits \in Nat \ {0}
    BY WordNatural, EncodingAssumption, VarintAssumption
  <2>2. cap \in Nat
    <3>1. MaxDigits \in 0 .. MaxDigits
      BY <2>1
    <3> QED BY <3>1, PowerIsNatural
  <2>3. half \in Nat /\ half < word
    <3>1. half = word \div 2
      OBVIOUS
    <3> HIDE DEF word, half
    <3> QED BY <2>1, <3>1
  <2> HIDE DEF word, half, cap
  <2> QED BY <2>1, <2>2, <2>3
<1>6. /\ n <= half => Len(a) <= MaxDigits
      /\ probes <= MaxProbes => Len(b) <= MaxDigits
  BY <1>1, <1>5 DEF Holds
<1>7. d = IF ~g.ok \/ ~h.ok \/ g.value > half \/ h.value > MaxProbes
            THEN [NoFilter EXCEPT !.status = "corruption"]
            ELSE [status |-> "ok", num_bits |-> g.value, k |-> h.value, bits |-> body]
  <2>1. e.head = a \o b /\ e.body = body
    OBVIOUS
  <2> HIDE DEF e, a, b
  <2> QED BY <2>1, Zenon DEF Decode
<1>8. [NoFilter EXCEPT !.status = "corruption"].status = "corruption"
  BY DEF NoFilter
<1>9. Len(a) <= MaxDigits \/ Len(a) > MaxDigits
  BY <1>2, VarintAssumption
<1>10. Len(b) <= MaxDigits \/ Len(b) > MaxDigits
  BY <1>2, VarintAssumption
<1> HIDE DEF a, b, g, d, half, cap, e
<1>11. CASE n <= half /\ probes <= MaxProbes
  <2>1. g.ok /\ g.value = n /\ g.rest = b /\ h.ok /\ h.value = probes
    BY <1>3, <1>4, <1>6, <1>11
  <2>2. ~(g.value > half) /\ ~(h.value > MaxProbes)
    BY <2>1, <1>5, <1>11, EncodingAssumption
  <2>3. d = [status |-> "ok", num_bits |-> n, k |-> probes, bits |-> body]
    BY <2>1, <2>2, <1>7
  <2> QED BY <1>11, <2>3 DEF d, e, a, b, half
<1>12. CASE ~(n <= half /\ probes <= MaxProbes)
  <2>1. ~g.ok \/ ~h.ok \/ g.value > half \/ h.value > MaxProbes
    <3>1. SUFFICES ASSUME g.ok, h.ok PROVE g.value > half \/ h.value > MaxProbes
      OBVIOUS
    <3>2. g.value = n /\ g.rest = b
      BY <1>3, <1>9, <3>1
    <3>3. h.value = probes
      BY <1>4, <1>10, <3>1, <3>2
    <3> QED BY <3>2, <3>3, <1>5, <1>12, EncodingAssumption
  <2>2. d.status = "corruption"
    BY <2>1, <1>7, <1>8
  <2> QED BY <1>12, <2>2 DEF d, e, a, b, half
<1> QED BY <1>11, <1>12

\* An encoding that lost a part of its parameters is refused.
LEMMA DecodeCut ==
  ASSUME NEW n \in Nat, NEW probes \in Nat, NEW l \in Nat,
         l < Len(PutVarint(n) \o PutVarint(probes)),
         NEW e, e.head = SubSeq(PutVarint(n) \o PutVarint(probes), 1, l)
  PROVE  Decode(e).status = "corruption"
<1> DEFINE a == PutVarint(n)
           b == PutVarint(probes)
           c == SubSeq(a \o b, 1, l)
           g == GetVarint(c)
           kk == GetVarint(g.rest)
<1>1. a \in Seq(Nat) /\ b \in Seq(Nat) /\ Len(a) \in Nat /\ Len(b) \in Nat
  <2>1. Holds(a, n) /\ Holds(b, probes)
    BY PutVarintHolds
  <2> HIDE DEF a, b
  <2> QED BY <2>1 DEF Holds
<1>2. l < Len(a) + Len(b) /\ l \in 0 .. Len(a) + Len(b)
  <2> HIDE DEF a, b
  <2>1. Len(a \o b) = Len(a) + Len(b)
    BY <1>1
  <2>2. l < Len(a \o b)
    BY DEF a, b
  <2> QED BY <1>1, <2>1, <2>2
<1>3. /\ l < Len(a) => c = SubSeq(a, 1, l)
      /\ l >= Len(a) => c = a \o SubSeq(b, 1, l - Len(a))
  <2> HIDE DEF a, b
  <2> QED BY <1>1, <1>2, BeginningsOfJoin
<1>4. ~g.ok \/ ~kk.ok
  <2>1. CASE l < Len(a)
    <3>1. c = SubSeq(a, 1, l)
      BY <1>3, <2>1
    <3> QED BY <2>1, <3>1, GetCut
  <2>2. CASE l >= Len(a)
    <3> DEFINE r == l - Len(a)
               rest == SubSeq(b, 1, r)
    <3>1. r \in Nat /\ r < Len(b)
      BY <1>1, <1>2, <2>2
    <3> HIDE DEF r
    <3>2. ~GetVarint(rest).ok
      BY <3>1, GetCut
    <3>3. rest \in Seq(Nat)
      <4> HIDE DEF b
      <4> QED BY <1>1, <3>1
    <3>4. c = a \o rest
      BY <1>3, <2>2 DEF r
    <3> HIDE DEF rest, c
    <3>5. Len(a) <= MaxDigits => g.rest = rest
      BY <3>3, <3>4, GetWhole
    <3>6. Len(a) > MaxDigits => ~g.ok
      BY <3>3, <3>4, GetWhole
    <3>7. Len(a) <= MaxDigits \/ Len(a) > MaxDigits
      BY <1>1, VarintAssumption
    <3> HIDE DEF a
    <3> QED BY <3>2, <3>5, <3>6, <3>7
  <2> QED BY <1>1, <2>1, <2>2
<1>5. Decode(e) = [NoFilter EXCEPT !.status = "corruption"]
  <2>1. e.head = c
    OBVIOUS
  <2> HIDE DEF c
  <2> QED BY <1>4, <2>1, Zenon DEF Decode
<1>6. [NoFilter EXCEPT !.status = "corruption"].status = "corruption"
  BY DEF NoFilter
<1> QED BY <1>5, <1>6, Zenon

\* A finished filter is a record whose parameters are numbers.
Whole(f) ==
  f.status = "ok" =>
    /\ f = [status |-> "ok", num_bits |-> f.num_bits, k |-> f.k, bits |-> f.bits]
    /\ f.num_bits \in Nat /\ f.k \in Nat /\ \E R : f.bits \in Seq(R)

StoredInv ==
  /\ FilterInv /\ Whole(filter)
  /\ decoded # NoFilter =>
       /\ filter.status = "ok" /\ stored \in CutShort(Encoded(filter))
       /\ decoded = Decode(stored)

LEMMA FinishedWhole ==
  ASSUME NEW bits_per_key \in Nat, BuilderInv
  PROVE  Whole(Finished(bits_per_key))
<1> DEFINE n       == NumBits(Len(hashes), bits_per_key)
           f       == Finished(bits_per_key)
           nbytes  == NumBytes(n)
           probes  == Range(hashes) \X (0 .. k - 1)
           written == {AddedBit(p[1], p[2], n) : p \in probes}
           inbyte(b) == {w % ByteBits : w \in {x \in written : x \div ByteBits = b - 1}}
           bits    == [b \in 1 .. nbytes |-> inbyte(b)]
<1> SUFFICES ASSUME f.status = "ok" PROVE Whole(f)
  BY DEF Whole
<1>1. Len(hashes) \in Nat /\ k \in Nat
  BY DEF BuilderInv
<1>2. n \in Nat /\ nbytes \in Nat
  BY <1>1, Sizes
<1>3. CASE hashes = << >>
  <2>1. f = [NoFilter EXCEPT !.status = "ok", !.k = k]
    BY <1>3, Zenon DEF Finished
  <2>2. f = [status |-> "ok", num_bits |-> 0, k |-> k, bits |-> << >>]
    BY <2>1 DEF NoFilter
  <2> HIDE DEF f
  <2>3. f.num_bits = 0 /\ f.k = k /\ f.bits = << >> /\ << >> \in Seq(Nat)
    BY <2>2
  <2> QED BY <1>1, <2>2, <2>3 DEF Whole
<1>4. CASE hashes # << >>
  <2>1. Undefined.status # "ok"
    BY DEF Undefined, NoFilter
  <2>2. f = [status |-> "ok", num_bits |-> n, k |-> k, bits |-> bits]
    BY <1>4, <2>1, Zenon DEF Finished
  <2>3. \E R : bits \in Seq(R)
    <3> DEFINE R == {inbyte(b) : b \in 1 .. nbytes}
    <3> HIDE DEF nbytes, inbyte
    <3>1. bits \in [1 .. nbytes -> R]
      OBVIOUS
    <3> HIDE DEF R, bits
    <3>2. bits \in Seq(R)
      BY <1>2, <3>1
    <3> QED BY <3>2
  <2> HIDE DEF f, n, bits
  <2>4. f.num_bits = n /\ f.k = k /\ f.bits = bits
    BY <2>2
  <2> QED BY <1>1, <1>2, <2>2, <2>3, <2>4 DEF Whole
<1> QED BY <1>3, <1>4

LEMMA InitStoredInv == Init => StoredInv
<1> SUFFICES ASSUME Init PROVE StoredInv
  OBVIOUS
<1>1. filter = NoFilter /\ decoded = NoFilter /\ NoFilter.status = "none"
  BY DEF Init, NoFilter
<1>2. FilterInv
  BY InitFilterInv
<1> QED BY <1>1, <1>2 DEF StoredInv, Whole

LEMMA NextStoredInv == StoredInv /\ [Next]_bvars => StoredInv'
<1> SUFFICES ASSUME StoredInv, [Next]_bvars PROVE StoredInv'
  OBVIOUS
<1>1. FilterInv /\ FilterInv' /\ BuilderInv
  BY NextFilterInv DEF StoredInv, FilterInv
<1>2. NoFilter.status = "none" /\ NoFilter' = NoFilter
  BY DEF NoFilter
<1>3. CASE UNCHANGED <<filter, stored, decoded>>
  BY <1>1, <1>2, <1>3 DEF StoredInv, Whole, CutShort, Encoded, Decode, Word
<1>4. ASSUME NEW key \in KeyName, Add(key) PROVE StoredInv'
  BY <1>3, <1>4 DEF Add
<1>5. ASSUME NEW bits_per_key \in BitsPerKey, Finish(bits_per_key) PROVE StoredInv'
  <2>1. filter = NoFilter /\ filter' = Finished(bits_per_key) /\ decoded' = decoded
    BY <1>5 DEF Finish
  <2>2. bits_per_key \in Nat
    BY BloomAssumption
  <2>3. Whole(filter')
    BY <1>1, <2>1, <2>2, FinishedWhole
  <2>4. decoded' = NoFilter
    BY <1>2, <2>1 DEF StoredInv
  <2> QED BY <1>1, <1>2, <2>3, <2>4 DEF StoredInv, Whole
<1>6. CASE Store
  <2>1. /\ filter.status = "ok" /\ filter' = filter /\ stored' \in CutShort(Encoded(filter))
        /\ decoded' = Decode(stored')
    BY <1>6 DEF Store
  <2>2. Whole(filter')
    BY <2>1 DEF StoredInv, Whole
  <2> QED BY <1>1, <2>1, <2>2 DEF StoredInv, Whole, CutShort, Encoded, Decode, Word
<1>7. CASE UNCHANGED bvars
  BY <1>3, <1>7 DEF bvars
<1> QED BY <1>4, <1>5, <1>6, <1>7 DEF Next

\* What is decoded of a finished filter, if it is not refused, has its parameters and
\* a beginning of its bytes.
LEMMA DecodedFilter ==
  ASSUME StoredInv, decoded.status = "ok"
  PROVE  \E bits \in Prefixes(filter.bits) :
           decoded = [status |-> "ok", num_bits |-> filter.num_bits, k |-> filter.k, bits |-> bits]
<1> DEFINE n == filter.num_bits
           probes == filter.k
           head == PutVarint(n) \o PutVarint(probes)
<1>1. decoded # NoFilter
  BY DEF NoFilter
<1>2. /\ n \in Nat /\ probes \in Nat
      /\ stored \in CutShort(Encoded(filter)) /\ decoded = Decode(stored)
  BY <1>1 DEF StoredInv, Whole
<1>3. Encoded(filter).head = head /\ Encoded(filter).body = filter.bits
  BY DEF Encoded
<1>4. ASSUME NEW h \in Prefixes(head) \ {head}, stored = [head |-> h, body |-> << >>]
      PROVE  FALSE
  <2>1. PICK l \in 0 .. Len(head) : h = SubSeq(head, 1, l)
    BY <1>4 DEF Prefixes
  <2>2. head \in Seq(Nat)
    <3>1. PutVarint(n) \in Seq(Nat) /\ PutVarint(probes) \in Seq(Nat)
      BY <1>2, PutVarintHolds DEF Holds
    <3> QED BY <3>1, ConcatProperties
  <2>3. l \in Nat /\ l < Len(head)
    <3>1. SubSeq(head, 1, Len(head)) = head
      BY <2>2, SubSeqFull
    <3> HIDE DEF head
    <3>2. l # Len(head)
      BY <2>1, <3>1, <1>4
    <3> QED BY <2>2, <3>2
  <2>4. Decode([head |-> h, body |-> << >>]).status = "corruption"
    <3> DEFINE e == [head |-> h, body |-> << >>]
    <3>1. e.head = SubSeq(head, 1, l)
      BY <2>1
    <3>2. /\ n \in Nat /\ probes \in Nat /\ l \in Nat /\ l < Len(PutVarint(n) \o PutVarint(probes))
          /\ e.head = SubSeq(PutVarint(n) \o PutVarint(probes), 1, l)
      <4> HIDE DEF e, n, probes
      <4> QED BY <1>2, <2>3, <3>1
    <3> HIDE DEF n, probes, e
    <3>3. Decode(e).status = "corruption"
      BY <3>2, DecodeCut, Zenon
    <3> QED BY <3>3 DEF e
  <2> QED BY <1>2, <1>4, <2>4
<1>5. PICK bits \in Prefixes(filter.bits) : stored = [head |-> head, body |-> bits]
  <2> HIDE DEF head
  <2>1. stored \in {[head |-> h, body |-> << >>] : h \in Prefixes(head) \ {head}}
          \cup {[head |-> head, body |-> b] : b \in Prefixes(filter.bits)}
    BY <1>2, <1>3, Zenon DEF CutShort
  <2> QED BY <1>4, <2>1
<1>6. decoded = Decode([head |-> head, body |-> bits])
  BY <1>2, <1>5
<1>7. IF n <= Word \div 2 /\ probes <= MaxProbes
        THEN Decode([head |-> head, body |-> bits])
               = [status |-> "ok", num_bits |-> n, k |-> probes, bits |-> bits]
        ELSE Decode([head |-> head, body |-> bits]).status = "corruption"
  BY <1>2, DecodeWhole
<1> QED BY <1>6, <1>7

LEMMA StoredReadsBack == StoredInv => DecodeReadsBack
<1> SUFFICES ASSUME StoredInv, decoded # NoFilter, stored = Encoded(filter)
             PROVE  IF filter.num_bits <= Word \div 2 /\ filter.k <= MaxProbes
                      THEN decoded = filter ELSE decoded.status = "corruption"
  BY DEF DecodeReadsBack
<1> DEFINE d == Decode([head |-> PutVarint(filter.num_bits) \o PutVarint(filter.k),
                        body |-> filter.bits])
<1>1. /\ filter.num_bits \in Nat /\ filter.k \in Nat /\ decoded = Decode(stored)
      /\ filter = [status |-> "ok", num_bits |-> filter.num_bits, k |-> filter.k,
                   bits |-> filter.bits]
  BY DEF StoredInv, Whole
<1>2. decoded = d
  BY <1>1 DEF Encoded
<1>3. IF filter.num_bits <= Word \div 2 /\ filter.k <= MaxProbes
        THEN d = [status |-> "ok", num_bits |-> filter.num_bits, k |-> filter.k,
                  bits |-> filter.bits]
        ELSE d.status = "corruption"
  BY <1>1, DecodeWhole
<1> HIDE DEF d
<1> QED BY <1>1, <1>2, <1>3

LEMMA StoredDeniesNoKey == StoredInv => NoneWhenCutShort
<1> SUFFICES ASSUME StoredInv, decoded.status = "ok", NEW key \in covered
             PROVE  MayContain(decoded, hash[key])
  BY DEF NoneWhenCutShort
<1> DEFINE bit(i) == AskedBit(hash[key], i, filter.num_bits)
<1>1. PICK bits \in Prefixes(filter.bits) :
        decoded = [status |-> "ok", num_bits |-> filter.num_bits, k |-> filter.k, bits |-> bits]
  BY DecodedFilter
<1>2. filter.status = "ok" /\ \E R : filter.bits \in Seq(R)
  <2>1. decoded # NoFilter
    BY DEF NoFilter
  <2> QED BY <2>1 DEF StoredInv, Whole
<1>3. MayContain(filter, hash[key])
  BY <1>2 DEF StoredInv, FilterInv, NoFalseNegatives
<1>4. /\ decoded.num_bits = filter.num_bits /\ decoded.k = filter.k /\ decoded.bits = bits
  BY <1>1
<1>5. PICK R : filter.bits \in Seq(R)
  BY <1>2
<1>6. PICK l \in 0 .. Len(filter.bits) : bits = SubSeq(filter.bits, 1, l)
  BY DEF Prefixes
<1>7. Len(bits) = l /\ Len(bits) <= Len(filter.bits) /\ \A i \in 1 .. l : bits[i] = filter.bits[i]
  BY <1>5, <1>6
<1>8. ASSUME NEW x \in Nat, ByteThere(decoded, x)
      PROVE  ByteThere(filter, x) /\ decoded.bits[(x \div ByteBits) + 1] = filter.bits[(x \div ByteBits) + 1]
  <2> DEFINE at == x \div ByteBits
  <2>1. at \in Nat
    BY BloomAssumption, Quotient
  <2> HIDE DEF at
  <2>2. at < Len(bits)
    BY <1>4, <1>8 DEF ByteThere, at
  <2>3. Len(filter.bits) \in Nat
    BY <1>5
  <2>4. at < Len(filter.bits) /\ at + 1 \in 1 .. l
    BY <1>6, <1>7, <2>1, <2>2, <2>3
  <2>5. bits[at + 1] = filter.bits[at + 1]
    BY <1>7, <2>4
  <2> QED BY <1>4, <2>4, <2>5 DEF ByteThere, at
<1>9. CASE filter.num_bits = 0 \/ filter.bits = << >>
  <2>1. filter.bits = << >> => decoded.bits = << >>
    BY <1>4, <1>6
  <2> QED BY <1>4, <1>9, <2>1 DEF MayContain
<1>10. CASE filter.num_bits # 0 /\ filter.bits # << >>
  <2>1. \A i \in 0 .. filter.k - 1 :
          Denies(filter, bit(i)) => \E j \in 0 .. i - 1 : ~ByteThere(filter, bit(j))
    BY <1>3, <1>10 DEF MayContain
  <2>2. \A i \in Nat : bit(i) \in Nat
    <3>1. hash[key] \in 0 .. Word - 1
      BY DEF StoredInv, FilterInv, BuilderInv
    <3>2. filter.num_bits \in Nat \ {0}
      BY <1>2, <1>10 DEF StoredInv, Whole
    <3>3. \A i \in Nat : AddedBit(hash[key], i, filter.num_bits) \in 0 .. filter.num_bits - 1
      BY <3>1, <3>2, ProbeInFilter
    <3>4. \A i \in Nat : bit(i) = AddedBit(hash[key], i, filter.num_bits)
      BY DEF AskedBit, AddedBit
    <3> HIDE DEF bit
    <3>5. ASSUME NEW i \in Nat PROVE bit(i) \in Nat
      <4>1. bit(i) \in 0 .. filter.num_bits - 1
        BY <3>3, <3>4
      <4> QED BY <3>2, <4>1
    <3> QED BY <3>5
  <2>3. filter.k \in Nat
    BY <1>2 DEF StoredInv, Whole
  <2> HIDE DEF bit
  <2>4. ASSUME NEW i \in 0 .. filter.k - 1, Denies(decoded, bit(i))
        PROVE  \E j \in 0 .. i - 1 : ~ByteThere(decoded, bit(j))
    <3>1. i \in Nat /\ \A j \in 0 .. i - 1 : j \in Nat
      BY <2>3
    <3>2. Denies(filter, bit(i))
      BY <1>8, <2>2, <2>4, <3>1 DEF Denies
    <3>3. PICK j \in 0 .. i - 1 : ~ByteThere(filter, bit(j))
      BY <2>1, <3>2
    <3>4. ~ByteThere(decoded, bit(j))
      BY <1>8, <2>2, <3>1, <3>3
    <3> QED BY <3>4
  <2> QED BY <1>4, <2>4 DEF MayContain, bit
<1> QED BY <1>9, <1>10

LEMMA StoredInvHolds == Spec => []StoredInv
BY InitStoredInv, NextStoredInv, PTL DEF Spec

\* A filter that was stored whole is read back as it was, unless Decode refuses its
\* parameters, for any number of bits and probes.
THEOREM EncodingReadsBack == Spec => []DecodeReadsBack
BY StoredInvHolds, StoredReadsBack, PTL

\* What is left of a filter that was cut short anywhere is refused, or denies no
\* key that was added: a byte that is missing never denies.
THEOREM CutFilterDeniesNoKey == Spec => []NoneWhenCutShort
BY StoredInvHolds, StoredDeniesNoKey, PTL

=============================================================================
