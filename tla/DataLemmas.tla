----------------------------- MODULE DataLemmas -----------------------------
(***************************************************************************)
(* Facts about numbers, finite sets and sequences that the proofs of       *)
(* several components need.  Induction is stated over the set of the       *)
(* numbers that have a property, from the well-founded order of Nat.       *)
(***************************************************************************)
EXTENDS Integers, Sequences, FiniteSets, Functions, FiniteSetTheorems, SequenceTheorems,
        WellFoundedInduction, TLAPS

-----------------------------------------------------------------------------
(* Numbers *)

\* A set of numbers that is not empty has a least one.
LEMMA LeastNumber ==
  ASSUME NEW S, S \subseteq Nat, S # {}
  PROVE  \E n \in S : \A m \in S : n <= m
<1> DEFINE R == OpToRel(<, Nat)
<1>1. IsWellFoundedOn(R, Nat)
  BY NatLessThanWellFounded
<1>2. \E n \in S : \A m \in S : ~(<<m, n>> \in R)
  BY <1>1, WFMin
<1>3. \A n, m \in Nat : m < n => <<m, n>> \in R
  BY DEF OpToRel
<1> HIDE DEF R
<1>4. PICK n \in S : \A m \in S : ~(<<m, n>> \in R)
  BY <1>2
<1>5. \A m \in S : ~(m < n)
  BY <1>3, <1>4
<1> QED BY <1>5

\* Induction: the numbers that have a property are all of them if 0 is one and
\* each one is followed by another.
LEMMA AllNumbers ==
  ASSUME NEW S, S \subseteq Nat, 0 \in S, \A n \in S : n + 1 \in S
  PROVE  S = Nat
<1> SUFFICES ASSUME Nat \ S # {} PROVE FALSE
  OBVIOUS
<1>1. PICK n \in Nat \ S : \A m \in Nat \ S : n <= m
  BY LeastNumber
<1>2. n # 0 /\ n - 1 \in Nat /\ ~(n <= n - 1) /\ (n - 1) + 1 = n
  BY <1>1
<1>3. n - 1 \in S
  BY <1>1, <1>2
<1> QED BY <1>2, <1>3

\* One element fewer.
LEMMA OneFewer ==
  ASSUME NEW S, IsFiniteSet(S), NEW x \in S, NEW n \in Nat, Cardinality(S) = n + 1
  PROVE  IsFiniteSet(S \ {x}) /\ Cardinality(S \ {x}) = n
<1>1. IsFiniteSet(S \ {x}) /\ Cardinality(S \ {x}) = Cardinality(S) - 1
  BY FS_RemoveElement
<1> QED BY <1>1

\* A bounded set of numbers that is not empty has a greatest one.
LEMMA GreatestNumber ==
  ASSUME NEW S, S \subseteq Nat, S # {}, NEW b \in Nat, \A n \in S : n <= b
  PROVE  \E n \in S : \A m \in S : m <= n
<1> DEFINE T == {b - n : n \in S}
<1>1. T \subseteq Nat /\ T # {}
  <2>1. \A n \in S : b - n \in Nat
    OBVIOUS
  <2>2. \E n \in S : b - n \in T
    OBVIOUS
  <2> QED BY <2>1, <2>2
<1>2. PICK t \in T : \A u \in T : t <= u
  BY <1>1, LeastNumber
<1>3. PICK n \in S : t = b - n
  BY <1>2
<1>4. \A m \in S : b - n <= b - m
  BY <1>2, <1>3
<1> QED BY <1>4

\* The positions of a sequence up to which something holds are counted by the
\* last of them.
LEMMA PrefixCounts ==
  ASSUME NEW n \in Nat, NEW D, D \subseteq 1 .. n,
         \A q \in D : \A p \in 1 .. n : p < q => p \in D
  PROVE  Cardinality(D) \in 0 .. n /\ D = 1 .. Cardinality(D)
<1> DEFINE E == (1 .. n + 1) \ D
<1>1. E \subseteq Nat /\ n + 1 \in E
  OBVIOUS
<1>2. PICK m \in E : \A k \in E : m <= k
  BY <1>1, LeastNumber
<1>3. m \in 1 .. n + 1 /\ m \notin D
  BY <1>2
<1>4. \A k \in 1 .. n : k < m => k \in D
  BY <1>2, <1>3
<1>5. \A k \in D : k < m
  BY <1>3
<1>6. D = 1 .. m - 1
  <2>1. \A k \in D : k \in 1 .. m - 1
    BY <1>3, <1>5
  <2>2. \A k \in 1 .. m - 1 : k \in 1 .. n /\ k < m
    BY <1>3
  <2> QED BY <1>4, <2>1, <2>2
<1>7. Cardinality(1 .. m - 1) = m - 1
  <2>1. m - 1 \in Nat
    BY <1>3
  <2> QED BY <2>1, FS_Interval
<1> QED BY <1>3, <1>6, <1>7

-----------------------------------------------------------------------------
(* Comparing numbers from the first position to the last *)

LexLess(x, y, n) == \E i \in 1 .. n : x[i] < y[i] /\ \A j \in 1 .. i - 1 : x[j] = y[j]

LEMMA LexTransitive ==
  ASSUME NEW n \in Nat, NEW x \in [1 .. n -> Int], NEW y \in [1 .. n -> Int],
         NEW z \in [1 .. n -> Int], LexLess(x, y, n), LexLess(y, z, n)
  PROVE  LexLess(x, z, n)
<1>1. PICK i \in 1 .. n : x[i] < y[i] /\ \A j \in 1 .. i - 1 : x[j] = y[j]
  BY DEF LexLess
<1>2. PICK k \in 1 .. n : y[k] < z[k] /\ \A j \in 1 .. k - 1 : y[j] = z[j]
  BY DEF LexLess
<1>3. \A j \in 1 .. n : x[j] \in Int /\ y[j] \in Int /\ z[j] \in Int
  OBVIOUS
<1>4. CASE i <= k
  <2>1. x[i] < z[i]
    BY <1>1, <1>2, <1>3, <1>4
  <2>2. \A j \in 1 .. i - 1 : x[j] = z[j]
    BY <1>1, <1>2, <1>4
  <2> QED BY <2>1, <2>2 DEF LexLess
<1>5. CASE k < i
  <2>1. x[k] < z[k]
    BY <1>1, <1>2, <1>5
  <2>2. \A j \in 1 .. k - 1 : x[j] = z[j]
    BY <1>1, <1>2, <1>5
  <2> QED BY <2>1, <2>2 DEF LexLess
<1> QED BY <1>4, <1>5

LEMMA LexAsymmetric ==
  ASSUME NEW n \in Nat, NEW x \in [1 .. n -> Int], NEW y \in [1 .. n -> Int], LexLess(x, y, n)
  PROVE  ~LexLess(y, x, n)
<1> SUFFICES ASSUME LexLess(y, x, n) PROVE FALSE
  OBVIOUS
<1>1. PICK i \in 1 .. n : x[i] < y[i] /\ \A j \in 1 .. i - 1 : x[j] = y[j]
  BY DEF LexLess
<1>2. PICK k \in 1 .. n : y[k] < x[k] /\ \A j \in 1 .. k - 1 : y[j] = x[j]
  BY DEF LexLess
<1>3. \A j \in 1 .. n : x[j] \in Int /\ y[j] \in Int
  OBVIOUS
<1> QED BY <1>1, <1>2, <1>3

LEMMA LexIrreflexive ==
  ASSUME NEW n \in Nat, NEW x \in [1 .. n -> Int]
  PROVE  ~LexLess(x, x, n)
BY LexAsymmetric

-----------------------------------------------------------------------------
(* Sequences without repetition: what the ready queue does to them *)

\* push_back of an id that is not queued keeps the queue free of repetition.
LEMMA AppendNew ==
  ASSUME NEW S, NEW s \in Seq(S), NEW x \in S, IsInjective(s), x \notin Range(s)
  PROVE  /\ Append(s, x) \in Seq(S)
         /\ Range(Append(s, x)) = Range(s) \cup {x}
         /\ IsInjective(Append(s, x))
<1>1. Append(s, x) \in Seq(S) /\ Len(Append(s, x)) = Len(s) + 1
  OBVIOUS
<1>2. Range(s) = {s[i] : i \in 1 .. Len(s)}
  BY RangeEquality
<1>3. Range(Append(s, x)) = {Append(s, x)[i] : i \in 1 .. Len(s) + 1}
  BY <1>1, RangeEquality
<1>4. \A i \in 1 .. Len(s) : Append(s, x)[i] = s[i]
  OBVIOUS
<1>5. Append(s, x)[Len(s) + 1] = x
  OBVIOUS
<1>6. DOMAIN s = 1 .. Len(s) /\ DOMAIN Append(s, x) = 1 .. Len(s) + 1 /\ Len(s) \in Nat
  BY <1>1
<1>7. Range(Append(s, x)) = Range(s) \cup {x}
  <2>1. 1 .. Len(s) + 1 = (1 .. Len(s)) \cup {Len(s) + 1}
    BY <1>6
  <2> QED BY <2>1, <1>2, <1>3, <1>4, <1>5
<1>8. IsInjective(Append(s, x))
  <2>1. \A i \in 1 .. Len(s) : s[i] # x
    BY <1>2
  <2>2. \A i \in 1 .. Len(s) + 1 : i \in 1 .. Len(s) \/ i = Len(s) + 1
    BY <1>6
  <2> QED BY <1>4, <1>5, <1>6, <2>1, <2>2 DEF IsInjective
<1> QED BY <1>1, <1>7, <1>8

\* pop_front takes exactly the first id out of such a queue.
LEMMA TailOfQueue ==
  ASSUME NEW S, NEW s \in Seq(S), s # << >>, IsInjective(s)
  PROVE  /\ Head(s) \in Range(s) /\ Tail(s) \in Seq(S)
         /\ Range(Tail(s)) = Range(s) \ {Head(s)}
         /\ IsInjective(Tail(s))
<1>1. /\ Tail(s) \in Seq(S) /\ Len(Tail(s)) = Len(s) - 1 /\ Len(s) \in Nat \ {0}
      /\ \A i \in 1 .. Len(s) - 1 : Tail(s)[i] = s[i + 1]
      /\ Head(s) = s[1]
  OBVIOUS
<1>2. Range(s) = {s[i] : i \in 1 .. Len(s)}
  BY RangeEquality
<1>3. Range(Tail(s)) = {Tail(s)[i] : i \in 1 .. Len(s) - 1}
  BY <1>1, RangeEquality
<1>4. DOMAIN s = 1 .. Len(s) /\ DOMAIN Tail(s) = 1 .. Len(s) - 1
  BY <1>1
<1>5. \A i, k \in 1 .. Len(s) : s[i] = s[k] => i = k
  BY <1>4 DEF IsInjective
<1>6. Range(Tail(s)) \subseteq Range(s) \ {Head(s)}
  <2> SUFFICES ASSUME NEW i \in 1 .. Len(s) - 1
               PROVE  Tail(s)[i] \in Range(s) \ {Head(s)}
    BY <1>3
  <2>1. i + 1 \in 1 .. Len(s) /\ 1 \in 1 .. Len(s) /\ i + 1 # 1
    BY <1>1
  <2> QED BY <2>1, <1>1, <1>2, <1>5
<1>7. Range(s) \ {Head(s)} \subseteq Range(Tail(s))
  <2> SUFFICES ASSUME NEW i \in 1 .. Len(s), s[i] # s[1]
               PROVE  s[i] \in Range(Tail(s))
    BY <1>1, <1>2
  <2>1. i - 1 \in 1 .. Len(s) - 1 /\ (i - 1) + 1 = i
    BY <1>1
  <2>2. Tail(s)[i - 1] = s[i]
    BY <2>1, <1>1
  <2> QED BY <2>1, <2>2, <1>3
<1>8. IsInjective(Tail(s))
  <2> SUFFICES ASSUME NEW i \in 1 .. Len(s) - 1, NEW k \in 1 .. Len(s) - 1,
                      Tail(s)[i] = Tail(s)[k]
               PROVE  i = k
    BY <1>4 DEF IsInjective
  <2>1. i + 1 \in 1 .. Len(s) /\ k + 1 \in 1 .. Len(s)
    BY <1>1
  <2>2. i + 1 = k + 1
    BY <2>1, <1>1, <1>5
  <2> QED BY <2>2, <1>1
<1>9. Head(s) \in Range(s)
  BY <1>1, <1>2
<1> QED BY <1>1, <1>6, <1>7, <1>8, <1>9

\* Two such queues with no id in common make one when they are joined.
LEMMA JoinQueues ==
  ASSUME NEW S, NEW s \in Seq(S), NEW t \in Seq(S), IsInjective(s), IsInjective(t),
         Range(s) \cap Range(t) = {}
  PROVE  /\ s \o t \in Seq(S)
         /\ Range(s \o t) = Range(s) \cup Range(t)
         /\ IsInjective(s \o t)
<1>1. /\ s \o t \in Seq(S) /\ Len(s \o t) = Len(s) + Len(t)
      /\ Len(s) \in Nat /\ Len(t) \in Nat
      /\ \A i \in 1 .. Len(s) + Len(t) :
           (s \o t)[i] = IF i <= Len(s) THEN s[i] ELSE t[i - Len(s)]
  OBVIOUS
<1>2. Range(s \o t) = Range(s) \cup Range(t)
  BY RangeConcatenation
<1>3. \A i \in 1 .. Len(s) : s[i] \in Range(s)
  BY RangeEquality
<1>4. \A i \in 1 .. Len(t) : t[i] \in Range(t)
  BY RangeEquality
<1>5. /\ \A i, k \in 1 .. Len(s) : s[i] = s[k] => i = k
      /\ \A i, k \in 1 .. Len(t) : t[i] = t[k] => i = k
  BY DEF IsInjective
<1>6. IsInjective(s \o t)
  <2> SUFFICES ASSUME NEW i \in 1 .. Len(s) + Len(t), NEW k \in 1 .. Len(s) + Len(t),
                      (s \o t)[i] = (s \o t)[k]
               PROVE  i = k
    BY <1>1 DEF IsInjective
  <2>1. CASE i <= Len(s) /\ k <= Len(s)
    BY <2>1, <1>1, <1>5
  <2>2. CASE i > Len(s) /\ k > Len(s)
    <3>1. i - Len(s) \in 1 .. Len(t) /\ k - Len(s) \in 1 .. Len(t)
      BY <2>2, <1>1
    <3>2. i - Len(s) = k - Len(s)
      BY <3>1, <2>2, <1>1, <1>5
    <3> QED BY <3>2, <1>1
  <2>3. CASE i <= Len(s) /\ k > Len(s)
    <3>1. i \in 1 .. Len(s) /\ k - Len(s) \in 1 .. Len(t)
      BY <2>3, <1>1
    <3> QED BY <3>1, <2>3, <1>1, <1>3, <1>4
  <2>4. CASE i > Len(s) /\ k <= Len(s)
    <3>1. k \in 1 .. Len(s) /\ i - Len(s) \in 1 .. Len(t)
      BY <2>4, <1>1
    <3> QED BY <3>1, <2>4, <1>1, <1>3, <1>4
  <2> QED BY <2>1, <2>2, <2>3, <2>4, <1>1
<1> QED BY <1>1, <1>2, <1>6

=============================================================================
