------------------------ MODULE SSTableBuilderProofs ------------------------
(***************************************************************************)
(* Theorems about SSTableBuilder, for any keys, lengths and block size: a  *)
(* table holds what was added to it, once and in order, its index leads to *)
(* every block, and its blocks are sorted and no longer than they should   *)
(* be.                                                                     *)
(***************************************************************************)
EXTENDS SSTableBuilder, DataLemmas

-----------------------------------------------------------------------------
(* Sums *)

Sums(f, lens, n) == f = [i \in 0 .. n |-> IF i = 0 THEN 0 ELSE f[i - 1] + lens[i]]

SumsOf(lens) ==
  CHOOSE f : f = [i \in 0 .. Len(lens) |-> IF i = 0 THEN 0 ELSE f[i - 1] + lens[i]]

LEMMA SumsExist ==
  ASSUME NEW lens, NEW n \in Nat
  PROVE  \E f : Sums(f, lens, n)
<1> DEFINE S == {k \in Nat : \E f : Sums(f, lens, k)}
<1>1. 0 \in S
  <2>1. Sums([i \in 0 .. 0 |-> 0], lens, 0)
    <3>1. \A i \in 0 .. 0 : i = 0
      OBVIOUS
    <3> QED BY <3>1 DEF Sums
  <2> QED BY <2>1
<1>2. \A k \in S : k + 1 \in S
  <2> SUFFICES ASSUME NEW k \in Nat, NEW f, Sums(f, lens, k)
               PROVE  \E g : Sums(g, lens, k + 1)
    OBVIOUS
  <2> DEFINE g == [i \in 0 .. k + 1 |-> IF i = k + 1 THEN f[k] + lens[k + 1] ELSE f[i]]
  <2>1. \A i \in 0 .. k : f[i] = IF i = 0 THEN 0 ELSE f[i - 1] + lens[i]
    BY DEF Sums
  <2>2. \A i \in 0 .. k + 1 : g[i] = IF i = 0 THEN 0 ELSE g[i - 1] + lens[i]
    <3> SUFFICES ASSUME NEW i \in 0 .. k + 1
                 PROVE  g[i] = IF i = 0 THEN 0 ELSE g[i - 1] + lens[i]
      OBVIOUS
    <3>1. CASE i = k + 1
      <4>1. i # 0 /\ i - 1 = k /\ k \in 0 .. k + 1 /\ k # k + 1
        BY <3>1
      <4>2. g[k] = f[k] /\ g[i] = f[k] + lens[k + 1]
        BY <3>1, <4>1
      <4> QED BY <3>1, <4>1, <4>2
    <3>2. CASE i = 0
      BY <2>1, <3>2
    <3>3. CASE i # 0 /\ i # k + 1
      <4>1. i \in 0 .. k /\ i - 1 \in 0 .. k + 1 /\ i - 1 # k + 1
        BY <3>3
      <4>2. g[i] = f[i] /\ g[i - 1] = f[i - 1]
        BY <3>3, <4>1
      <4> QED BY <2>1, <3>3, <4>1, <4>2
    <3> QED BY <3>1, <3>2, <3>3
  <2>3. g = [i \in 0 .. k + 1 |-> g[i]]
    OBVIOUS
  <2> HIDE DEF g
  <2>4. g = [i \in 0 .. k + 1 |-> IF i = 0 THEN 0 ELSE g[i - 1] + lens[i]]
    BY <2>2, <2>3, Zenon
  <2> QED BY <2>4 DEF Sums
<1> HIDE DEF S
<1>3. S \subseteq Nat
  BY DEF S
<1>4. S = Nat
  BY <1>1, <1>2, <1>3, AllNumbers
<1> QED BY <1>4 DEF S

LEMMA SumsOfIsSums ==
  ASSUME NEW lens, Len(lens) \in Nat
  PROVE  /\ Total(lens) = SumsOf(lens)[Len(lens)]
         /\ \A i \in 0 .. Len(lens) :
              SumsOf(lens)[i] = IF i = 0 THEN 0 ELSE SumsOf(lens)[i - 1] + lens[i]
<1>1. \E f : Sums(f, lens, Len(lens))
  BY SumsExist
<1>2. Sums(SumsOf(lens), lens, Len(lens))
  BY <1>1 DEF Sums, SumsOf
<1>3. Total(lens) = SumsOf(lens)[Len(lens)]
  BY DEF Total, SumsOf
<1> DEFINE f == SumsOf(lens)
<1> HIDE DEF f
<1>4. f = [i \in 0 .. Len(lens) |-> IF i = 0 THEN 0 ELSE f[i - 1] + lens[i]]
  BY <1>2 DEF Sums, f
<1>5. \A i \in 0 .. Len(lens) : f[i] = IF i = 0 THEN 0 ELSE f[i - 1] + lens[i]
  BY <1>4, Zenon
<1> QED BY <1>3, <1>5 DEF f

LEMMA TotalOfNone == Total(<< >>) = 0
<1>1. Len(<< >>) = 0 /\ 0 \in 0 .. 0 /\ 0 \in Nat
  OBVIOUS
<1> QED BY <1>1, SumsOfIsSums

LEMMA TotalIsNatural ==
  ASSUME NEW lens \in Seq(Nat)
  PROVE  Total(lens) \in Nat
<1> DEFINE S == {k \in Nat : k <= Len(lens) => SumsOf(lens)[k] \in Nat}
<1>1. /\ Total(lens) = SumsOf(lens)[Len(lens)]
      /\ \A i \in 0 .. Len(lens) :
           SumsOf(lens)[i] = IF i = 0 THEN 0 ELSE SumsOf(lens)[i - 1] + lens[i]
  BY SumsOfIsSums
<1>2. 0 \in S
  BY <1>1
<1>3. \A k \in S : k + 1 \in S
  <2> SUFFICES ASSUME NEW k \in S, k + 1 <= Len(lens) PROVE SumsOf(lens)[k + 1] \in Nat
    OBVIOUS
  <2>1. k + 1 \in 0 .. Len(lens) /\ k + 1 # 0 /\ (k + 1) - 1 = k /\ lens[k + 1] \in Nat /\ k <= Len(lens)
    OBVIOUS
  <2>2. SumsOf(lens)[k + 1] = SumsOf(lens)[k] + lens[k + 1]
    BY <1>1, <2>1
  <2> QED BY <2>1, <2>2
<1>4. S \subseteq Nat
  OBVIOUS
<1> HIDE DEF S
<1>5. S = Nat
  BY <1>2, <1>3, <1>4, AllNumbers
<1> QED BY <1>1, <1>5 DEF S

LEMMA TotalOfMore ==
  ASSUME NEW R, NEW lens \in Seq(R), NEW x
  PROVE  Total(Append(lens, x)) = Total(lens) + x
<1> DEFINE more == Append(lens, x)
           n == Len(lens)
<1>1. n \in Nat /\ Len(more) = n + 1 /\ more[n + 1] = x /\ \A i \in 1 .. n : more[i] = lens[i]
  <2>1. lens \in Seq(R \cup {x})
    <3>1. lens \in [1 .. Len(lens) -> R \cup {x}]
      OBVIOUS
    <3> QED BY <3>1, SeqDef
  <2> QED BY <2>1
<1> HIDE DEF more, n
<1>2. /\ Total(more) = SumsOf(more)[n + 1]
      /\ \A i \in 0 .. n + 1 :
           SumsOf(more)[i] = IF i = 0 THEN 0 ELSE SumsOf(more)[i - 1] + more[i]
  <2>1. Len(more) \in Nat
    BY <1>1
  <2>2. /\ Total(more) = SumsOf(more)[Len(more)]
        /\ \A i \in 0 .. Len(more) :
             SumsOf(more)[i] = IF i = 0 THEN 0 ELSE SumsOf(more)[i - 1] + more[i]
    BY <2>1, SumsOfIsSums
  <2> QED BY <2>2, <1>1
<1>3. /\ Total(lens) = SumsOf(lens)[n]
      /\ \A i \in 0 .. n :
           SumsOf(lens)[i] = IF i = 0 THEN 0 ELSE SumsOf(lens)[i - 1] + lens[i]
  BY <1>1, SumsOfIsSums DEF n
<1> DEFINE S == {k \in Nat : k <= n => SumsOf(more)[k] = SumsOf(lens)[k]}
<1>4. 0 \in S
  <2>1. 0 \in 0 .. n /\ 0 \in 0 .. n + 1
    BY <1>1
  <2> QED BY <2>1, <1>2, <1>3
<1>5. \A k \in S : k + 1 \in S
  <2> SUFFICES ASSUME NEW k \in S, k + 1 <= n PROVE SumsOf(more)[k + 1] = SumsOf(lens)[k + 1]
    OBVIOUS
  <2>1. /\ k + 1 \in 0 .. n /\ k + 1 \in 0 .. n + 1 /\ k + 1 # 0 /\ (k + 1) - 1 = k
        /\ k + 1 \in 1 .. n /\ k <= n
    BY <1>1
  <2>2. SumsOf(more)[k] = SumsOf(lens)[k] /\ more[k + 1] = lens[k + 1]
    BY <2>1, <1>1
  <2>3. SumsOf(more)[k + 1] = SumsOf(more)[k] + more[k + 1]
    BY <2>1, <1>2
  <2>4. SumsOf(lens)[k + 1] = SumsOf(lens)[k] + lens[k + 1]
    BY <2>1, <1>3
  <2> QED BY <2>2, <2>3, <2>4
<1>6. S \subseteq Nat
  OBVIOUS
<1> HIDE DEF S
<1>7. S = Nat
  BY <1>4, <1>5, <1>6, AllNumbers
<1>8. SumsOf(more)[n] = SumsOf(lens)[n]
  BY <1>1, <1>7 DEF S
<1>9. n + 1 \in 0 .. n + 1 /\ n + 1 # 0 /\ (n + 1) - 1 = n
  BY <1>1
<1>10. SumsOf(more)[n + 1] = SumsOf(more)[n] + more[n + 1]
  BY <1>2, <1>9
<1> QED BY <1>1, <1>2, <1>3, <1>8, <1>10 DEF more

-----------------------------------------------------------------------------
(* Appending *)

LEMMA AppendFacts ==
  ASSUME NEW R, NEW s \in Seq(R), NEW x
  PROVE  /\ Append(s, x) \in Seq(R \cup {x}) /\ Append(s, x) # << >>
         /\ Len(s) \in Nat /\ Len(Append(s, x)) = Len(s) + 1
         /\ DOMAIN s = 1 .. Len(s) /\ DOMAIN Append(s, x) = 1 .. Len(s) + 1
         /\ Append(s, x)[Len(s) + 1] = x /\ \A i \in 1 .. Len(s) : Append(s, x)[i] = s[i]
         /\ Last(Append(s, x)) = x
         /\ Range(Append(s, x)) = Range(s) \cup {x}
<1>1. s \in Seq(R \cup {x})
  <2>1. s \in [1 .. Len(s) -> R \cup {x}]
    OBVIOUS
  <2> QED BY <2>1, SeqDef
<1>2. /\ Append(s, x) \in Seq(R \cup {x}) /\ Append(s, x) # << >>
      /\ Len(s) \in Nat /\ Len(Append(s, x)) = Len(s) + 1
      /\ DOMAIN s = 1 .. Len(s) /\ DOMAIN Append(s, x) = 1 .. Len(s) + 1
      /\ Append(s, x)[Len(s) + 1] = x /\ \A i \in 1 .. Len(s) : Append(s, x)[i] = s[i]
  BY <1>1
<1>3. Last(Append(s, x)) = x
  BY <1>2 DEF Last
<1>4. Range(Append(s, x)) = Range(s) \cup {x}
  <2>1. Range(s) = {s[i] : i \in 1 .. Len(s)}
    BY <1>2 DEF Range
  <2>2. Range(Append(s, x)) = {Append(s, x)[i] : i \in 1 .. Len(s) + 1}
    BY <1>2 DEF Range
  <2>3. 1 .. Len(s) + 1 = (1 .. Len(s)) \cup {Len(s) + 1}
    BY <1>2
  <2> QED BY <2>1, <2>2, <2>3, <1>2
<1> QED BY <1>2, <1>3, <1>4

\* The beginnings of a sequence stay when one more element comes.
LEMMA Beginnings ==
  ASSUME NEW R, NEW s \in Seq(R), NEW x
  PROVE  /\ SubSeq(Append(s, x), 1, Len(s)) = s
         /\ \A k \in 0 .. Len(s) : SubSeq(Append(s, x), 1, k) = SubSeq(s, 1, k)
<1>1. s \in Seq(R \cup {x}) /\ Append(s, x) \in Seq(R \cup {x})
  <2>1. s \in [1 .. Len(s) -> R \cup {x}]
    OBVIOUS
  <2> QED BY <2>1, SeqDef, AppendFacts
<1>2. ASSUME NEW k \in 0 .. Len(s)
      PROVE  SubSeq(Append(s, x), 1, k) = SubSeq(s, 1, k)
  <2> DEFINE a == SubSeq(Append(s, x), 1, k)
             b == SubSeq(s, 1, k)
  <2>1. a \in Seq(R \cup {x}) /\ Len(a) = k /\ \A i \in 1 .. k : a[i] = Append(s, x)[i]
    BY <1>1
  <2>2. b \in Seq(R \cup {x}) /\ Len(b) = k /\ \A i \in 1 .. k : b[i] = s[i]
    BY <1>1
  <2>3. \A i \in 1 .. k : a[i] = b[i]
    BY <2>1, <2>2, AppendFacts
  <2> HIDE DEF a, b
  <2>4. a = b
    BY <2>1, <2>2, <2>3, SeqEqual
  <2> QED BY <2>4 DEF a, b
<1>3. SubSeq(s, 1, Len(s)) = s
  <2> DEFINE b == SubSeq(s, 1, Len(s))
  <2>1. b \in Seq(R) /\ Len(b) = Len(s) /\ \A i \in 1 .. Len(s) : b[i] = s[i]
    OBVIOUS
  <2> HIDE DEF b
  <2>2. b = s
    BY <2>1, SeqEqual
  <2> QED BY <2>2 DEF b
<1>4. Len(s) \in 0 .. Len(s)
  OBVIOUS
<1> QED BY <1>2, <1>3, <1>4

\* What is appended to a file is added to its length.
LEMMA LenOfMore ==
  ASSUME NEW R, NEW s \in Seq(R), NEW p
  PROVE  LenOf(Append(s, p)) = LenOf(s) + p.len
<1> DEFINE lens == [i \in 1 .. Len(s) |-> s[i].len]
           more == [i \in 1 .. Len(s) + 1 |-> Append(s, p)[i].len]
           L    == {s[i].len : i \in 1 .. Len(s)} \cup {p.len}
<1>1. lens \in Seq(L) /\ Len(lens) = Len(s) /\ Len(s) \in Nat
  <2>1. lens \in [1 .. Len(s) -> L] /\ Len(s) \in Nat
    OBVIOUS
  <2> QED BY <2>1
<1>2. more \in Seq(L) /\ Len(more) = Len(s) + 1
  <2>1. \A i \in 1 .. Len(s) + 1 : Append(s, p)[i].len \in L
    <3>1. \A i \in 1 .. Len(s) + 1 : i \in 1 .. Len(s) \/ i = Len(s) + 1
      OBVIOUS
    <3> QED BY <3>1, AppendFacts
  <2>2. more \in [1 .. Len(s) + 1 -> L] /\ Len(s) + 1 \in Nat
    BY <2>1, <1>1
  <2> QED BY <2>2
<1>3. Append(lens, p.len) = more
  <2>1. /\ Append(lens, p.len) \in Seq(L) /\ Len(Append(lens, p.len)) = Len(s) + 1
        /\ Append(lens, p.len)[Len(s) + 1] = p.len
        /\ \A i \in 1 .. Len(s) : Append(lens, p.len)[i] = lens[i]
    BY <1>1
  <2>2. \A i \in 1 .. Len(s) + 1 : Append(lens, p.len)[i] = more[i]
    <3>1. \A i \in 1 .. Len(s) + 1 : i \in 1 .. Len(s) \/ i = Len(s) + 1
      BY <1>1
    <3> QED BY <2>1, <3>1, AppendFacts
  <2> HIDE DEF more, lens, L
  <2> QED BY <1>2, <2>1, <2>2, SeqEqual
<1> HIDE DEF lens, more, L
<1>4. Total(more) = Total(lens) + p.len
  BY <1>1, <1>3, TotalOfMore
<1>5. LenOf(s) = Total(lens)
  BY DEF LenOf, lens
<1>6. LenOf(Append(s, p)) = Total(more)
  BY AppendFacts DEF LenOf, more
<1> QED BY <1>4, <1>5, <1>6

LEMMA LenOfNone == LenOf(<< >>) = 0
<1>1. [i \in DOMAIN << >> |-> << >>[i].len] = << >>
  OBVIOUS
<1> QED BY <1>1, TotalOfNone DEF LenOf

-----------------------------------------------------------------------------
(* Joining the entries of blocks *)

Joins(f, seqs, n) == f = [i \in 1 .. n |-> IF i = 1 THEN seqs[i] ELSE f[i - 1] \o seqs[i]]

JoinsOf(seqs) ==
  CHOOSE f : f = [i \in 1 .. Len(seqs) |-> IF i = 1 THEN seqs[i] ELSE f[i - 1] \o seqs[i]]

LEMMA JoinsExist ==
  ASSUME NEW seqs, NEW n \in Nat
  PROVE  \E f : Joins(f, seqs, n)
<1> DEFINE S == {k \in Nat : \E f : Joins(f, seqs, k)}
<1>1. 0 \in S
  <2>1. Joins([i \in 1 .. 0 |-> << >>], seqs, 0)
    BY DEF Joins
  <2> QED BY <2>1
<1>2. \A k \in S : k + 1 \in S
  <2> SUFFICES ASSUME NEW k \in Nat, NEW f, Joins(f, seqs, k)
               PROVE  \E g : Joins(g, seqs, k + 1)
    OBVIOUS
  <2> DEFINE step == IF k = 0 THEN seqs[k + 1] ELSE f[k] \o seqs[k + 1]
             g == [i \in 1 .. k + 1 |-> IF i = k + 1 THEN step ELSE f[i]]
  <2>1. \A i \in 1 .. k : f[i] = IF i = 1 THEN seqs[i] ELSE f[i - 1] \o seqs[i]
    BY DEF Joins
  <2>2. \A i \in 1 .. k + 1 : g[i] = IF i = 1 THEN seqs[i] ELSE g[i - 1] \o seqs[i]
    <3> SUFFICES ASSUME NEW i \in 1 .. k + 1
                 PROVE  g[i] = IF i = 1 THEN seqs[i] ELSE g[i - 1] \o seqs[i]
      OBVIOUS
    <3>1. CASE i = k + 1
      <4>1. (i = 1) = (k = 0) /\ i - 1 = k /\ (k # 0 => k \in 1 .. k + 1 /\ k # k + 1)
        BY <3>1
      <4>2. (k # 0 => g[k] = f[k]) /\ g[i] = step
        BY <3>1, <4>1
      <4> QED BY <3>1, <4>1, <4>2
    <3>2. CASE i # k + 1
      <4>1. i \in 1 .. k /\ (i # 1 => i - 1 \in 1 .. k + 1 /\ i - 1 # k + 1)
        BY <3>2
      <4>2. g[i] = f[i] /\ (i # 1 => g[i - 1] = f[i - 1])
        BY <3>2, <4>1
      <4> QED BY <2>1, <4>1, <4>2
    <3> QED BY <3>1, <3>2
  <2>3. g = [i \in 1 .. k + 1 |-> g[i]]
    OBVIOUS
  <2> HIDE DEF g
  <2>4. g = [i \in 1 .. k + 1 |-> IF i = 1 THEN seqs[i] ELSE g[i - 1] \o seqs[i]]
    BY <2>2, <2>3, Zenon
  <2> QED BY <2>4 DEF Joins
<1> HIDE DEF S
<1>3. S \subseteq Nat
  BY DEF S
<1>4. S = Nat
  BY <1>1, <1>2, <1>3, AllNumbers
<1> QED BY <1>4 DEF S

LEMMA JoinsOfIsJoins ==
  ASSUME NEW seqs, Len(seqs) \in Nat
  PROVE  /\ FlattenSeq(seqs) = IF Len(seqs) = 0 THEN seqs ELSE JoinsOf(seqs)[Len(seqs)]
         /\ \A i \in 1 .. Len(seqs) :
              JoinsOf(seqs)[i] = IF i = 1 THEN seqs[i] ELSE JoinsOf(seqs)[i - 1] \o seqs[i]
<1>1. \E f : Joins(f, seqs, Len(seqs))
  BY JoinsExist
<1>2. Joins(JoinsOf(seqs), seqs, Len(seqs))
  BY <1>1 DEF Joins, JoinsOf
<1>3. FlattenSeq(seqs) = IF Len(seqs) = 0 THEN seqs ELSE JoinsOf(seqs)[Len(seqs)]
  BY DEF FlattenSeq, JoinsOf
<1> DEFINE f == JoinsOf(seqs)
<1> HIDE DEF f
<1>4. f = [i \in 1 .. Len(seqs) |-> IF i = 1 THEN seqs[i] ELSE f[i - 1] \o seqs[i]]
  BY <1>2 DEF Joins, f
<1>5. \A i \in 1 .. Len(seqs) : f[i] = IF i = 1 THEN seqs[i] ELSE f[i - 1] \o seqs[i]
  BY <1>4, Zenon
<1> QED BY <1>3, <1>5 DEF f

LEMMA FlattenNone == FlattenSeq(<< >>) = << >>
BY DEF FlattenSeq

LEMMA FlattenMore ==
  ASSUME NEW E, NEW seqs \in Seq(Seq(E)), NEW x \in Seq(E)
  PROVE  FlattenSeq(Append(seqs, x)) = FlattenSeq(seqs) \o x
<1> DEFINE more == Append(seqs, x)
           n == Len(seqs)
<1>1. n \in Nat /\ Len(more) = n + 1 /\ more[n + 1] = x /\ \A i \in 1 .. n : more[i] = seqs[i]
  BY AppendFacts
<1> HIDE DEF more, n
<1>2. Len(more) \in Nat /\ Len(more) # 0
  BY <1>1
<1>3. /\ FlattenSeq(more) = JoinsOf(more)[n + 1]
      /\ \A i \in 1 .. n + 1 :
           JoinsOf(more)[i] = IF i = 1 THEN more[i] ELSE JoinsOf(more)[i - 1] \o more[i]
  <2>1. /\ FlattenSeq(more) = IF Len(more) = 0 THEN more ELSE JoinsOf(more)[Len(more)]
        /\ \A i \in 1 .. Len(more) :
             JoinsOf(more)[i] = IF i = 1 THEN more[i] ELSE JoinsOf(more)[i - 1] \o more[i]
    BY <1>2, JoinsOfIsJoins
  <2> QED BY <2>1, <1>1, <1>2
<1>4. /\ FlattenSeq(seqs) = IF n = 0 THEN seqs ELSE JoinsOf(seqs)[n]
      /\ \A i \in 1 .. n :
           JoinsOf(seqs)[i] = IF i = 1 THEN seqs[i] ELSE JoinsOf(seqs)[i - 1] \o seqs[i]
  BY <1>1, JoinsOfIsJoins DEF n
<1>5. CASE n = 0
  <2>1. seqs = << >>
    BY <1>5 DEF n
  <2>2. FlattenSeq(more) = x
    BY <1>1, <1>3, <1>5
  <2> QED BY <1>4, <1>5, <2>1, <2>2 DEF more
<1>6. CASE n # 0
  <2> DEFINE S == {k \in Nat : k + 1 <= n => JoinsOf(more)[k + 1] = JoinsOf(seqs)[k + 1]}
  <2>1. 0 \in S
    <3>1. 0 + 1 = 1 /\ 1 \in 1 .. n /\ 1 \in 1 .. n + 1
      BY <1>1, <1>6
    <3>2. JoinsOf(more)[1] = more[1] /\ JoinsOf(seqs)[1] = seqs[1]
      BY <3>1, <1>3, <1>4
    <3> QED BY <3>1, <3>2, <1>1
  <2>2. \A k \in S : k + 1 \in S
    <3> SUFFICES ASSUME NEW k \in S, (k + 1) + 1 <= n
                 PROVE  JoinsOf(more)[(k + 1) + 1] = JoinsOf(seqs)[(k + 1) + 1]
      OBVIOUS
    <3> DEFINE j == (k + 1) + 1
    <3>1. j \in 1 .. n /\ j \in 1 .. n + 1 /\ j # 1 /\ j - 1 = k + 1 /\ k + 1 <= n
      BY <1>1
    <3>2. JoinsOf(more)[k + 1] = JoinsOf(seqs)[k + 1] /\ more[j] = seqs[j]
      BY <3>1, <1>1
    <3> HIDE DEF j
    <3>3. JoinsOf(more)[j] = JoinsOf(more)[k + 1] \o more[j]
      BY <3>1, <1>3
    <3>4. JoinsOf(seqs)[j] = JoinsOf(seqs)[k + 1] \o seqs[j]
      BY <3>1, <1>4
    <3> QED BY <3>2, <3>3, <3>4 DEF j
  <2>3. S \subseteq Nat
    OBVIOUS
  <2> HIDE DEF S
  <2>4. S = Nat
    BY <2>1, <2>2, <2>3, AllNumbers
  <2>5. n - 1 \in Nat /\ (n - 1) + 1 = n /\ (n - 1) + 1 <= n
    BY <1>1, <1>6
  <2>6. JoinsOf(more)[n] = JoinsOf(seqs)[n]
    BY <2>4, <2>5 DEF S
  <2>7. n + 1 \in 1 .. n + 1 /\ n + 1 # 1 /\ (n + 1) - 1 = n
    BY <1>1, <1>6
  <2>8. JoinsOf(more)[n + 1] = JoinsOf(more)[n] \o more[n + 1]
    BY <1>3, <2>7
  <2> QED BY <1>1, <1>3, <1>4, <1>6, <2>6, <2>8 DEF more
<1> QED BY <1>5, <1>6

LEMMA FlattenIsSeq ==
  ASSUME NEW E, NEW seqs \in Seq(Seq(E))
  PROVE  FlattenSeq(seqs) \in Seq(E)
<1> DEFINE n == Len(seqs)
<1>1. /\ FlattenSeq(seqs) = IF n = 0 THEN seqs ELSE JoinsOf(seqs)[n]
      /\ \A i \in 1 .. n :
           JoinsOf(seqs)[i] = IF i = 1 THEN seqs[i] ELSE JoinsOf(seqs)[i - 1] \o seqs[i]
  BY JoinsOfIsJoins
<1>2. n \in Nat /\ (n = 0 => seqs = << >>) /\ \A i \in 1 .. n : seqs[i] \in Seq(E)
  OBVIOUS
<1> HIDE DEF n
<1> DEFINE S == {k \in Nat : k + 1 <= n => JoinsOf(seqs)[k + 1] \in Seq(E)}
<1>3. 0 \in S
  <2> SUFFICES ASSUME 1 <= n PROVE JoinsOf(seqs)[1] \in Seq(E)
    OBVIOUS
  <2>1. 1 \in 1 .. n
    BY <1>2
  <2> QED BY <2>1, <1>1, <1>2
<1>4. \A k \in S : k + 1 \in S
  <2> SUFFICES ASSUME NEW k \in S, (k + 1) + 1 <= n PROVE JoinsOf(seqs)[(k + 1) + 1] \in Seq(E)
    OBVIOUS
  <2> DEFINE j == (k + 1) + 1
  <2>1. j \in 1 .. n /\ j # 1 /\ j - 1 = k + 1 /\ k + 1 <= n
    BY <1>2
  <2>2. JoinsOf(seqs)[k + 1] \in Seq(E) /\ seqs[j] \in Seq(E)
    BY <2>1, <1>2
  <2> HIDE DEF j
  <2>3. JoinsOf(seqs)[j] = JoinsOf(seqs)[k + 1] \o seqs[j]
    BY <2>1, <1>1
  <2>4. JoinsOf(seqs)[j] \in Seq(E)
    BY <2>2, <2>3
  <2> QED BY <2>4 DEF j
<1>5. S \subseteq Nat
  OBVIOUS
<1> HIDE DEF S
<1>6. S = Nat
  BY <1>3, <1>4, <1>5, AllNumbers
<1>7. CASE n = 0
  BY <1>7, <1>1, <1>2
<1>8. CASE n # 0
  <2>1. n - 1 \in Nat /\ (n - 1) + 1 = n /\ (n - 1) + 1 <= n
    BY <1>2, <1>8
  <2>2. JoinsOf(seqs)[n] \in Seq(E)
    BY <2>1, <1>6 DEF S
  <2> QED BY <2>2, <1>1, <1>8
<1> QED BY <1>7, <1>8

-----------------------------------------------------------------------------
(* The byte order of keys *)

LEMMA KeyBytes ==
  ASSUME NEW key \in Key
  PROVE  Bytes(key) \in [1 .. 4 -> Int]
<1> DEFINE s == key.seq
           b == ByteBase
<1>1. key.user \in UserKey /\ key.seq \in SeqNo /\ key.type \in {0, 1}
  BY DEF Key, kDel, kPut
<1>2. s \in Nat /\ b \in Nat \ {0}
  <2>1. key.seq \in 0 .. ByteBase * ByteBase - 1
    BY <1>1, KeyAssumption
  <2> QED BY <2>1, KeyAssumption
<1>3. key.user \in Int /\ key.type \in Int
  <2>1. key.user \in Nat
    BY <1>1, KeyAssumption
  <2>2. key.type \in Int
    BY <1>1
  <2> QED BY <2>1, <2>2
<1> HIDE DEF s, b
<1>4. s % b \in Int /\ s \div b \in Int
  BY <1>2
<1>5. <<key.user, key.type, s % b, s \div b>> \in [1 .. 4 -> Int]
  BY <1>3, <1>4
<1> QED BY <1>5 DEF Bytes, s, b

\* From the first byte to the last.
LEMMA ByteByByte ==
  ASSUME NEW a \in Key, NEW b \in Key
  PROVE  BytewiseLess(a, b) <=> LexLess(Bytes(a), Bytes(b), 4)
BY DEF BytewiseLess, LexLess

LEMMA LessTransitive ==
  ASSUME NEW a \in Key, NEW b \in Key, NEW c \in Key, BytewiseLess(a, b), BytewiseLess(b, c)
  PROVE  BytewiseLess(a, c)
BY ByteByByte, KeyBytes, LexTransitive

LEMMA LessAsymmetric ==
  ASSUME NEW a \in Key, NEW b \in Key, a = b \/ BytewiseLess(a, b)
  PROVE  ~BytewiseLess(b, a)
BY ByteByByte, KeyBytes, LexAsymmetric

LEMMA KeyIsNotEmpty ==
  ASSUME NEW a \in Key
  PROVE  a # << >>
<1>1. DOMAIN a = {"user", "seq", "type"}
  BY DEF Key
<1>2. DOMAIN << >> = {}
  OBVIOUS
<1> QED BY <1>1, <1>2

-----------------------------------------------------------------------------
(* Sizes *)

LEMMA VarintLenBound ==
  ASSUME NEW n
  PROVE  VarintLen(n) \in 1 .. 5
<1> DEFINE T == {i \in 1 .. 4 : n >= 128 ^ i}
<1>1. IsFiniteSet(1 .. 4) /\ Cardinality(1 .. 4) = 4
  <2>1. 1 \in Int /\ 4 \in Int /\ 1 <= 4 /\ 4 - 1 + 1 = 4
    OBVIOUS
  <2>2. IsFiniteSet(1 .. 4) /\ Cardinality(1 .. 4) = IF 1 > 4 THEN 0 ELSE 4 - 1 + 1
    BY <2>1, FS_Interval
  <2> QED BY <2>1, <2>2
<1>2. T \subseteq 1 .. 4
  OBVIOUS
<1> HIDE DEF T
<1>3. Cardinality(T) \in Nat /\ Cardinality(T) <= 4
  BY <1>1, <1>2, FS_Subset, FS_CardinalityType
<1>4. VarintLen(n) = 1 + Cardinality(T)
  BY DEF VarintLen, T
<1>5. 1 + Cardinality(T) \in 1 .. 5
  BY <1>3
<1> QED BY <1>4, <1>5

LEMMA EntryLenBound ==
  ASSUME NEW vlen \in Nat
  PROVE  EntryLen(KeyLen, vlen) \in Nat /\ EntryLen(KeyLen, vlen) <= KeyLen + vlen + 10
BY VarintLenBound, TableAssumption DEF EntryLen

Entry == [key : Key, len : Nat]

LEMMA DataLensType ==
  ASSUME NEW block \in Seq(Entry)
  PROVE  DataLens(block) \in Seq(Nat) /\ Len(DataLens(block)) = Len(block)
<1>1. \A i \in 1 .. Len(block) : EntryLen(KeyLen, block[i].len) \in Nat
  <2> SUFFICES ASSUME NEW i \in 1 .. Len(block) PROVE EntryLen(KeyLen, block[i].len) \in Nat
    OBVIOUS
  <2>1. block[i] \in Entry
    OBVIOUS
  <2>2. block[i].len \in Nat
    BY <2>1 DEF Entry
  <2> QED BY <2>2, EntryLenBound
<1>2. DataLens(block) = [i \in 1 .. Len(block) |-> EntryLen(KeyLen, block[i].len)] /\ Len(block) \in Nat
  BY DEF DataLens
<1>3. DataLens(block) \in [1 .. Len(block) -> Nat]
  BY <1>1, <1>2
<1> QED BY <1>2, <1>3

LEMMA BlockLenIsNatural ==
  ASSUME NEW block \in Seq(Entry)
  PROVE  BlockLen(DataLens(block)) \in Nat
BY DataLensType, TotalIsNatural DEF BlockLen

\* An entry adds its own length and its offset to the block.
LEMMA BlockLenOfMore ==
  ASSUME NEW block \in Seq(Entry), NEW e \in Entry
  PROVE  BlockLen(DataLens(Append(block, e))) = BlockLen(DataLens(block)) + EntryLen(KeyLen, e.len) + 4
<1> DEFINE lens == DataLens(block)
           more == DataLens(Append(block, e))
           x    == EntryLen(KeyLen, e.len)
<1>1. lens \in Seq(Nat) /\ Len(lens) = Len(block) /\ x \in Nat /\ Len(block) \in Nat
  <2>1. e.len \in Nat
    BY DEF Entry
  <2>2. x \in Nat
    BY <2>1, EntryLenBound
  <2>3. lens \in Seq(Nat) /\ Len(lens) = Len(block)
    BY DataLensType
  <2> HIDE DEF lens, x
  <2> QED BY <2>2, <2>3
<1>2. Append(block, e) \in Seq(Entry)
  OBVIOUS
<1>3. more \in Seq(Nat) /\ Len(more) = Len(block) + 1
  BY <1>2, DataLensType, AppendFacts
<1>4. more = Append(lens, x)
  <2>1. \A i \in 1 .. Len(block) + 1 : more[i] = EntryLen(KeyLen, Append(block, e)[i].len)
    BY AppendFacts DEF DataLens
  <2>2. \A i \in 1 .. Len(block) : lens[i] = EntryLen(KeyLen, block[i].len)
    BY DEF DataLens
  <2> HIDE DEF lens, more
  <2>3. /\ Append(lens, x) \in Seq(Nat) /\ Len(Append(lens, x)) = Len(block) + 1
        /\ Append(lens, x)[Len(block) + 1] = x
        /\ \A i \in 1 .. Len(block) : Append(lens, x)[i] = lens[i]
    BY <1>1
  <2>4. \A i \in 1 .. Len(block) + 1 : Append(lens, x)[i] = more[i]
    <3>1. \A i \in 1 .. Len(block) + 1 : i \in 1 .. Len(block) \/ i = Len(block) + 1
      BY <1>1
    <3> QED BY <2>1, <2>2, <2>3, <3>1, AppendFacts
  <2> QED BY <1>3, <2>3, <2>4, SeqEqual
<1> HIDE DEF lens, more, x
<1>5. Total(more) = Total(lens) + x /\ Total(lens) \in Nat
  BY <1>1, <1>4, TotalOfMore, TotalIsNatural
<1>6. Total(more) + 4 + 4 * Len(more) = (Total(lens) + 4 + 4 * Len(lens)) + x + 4
  BY <1>1, <1>3, <1>5
<1> QED BY <1>6 DEF BlockLen, lens, more, x

-----------------------------------------------------------------------------
(* The inductive invariant *)

DataBlocks == {DataPiece(block) : block \in Seq(Entry) \ {<< >>}}

LastKey(piece) == Last(piece.entries).key

UpToKey(key, last) == key = last \/ BytewiseLess(key, last)

\* The blocks that were written: where they are, what the index says of them, and
\* their order.
Written(f, index, at) ==
  /\ f \in Seq(DataBlocks) /\ at = LenOf(f)
  /\ \E S : index \in Seq(S)
  /\ Len(index) = Len(f)
  /\ \A i \in 1 .. Len(f) :
       index[i] = [key |-> LastKey(f[i]), offset |-> LenOf(SubSeq(f, 1, i - 1)), size |-> f[i].len]
  /\ \A i \in 1 .. Len(f) : Len(f[i].entries) > 1 => f[i].len < BlockSize
  /\ \A i \in 1 .. Len(f) : \A e \in Range(f[i].entries) : UpToKey(e.key, LastKey(f[i]))
  /\ \A k \in 1 .. Len(f) : \A i \in 1 .. k - 1 : \A e \in Range(f[k].entries) :
       BytewiseLess(LastKey(f[i]), e.key)

\* The block that is being filled, whose keys come after those and up to the last.
Current(f, block, last) ==
  /\ block \in Seq(Entry)
  /\ f # << >> \/ block # << >> => last \in Key
  /\ \A i \in 1 .. Len(f) : UpToKey(LastKey(f[i]), last)
  /\ \A e \in Range(block) : UpToKey(e.key, last)
  /\ block # << >> => last = Last(block).key
  /\ \A i \in 1 .. Len(f) : \A e \in Range(block) : BytewiseLess(LastKey(f[i]), e.key)
  /\ Len(block) > 1 => BlockLen(DataLens(block)) < BlockSize

EntriesOf(f) == [i \in DOMAIN f |-> f[i].entries]

\* While the table is built, and after it was abandoned.
BuildInv ==
  /\ Written(file, index_block, offset) /\ Current(file, data_block, last_data_key)
  /\ data_block # << >> => last_key_in_current_block = last_data_key
  /\ FlattenSeq(EntriesOf(file)) \o data_block = accepted

\* After Finish, or an Append that failed: the index and the footer follow the
\* blocks, as far as they were written.
EndedInv ==
  /\ finished \/ result = "io_error"
  /\ \E blocks, index :
       /\ Written(blocks, index, LenOf(blocks))
       /\ LET more == Append(blocks, IndexPiece(index))
              all  == Append(more, Footer(LenOf(blocks), IndexPiece(index).len))
          IN  /\ file \in {blocks, more, all} /\ offset = LenOf(file)
              /\ result # "io_error" =>
                   file = all /\ data_block = << >> /\ FlattenSeq(EntriesOf(blocks)) = accepted

TableInv == BuildInv \/ EndedInv

-----------------------------------------------------------------------------
(* What the calls do to blocks *)

LEMMA DataPieceFacts ==
  ASSUME NEW p \in DataBlocks
  PROVE  /\ p.kind = "data" /\ p.entries \in Seq(Entry) /\ p.entries # << >>
         /\ p.len = BlockLen(DataLens(p.entries))
         /\ LastKey(p) \in Key /\ \A e \in Range(p.entries) : e.key \in Key
<1>1. PICK block \in Seq(Entry) \ {<< >>} : p = DataPiece(block)
  BY DEF DataBlocks
<1>2. p.kind = "data" /\ p.entries = block /\ p.len = BlockLen(DataLens(block))
  BY <1>1 DEF DataPiece
<1>3. Len(block) \in 1 .. Len(block) /\ \A i \in 1 .. Len(block) : block[i] \in Entry
  OBVIOUS
<1>4. \A e \in Range(block) : e \in Entry
  BY <1>3 DEF Range
<1>5. Last(block) \in Entry
  BY <1>3 DEF Last
<1> QED BY <1>1, <1>2, <1>4, <1>5 DEF LastKey, Entry

\* An entry joins the current block.
LEMMA AddedToBlock ==
  ASSUME NEW f \in Seq(DataBlocks), NEW block, NEW last, Current(f, block, last),
         NEW key \in Key, NEW vlen \in Nat, last # << >> => BytewiseLess(last, key),
         block # << >> => BlockLen(DataLens(block)) + KeyLen + vlen + 16 < BlockSize
  PROVE  Current(f, Append(block, [key |-> key, len |-> vlen]), key)
<1> DEFINE e == [key |-> key, len |-> vlen]
           more == Append(block, e)
<1>1. block \in Seq(Entry) /\ e \in Entry /\ e.key = key /\ e.len = vlen
  BY DEF Current, Entry
<1>2. /\ more \in Seq(Entry) /\ Last(more) = e /\ Len(more) = Len(block) + 1
      /\ Range(more) = Range(block) \cup {e} /\ more # << >>
  <2>1. more \in Seq(Entry)
    BY <1>1
  <2> QED BY <1>1, <2>1, AppendFacts
<1>3. \A d \in Range(block) : d.key \in Key
  <2>1. \A i \in 1 .. Len(block) : block[i] \in Entry
    BY <1>1
  <2> QED BY <1>1, <2>1 DEF Range, Entry
<1>4. \A i \in 1 .. Len(f) : f[i] \in DataBlocks /\ LastKey(f[i]) \in Key
  <2>1. \A i \in 1 .. Len(f) : f[i] \in DataBlocks
    OBVIOUS
  <2> QED BY <2>1, DataPieceFacts
<1>5. f # << >> \/ block # << >> => last \in Key /\ BytewiseLess(last, key)
  BY KeyIsNotEmpty DEF Current
<1>6. \A d \in Range(block) : BytewiseLess(d.key, key)
  <2> SUFFICES ASSUME NEW d \in Range(block) PROVE BytewiseLess(d.key, key)
    OBVIOUS
  <2>1. block # << >>
    BY <1>1 DEF Range
  <2>2. UpToKey(d.key, last) /\ d.key \in Key /\ last \in Key /\ BytewiseLess(last, key)
    BY <2>1, <1>3, <1>5 DEF Current
  <2> QED BY <2>2, LessTransitive DEF UpToKey
<1>7. \A i \in 1 .. Len(f) : BytewiseLess(LastKey(f[i]), key)
  <2> SUFFICES ASSUME NEW i \in 1 .. Len(f) PROVE BytewiseLess(LastKey(f[i]), key)
    OBVIOUS
  <2>1. f # << >>
    OBVIOUS
  <2>2. UpToKey(LastKey(f[i]), last) /\ LastKey(f[i]) \in Key /\ last \in Key /\ BytewiseLess(last, key)
    BY <2>1, <1>4, <1>5 DEF Current
  <2> QED BY <2>2, LessTransitive DEF UpToKey
<1>8. \A i \in 1 .. Len(f) : \A d \in Range(block) : BytewiseLess(LastKey(f[i]), d.key)
  BY DEF Current
<1>9. Len(more) > 1 => BlockLen(DataLens(more)) < BlockSize
  <2> SUFFICES ASSUME Len(more) > 1 PROVE BlockLen(DataLens(more)) < BlockSize
    OBVIOUS
  <2>1. block # << >>
    BY <1>1, <1>2
  <2>2. BlockLen(DataLens(more)) = BlockLen(DataLens(block)) + EntryLen(KeyLen, vlen) + 4
    BY <1>1, BlockLenOfMore
  <2>3. EntryLen(KeyLen, vlen) \in Nat /\ EntryLen(KeyLen, vlen) <= KeyLen + vlen + 10
    BY EntryLenBound
  <2>4. BlockLen(DataLens(block)) \in Nat
    BY <1>1, BlockLenIsNatural
  <2>5. BlockLen(DataLens(block)) + KeyLen + vlen + 16 < BlockSize
    BY <2>1
  <2> DEFINE new == BlockLen(DataLens(more))
             old == BlockLen(DataLens(block))
             x   == EntryLen(KeyLen, vlen)
  <2>6. /\ new = old + x + 4 /\ old \in Nat /\ x \in Nat /\ x <= KeyLen + vlen + 10
        /\ old + KeyLen + vlen + 16 < BlockSize /\ KeyLen \in Nat /\ BlockSize \in Nat
    BY <2>2, <2>3, <2>4, <2>5, TableAssumption
  <2> HIDE DEF new, old, x
  <2>7. new < BlockSize
    BY <2>6
  <2> QED BY <2>7 DEF new
<1> HIDE DEF e, more
<1>10. /\ more # << >> => key \in Key
       /\ more # << >> => key = Last(more).key
       /\ \A i \in 1 .. Len(f) : UpToKey(LastKey(f[i]), key)
       /\ \A d \in Range(more) : UpToKey(d.key, key)
       /\ \A i \in 1 .. Len(f) : \A d \in Range(more) : BytewiseLess(LastKey(f[i]), d.key)
  BY <1>1, <1>2, <1>6, <1>7, <1>8 DEF UpToKey
<1>11. Current(f, more, key)
  BY <1>2, <1>9, <1>10 DEF Current
<1> QED BY <1>11 DEF more, e

\* The current block is written out.
LEMMA FlushedBlock ==
  ASSUME NEW f, NEW index, NEW at, NEW block, NEW last,
         Written(f, index, at), Current(f, block, last), block # << >>
  PROVE  LET p == DataPiece(block)
             h == [key |-> last, offset |-> at, size |-> p.len]
         IN  /\ Written(Append(f, p), Append(index, h), at + p.len)
             /\ Current(Append(f, p), << >>, last)
             /\ FlattenSeq(EntriesOf(Append(f, p))) = FlattenSeq(EntriesOf(f)) \o block
<1> DEFINE p == DataPiece(block)
           h == [key |-> last, offset |-> at, size |-> p.len]
           g == Append(f, p)
           ix == Append(index, h)
           n == Len(f)
<1>1. f \in Seq(DataBlocks) /\ at = LenOf(f) /\ block \in Seq(Entry) /\ last \in Key /\ last = Last(block).key
  BY DEF Written, Current
<1>2. /\ p \in DataBlocks /\ p.entries = block /\ LastKey(p) = last /\ p.len = BlockLen(DataLens(block))
  BY <1>1 DEF DataBlocks, DataPiece, LastKey
<1>3. PICK S : index \in Seq(S)
  BY DEF Written
<1>4. /\ g \in Seq(DataBlocks) /\ n \in Nat /\ Len(g) = n + 1 /\ g # << >>
      /\ g[n + 1] = p /\ \A i \in 1 .. n : g[i] = f[i]
  <2>1. g \in Seq(DataBlocks)
    BY <1>1, <1>2
  <2> QED BY <1>1, <2>1, AppendFacts
<1>5. /\ ix \in Seq(S \cup {h}) /\ Len(index) = n /\ Len(ix) = n + 1
      /\ ix[n + 1] = h /\ \A i \in 1 .. n : ix[i] = index[i]
  <2>1. Len(index) = n
    BY DEF Written
  <2> QED BY <1>3, <2>1, AppendFacts
<1>6. LenOf(g) = at + p.len
  BY <1>1, LenOfMore
<1>7. \A i \in 1 .. n : SubSeq(g, 1, i - 1) = SubSeq(f, 1, i - 1)
  <2>1. \A i \in 1 .. n : i - 1 \in 0 .. n
    BY <1>4
  <2> QED BY <2>1, <1>1, Beginnings
<1>8. SubSeq(g, 1, (n + 1) - 1) = f
  <2>1. (n + 1) - 1 = n
    BY <1>4
  <2>2. SubSeq(g, 1, n) = f
    BY <1>1, Beginnings
  <2> QED BY <2>1, <2>2
<1>9. FlattenSeq(EntriesOf(g)) = FlattenSeq(EntriesOf(f)) \o block
  <2>1. \A i \in 1 .. n : f[i].entries \in Seq(Entry)
    BY <1>1, DataPieceFacts
  <2>2. EntriesOf(f) = [i \in 1 .. n |-> f[i].entries] /\ EntriesOf(g) = [i \in 1 .. n + 1 |-> g[i].entries]
    BY <1>1, <1>4 DEF EntriesOf
  <2>3. EntriesOf(f) \in Seq(Seq(Entry)) /\ Len(EntriesOf(f)) = n
    <3>1. EntriesOf(f) \in [1 .. n -> Seq(Entry)]
      BY <2>1, <2>2
    <3> QED BY <3>1, <2>2, <1>4
  <2>4. EntriesOf(g) \in Seq(Seq(Entry)) /\ Len(EntriesOf(g)) = n + 1
    <3>1. \A i \in 1 .. n + 1 : i \in 1 .. n \/ i = n + 1
      BY <1>4
    <3>2. \A i \in 1 .. n + 1 : g[i].entries \in Seq(Entry)
      BY <3>1, <2>1, <1>1, <1>2, <1>4
    <3>3. EntriesOf(g) \in [1 .. n + 1 -> Seq(Entry)] /\ n + 1 \in Nat
      BY <3>2, <2>2, <1>4
    <3> QED BY <3>3, <2>2
  <2>5. EntriesOf(g) = Append(EntriesOf(f), block)
    <3> DEFINE a == Append(EntriesOf(f), block)
    <3>1. a \in Seq(Seq(Entry)) /\ Len(a) = n + 1 /\ a[n + 1] = block /\ \A i \in 1 .. n : a[i] = f[i].entries
      <4>1. a \in Seq(Seq(Entry))
        BY <2>3, <1>1
      <4> QED BY <4>1, <2>2, <2>3, <1>1, <1>4, AppendFacts
    <3>2. \A i \in 1 .. n + 1 : a[i] = EntriesOf(g)[i]
      <4>1. \A i \in 1 .. n + 1 : i \in 1 .. n \/ i = n + 1
        BY <1>4
      <4> QED BY <4>1, <3>1, <2>2, <1>2, <1>4
    <3> HIDE DEF a
    <3>3. a = EntriesOf(g)
      BY <3>1, <3>2, <2>4, SeqEqual
    <3> QED BY <3>3 DEF a
  <2> QED BY <2>3, <2>5, <1>1, FlattenMore
<1> HIDE DEF p, h, g, ix, n
<1>10. \A i \in 1 .. n + 1 : i \in 1 .. n \/ i = n + 1
  BY <1>4
<1>11. \A i \in 1 .. n + 1 :
         ix[i] = [key |-> LastKey(g[i]), offset |-> LenOf(SubSeq(g, 1, i - 1)), size |-> g[i].len]
  <2>1. \A i \in 1 .. n :
          index[i] = [key |-> LastKey(f[i]), offset |-> LenOf(SubSeq(f, 1, i - 1)), size |-> f[i].len]
    BY DEF Written, n
  <2>2. ix[n + 1] = [key |-> LastKey(g[n + 1]), offset |-> LenOf(SubSeq(g, 1, (n + 1) - 1)),
                     size |-> g[n + 1].len]
    BY <1>1, <1>2, <1>4, <1>5, <1>8 DEF h
  <2> QED BY <1>10, <2>1, <2>2, <1>4, <1>5, <1>7
<1>12. \A i \in 1 .. n + 1 : Len(g[i].entries) > 1 => g[i].len < BlockSize
  <2>1. \A i \in 1 .. n : Len(f[i].entries) > 1 => f[i].len < BlockSize
    BY DEF Written, n
  <2>2. Len(block) > 1 => p.len < BlockSize
    BY <1>2 DEF Current
  <2> QED BY <1>10, <2>1, <2>2, <1>2, <1>4
<1>13. \A i \in 1 .. n + 1 : \A e \in Range(g[i].entries) : UpToKey(e.key, LastKey(g[i]))
  <2>1. \A i \in 1 .. n : \A e \in Range(f[i].entries) : UpToKey(e.key, LastKey(f[i]))
    BY DEF Written, n
  <2>2. \A e \in Range(block) : UpToKey(e.key, last)
    BY DEF Current
  <2> QED BY <1>10, <2>1, <2>2, <1>2, <1>4
<1>14. \A k \in 1 .. n + 1 : \A i \in 1 .. k - 1 : \A e \in Range(g[k].entries) :
         BytewiseLess(LastKey(g[i]), e.key)
  <2>1. \A k \in 1 .. n : \A i \in 1 .. k - 1 : \A e \in Range(f[k].entries) :
          BytewiseLess(LastKey(f[i]), e.key)
    BY DEF Written, n
  <2>2. \A i \in 1 .. n : \A e \in Range(block) : BytewiseLess(LastKey(f[i]), e.key)
    BY DEF Current, n
  <2>3. \A k \in 1 .. n + 1 : \A i \in 1 .. k - 1 : i \in 1 .. n
    BY <1>4
  <2> QED BY <1>10, <2>1, <2>2, <2>3, <1>2, <1>4
<1>15. Written(g, ix, at + p.len)
  BY <1>4, <1>5, <1>6, <1>11, <1>12, <1>13, <1>14 DEF Written
<1>16. Current(g, << >>, last)
  <2>1. \A i \in 1 .. n : UpToKey(LastKey(f[i]), last)
    BY DEF Current, n
  <2>2. \A i \in 1 .. n + 1 : UpToKey(LastKey(g[i]), last)
    BY <1>10, <2>1, <1>2, <1>4 DEF UpToKey
  <2>3. Range(<< >>) = {} /\ Len(<< >>) = 0 /\ << >> \in Seq(Entry)
    BY DEF Range
  <2> QED BY <1>1, <1>4, <2>2, <2>3 DEF Current
<1> QED BY <1>9, <1>15, <1>16 DEF p, h, g, ix

-----------------------------------------------------------------------------
(* What the invariant says of the file *)

LEMMA WholeSeq ==
  ASSUME NEW R, NEW s \in Seq(R)
  PROVE  SubSeq(s, 1, Len(s)) = s
<1> DEFINE b == SubSeq(s, 1, Len(s))
<1>1. b \in Seq(R) /\ Len(b) = Len(s) /\ \A i \in 1 .. Len(s) : b[i] = s[i]
  OBVIOUS
<1> HIDE DEF b
<1>2. b = s
  BY <1>1, SeqEqual
<1> QED BY <1>2 DEF b

\* The data blocks are the beginning of the file, and the index follows them.
LEMMA FileParts ==
  ASSUME NEW blocks \in Seq(DataBlocks), NEW ip, ip.kind = "index", NEW ft, ft.kind = "footer",
         file \in {blocks, Append(blocks, ip), Append(Append(blocks, ip), ft)}
  PROVE  /\ DataPieces = blocks
         /\ file = blocks => At("index") = {} /\ At("footer") = {}
         /\ file # blocks => Index = ip.entries
         /\ file = Append(blocks, ip) => At("footer") = {}
         /\ file = Append(Append(blocks, ip), ft) =>
              /\ Index = ip.entries
              /\ At("footer") = {Len(blocks) + 2} /\ file[Len(blocks) + 2] = ft
              /\ file[Len(blocks) + 1] = ip /\ SubSeq(file, 1, Len(blocks)) = blocks
<1> DEFINE n == Len(blocks)
           more == Append(blocks, ip)
           all == Append(more, ft)
           D == DataBlocks \cup {ip}
<1>1. /\ n \in Nat /\ DOMAIN blocks = 1 .. n
      /\ \A i \in 1 .. n : blocks[i].kind = "data"
  BY DataPieceFacts
<1>2. /\ more \in Seq(D) /\ Len(more) = n + 1 /\ DOMAIN more = 1 .. n + 1
      /\ more[n + 1] = ip /\ \A i \in 1 .. n : more[i] = blocks[i]
      /\ SubSeq(more, 1, n) = blocks
  BY AppendFacts, Beginnings
<1>3. /\ DOMAIN all = 1 .. n + 2
      /\ all[n + 2] = ft /\ all[n + 1] = ip /\ \A i \in 1 .. n : all[i] = blocks[i]
      /\ SubSeq(all, 1, n) = blocks
  <2>1. /\ DOMAIN all = 1 .. Len(more) + 1 /\ all[Len(more) + 1] = ft
        /\ \A i \in 1 .. Len(more) : all[i] = more[i]
    BY <1>2, AppendFacts
  <2>2. n \in 0 .. Len(more) /\ Len(more) + 1 = n + 2 /\ n + 1 \in 1 .. Len(more)
        /\ \A i \in 1 .. n : i \in 1 .. Len(more)
    BY <1>1, <1>2
  <2>3. SubSeq(all, 1, n) = SubSeq(more, 1, n)
    BY <1>2, <2>2, Beginnings
  <2> QED BY <2>1, <2>2, <2>3, <1>2
<1>4. SubSeq(blocks, 1, n) = blocks
  BY WholeSeq
<1> HIDE DEF n, more, all, D
<1>5. file \in {blocks, more, all}
  BY DEF more, all
<1>6. SubSeq(file, 1, n) = blocks
  BY <1>2, <1>3, <1>4, <1>5
<1>7. /\ At("data") = 1 .. n
      /\ file = blocks => At("index") = {} /\ At("footer") = {}
      /\ file # blocks => At("index") = {n + 1} /\ file[n + 1] = ip
      /\ file = more => At("footer") = {}
      /\ file = all => At("footer") = {n + 2} /\ file[n + 2] = ft /\ file # blocks
  <2>1. CASE file = blocks
    <3>1. all # blocks /\ more # blocks
      BY <1>1, <1>2, <1>3
    <3>2. At("data") = 1 .. n /\ At("index") = {} /\ At("footer") = {}
      BY <1>1, <2>1 DEF At
    <3> QED BY <2>1, <3>1, <3>2
  <2>2. CASE file = more
    <3>1. all # more /\ more # blocks
      BY <1>1, <1>2, <1>3
    <3>2. 1 .. n + 1 = (1 .. n) \cup {n + 1} /\ n + 1 \notin 1 .. n
      BY <1>1
    <3>3. At("data") = 1 .. n /\ At("index") = {n + 1} /\ At("footer") = {}
      BY <1>1, <1>2, <2>2, <3>2 DEF At
    <3> QED BY <2>2, <3>1, <3>3, <1>2
  <2>3. CASE file = all
    <3>1. all # more /\ all # blocks
      BY <1>1, <1>2, <1>3
    <3>2. 1 .. n + 2 = (1 .. n) \cup {n + 1, n + 2} /\ n + 1 \notin 1 .. n /\ n + 2 \notin 1 .. n
      BY <1>1
    <3>3. At("data") = 1 .. n /\ At("index") = {n + 1} /\ At("footer") = {n + 2}
      BY <1>1, <1>3, <2>3, <3>2 DEF At
    <3> QED BY <2>3, <3>1, <3>3, <1>3
  <2> QED BY <1>5, <2>1, <2>2, <2>3
<1>8. Cardinality(At("data")) = n
  BY <1>1, <1>7, FS_Interval
<1>9. DataPieces = blocks
  BY <1>6, <1>8 DEF DataPieces
<1>10. file # blocks => Index = ip.entries
  BY <1>7 DEF Index
<1> QED BY <1>3, <1>6, <1>7, <1>9, <1>10 DEF n, more, all

\* While it is built a file has nothing but data blocks.
LEMMA BuildingParts ==
  ASSUME BuildInv
  PROVE  /\ DataPieces = file /\ Index = index_block /\ At("footer") = {}
         /\ Written(file, index_block, offset) /\ file \in Seq(DataBlocks)
<1> DEFINE ip == IndexPiece(<< >>)
           ft == Footer(0, 0)
<1>1. file \in Seq(DataBlocks) /\ Written(file, index_block, offset)
  BY DEF BuildInv, Written
<1>2. ip.kind = "index" /\ ft.kind = "footer"
  BY DEF IndexPiece, Footer
<1> HIDE DEF ip, ft
<1>3. DataPieces = file /\ At("index") = {} /\ At("footer") = {}
  BY <1>1, <1>2, FileParts
<1> QED BY <1>1, <1>3 DEF Index

\* After it ended, the same holds of its data blocks, with the ix in the file
\* if there was no error.
LEMMA EndedParts ==
  ASSUME EndedInv
  PROVE  \E blocks, ix :
           /\ Written(blocks, ix, LenOf(blocks)) /\ blocks \in Seq(DataBlocks)
           /\ DataPieces = blocks /\ offset = LenOf(file)
           /\ \/ At("footer") = {} /\ result = "io_error"
              \/ LET ip == IndexPiece(ix)
                     ft == Footer(LenOf(blocks), ip.len)
                 IN  /\ At("footer") = {Len(blocks) + 2} /\ file[Len(blocks) + 2] = ft
                     /\ file[Len(blocks) + 1] = ip /\ SubSeq(file, 1, Len(blocks)) = blocks
                     /\ Index = ix
           /\ result # "io_error" => data_block = << >> /\ FlattenSeq(EntriesOf(blocks)) = accepted
<1>1. PICK blocks, ix :
        /\ Written(blocks, ix, LenOf(blocks))
        /\ LET more == Append(blocks, IndexPiece(ix))
               all  == Append(more, Footer(LenOf(blocks), IndexPiece(ix).len))
           IN  /\ file \in {blocks, more, all} /\ offset = LenOf(file)
               /\ result # "io_error" =>
                    file = all /\ data_block = << >> /\ FlattenSeq(EntriesOf(blocks)) = accepted
  BY DEF EndedInv
<1> DEFINE ip == IndexPiece(ix)
           ft == Footer(LenOf(blocks), ip.len)
<1>2. blocks \in Seq(DataBlocks)
  BY <1>1 DEF Written
<1>3. ip.kind = "index" /\ ft.kind = "footer" /\ ip.entries = ix
  BY DEF IndexPiece, Footer
<1>4. /\ file \in {blocks, Append(blocks, ip), Append(Append(blocks, ip), ft)} /\ offset = LenOf(file)
      /\ result # "io_error" =>
           /\ file = Append(Append(blocks, ip), ft)
           /\ data_block = << >> /\ FlattenSeq(EntriesOf(blocks)) = accepted
  BY <1>1
<1> HIDE DEF ip, ft
<1>5. /\ DataPieces = blocks
      /\ file = blocks => At("footer") = {}
      /\ file = Append(blocks, ip) => At("footer") = {}
      /\ file = Append(Append(blocks, ip), ft) =>
           /\ Index = ip.entries
           /\ At("footer") = {Len(blocks) + 2} /\ file[Len(blocks) + 2] = ft
           /\ file[Len(blocks) + 1] = ip /\ SubSeq(file, 1, Len(blocks)) = blocks
  BY <1>2, <1>3, <1>4, FileParts
<1>6. \/ At("footer") = {} /\ result = "io_error"
      \/ /\ At("footer") = {Len(blocks) + 2} /\ file[Len(blocks) + 2] = ft
         /\ file[Len(blocks) + 1] = ip /\ SubSeq(file, 1, Len(blocks)) = blocks
         /\ Index = ix
  BY <1>3, <1>4, <1>5
<1> QED BY <1>1, <1>2, <1>4, <1>5, <1>6 DEF ip, ft

LEMMA TableIndex == TableInv => IndexAddressesBlocks
<1>1. ASSUME BuildInv PROVE IndexAddressesBlocks
  <2>1. /\ DataPieces = file /\ Index = index_block /\ At("footer") = {}
        /\ Written(file, index_block, offset) /\ file \in Seq(DataBlocks)
    BY <1>1, BuildingParts
  <2>2. \A i \in DOMAIN file : file[i].kind # "footer"
    BY <2>1 DEF At
  <2>3. PICK S : index_block \in Seq(S)
    BY <2>1 DEF Written
  <2>4. DOMAIN index_block = 1 .. Len(file) /\ Len(index_block) = Len(file)
    BY <2>1, <2>3 DEF Written
  <2> QED BY <2>1, <2>2, <2>4 DEF Written, IndexAddressesBlocks, LastKey
<1>2. ASSUME EndedInv PROVE IndexAddressesBlocks
  <2>1. PICK blocks, ix :
          /\ Written(blocks, ix, LenOf(blocks)) /\ blocks \in Seq(DataBlocks)
          /\ DataPieces = blocks /\ offset = LenOf(file)
          /\ \/ At("footer") = {} /\ result = "io_error"
             \/ LET ip == IndexPiece(ix)
                    ft == Footer(LenOf(blocks), ip.len)
                IN  /\ At("footer") = {Len(blocks) + 2} /\ file[Len(blocks) + 2] = ft
                    /\ file[Len(blocks) + 1] = ip /\ SubSeq(file, 1, Len(blocks)) = blocks
                    /\ Index = ix
    BY <1>2, EndedParts
  <2>2. PICK S : ix \in Seq(S)
    BY <2>1 DEF Written
  <2>3. DOMAIN ix = 1 .. Len(blocks) /\ Len(ix) = Len(blocks) /\ Len(blocks) \in Nat
    <3>1. Len(ix) = Len(blocks)
      BY <2>1 DEF Written
    <3>2. Len(blocks) \in Nat /\ DOMAIN ix = 1 .. Len(ix)
      BY <2>1, <2>2
    <3> QED BY <3>1, <3>2
  <2>4. CASE At("footer") = {} /\ result = "io_error"
    <3>1. \A i \in DOMAIN file : file[i].kind # "footer"
      BY <2>4 DEF At
    <3> QED BY <2>1, <2>4, <3>1 DEF IndexAddressesBlocks
  <2>5. ASSUME NEW ip, NEW ft, ip = IndexPiece(ix), ft = Footer(LenOf(blocks), ip.len),
               At("footer") = {Len(blocks) + 2}, file[Len(blocks) + 2] = ft,
               file[Len(blocks) + 1] = ip, SubSeq(file, 1, Len(blocks)) = blocks,
               Index = ix
        PROVE  IndexAddressesBlocks
    <3>1. ft.index_offset = LenOf(blocks) /\ ft.index_size = ip.len
      BY <2>5 DEF Footer
    <3>2. \A i \in DOMAIN file : file[i].kind = "footer" => i = Len(blocks) + 2
      BY <2>5 DEF At
    <3>3. (Len(blocks) + 2) - 2 = Len(blocks) /\ (Len(blocks) + 2) - 1 = Len(blocks) + 1
      BY <2>3
    <3>4. \A i \in DOMAIN file :
            file[i].kind = "footer" =>
              /\ file[i].index_offset = LenOf(SubSeq(file, 1, i - 2))
              /\ file[i].index_size = file[i - 1].len
      BY <2>5, <3>1, <3>2, <3>3
    <3>5. /\ Len(Index) = Len(DataPieces)
          /\ \A i \in DOMAIN Index :
               Index[i] = [key    |-> Last(DataPieces[i].entries).key,
                           offset |-> LenOf(SubSeq(DataPieces, 1, i - 1)),
                           size   |-> DataPieces[i].len]
      BY <2>1, <2>3, <2>5 DEF Written, LastKey
    <3> QED BY <2>1, <3>4, <3>5 DEF IndexAddressesBlocks
  <2> QED BY <2>1, <2>4, <2>5
<1> QED BY <1>1, <1>2 DEF TableInv

LEMMA TableEntries == TableInv => NothingDropped
<1>1. ASSUME BuildInv PROVE NothingDropped
  BY <1>1, BuildingParts DEF BuildInv, NothingDropped, EntriesOf
<1>2. ASSUME EndedInv, result # "io_error" PROVE NothingDropped
  <2>1. PICK blocks :
          /\ blocks \in Seq(DataBlocks) /\ DataPieces = blocks
          /\ data_block = << >> /\ FlattenSeq(EntriesOf(blocks)) = accepted
    BY <1>2, EndedParts
  <2>2. accepted \in Seq(Entry)
    <3>1. EntriesOf(blocks) \in [1 .. Len(blocks) -> Seq(Entry)]
      <4>1. \A i \in 1 .. Len(blocks) : blocks[i].entries \in Seq(Entry)
        BY <2>1, DataPieceFacts
      <4> QED BY <2>1, <4>1 DEF EntriesOf
    <3>2. EntriesOf(blocks) \in Seq(Seq(Entry))
      BY <2>1, <3>1
    <3> QED BY <2>1, <3>2, FlattenIsSeq
  <2>3. accepted \o << >> = accepted
    BY <2>2
  <2> QED BY <2>1, <2>3 DEF NothingDropped, EntriesOf
<1> QED BY <1>1, <1>2 DEF TableInv, NothingDropped

\* The blocks of either case, for what is said of blocks alone.
LEMMA TableBlocks ==
  ASSUME TableInv
  PROVE  \E ix, at :
           /\ Written(DataPieces, ix, at) /\ DataPieces \in Seq(DataBlocks)
           /\ result # "io_error" => Index = ix
<1>1. ASSUME BuildInv
      PROVE  /\ Written(DataPieces, index_block, offset) /\ DataPieces \in Seq(DataBlocks)
             /\ Index = index_block
  BY <1>1, BuildingParts
<1>2. ASSUME EndedInv
      PROVE  \E ix, at :
               /\ Written(DataPieces, ix, at) /\ DataPieces \in Seq(DataBlocks)
               /\ result # "io_error" => Index = ix
  BY <1>2, EndedParts
<1> QED BY <1>1, <1>2 DEF TableInv

LEMMA TableSizes == TableInv => BlocksWithinTarget
<1> SUFFICES ASSUME TableInv PROVE BlocksWithinTarget
  OBVIOUS
<1>1. PICK ix, at : Written(DataPieces, ix, at) /\ DataPieces \in Seq(DataBlocks)
  BY TableBlocks
<1>2. DOMAIN DataPieces = 1 .. Len(DataPieces)
  BY <1>1
<1> QED BY <1>1, <1>2 DEF Written, BlocksWithinTarget

LEMMA TableOrder == TableInv => SortedForSearch
<1> SUFFICES ASSUME TableInv, result # "io_error" PROVE SortedForSearch
  BY DEF SortedForSearch
<1>1. PICK ix, at :
        /\ Written(DataPieces, ix, at) /\ DataPieces \in Seq(DataBlocks) /\ Index = ix
  BY TableBlocks
<1> DEFINE f == DataPieces
<1>2. Written(f, ix, at) /\ f \in Seq(DataBlocks)
  BY <1>1
<1>3. Index = ix
  BY <1>1
<1> HIDE DEF f
<1>4. DOMAIN f = 1 .. Len(f) /\ Len(f) \in Nat
  BY <1>2
<1>5. \A i \in 1 .. Len(f) : f[i] \in DataBlocks
  BY <1>2
<1>6. \A i \in 1 .. Len(f) : Index[i].key = LastKey(f[i])
  <2>1. \A i \in 1 .. Len(f) :
          ix[i] = [key |-> LastKey(f[i]), offset |-> LenOf(SubSeq(f, 1, i - 1)), size |-> f[i].len]
    BY <1>2 DEF Written
  <2>2. ASSUME NEW i \in 1 .. Len(f) PROVE ix[i].key = LastKey(f[i])
    <3>1. ix[i] = [key |-> LastKey(f[i]), offset |-> LenOf(SubSeq(f, 1, i - 1)), size |-> f[i].len]
      BY <2>1
    <3> QED BY <3>1
  <2> QED BY <2>2, <1>3
<1>7. \A i \in 1 .. Len(f) : \A e \in Range(f[i].entries) : ~BytewiseLess(LastKey(f[i]), e.key)
  <2> SUFFICES ASSUME NEW i \in 1 .. Len(f), NEW e \in Range(f[i].entries)
               PROVE  ~BytewiseLess(LastKey(f[i]), e.key)
    OBVIOUS
  <2>1. LastKey(f[i]) \in Key /\ e.key \in Key
    BY <1>5, DataPieceFacts
  <2>2. UpToKey(e.key, LastKey(f[i]))
    BY <1>2 DEF Written
  <2> QED BY <2>1, <2>2, LessAsymmetric DEF UpToKey
<1>8. \A k \in 1 .. Len(f) : \A i \in 1 .. Len(f) : i < k =>
        \A e \in Range(f[k].entries) : BytewiseLess(LastKey(f[i]), e.key)
  <2>1. \A k \in 1 .. Len(f) : \A i \in 1 .. k - 1 : \A e \in Range(f[k].entries) :
          BytewiseLess(LastKey(f[i]), e.key)
    BY <1>2 DEF Written
  <2>2. \A k \in 1 .. Len(f), i \in 1 .. Len(f) : i < k => i \in 1 .. k - 1
    BY <1>4
  <2> QED BY <2>1, <2>2
<1> QED BY <1>4, <1>6, <1>7, <1>8 DEF SortedForSearch, f

-----------------------------------------------------------------------------
(* The last pieces of a file *)

LEMMA Tuples ==
  ASSUME NEW a, NEW b, NEW c
  PROVE  /\ << >> \in Seq({}) /\ <<a>> \in Seq({a}) /\ <<a, b>> \in Seq({a, b})
         /\ <<a, b, c>> \in Seq({a, b, c})
         /\ <<a>> = Append(<< >>, a) /\ <<a, b>> = Append(<<a>>, b) /\ <<a, b, c>> = Append(<<a, b>>, c)
         /\ Len(<< >>) = 0 /\ Len(<<a>>) = 1 /\ Len(<<a, b>>) = 2 /\ Len(<<a, b, c>>) = 3
OBVIOUS

LEMMA BeginningsOfThree ==
  ASSUME NEW a, NEW b, NEW c
  PROVE  LET t1 == Append(<< >>, a)
             t2 == Append(t1, b)
             t3 == Append(t2, c)
         IN  /\ SubSeq(t2, 1, 0) = << >> /\ SubSeq(t2, 1, 1) = t1 /\ SubSeq(t2, 1, 2) = t2
             /\ SubSeq(t3, 1, 0) = << >> /\ SubSeq(t3, 1, 1) = t1 /\ SubSeq(t3, 1, 2) = t2
             /\ SubSeq(t3, 1, 3) = t3
<1> DEFINE t1 == Append(<< >>, a)
           t2 == Append(t1, b)
           t3 == Append(t2, c)
<1>1. << >> \in Seq({}) /\ Len(<< >>) = 0
  OBVIOUS
<1>2. t1 \in Seq({} \cup {a}) /\ Len(t1) = 1
  BY <1>1, AppendFacts
<1>3. t2 \in Seq(({} \cup {a}) \cup {b}) /\ Len(t2) = 2
  BY <1>2, AppendFacts
<1>4. t3 \in Seq((({} \cup {a}) \cup {b}) \cup {c}) /\ Len(t3) = 3
  BY <1>3, AppendFacts
<1>5. SubSeq(t1, 1, 1) = t1 /\ SubSeq(t2, 1, 2) = t2 /\ SubSeq(t3, 1, 3) = t3 /\ SubSeq(<< >>, 1, 0) = << >>
  <2>1. SubSeq(t1, 1, Len(t1)) = t1 /\ SubSeq(t2, 1, Len(t2)) = t2 /\ SubSeq(t3, 1, Len(t3)) = t3
    BY <1>2, <1>3, <1>4, WholeSeq
  <2>2. SubSeq(<< >>, 1, Len(<< >>)) = << >>
    BY <1>1, WholeSeq
  <2> QED BY <2>1, <2>2, <1>1, <1>2, <1>3, <1>4
<1>6. SubSeq(t1, 1, 0) = << >>
  <2>1. \A k \in 0 .. Len(<< >>) : SubSeq(Append(<< >>, a), 1, k) = SubSeq(<< >>, 1, k)
    BY <1>1, Beginnings
  <2>2. 0 \in 0 .. Len(<< >>)
    BY <1>1
  <2> QED BY <2>1, <2>2, <1>5
<1>7. SubSeq(t2, 1, 0) = << >> /\ SubSeq(t2, 1, 1) = t1
  <2>1. \A k \in 0 .. Len(t1) : SubSeq(t2, 1, k) = SubSeq(t1, 1, k)
    BY <1>2, Beginnings
  <2>2. 0 \in 0 .. Len(t1) /\ 1 \in 0 .. Len(t1)
    BY <1>2
  <2> QED BY <2>1, <2>2, <1>5, <1>6
<1>8. SubSeq(t3, 1, 0) = << >> /\ SubSeq(t3, 1, 1) = t1 /\ SubSeq(t3, 1, 2) = t2
  <2>1. \A k \in 0 .. Len(t2) : SubSeq(t3, 1, k) = SubSeq(t2, 1, k)
    BY <1>3, Beginnings
  <2>2. 0 \in 0 .. Len(t2) /\ 1 \in 0 .. Len(t2) /\ 2 \in 0 .. Len(t2)
    BY <1>3
  <2> QED BY <2>1, <2>2, <1>5, <1>7
<1> QED BY <1>5, <1>7, <1>8

\* Joining a sequence that has one more element.
LEMMA JoinMore ==
  ASSUME NEW R, NEW s \in Seq(R), NEW t \in Seq(R), NEW x
  PROVE  s \o Append(t, x) = Append(s \o t, x)
<1> DEFINE E == R \cup {x}
           u == <<x>>
<1>1. s \in Seq(E) /\ t \in Seq(E) /\ u \in Seq(E)
  <2>1. s \in [1 .. Len(s) -> E] /\ t \in [1 .. Len(t) -> E]
    OBVIOUS
  <2> QED BY <2>1, SeqDef
<1>2. Append(t, x) = t \o u /\ Append(s \o t, x) = (s \o t) \o u
  <2>1. s \o t \in Seq(R)
    BY ConcatProperties
  <2> QED BY <2>1, AppendIsConcat
<1>3. (s \o t) \o u = s \o (t \o u)
  BY <1>1, ConcatAssociative
<1> QED BY <1>2, <1>3

LEMMA JoinTuples ==
  ASSUME NEW R, NEW f \in Seq(R), NEW a, NEW b, NEW c
  PROVE  /\ f \o << >> = f /\ f \o <<a>> = Append(f, a) /\ f \o <<a, b>> = Append(Append(f, a), b)
         /\ f \o <<a, b, c>> = Append(Append(Append(f, a), b), c)
<1> DEFINE E == R \cup {a, b, c}
<1>1. f \in Seq(E) /\ << >> \in Seq(E) /\ <<a>> \in Seq(E) /\ <<a, b>> \in Seq(E)
  <2>1. f \in [1 .. Len(f) -> E]
    OBVIOUS
  <2> QED BY <2>1, SeqDef
<1> HIDE DEF E
<1>2. f \o << >> = f
  BY ConcatEmptySeq
<1>3. f \o <<a>> = Append(f, a)
  BY <1>1, <1>2, Tuples, JoinMore
<1>4. f \o <<a, b>> = Append(Append(f, a), b)
  BY <1>1, <1>3, Tuples, JoinMore
<1>5. f \o <<a, b, c>> = Append(Append(Append(f, a), b), c)
  BY <1>1, <1>4, Tuples, JoinMore
<1> QED BY <1>2, <1>3, <1>4, <1>5

\* What a file becomes when the first of two pieces, or of three, are appended.
LEMMA PiecesJoined ==
  ASSUME NEW R, NEW f \in Seq(R), NEW a, NEW b, NEW c
  PROVE  /\ \A done \in 0 .. 2 :
              f \o SubSeq(<<a, b>>, 1, done) = IF done = 0 THEN f ELSE IF done = 1 THEN Append(f, a)
                                               ELSE Append(Append(f, a), b)
         /\ \A done \in 0 .. 3 :
              f \o SubSeq(<<a, b, c>>, 1, done) =
                IF done = 0 THEN f ELSE IF done = 1 THEN Append(f, a)
                ELSE IF done = 2 THEN Append(Append(f, a), b) ELSE Append(Append(Append(f, a), b), c)
<1> DEFINE t1 == <<a>>
           t2 == <<a, b>>
           t3 == <<a, b, c>>
<1>1. t1 = Append(<< >>, a) /\ t2 = Append(t1, b) /\ t3 = Append(t2, c)
  BY Tuples
<1>2. /\ f \o << >> = f /\ f \o t1 = Append(f, a) /\ f \o t2 = Append(Append(f, a), b)
      /\ f \o t3 = Append(Append(Append(f, a), b), c)
  BY JoinTuples
<1> HIDE DEF t1, t2, t3
<1>3. /\ SubSeq(t2, 1, 0) = << >> /\ SubSeq(t2, 1, 1) = t1 /\ SubSeq(t2, 1, 2) = t2
      /\ SubSeq(t3, 1, 0) = << >> /\ SubSeq(t3, 1, 1) = t1 /\ SubSeq(t3, 1, 2) = t2
      /\ SubSeq(t3, 1, 3) = t3
  BY <1>1, BeginningsOfThree
<1>4. \A done \in 0 .. 2 : f \o SubSeq(t2, 1, done) = IF done = 0 THEN f ELSE IF done = 1 THEN Append(f, a)
                                                      ELSE Append(Append(f, a), b)
  <2>1. \A done \in 0 .. 2 : done = 0 \/ done = 1 \/ done = 2
    OBVIOUS
  <2>2. 1 # 0 /\ 2 # 0 /\ 2 # 1
    OBVIOUS
  <2> QED BY <2>1, <2>2, <1>2, <1>3, Zenon
<1>5. \A done \in 0 .. 3 :
        f \o SubSeq(t3, 1, done) =
          IF done = 0 THEN f ELSE IF done = 1 THEN Append(f, a)
          ELSE IF done = 2 THEN Append(Append(f, a), b) ELSE Append(Append(Append(f, a), b), c)
  <2>1. \A done \in 0 .. 3 : done = 0 \/ done = 1 \/ done = 2 \/ done = 3
    OBVIOUS
  <2>2. 1 # 0 /\ 2 # 0 /\ 2 # 1 /\ 3 # 0 /\ 3 # 1 /\ 3 # 2
    OBVIOUS
  <2> QED BY <2>1, <2>2, <1>2, <1>3, Zenon
<1> QED BY <1>4, <1>5 DEF t2, t3

LEMMA LenIsNatural ==
  ASSUME NEW R, \A r \in R : r.len \in Nat, NEW f \in Seq(R)
  PROVE  LenOf(f) \in Nat
<1> DEFINE lens == [i \in 1 .. Len(f) |-> f[i].len]
<1>1. \A i \in 1 .. Len(f) : f[i].len \in Nat
  <2>1. \A i \in 1 .. Len(f) : f[i] \in R
    OBVIOUS
  <2> QED BY <2>1
<1>2. lens \in [1 .. Len(f) -> Nat]
  BY <1>1
<1>3. Len(f) \in Nat /\ DOMAIN f = 1 .. Len(f)
  OBVIOUS
<1>4. LenOf(f) = Total(lens)
  BY <1>3 DEF LenOf
<1> HIDE DEF lens
<1>5. lens \in Seq(Nat)
  BY <1>2, <1>3
<1> QED BY <1>4, <1>5, TotalIsNatural

\* What is appended adds up, however many pieces there are.
LEMMA LenOfJoin ==
  ASSUME NEW R, \A r \in R : r.len \in Nat, NEW f \in Seq(R), NEW t \in Seq(R)
  PROVE  LenOf(f \o t) = LenOf(f) + LenOf(t)
<1> DEFINE b(k) == SubSeq(t, 1, k)
           S == {k \in Nat : k <= Len(t) => LenOf(f \o b(k)) = LenOf(f) + LenOf(b(k))}
<1>1. LenOf(f) \in Nat /\ Len(t) \in Nat
  BY LenIsNatural
<1>2. 0 \in S
  <2>1. b(0) = << >>
    OBVIOUS
  <2>2. f \o << >> = f
    BY ConcatEmptySeq
  <2>3. LenOf(f \o b(0)) = LenOf(f) + LenOf(b(0))
    <3> HIDE DEF b
    <3>1. LenOf(f \o b(0)) = LenOf(f) /\ LenOf(b(0)) = 0
      BY <2>1, <2>2, LenOfNone, Zenon
    <3> QED BY <3>1, <1>1
  <2> QED BY <2>3
<1>3. \A k \in S : k + 1 \in S
  <2> SUFFICES ASSUME NEW k \in S, k + 1 <= Len(t)
               PROVE  LenOf(f \o b(k + 1)) = LenOf(f) + LenOf(b(k + 1))
    OBVIOUS
  <2>1. k \in Nat /\ k <= Len(t) /\ t[k + 1] \in R /\ LenOf(f \o b(k)) = LenOf(f) + LenOf(b(k))
    BY <1>1
  <2>2. b(k) \in Seq(R) /\ b(k + 1) \in Seq(R) /\ Len(b(k)) = k /\ Len(b(k + 1)) = k + 1
        /\ (\A i \in 1 .. k : b(k)[i] = t[i]) /\ (\A i \in 1 .. k + 1 : b(k + 1)[i] = t[i])
    BY <2>1
  <2>3. b(k + 1) = Append(b(k), t[k + 1])
    <3> DEFINE u == Append(b(k), t[k + 1])
               v == b(k + 1)
               w == b(k)
    <3> HIDE DEF w, v
    <3>1. u \in Seq(R) /\ Len(u) = k + 1 /\ u[k + 1] = t[k + 1] /\ \A i \in 1 .. k : u[i] = w[i]
      BY <2>1, <2>2 DEF w
    <3>2. v \in Seq(R) /\ Len(v) = k + 1 /\ \A i \in 1 .. k + 1 : v[i] = t[i]
      BY <2>2 DEF v
    <3>3. \A i \in 1 .. k + 1 : i \in 1 .. k \/ i = k + 1
      BY <2>1
    <3>4. \A i \in 1 .. k + 1 : u[i] = v[i]
      BY <3>1, <3>2, <3>3, <2>2 DEF w
    <3> HIDE DEF u
    <3>5. u = v
      BY <3>1, <3>2, <3>4, SeqEqual
    <3> QED BY <3>5 DEF u, v, w
  <2> HIDE DEF b
  <2>4. f \o b(k + 1) = Append(f \o b(k), t[k + 1]) /\ f \o b(k) \in Seq(R)
    <3>1. f \o b(k) \in Seq(R)
      BY <2>2, ConcatProperties
    <3>2. f \o Append(b(k), t[k + 1]) = Append(f \o b(k), t[k + 1])
      BY <2>2, JoinMore
    <3> QED BY <2>3, <3>1, <3>2
  <2>5. LenOf(f \o b(k + 1)) = LenOf(f \o b(k)) + t[k + 1].len
    BY <2>4, LenOfMore
  <2>6. LenOf(b(k + 1)) = LenOf(b(k)) + t[k + 1].len
    BY <2>2, <2>3, LenOfMore
  <2>7. LenOf(b(k)) \in Nat /\ t[k + 1].len \in Nat
    BY <2>1, <2>2, LenIsNatural
  <2> QED BY <2>1, <2>5, <2>6, <2>7, <1>1
<1>4. S \subseteq Nat
  OBVIOUS
<1>5. b(Len(t)) = t
  BY WholeSeq
<1> HIDE DEF S, b
<1>6. S = Nat
  BY <1>2, <1>3, <1>4, AllNumbers
<1> QED BY <1>1, <1>5, <1>6 DEF S

LEMMA IndexPieceLen ==
  ASSUME NEW S, NEW index \in Seq(S)
  PROVE  IndexPiece(index).len \in Nat
<1> DEFINE n == Len(index)
           lens == IndexLens(index)
<1>1. n \in Nat /\ lens = [i \in 1 .. n |->
        EntryLen(KeyLen, VarintLen(index[i].offset) + VarintLen(index[i].size))]
  BY DEF IndexLens
<1> HIDE DEF n, lens
<1>2. \A i \in 1 .. n : EntryLen(KeyLen, VarintLen(index[i].offset) + VarintLen(index[i].size)) \in Nat
  <2> SUFFICES ASSUME NEW i \in 1 .. n
               PROVE  EntryLen(KeyLen, VarintLen(index[i].offset) + VarintLen(index[i].size)) \in Nat
    OBVIOUS
  <2>1. VarintLen(index[i].offset) + VarintLen(index[i].size) \in Nat
    BY VarintLenBound
  <2> QED BY <2>1, EntryLenBound
<1>3. lens \in Seq(Nat)
  <2>1. lens \in [1 .. n -> Nat]
    BY <1>1, <1>2
  <2> QED BY <1>1, <2>1
<1>4. Total(lens) \in Nat /\ Len(lens) \in Nat
  BY <1>3, TotalIsNatural
<1> QED BY <1>4 DEF IndexPiece, BlockLen, lens

LEMMA EntriesFlatten ==
  ASSUME NEW f \in Seq(DataBlocks)
  PROVE  FlattenSeq(EntriesOf(f)) \in Seq(Entry)
<1>1. EntriesOf(f) = [i \in 1 .. Len(f) |-> f[i].entries] /\ Len(f) \in Nat
  BY DEF EntriesOf
<1>2. \A i \in 1 .. Len(f) : f[i].entries \in Seq(Entry)
  BY DataPieceFacts
<1>3. EntriesOf(f) \in [1 .. Len(f) -> Seq(Entry)]
  BY <1>1, <1>2
<1>4. EntriesOf(f) \in Seq(Seq(Entry))
  BY <1>1, <1>3
<1> QED BY <1>4, FlattenIsSeq

LEMMA LenOfBlocks ==
  ASSUME NEW f \in Seq(DataBlocks)
  PROVE  LenOf(f) \in Nat
<1>1. \A p \in DataBlocks : p.len \in Nat
  BY DataPieceFacts, BlockLenIsNatural
<1> QED BY <1>1, LenIsNatural

LEMMA PieceLens ==
  ASSUME NEW S, NEW index \in Seq(S), NEW at
  PROVE  LET ip == IndexPiece(index)
             ft == Footer(at, ip.len)
         IN  \A p \in DataBlocks \cup {ip, ft} : p.len \in Nat
<1> DEFINE ip == IndexPiece(index)
           ft == Footer(at, ip.len)
<1>1. ip.len \in Nat
  BY IndexPieceLen
<1>2. ft.len \in Nat
  BY DEF Footer, FooterLen
<1>3. \A p \in DataBlocks : p.len \in Nat
  BY DataPieceFacts, BlockLenIsNatural
<1> QED BY <1>1, <1>2, <1>3

\* What Finish makes of the file, when `done` of its pieces could be appended: the
\* blocks, then the index of these blocks, then the footer.
LEMMA FinishedFile ==
  ASSUME BuildInv, NEW done \in 0 .. Len(Pieces)
  PROVE  \E blocks, index :
           LET w    == SubSeq(Pieces, 1, done)
               more == Append(blocks, IndexPiece(index))
               all  == Append(more, Footer(LenOf(blocks), IndexPiece(index).len))
           IN  /\ Written(blocks, index, LenOf(blocks))
               /\ file \o w \in {blocks, more, all}
               /\ offset + LenOf(w) = LenOf(file \o w)
               /\ done = Len(Pieces) => file \o w = all /\ FlattenSeq(EntriesOf(blocks)) = accepted
<1> DEFINE w == SubSeq(Pieces, 1, done)
<1>1. /\ Written(file, index_block, offset) /\ Current(file, data_block, last_data_key)
      /\ data_block # << >> => last_key_in_current_block = last_data_key
      /\ FlattenSeq(EntriesOf(file)) \o data_block = accepted
  BY DEF BuildInv
<1>2. file \in Seq(DataBlocks) /\ offset = LenOf(file)
  BY <1>1 DEF Written
<1>3. PICK S : index_block \in Seq(S)
  BY <1>1 DEF Written
<1>4. CASE data_block = << >>
  <2> DEFINE ip == IndexPiece(index_block)
             ft == Footer(LenOf(file), ip.len)
             R  == DataBlocks \cup {ip, ft}
  <2>1. Pieces = <<ip, ft>>
    <3>1. offset + Total(<< >>) = LenOf(file)
      BY <1>2, TotalOfNone, LenOfBlocks
    <3>2. Pieces = << >> \o <<ip, Footer(offset + Total([i \in DOMAIN << >> |-> << >>[i].len]), ip.len)>>
      BY <1>4 DEF Pieces
    <3>3. [i \in DOMAIN << >> |-> << >>[i].len] = << >>
      OBVIOUS
    <3> HIDE DEF ip
    <3>4. Pieces = << >> \o <<ip, ft>>
      BY <3>1, <3>2, <3>3
    <3> HIDE DEF ft
    <3>5. << >> \o <<ip, ft>> = <<ip, ft>>
      OBVIOUS
    <3> QED BY <3>4, <3>5
  <2>2. \A p \in R : p.len \in Nat
    BY <1>3, PieceLens
  <2> HIDE DEF ip, ft
  <2>3. Len(Pieces) = 2
    BY <2>1
  <2>4. w \in Seq(R) /\ file \in Seq(R)
    <3>1. <<ip, ft>> \in Seq(R)
      OBVIOUS
    <3>2. file \in Seq(R)
      <4>1. file \in [1 .. Len(file) -> R]
        BY <1>2
      <4> QED BY <4>1, <1>2, SeqDef
    <3>3. Pieces \in Seq(R) /\ done \in 0 .. 2
      BY <2>1, <2>3, <3>1
    <3>4. w \in Seq(R)
      BY <3>3, <2>3
    <3> QED BY <3>2, <3>4
  <2> HIDE DEF R
  <2>5. offset + LenOf(w) = LenOf(file \o w)
    BY <1>2, <2>2, <2>4, LenOfJoin
  <2>6. file \o w = IF done = 0 THEN file ELSE IF done = 1 THEN Append(file, ip)
                    ELSE Append(Append(file, ip), ft)
    <3>1. done \in 0 .. 2
      BY <2>3
    <3> QED BY <2>1, <3>1, <1>2, PiecesJoined
  <2>7. FlattenSeq(EntriesOf(file)) = accepted
    <3>1. FlattenSeq(EntriesOf(file)) \in Seq(Entry)
      BY <1>2, EntriesFlatten
    <3>2. FlattenSeq(EntriesOf(file)) \o << >> = FlattenSeq(EntriesOf(file))
      BY <3>1, ConcatEmptySeq
    <3> QED BY <3>2, <1>1, <1>4
  <2>8. Written(file, index_block, LenOf(file))
    BY <1>1, <1>2
  <2> HIDE DEF w
  <2>9. /\ file \o w \in {file, Append(file, ip), Append(Append(file, ip), ft)}
        /\ done = Len(Pieces) => file \o w = Append(Append(file, ip), ft)
    BY <2>3, <2>6
  <2> QED BY <2>5, <2>7, <2>8, <2>9 DEF ip, ft, w
<1>5. CASE data_block # << >>
  <2> DEFINE dp == DataPiece(data_block)
             h  == [key |-> last_data_key, offset |-> offset, size |-> dp.len]
             g  == Append(file, dp)
             ix == Append(index_block, h)
             ip == IndexPiece(ix)
             ft == Footer(LenOf(g), ip.len)
             R  == DataBlocks \cup {ip, ft}
  <2>1. /\ Written(g, ix, offset + dp.len) /\ Current(g, << >>, last_data_key)
        /\ FlattenSeq(EntriesOf(g)) = FlattenSeq(EntriesOf(file)) \o data_block
    BY <1>1, <1>5, FlushedBlock
  <2>2. /\ g \in Seq(DataBlocks) /\ offset + dp.len = LenOf(g) /\ Written(g, ix, LenOf(g))
        /\ FlattenSeq(EntriesOf(g)) = accepted
    BY <1>1, <2>1 DEF Written
  <2>3. dp \in DataBlocks /\ dp.len \in Nat
    <3>1. data_block \in Seq(Entry)
      BY <1>1 DEF Current
    <3>2. dp \in DataBlocks
      BY <3>1, <1>5 DEF DataBlocks
    <3>3. dp.len = BlockLen(DataLens(data_block))
      BY DEF DataPiece
    <3> QED BY <3>1, <3>2, <3>3, BlockLenIsNatural
  <2>4. Handle(last_key_in_current_block) = h
    BY <1>1, <1>5 DEF Handle
  <2>5. Pieces = <<dp, ip, ft>>
    <3> HIDE DEF dp
    <3>1. [i \in DOMAIN <<dp>> |-> <<dp>>[i].len] = <<dp.len>>
      OBVIOUS
    <3>2. Total(<<dp.len>>) = dp.len
      <4>1. Append(<< >>, dp.len) = <<dp.len>> /\ << >> \in Seq(Nat)
        OBVIOUS
      <4>2. Total(Append(<< >>, dp.len)) = Total(<< >>) + dp.len
        BY <4>1, TotalOfMore
      <4> QED BY <4>1, <4>2, <2>3, TotalOfNone
    <3>3. IndexPiece(IF data_block = << >> THEN index_block
                     ELSE Append(index_block, Handle(last_key_in_current_block))) = ip
      BY <1>5, <2>4
    <3>4. (IF data_block = << >> THEN << >> ELSE <<DataPiece(data_block)>>) = <<dp>>
      BY <1>5 DEF dp
    <3> HIDE DEF h, g, ix, ip
    <3>5. Pieces = <<dp>> \o <<ip, Footer(offset + Total([i \in DOMAIN <<dp>> |-> <<dp>>[i].len]), ip.len)>>
      BY <3>3, <3>4 DEF Pieces
    <3>6. Pieces = <<dp>> \o <<ip, ft>>
      BY <3>1, <3>2, <3>5, <2>2
    <3> HIDE DEF ft
    <3>7. <<dp>> \o <<ip, ft>> = <<dp, ip, ft>>
      <4>1. <<dp>> \in Seq({dp})
        OBVIOUS
      <4>2. <<dp>> \o <<ip, ft>> = Append(Append(<<dp>>, ip), ft)
        BY <4>1, JoinTuples
      <4>3. <<dp, ip>> = Append(<<dp>>, ip) /\ <<dp, ip, ft>> = Append(<<dp, ip>>, ft)
        BY Tuples
      <4> QED BY <4>2, <4>3, Zenon
    <3> QED BY <3>6, <3>7
  <2>6. \A p \in R : p.len \in Nat
    <3>1. ix \in Seq(S \cup {h})
      BY <1>3, AppendFacts
    <3> HIDE DEF ix, g
    <3> QED BY <3>1, PieceLens
  <2> HIDE DEF dp, h, g, ix, ip, ft
  <2>7. Len(Pieces) = 3
    BY <2>5
  <2>8. w \in Seq(R) /\ file \in Seq(R)
    <3>1. <<dp, ip, ft>> \in Seq(R)
      BY <2>3
    <3>2. file \in Seq(R)
      <4>1. file \in [1 .. Len(file) -> R]
        BY <1>2
      <4> QED BY <4>1, <1>2, SeqDef
    <3>3. Pieces \in Seq(R) /\ done \in 0 .. 3
      BY <2>5, <2>7, <3>1
    <3>4. w \in Seq(R)
      BY <3>3, <2>7
    <3> QED BY <3>2, <3>4
  <2> HIDE DEF R
  <2>9. offset + LenOf(w) = LenOf(file \o w)
    BY <1>2, <2>6, <2>8, LenOfJoin
  <2>10. file \o w = IF done = 0 THEN file ELSE IF done = 1 THEN g
                     ELSE IF done = 2 THEN Append(g, ip) ELSE Append(Append(g, ip), ft)
    <3>1. done \in 0 .. 3
      BY <2>7
    <3> QED BY <2>5, <3>1, <1>2, PiecesJoined DEF g
  <2> HIDE DEF w
  <2>11. CASE done = 0
    <3>1. file \o w = file /\ done # Len(Pieces)
      BY <2>7, <2>10, <2>11
    <3>2. Written(file, index_block, LenOf(file))
      BY <1>1, <1>2
    <3> QED BY <2>9, <3>1, <3>2 DEF w
  <2>12. CASE done # 0
    <3>1. /\ file \o w \in {g, Append(g, ip), Append(Append(g, ip), ft)}
          /\ done = Len(Pieces) => file \o w = Append(Append(g, ip), ft)
      BY <2>7, <2>10, <2>12
    <3> QED BY <2>2, <2>9, <3>1 DEF w, ip, ft
  <2> QED BY <2>11, <2>12
<1> QED BY <1>4, <1>5

-----------------------------------------------------------------------------
(* Steps *)

LEMMA InitTableInv == Init => TableInv
<1> SUFFICES ASSUME Init PROVE BuildInv
  BY DEF TableInv
<1>1. file = << >> /\ index_block = << >> /\ data_block = << >> /\ offset = 0 /\ accepted = << >>
      /\ last_data_key = << >>
  BY DEF Init
<1>2. Written(file, index_block, offset)
  <2>1. << >> \in Seq(DataBlocks) /\ Len(<< >>) = 0 /\ LenOf(<< >>) = 0 /\ 1 .. 0 = {}
    BY LenOfNone
  <2> QED BY <1>1, <2>1 DEF Written
<1>3. Current(file, data_block, last_data_key)
  <2>1. << >> \in Seq(Entry) /\ Len(<< >>) = 0 /\ 1 .. 0 = {} /\ Range(<< >>) = {}
    BY DEF Range
  <2> QED BY <1>1, <2>1 DEF Current
<1>4. FlattenSeq(EntriesOf(file)) \o data_block = accepted
  <2>1. EntriesOf(<< >>) = << >>
    BY DEF EntriesOf
  <2>2. << >> \o << >> = << >>
    OBVIOUS
  <2> QED BY <1>1, <2>1, <2>2, FlattenNone
<1> QED BY <1>1, <1>2, <1>3, <1>4 DEF BuildInv

\* A call that is refused leaves the table alone.
LEMMA RefusedKeeps ==
  ASSUME NEW key, TableInv, result # "io_error", Refused(key, "invalid")
  PROVE  TableInv'
<1>1. /\ result' = "invalid"
      /\ UNCHANGED <<data_block, index_block, last_data_key, last_key_in_current_block, offset,
                     finished, file, accepted>>
  BY DEF Refused
<1>2. ASSUME BuildInv PROVE BuildInv'
  BY <1>1, <1>2 DEF BuildInv
<1>3. ASSUME EndedInv PROVE EndedInv'
  BY <1>1, <1>3 DEF EndedInv
<1> QED BY <1>2, <1>3 DEF TableInv

LEMMA AddToBlockKeeps ==
  ASSUME BuildInv, NEW key \in Key, NEW vlen \in ValueLen, AddToBlock(key, vlen)
  PROVE  BuildInv'
<1> DEFINE e == [key |-> key, len |-> vlen]
<1>1. vlen \in Nat /\ e \in Entry
  BY TableAssumption DEF Entry
<1>2. /\ data_block' = Append(data_block, e) /\ last_data_key' = key
      /\ last_key_in_current_block' = key /\ accepted' = Append(accepted, e)
      /\ index_block' = index_block /\ offset' = offset /\ file' = file
  BY DEF AddToBlock, AddTo
<1>3. /\ Written(file, index_block, offset) /\ Current(file, data_block, last_data_key)
      /\ FlattenSeq(EntriesOf(file)) \o data_block = accepted
  BY DEF BuildInv
<1>4. file \in Seq(DataBlocks) /\ data_block \in Seq(Entry)
  BY <1>3 DEF Written, Current
<1>5. last_data_key # << >> => BytewiseLess(last_data_key, key)
  BY DEF AddToBlock, Ordered
<1>6. data_block # << >> => BlockLen(DataLens(data_block)) + KeyLen + vlen + 16 < BlockSize
  <2>1. BlockLen(DataLens(data_block)) \in Nat
    BY <1>4, BlockLenIsNatural
  <2>2. ~Full(vlen)
    BY DEF AddToBlock
  <2> QED BY <1>1, <2>1, <2>2, TableAssumption DEF Full
<1>7. Current(file, Append(data_block, e), key)
  BY <1>1, <1>3, <1>4, <1>5, <1>6, AddedToBlock
<1>8. FlattenSeq(EntriesOf(file)) \o Append(data_block, e) = Append(accepted, e)
  BY <1>3, <1>4, EntriesFlatten, JoinMore
<1> HIDE DEF e
<1> QED BY <1>2, <1>3, <1>7, <1>8 DEF BuildInv

LEMMA AddAfterFlushKeeps ==
  ASSUME BuildInv, NEW key \in Key, NEW vlen \in ValueLen, AddAfterFlush(key, vlen)
  PROVE  BuildInv'
<1> DEFINE e == [key |-> key, len |-> vlen]
           p == DataPiece(data_block)
           h == [key |-> last_data_key, offset |-> offset, size |-> p.len]
<1>1. vlen \in Nat /\ e \in Entry
  BY TableAssumption DEF Entry
<1>2. data_block # << >>
  BY DEF AddAfterFlush, Full
<1>3. /\ Written(file, index_block, offset) /\ Current(file, data_block, last_data_key)
      /\ FlattenSeq(EntriesOf(file)) \o data_block = accepted
      /\ last_key_in_current_block = last_data_key
  BY <1>2 DEF BuildInv
<1>4. /\ data_block' = Append(<< >>, e) /\ last_data_key' = key
      /\ last_key_in_current_block' = key /\ accepted' = Append(accepted, e)
      /\ index_block' = Append(index_block, h) /\ offset' = offset + p.len
      /\ file' = Append(file, p)
  BY <1>3 DEF AddAfterFlush, AddTo, Handle
<1>5. /\ Written(Append(file, p), Append(index_block, h), offset + p.len)
      /\ Current(Append(file, p), << >>, last_data_key)
      /\ FlattenSeq(EntriesOf(Append(file, p))) = accepted
  BY <1>2, <1>3, FlushedBlock
<1>6. last_data_key # << >> => BytewiseLess(last_data_key, key)
  BY DEF AddAfterFlush, Ordered
<1> HIDE DEF e, p, h
<1>7. Append(file, p) \in Seq(DataBlocks)
  BY <1>5 DEF Written
<1>8. Current(Append(file, p), Append(<< >>, e), key)
  BY <1>1, <1>5, <1>6, <1>7, AddedToBlock DEF e
<1>9. accepted \in Seq(Entry)
  BY <1>5, <1>7, EntriesFlatten
<1>10. FlattenSeq(EntriesOf(Append(file, p))) \o Append(<< >>, e) = Append(accepted, e)
  <2>1. << >> \in Seq(Entry)
    OBVIOUS
  <2>2. accepted \o Append(<< >>, e) = Append(accepted \o << >>, e)
    BY <1>9, <2>1, JoinMore
  <2>3. accepted \o << >> = accepted
    BY <1>9, ConcatEmptySeq
  <2> QED BY <1>5, <2>2, <2>3
<1> QED BY <1>4, <1>5, <1>8, <1>10 DEF BuildInv

LEMMA AddFailsEnds ==
  ASSUME BuildInv, NEW key \in Key, NEW vlen \in ValueLen, AddFails(key, vlen)
  PROVE  EndedInv'
<1>1. Written(file, index_block, LenOf(file)) /\ offset = LenOf(file)
  BY DEF BuildInv, Written
<1>2. result' = "io_error" /\ file' = file /\ offset' = offset
  BY DEF AddFails
<1> QED BY <1>1, <1>2 DEF EndedInv

LEMMA FinishEnds ==
  ASSUME BuildInv, Finish
  PROVE  EndedInv'
<1>1. PICK done \in 0 .. Len(Pieces) :
        LET written == SubSeq(Pieces, 1, done)
        IN  /\ file' = file \o written
            /\ offset' = offset + LenOf(written)
            /\ finished' = (done = Len(Pieces))
            /\ result' = IF done = Len(Pieces) THEN "ok" ELSE "io_error"
  BY DEF Finish, LenOf
<1>2. data_block' = << >> /\ accepted' = accepted
  BY DEF Finish
<1>3. PICK blocks, index :
        LET w    == SubSeq(Pieces, 1, done)
            more == Append(blocks, IndexPiece(index))
            all  == Append(more, Footer(LenOf(blocks), IndexPiece(index).len))
        IN  /\ Written(blocks, index, LenOf(blocks))
            /\ file \o w \in {blocks, more, all}
            /\ offset + LenOf(w) = LenOf(file \o w)
            /\ done = Len(Pieces) => file \o w = all /\ FlattenSeq(EntriesOf(blocks)) = accepted
  BY FinishedFile
<1> DEFINE w    == SubSeq(Pieces, 1, done)
           more == Append(blocks, IndexPiece(index))
           all  == Append(more, Footer(LenOf(blocks), IndexPiece(index).len))
<1>4. /\ file' = file \o w /\ offset' = offset + LenOf(w)
      /\ finished' \/ result' = "io_error"
      /\ result' # "io_error" => done = Len(Pieces)
  BY <1>1
<1>5. /\ Written(blocks, index, LenOf(blocks))
      /\ file' \in {blocks, more, all} /\ offset' = LenOf(file')
      /\ result' # "io_error" =>
           file' = all /\ data_block' = << >> /\ FlattenSeq(EntriesOf(blocks)) = accepted'
  <2>1. /\ Written(blocks, index, LenOf(blocks))
        /\ file \o w \in {blocks, more, all}
        /\ offset + LenOf(w) = LenOf(file \o w)
        /\ done = Len(Pieces) => file \o w = all /\ FlattenSeq(EntriesOf(blocks)) = accepted
    BY <1>3
  <2> HIDE DEF w, more, all
  <2> QED BY <1>2, <1>4, <2>1
<1> QED BY <1>4, <1>5 DEF EndedInv

LEMMA NextTableInv == TableInv /\ [Next]_tvars => TableInv'
<1> SUFFICES ASSUME TableInv, [Next]_tvars PROVE TableInv'
  OBVIOUS
<1>1. CASE UNCHANGED tvars
  <2>1. UNCHANGED <<data_block, index_block, last_data_key, last_key_in_current_block, offset,
                    finished, file, accepted, result>>
    BY <1>1 DEF tvars
  <2>2. ASSUME BuildInv PROVE BuildInv'
    BY <2>1, <2>2 DEF BuildInv
  <2>3. ASSUME EndedInv PROVE EndedInv'
    BY <2>1, <2>3 DEF EndedInv
  <2> QED BY <2>2, <2>3 DEF TableInv
<1>2. ASSUME NEW key \in Key, NEW vlen \in ValueLen, AddRefused(key) PROVE TableInv'
  BY <1>2, RefusedKeeps DEF AddRefused
<1>3. CASE FinishRefused
  BY <1>3, RefusedKeeps DEF FinishRefused
<1>4. ASSUME ~finished, result # "io_error" PROVE BuildInv
  BY <1>4 DEF TableInv, EndedInv
<1>5. ASSUME NEW key \in Key, NEW vlen \in ValueLen, AddToBlock(key, vlen) PROVE TableInv'
  <2>1. BuildInv
    BY <1>4, <1>5 DEF AddToBlock
  <2> QED BY <1>5, <2>1, AddToBlockKeeps DEF TableInv
<1>6. ASSUME NEW key \in Key, NEW vlen \in ValueLen, AddAfterFlush(key, vlen) PROVE TableInv'
  <2>1. BuildInv
    BY <1>4, <1>6 DEF AddAfterFlush
  <2> QED BY <1>6, <2>1, AddAfterFlushKeeps DEF TableInv
<1>7. ASSUME NEW key \in Key, NEW vlen \in ValueLen, AddFails(key, vlen) PROVE TableInv'
  <2>1. BuildInv
    BY <1>4, <1>7 DEF AddFails
  <2> QED BY <1>7, <2>1, AddFailsEnds DEF TableInv
<1>8. CASE Finish
  <2>1. BuildInv
    BY <1>4, <1>8 DEF Finish
  <2> QED BY <1>8, <2>1, FinishEnds DEF TableInv
<1>9. CASE Abandon
  <2>1. BuildInv
    BY <1>4, <1>9 DEF Abandon
  <2>2. BuildInv'
    BY <1>9, <2>1 DEF BuildInv, Abandon
  <2> QED BY <2>2 DEF TableInv
<1> QED BY <1>1, <1>2, <1>3, <1>5, <1>6, <1>7, <1>8, <1>9 DEF Next, Add

LEMMA TableInvHolds == Spec => []TableInv
BY InitTableInv, NextTableInv, PTL DEF Spec

-----------------------------------------------------------------------------
(* The theorems *)

\* Through any number of blocks, of any keys and lengths, the index handles that
\* FlushDataBlock writes locate their blocks to the byte, and the footer of Finish
\* locates the index.
THEOREM IndexLeadsToBlocks == Spec => []IndexAddressesBlocks
BY TableInvHolds, TableIndex, PTL

\* What Add accepted is in the blocks, once and in order, and nothing else is,
\* whichever calls were refused in between.
THEOREM TableHoldsEntries == Spec => []NothingDropped
BY TableInvHolds, TableEntries, PTL

\* The keys of a table ascend across its blocks, and each index key bounds its
\* block, as the reader's binary searches assume.
THEOREM TableIsSearchable == Spec => []SortedForSearch
BY TableInvHolds, TableOrder, PTL

\* The 16 bytes that Add allows for varints and offsets are enough, for values of
\* any 32-bit length: no block of several entries reaches block_size.
THEOREM BlocksStaySmall == Spec => []BlocksWithinTarget
BY TableInvHolds, TableSizes, PTL

=============================================================================
