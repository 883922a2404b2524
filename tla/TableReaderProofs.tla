-------------------------- MODULE TableReaderProofs --------------------------
(***************************************************************************)
(* Proofs about the reader of sorted tables: what the binary search finds, *)
(* that a scan neither turns back nor leaves out a key in silence, and     *)
(* that Get finds what the table holds, for every table, every place of    *)
(* damage and every failing read.                                          *)
(***************************************************************************)
EXTENDS TableReader, DataLemmas

-----------------------------------------------------------------------------
(* The byte order of keys *)

LEMMA KeyBytes ==
  ASSUME NEW key \in Key
  PROVE  Bytes(key) \in [1 .. 4 -> Nat]
<1> DEFINE s == key.seq
           b == ByteBase
<1>1. key.user \in UserKey /\ key.seq \in SeqNo /\ key.type \in {0, 1}
  BY DEF Key, kDel, kPut
<1>2. s \in Nat /\ b \in Nat \ {0}
  <2>1. key.seq \in 0 .. ByteBase * ByteBase - 1
    BY <1>1, KeyAssumption
  <2> QED BY <2>1, KeyAssumption
<1>3. key.user \in Nat /\ key.type \in Nat
  <2>1. key.user \in Nat
    BY <1>1, KeyAssumption
  <2>2. key.type \in Nat
    BY <1>1
  <2> QED BY <2>1, <2>2
<1> HIDE DEF s, b
<1>4. s % b \in Nat /\ s \div b \in Nat
  BY <1>2
<1>5. <<key.user, key.type, s % b, s \div b>> \in [1 .. 4 -> Nat]
  BY <1>3, <1>4
<1> QED BY <1>5 DEF Bytes, s, b

\* Where an iterator may be positioned: at a key, or before every key.
Target == Key \cup {Start}

LEMMA StartBytes == Bytes(Start) \in [1 .. 4 -> Nat] /\ \A i \in 1 .. 4 : Bytes(Start)[i] = 0
<1> DEFINE b == ByteBase
<1>1. b \in Nat \ {0}
  BY KeyAssumption
<1> HIDE DEF b
<1>2. 0 % b = 0 /\ 0 \div b = 0
  BY <1>1
<1>3. Bytes(Start) = <<0, 0, 0, 0>>
  BY <1>2 DEF Bytes, Start, kDel, b
<1> QED BY <1>3

LEMMA TargetBytes ==
  ASSUME NEW a \in Target
  PROVE  Bytes(a) \in [1 .. 4 -> Int]
BY KeyBytes, StartBytes DEF Target

LEMMA LessTransitive ==
  ASSUME NEW a \in Target, NEW b \in Target, NEW c \in Target, BytewiseLess(a, b), BytewiseLess(b, c)
  PROVE  BytewiseLess(a, c)
<1>1. \A x, y : BytewiseLess(x, y) <=> LexLess(Bytes(x), Bytes(y), 4)
  BY DEF BytewiseLess, LexLess
<1> QED BY <1>1, TargetBytes, LexTransitive

LEMMA LessAsymmetric ==
  ASSUME NEW a \in Target, NEW b \in Target, a = b \/ BytewiseLess(a, b)
  PROVE  ~BytewiseLess(b, a)
<1>1. \A x, y : BytewiseLess(x, y) <=> LexLess(Bytes(x), Bytes(y), 4)
  BY DEF BytewiseLess, LexLess
<1> QED BY <1>1, TargetBytes, LexAsymmetric

\* SeekToFirst positions before every key.
LEMMA StartIsFirst ==
  ASSUME NEW key \in Key
  PROVE  ~BytewiseLess(key, Start)
<1>1. \A i \in 1 .. 4 : ~(Bytes(key)[i] < Bytes(Start)[i])
  BY KeyBytes, StartBytes
<1> QED BY <1>1 DEF BytewiseLess

-----------------------------------------------------------------------------
(* The binary search *)

\* What is left of the search between two positions, given the rest of it.
SearchFrom(search, below, readable, lo, hi) ==
  IF lo >= hi THEN lo
  ELSE IF lo + (hi - lo) \div 2 \notin readable THEN Unreadable
  ELSE IF lo + (hi - lo) \div 2 \in below
         THEN search[<<lo + (hi - lo) \div 2 + 1, hi>>]
         ELSE search[<<lo, lo + (hi - lo) \div 2>>]

\* The middle lies between the two positions.
LEMMA Middle ==
  ASSUME NEW lo \in Nat, NEW hi \in Nat, lo < hi
  PROVE  lo + (hi - lo) \div 2 \in Nat /\ lo <= lo + (hi - lo) \div 2 /\ lo + (hi - lo) \div 2 < hi
<1>1. \A d \in Nat \ {0} : d \div 2 \in Nat /\ d \div 2 < d
  OBVIOUS
<1> QED BY <1>1

\* The search halves what is left, so it is defined wherever it is taken up.
LEMMA SearchDefined ==
  ASSUME NEW n \in Nat, NEW below, NEW readable
  PROVE  \E f : /\ Search(n, below, readable) = f[<<1, n + 1>>]
                /\ \A lo \in 1 .. n + 1, hi \in 0 .. n + 1 :
                     f[<<lo, hi>>] = SearchFrom(f, below, readable, lo, hi)
<1> DEFINE Pairs   == (1 .. n + 1) \X (0 .. n + 1)
           step(f) == [r \in Pairs |-> SearchFrom(f, below, readable, r[1], r[2])]
           S       == {d \in Nat : \E f : \A r \in Pairs : r[2] - r[1] <= d =>
                         f[r] = SearchFrom(f, below, readable, r[1], r[2])}
<1>1. ASSUME NEW f, NEW g, NEW r \in Pairs,
             \A q \in Pairs : q[2] - q[1] < r[2] - r[1] => f[q] = g[q]
      PROVE  SearchFrom(f, below, readable, r[1], r[2]) = SearchFrom(g, below, readable, r[1], r[2])
  <2> DEFINE mid == r[1] + (r[2] - r[1]) \div 2
  <2>1. r[1] \in 1 .. n + 1 /\ r[2] \in 0 .. n + 1
    OBVIOUS
  <2>2. CASE r[1] >= r[2]
    BY <2>2 DEF SearchFrom
  <2>3. CASE r[1] < r[2]
    <3>1. mid \in Nat /\ r[1] <= mid /\ mid < r[2]
      BY <2>1, <2>3, Middle
    <3> HIDE DEF mid
    <3>2. <<mid + 1, r[2]>> \in Pairs /\ <<r[1], mid>> \in Pairs
      BY <2>1, <3>1
    <3>3. f[<<mid + 1, r[2]>>] = g[<<mid + 1, r[2]>>] /\ f[<<r[1], mid>>] = g[<<r[1], mid>>]
      BY <1>1, <2>1, <3>1, <3>2
    <3> QED BY <3>3 DEF SearchFrom, mid
  <2> QED BY <2>1, <2>2, <2>3
<1>2. 0 \in S
  <2> DEFINE f == [r \in Pairs |-> r[1]]
  <2>1. \A r \in Pairs : r[2] - r[1] <= 0 => f[r] = SearchFrom(f, below, readable, r[1], r[2])
    BY DEF SearchFrom
  <2> QED BY <2>1
<1>3. \A d \in S : d + 1 \in S
  <2> SUFFICES ASSUME NEW d \in S PROVE d + 1 \in S
    OBVIOUS
  <2>1. PICK f : \A r \in Pairs : r[2] - r[1] <= d => f[r] = SearchFrom(f, below, readable, r[1], r[2])
    OBVIOUS
  <2> DEFINE g == [r \in Pairs |-> IF r[2] - r[1] <= d THEN f[r] ELSE SearchFrom(f, below, readable, r[1], r[2])]
  <2>2. \A r \in Pairs : r[1] \in Int /\ r[2] \in Int
    OBVIOUS
  <2>3. ASSUME NEW r \in Pairs, r[2] - r[1] <= d + 1
        PROVE  g[r] = SearchFrom(g, below, readable, r[1], r[2])
    <3>1. g[r] = SearchFrom(f, below, readable, r[1], r[2])
      BY <2>1
    <3>2. \A q \in Pairs : q[2] - q[1] < r[2] - r[1] => f[q] = g[q]
      BY <2>2, <2>3
    <3> HIDE DEF g, Pairs
    <3> QED BY <1>1, <3>1, <3>2
  <2>4. d + 1 \in Nat
    OBVIOUS
  <2> QED BY <2>3, <2>4
<1>4. S = Nat
  <2>1. S \subseteq Nat
    OBVIOUS
  <2> HIDE DEF S
  <2> QED BY <1>2, <1>3, <2>1, AllNumbers
<1>5. \E f : f = step(f)
  <2>1. n + 1 \in S
    <3>1. n + 1 \in Nat
      OBVIOUS
    <3> HIDE DEF S
    <3> QED BY <1>4, <3>1
  <2>2. PICK f : \A r \in Pairs : r[2] - r[1] <= n + 1 => f[r] = SearchFrom(f, below, readable, r[1], r[2])
    BY <2>1
  <2>3. \A r \in Pairs : r[2] - r[1] <= n + 1
    OBVIOUS
  <2>4. \A r \in Pairs : step(f)[r] = f[r]
    BY <2>2, <2>3
  <2>5. step(f) = step(step(f))
    <3>1. \A r \in Pairs : SearchFrom(f, below, readable, r[1], r[2])
                             = SearchFrom(step(f), below, readable, r[1], r[2])
      BY <1>1, <2>4
    <3> QED BY <3>1
  <2> QED BY <2>5
<1> DEFINE search == CHOOSE f : f = step(f)
<1>6. search = step(search)
  BY <1>5
<1>7. Search(n, below, readable) = search[<<1, n + 1>>]
  BY DEF Search, SearchFrom, High
<1> HIDE DEF search
<1>8. \A lo \in 1 .. n + 1, hi \in 0 .. n + 1 :
        search[<<lo, hi>>] = SearchFrom(search, below, readable, lo, hi)
  <2> SUFFICES ASSUME NEW lo \in 1 .. n + 1, NEW hi \in 0 .. n + 1
               PROVE  search[<<lo, hi>>] = SearchFrom(search, below, readable, lo, hi)
    OBVIOUS
  <2>1. <<lo, hi>> \in Pairs
    OBVIOUS
  <2>2. step(search)[<<lo, hi>>] = SearchFrom(search, below, readable, <<lo, hi>>[1], <<lo, hi>>[2])
    BY <2>1
  <2> QED BY <2>2, <1>6
<1> QED BY <1>7, <1>8

\* The search over positions of which an initial part is below the target: the
\* first that is not, or Unreadable when one cannot be read.
LEMMA SearchFinds ==
  ASSUME NEW n \in Nat, NEW below, NEW readable,
         \A p, q \in 1 .. n : p < q /\ q \in below => p \in below
  PROVE  \/ /\ Search(n, below, readable) = Unreadable
            /\ \E p \in 1 .. n : p \notin readable
         \/ /\ Search(n, below, readable) \in 1 .. n + 1
            /\ \A p \in 1 .. n : p \in below <=> p < Search(n, below, readable)
<1> DEFINE Finds(r) == \/ r = Unreadable /\ \E p \in 1 .. n : p \notin readable
                       \/ r \in 1 .. n + 1 /\ \A p \in 1 .. n : p \in below <=> p < r
<1>1. PICK f : /\ Search(n, below, readable) = f[<<1, n + 1>>]
               /\ \A lo \in 1 .. n + 1, hi \in 0 .. n + 1 :
                    f[<<lo, hi>>] = SearchFrom(f, below, readable, lo, hi)
  BY SearchDefined
<1> DEFINE Around(lo, hi) == /\ lo \in 1 .. n + 1 /\ hi \in 1 .. n + 1 /\ lo <= hi
                             /\ \A p \in 1 .. n : p < lo => p \in below
                             /\ \A p \in 1 .. n : p \in below => p < hi
           S == {d \in Nat : \A lo, hi \in 1 .. n + 1 :
                               Around(lo, hi) /\ hi - lo <= d => Finds(f[<<lo, hi>>])}
<1>2. ASSUME NEW lo \in 1 .. n + 1, NEW hi \in 1 .. n + 1, Around(lo, hi), lo = hi
      PROVE  Finds(f[<<lo, hi>>])
  <2>1. f[<<lo, hi>>] = lo
    <3>1. hi \in 0 .. n + 1 /\ lo >= hi
      BY <1>2
    <3> QED BY <3>1, <1>1 DEF SearchFrom
  <2> HIDE DEF Finds
  <2>2. Finds(lo)
    BY <1>2 DEF Finds
  <2> QED BY <2>1, <2>2
<1>3. 0 \in S
  <2> SUFFICES ASSUME NEW lo \in 1 .. n + 1, NEW hi \in 1 .. n + 1, Around(lo, hi), hi - lo <= 0
               PROVE  Finds(f[<<lo, hi>>])
    OBVIOUS
  <2>1. lo = hi
    OBVIOUS
  <2> HIDE DEF Finds, Around
  <2> QED BY <1>2, <2>1
<1>4. \A d \in S : d + 1 \in S
  <2> SUFFICES ASSUME NEW d \in S, NEW lo \in 1 .. n + 1, NEW hi \in 1 .. n + 1,
                      Around(lo, hi), hi - lo <= d + 1
               PROVE  Finds(f[<<lo, hi>>])
    <3>1. \A d \in S : d + 1 \in Nat
      OBVIOUS
    <3> HIDE DEF Finds, Around
    <3> QED BY <3>1
  <2> DEFINE mid == lo + (hi - lo) \div 2
  <2>1. CASE lo = hi
    <3> HIDE DEF Finds, Around
    <3> QED BY <1>2, <2>1
  <2>2. CASE lo < hi
    <3>1. mid \in Nat /\ lo <= mid /\ mid < hi
      BY <2>2, Middle
    <3>2. f[<<lo, hi>>] = IF mid \notin readable THEN Unreadable
                          ELSE IF mid \in below THEN f[<<mid + 1, hi>>] ELSE f[<<lo, mid>>]
      <4>1. hi \in 0 .. n + 1 /\ ~(lo >= hi)
        BY <2>2
      <4> QED BY <4>1, <1>1 DEF SearchFrom
    <3> HIDE DEF mid
    <3>3. mid \in 1 .. n
      BY <3>1
    <3>4. CASE mid \notin readable
      BY <3>2, <3>3, <3>4
    <3>5. CASE mid \in readable /\ mid \in below
      <4>1. Around(mid + 1, hi) /\ hi - (mid + 1) <= d /\ mid + 1 \in 1 .. n + 1
        <5>1. \A p \in 1 .. n : p < mid + 1 => p < mid \/ p = mid
          BY <3>3
        <5> QED BY <3>1, <3>3, <3>5, <5>1
      <4>2. Finds(f[<<mid + 1, hi>>])
        <5> HIDE DEF Finds, Around
        <5> QED BY <4>1
      <4> HIDE DEF Finds
      <4> QED BY <4>2, <3>2, <3>5
    <3>6. CASE mid \in readable /\ mid \notin below
      <4>1. Around(lo, mid) /\ mid - lo <= d /\ mid \in 1 .. n + 1
        <5>1. \A p \in 1 .. n : p \in below => p < mid
          BY <3>3, <3>6
        <5> QED BY <3>1, <3>3, <5>1
      <4>2. Finds(f[<<lo, mid>>])
        <5> HIDE DEF Finds, Around
        <5> QED BY <4>1
      <4> HIDE DEF Finds
      <4> QED BY <4>2, <3>2, <3>6
    <3> QED BY <3>4, <3>5, <3>6
  <2> QED BY <2>1, <2>2
<1>5. S \subseteq Nat
  OBVIOUS
<1>6. n \in S
  <2> HIDE DEF S
  <2> QED BY <1>3, <1>4, <1>5, AllNumbers
<1>7. Around(1, n + 1) /\ (n + 1) - 1 <= n /\ 1 \in 1 .. n + 1 /\ n + 1 \in 1 .. n + 1
  OBVIOUS
<1>8. Finds(f[<<1, n + 1>>])
  <2> HIDE DEF Finds, Around
  <2> QED BY <1>6, <1>7
<1> QED BY <1>1, <1>8

-----------------------------------------------------------------------------
(* The invariant *)

\* One entry of the table comes before another.
Precedes(i, p, j, q) == i < j \/ (i = j /\ p < q)

\* The blocks are not empty, and the keys ascend from entry to entry and block to block.
Sorted(t) ==
  /\ t \in Seq(Seq(Key))
  /\ \A i \in DOMAIN t : t[i] # << >>
  /\ \A i, j \in DOMAIN t : \A p \in DOMAIN t[i], q \in DOMAIN t[j] :
       Precedes(i, p, j, q) => BytewiseLess(t[i][p], t[j][q])

BlockIters == [block : Nat, idx : Nat, valid : BOOLEAN, status : {"ok", "corruption"}]
TableIters == [idx : Nat, data : BlockIters, valid : BOOLEAN, status : {"ok", "error"}]

\* A block iterator that has been put at an entry.
AtBlockEntry(b, i, p) == b.valid /\ b.status = "ok" /\ b.block = i /\ b.idx = p

\* A valid iterator is at an entry of the block its index entry leads to.
AtEntry(iter, i, p) ==
  /\ iter.valid /\ iter.status = "ok" /\ iter.idx = i /\ AtBlockEntry(iter.data, i, p)
  /\ i \in DOMAIN table /\ p \in DOMAIN table[i]

From(start) == {k \in Keys : ~BytewiseLess(k, start)}

\* A scan that was positioned at `start` and has shown `keys`.
Scan(iter, keys, start) ==
  /\ iter \in TableIters /\ keys \in Seq(Key) /\ start \in Target
  /\ \A l, m \in 1 .. Len(keys) : l < m => BytewiseLess(keys[l], keys[m])
  /\ Range(keys) \subseteq From(start)
  /\ iter.valid => \E i, p \in Nat : AtEntry(iter, i, p) /\ keys # << >> /\ Last(keys) = table[i][p]
  /\ (iter.idx > 0 /\ iter.status = "ok" /\ damage.kind # "entry") =>
       Range(keys) = IF iter.valid THEN {k \in From(start) : ~BytewiseLess(Last(keys), k)}
                                   ELSE From(start)

IInv == Sorted(table) /\ Scan(it, shown, from)

-----------------------------------------------------------------------------
(* The tables *)

\* The block between two positions of a run.
LEMMA BlockOfRun ==
  ASSUME NEW keys \in Seq(Key), NEW m \in Nat \ {0}, NEW n \in 1 .. Len(keys), m <= n
  PROVE  /\ SubSeq(keys, m, n) \in Seq(Key)
         /\ DOMAIN SubSeq(keys, m, n) = 1 .. n - m + 1
         /\ \A p \in 1 .. n - m + 1 : SubSeq(keys, m, n)[p] = keys[m + p - 1]
BY SubSeqProperties

\* The builder's blocks are not empty and sorted throughout.
LEMMA BlocksAreSorted ==
  ASSUME NEW keys \in Runs, NEW ends \in Cuts(Len(keys))
  PROVE  Sorted(Blocks(keys, ends))
<1> DEFINE t        == Blocks(keys, ends)
           start(i) == IF i = 1 THEN 1 ELSE ends[i - 1] + 1
<1>1. /\ keys \in Seq(Key) /\ Len(keys) \in Nat /\ DOMAIN keys = 1 .. Len(keys)
      /\ \A p, q \in 1 .. Len(keys) : p < q => BytewiseLess(keys[p], keys[q])
  <2>1. PICK n \in 1 .. MaxEntries : keys \in [1 .. n -> Key]
    BY DEF Runs
  <2>2. n \in Nat
    BY EntriesAssumption
  <2>3. keys \in Seq(Key) /\ Len(keys) = n /\ DOMAIN keys = 1 .. n
    BY <2>1, <2>2
  <2>4. \A p, q \in DOMAIN keys : p < q => BytewiseLess(keys[p], keys[q])
    BY DEF Runs
  <2> QED BY <2>2, <2>3, <2>4
<1>2. PICK m \in Nat : ends \in [1 .. m -> 1 .. Len(keys)] /\ \A i, j \in 1 .. m : i < j => ends[i] < ends[j]
  <2>1. PICK m \in 1 .. Len(keys) : ends \in [1 .. m -> 1 .. Len(keys)]
    BY DEF Cuts
  <2>2. m \in Nat /\ DOMAIN ends = 1 .. m
    BY <1>1, <2>1
  <2>3. \A i, j \in DOMAIN ends : i < j => ends[i] < ends[j]
    BY DEF Cuts
  <2> QED BY <2>1, <2>2, <2>3
<1>3. /\ \A i \in 1 .. m : start(i) \in Nat \ {0} /\ ends[i] \in 1 .. Len(keys) /\ start(i) <= ends[i]
      /\ \A i, j \in 1 .. m : i < j => ends[i] < start(j)
  <2>1. \A j \in 1 .. m : j # 1 => j - 1 \in 1 .. m
    BY <1>2
  <2>2. \A i \in 1 .. m : ends[i] \in 1 .. Len(keys)
    BY <1>2
  <2>3. ASSUME NEW i \in 1 .. m
        PROVE  start(i) \in Nat \ {0} /\ start(i) <= ends[i]
    BY <1>1, <1>2, <2>1, <2>2
  <2>4. ASSUME NEW i \in 1 .. m, NEW j \in 1 .. m, i < j
        PROVE  ends[i] < start(j)
    <3>1. j # 1 /\ j - 1 \in 1 .. m /\ (i = j - 1 \/ i < j - 1)
      BY <2>4, <2>1
    <3>2. ends[i] \in Int /\ ends[j - 1] \in Int /\ (i = j - 1 \/ ends[i] < ends[j - 1])
      BY <1>2, <2>2, <3>1
    <3> QED BY <3>1, <3>2
  <2> QED BY <2>2, <2>3, <2>4
<1>4. DOMAIN t = 1 .. m /\ \A i \in 1 .. m : t[i] = SubSeq(keys, start(i), ends[i])
  BY <1>2 DEF Blocks
<1> HIDE DEF t, start
<1>5. \A i \in 1 .. m :
        /\ t[i] \in Seq(Key) /\ DOMAIN t[i] = 1 .. ends[i] - start(i) + 1
        /\ \A p \in 1 .. ends[i] - start(i) + 1 : t[i][p] = keys[start(i) + p - 1]
  <2> SUFFICES ASSUME NEW i \in 1 .. m
               PROVE  /\ t[i] \in Seq(Key) /\ DOMAIN t[i] = 1 .. ends[i] - start(i) + 1
                      /\ \A p \in 1 .. ends[i] - start(i) + 1 : t[i][p] = keys[start(i) + p - 1]
    OBVIOUS
  <2> DEFINE lo == start(i)
             hi == ends[i]
  <2>1. lo \in Nat \ {0} /\ hi \in 1 .. Len(keys) /\ lo <= hi
    BY <1>3
  <2>2. t[i] = SubSeq(keys, lo, hi)
    BY <1>4
  <2> HIDE DEF lo, hi
  <2>3. /\ t[i] \in Seq(Key) /\ DOMAIN t[i] = 1 .. hi - lo + 1
        /\ \A p \in 1 .. hi - lo + 1 : t[i][p] = keys[lo + p - 1]
    BY <1>1, <2>1, <2>2, BlockOfRun
  <2> QED BY <2>3 DEF lo, hi
<1>6. t \in Seq(Seq(Key))
  <2>1. t \in [1 .. m -> Seq(Key)]
    <3>1. t = [i \in 1 .. m |-> t[i]]
      <4>1. t = [i \in 1 .. m |-> SubSeq(keys, start(i), ends[i])]
        BY <1>2 DEF t, start, Blocks
      <4> QED BY <4>1
    <3> QED BY <3>1, <1>5
  <2> QED BY <2>1
<1>7. \A i \in 1 .. m : t[i] # << >>
  <2> SUFFICES ASSUME NEW i \in 1 .. m PROVE t[i] # << >>
    OBVIOUS
  <2> DEFINE n == ends[i] - start(i) + 1
  <2>1. 1 \in 1 .. n
    <3>1. start(i) \in Int /\ ends[i] \in Int /\ start(i) <= ends[i]
      BY <1>1, <1>3
    <3> QED BY <3>1
  <2>2. DOMAIN t[i] = 1 .. n
    BY <1>5
  <2>3. 1 \in DOMAIN t[i] /\ 1 \notin DOMAIN << >>
    BY <2>1, <2>2
  <2> QED BY <2>3, Zenon
<1>8. ASSUME NEW i \in 1 .. m, NEW j \in 1 .. m, NEW p \in DOMAIN t[i], NEW q \in DOMAIN t[j],
             Precedes(i, p, j, q)
      PROVE  BytewiseLess(t[i][p], t[j][q])
  <2> DEFINE x == start(i) + p - 1
             y == start(j) + q - 1
  <2>1. p \in 1 .. ends[i] - start(i) + 1 /\ q \in 1 .. ends[j] - start(j) + 1
    BY <1>5
  <2>2. /\ start(i) \in Nat \ {0} /\ ends[i] \in 1 .. Len(keys)
        /\ start(j) \in Nat \ {0} /\ ends[j] \in 1 .. Len(keys)
    BY <1>3
  <2>3. x \in Nat \ {0} /\ x <= ends[i] /\ y \in Nat \ {0} /\ start(j) <= y /\ y <= ends[j]
    <3>1. \A a, b \in Nat : \A r \in 1 .. b - a + 1 :
            a # 0 => a + r - 1 \in Nat \ {0} /\ a <= a + r - 1 /\ a + r - 1 <= b
      OBVIOUS
    <3>2. \A h \in 1 .. Len(keys) : h \in Nat
      BY <1>1
    <3> QED BY <2>1, <2>2, <3>1, <3>2
  <2>4. x \in 1 .. Len(keys) /\ y \in 1 .. Len(keys)
    <3> HIDE DEF x, y
    <3> QED BY <1>1, <2>2, <2>3
  <2>5. x < y
    <3>1. CASE i < j
      <4>1. ends[i] < start(j)
        BY <1>3, <3>1
      <4> HIDE DEF x, y
      <4> QED BY <2>2, <2>3, <4>1
    <3>2. CASE i = j /\ p < q
      BY <2>1, <2>2, <3>2
    <3> QED BY <1>8, <3>1, <3>2 DEF Precedes
  <2>6. t[i][p] = keys[x] /\ t[j][q] = keys[y]
    BY <1>5, <2>1
  <2> HIDE DEF x, y
  <2> QED BY <1>1, <2>4, <2>5, <2>6
<1>9. Sorted(t)
  BY <1>4, <1>6, <1>7, <1>8 DEF Sorted
<1> QED BY <1>9 DEF t

\* What a sorted table gives the searches.
LEMMA SortedFacts ==
  ASSUME Sorted(table)
  PROVE  /\ Len(table) \in Nat /\ DOMAIN table = 1 .. Len(table)
         /\ \A i \in DOMAIN table :
              /\ Len(table[i]) \in Nat \ {0} /\ DOMAIN table[i] = 1 .. Len(table[i])
              /\ IndexKey(i) = table[i][Len(table[i])]
              /\ \A p \in DOMAIN table[i] : table[i][p] \in Key /\ table[i][p] \in Keys
         /\ \A k \in Keys : \E i \in DOMAIN table : \E p \in DOMAIN table[i] : k = table[i][p]
<1>1. table \in Seq(Seq(Key)) /\ \A i \in DOMAIN table : table[i] # << >>
  BY DEF Sorted
<1>2. Len(table) \in Nat /\ DOMAIN table = 1 .. Len(table)
  BY <1>1
<1>3. \A i \in DOMAIN table : table[i] \in Seq(Key)
  BY <1>1
<1>4. ASSUME NEW i \in DOMAIN table
      PROVE  /\ Len(table[i]) \in Nat \ {0} /\ DOMAIN table[i] = 1 .. Len(table[i])
             /\ \A p \in DOMAIN table[i] : table[i][p] \in Key
  BY <1>1, <1>3
<1>5. \A i \in DOMAIN table : IndexKey(i) = table[i][Len(table[i])]
  BY DEF IndexKey, Last
<1>6. Keys = {k \in Key : \E i \in DOMAIN table : \E p \in DOMAIN table[i] : k = table[i][p]}
  BY <1>4 DEF Keys, Range
<1>7. \A i \in DOMAIN table : \A p \in DOMAIN table[i] : table[i][p] \in Keys
  BY <1>4, <1>6
<1> QED BY <1>2, <1>4, <1>5, <1>6, <1>7

-----------------------------------------------------------------------------
(* Where an iterator comes to rest *)

LEMMA UndecodedEntry ==
  ASSUME NEW i, NEW p, ~EntryAt(i, p)
  PROVE  damage.kind = "entry"
BY DEF EntryAt, Place

LEMMA CorruptedCase ==
  ASSUME NEW b \in BlockIters
  PROVE  Corrupted(b) \in BlockIters /\ ~Corrupted(b).valid /\ Corrupted(b).status = "corruption"
BY DEF Corrupted, BlockIters

LEMMA LoadCurrentCases ==
  ASSUME NEW b \in BlockIters, b.status = "ok", NEW i, b.block = i, NEW p \in Nat
  PROVE  /\ LoadCurrent(b, p) \in BlockIters
         /\ \/ AtBlockEntry(LoadCurrent(b, p), i, p) /\ ~(p > Len(table[i]))
            \/ /\ ~LoadCurrent(b, p).valid
               /\ p > Len(table[i]) \/ (LoadCurrent(b, p).status = "corruption" /\ damage.kind = "entry")
<1>1. CASE p > Len(table[i])
  <2>1. LoadCurrent(b, p) = [b EXCEPT !.idx = p, !.valid = FALSE]
    BY <1>1 DEF LoadCurrent
  <2> QED BY <2>1, <1>1 DEF BlockIters
<1>2. CASE ~(p > Len(table[i])) /\ EntryAt(i, p)
  <2>1. LoadCurrent(b, p) = [b EXCEPT !.idx = p, !.valid = TRUE]
    BY <1>2 DEF LoadCurrent
  <2> QED BY <1>2, <2>1 DEF BlockIters, AtBlockEntry
<1>3. CASE ~(p > Len(table[i])) /\ ~EntryAt(i, p)
  <2>1. LoadCurrent(b, p) = Corrupted([b EXCEPT !.idx = p])
    BY <1>3 DEF LoadCurrent
  <2>2. [b EXCEPT !.idx = p] \in BlockIters
    BY DEF BlockIters
  <2> QED BY <1>3, <2>1, <2>2, CorruptedCase, UndecodedEntry
<1> QED BY <1>1, <1>2, <1>3

\* A block iterator that has just been opened on a block.
Opened(b, i) == b \in BlockIters /\ b.block = i /\ b.status = "ok"

\* Without a block there is no data, and a good status only past the last block.
LEMMA LoadCases ==
  ASSUME NEW i \in Nat, NEW read \in BOOLEAN, Len(table) \in Nat
  PROVE  /\ Load(i, read) \in TableIters /\ ~Load(i, read).valid /\ Load(i, read).idx = i
         /\ \/ Load(i, read).data = NoBlock /\ (Load(i, read).status = "ok" => i > Len(table))
            \/ Opened(Load(i, read).data, i) /\ i <= Len(table)
<1> DEFINE loads == IndexEntryAt(i) /\ HandleAt(i) /\ read /\ Parses(i)
<1>1. /\ Load(i, read).idx = i /\ Load(i, read).valid = FALSE
      /\ Load(i, read).data = IF i <= Len(table) /\ loads THEN BlockIter(i) ELSE NoBlock
      /\ Load(i, read).status = IF i <= Len(table) /\ ~loads THEN "error" ELSE "ok"
  BY DEF Load, LoadStatus
<1>2. NoBlock \in BlockIters
  BY DEF NoBlock, BlockIters
<1>3. loads => Opened(BlockIter(i), i)
  BY <1>2 DEF BlockIter, Opened, BlockIters, NoBlock
<1>4. ASSUME NEW d \in BlockIters, NEW s \in {"ok", "error"}
      PROVE  [idx |-> i, valid |-> FALSE, data |-> d, status |-> s] \in TableIters
  BY DEF TableIters
<1>5. Load(i, read) \in TableIters
  <2> DEFINE d == IF i <= Len(table) /\ loads THEN BlockIter(i) ELSE NoBlock
             s == IF i <= Len(table) /\ ~loads THEN "error" ELSE "ok"
  <2>1. Load(i, read) = [idx |-> i, valid |-> FALSE, data |-> d, status |-> s]
    BY DEF Load, LoadStatus
  <2>2. d \in BlockIters /\ s \in {"ok", "error"}
    BY <1>2, <1>3 DEF Opened
  <2> HIDE DEF d, s
  <2> QED BY <1>4, <2>1, <2>2
<1> HIDE DEF loads
<1> QED BY <1>1, <1>3, <1>5

\* The iterator is at an entry, or it is invalid; if it has a good status then, it
\* is past the last block or the block has an entry that cannot be decoded.
Landed(iter, i, q) ==
  \/ AtEntry(iter, i, q)
  \/ ~iter.valid /\ iter.idx = i /\ (iter.status = "ok" => i \notin DOMAIN table \/ damage.kind = "entry")

\* Positioning the block iterator of a block that was loaded, if one was.
LEMMA Lands ==
  ASSUME Sorted(table), NEW i \in Nat \ {0}, NEW read \in BOOLEAN, NEW q \in Nat, NEW positioned,
         i \in DOMAIN table => q \in DOMAIN table[i],
         Opened(Load(i, read).data, i) /\ i \in DOMAIN table =>
           \/ positioned = LoadCurrent(Load(i, read).data, q)
           \/ positioned = Corrupted(Load(i, read).data) /\ damage.kind = "entry"
  PROVE  /\ OnData(Load(i, read), positioned) \in TableIters
         /\ Landed(OnData(Load(i, read), positioned), i, q)
<1> DEFINE load == Load(i, read)
           iter == OnData(load, positioned)
<1>1. Len(table) \in Nat /\ DOMAIN table = 1 .. Len(table)
  BY DEF Sorted
<1>2. load \in TableIters /\ ~load.valid /\ load.idx = i
  BY <1>1, LoadCases
<1>3. ASSUME NEW d \in BlockIters
      PROVE  /\ Sync(load, d) \in TableIters /\ Sync(load, d).idx = i /\ Sync(load, d).data = d
             /\ Sync(load, d).status = load.status
             /\ Sync(load, d).valid <=> load.status = "ok" /\ d.valid
  <2> HIDE DEF load
  <2>1. (load.status = "ok" /\ d.valid) \in BOOLEAN
    OBVIOUS
  <2> QED BY <1>2, <2>1 DEF Sync, TableIters
<1>4. NoBlock \in BlockIters /\ ~NoBlock.valid /\ NoBlock.block = 0
  BY DEF NoBlock, BlockIters
<1>5. CASE load.data = NoBlock /\ (load.status = "ok" => i > Len(table))
  <2>1. iter = Sync(load, NoBlock)
    BY <1>5 DEF OnData
  <2> HIDE DEF load, iter
  <2> QED BY <1>1, <1>3, <1>4, <1>5, <2>1 DEF Landed, load, iter
<1>6. CASE Opened(load.data, i) /\ i <= Len(table)
  <2>1. i \in DOMAIN table /\ q \in DOMAIN table[i] /\ q \in Nat /\ ~(q > Len(table[i]))
    <3>1. i \in DOMAIN table
      BY <1>1, <1>6
    <3>2. table[i] \in Seq(Key)
      BY <3>1 DEF Sorted
    <3> QED BY <3>1, <3>2
  <2>2. iter = Sync(load, positioned)
    <3>1. load.data # NoBlock
      BY <1>4, <1>6 DEF Opened
    <3> QED BY <3>1 DEF OnData
  <2>3. positioned \in BlockIters /\ (AtBlockEntry(positioned, i, q) \/ (~positioned.valid /\ damage.kind = "entry"))
    <3>1. \/ positioned = LoadCurrent(load.data, q)
          \/ positioned = Corrupted(load.data) /\ damage.kind = "entry"
      BY <1>6, <2>1
    <3>2. load.data \in BlockIters /\ load.data.block = i /\ load.data.status = "ok"
      BY <1>6 DEF Opened
    <3> DEFINE b == load.data
    <3>3. CASE positioned = LoadCurrent(b, q)
      <4> HIDE DEF b
      <4>1. b \in BlockIters /\ b.block = i /\ b.status = "ok"
        BY <3>2 DEF b
      <4>2. /\ LoadCurrent(b, q) \in BlockIters
            /\ \/ AtBlockEntry(LoadCurrent(b, q), i, q)
               \/ ~LoadCurrent(b, q).valid /\ (q > Len(table[i]) \/ damage.kind = "entry")
        BY <4>1, LoadCurrentCases
      <4> QED BY <2>1, <3>3, <4>2
    <3>4. CASE positioned = Corrupted(b) /\ damage.kind = "entry"
      BY <3>2, <3>4, CorruptedCase
    <3> QED BY <3>1, <3>3, <3>4
  <2>4. /\ iter \in TableIters /\ iter.idx = i /\ iter.data = positioned /\ iter.status = load.status
        /\ iter.valid <=> load.status = "ok" /\ positioned.valid
    <3> HIDE DEF load, iter
    <3> QED BY <1>3, <2>2, <2>3
  <2> HIDE DEF load, iter
  <2>5. Landed(iter, i, q)
    <3>1. CASE iter.status = "ok" /\ AtBlockEntry(positioned, i, q)
      BY <2>1, <2>4, <3>1 DEF Landed, AtEntry, AtBlockEntry
    <3>2. CASE iter.status = "ok" /\ ~positioned.valid /\ damage.kind = "entry"
      BY <2>4, <3>2 DEF Landed
    <3>3. CASE iter.status # "ok"
      BY <2>4, <3>3 DEF Landed
    <3> QED BY <2>3, <3>1, <3>2, <3>3
  <2> QED BY <2>4, <2>5 DEF load, iter
<1> QED BY <1>1, <1>5, <1>6, LoadCases

-----------------------------------------------------------------------------
(* What a move of the iterator adds to the scan *)

\* The byte order of two entries is the order of their places.
LEMMA EntryOrder ==
  ASSUME Sorted(table), NEW i \in DOMAIN table, NEW p \in DOMAIN table[i],
         NEW j \in DOMAIN table, NEW q \in DOMAIN table[j]
  PROVE  /\ BytewiseLess(table[i][p], table[j][q]) <=> Precedes(i, p, j, q)
         /\ Precedes(i, p, j, q) \/ Precedes(j, q, i, p) \/ (i = j /\ p = q)
<1>1. table[i][p] \in Target /\ table[j][q] \in Target
  BY SortedFacts DEF Target
<1>2. i \in Int /\ j \in Int /\ p \in Int /\ q \in Int
  BY SortedFacts
<1>3. /\ Precedes(i, p, j, q) => BytewiseLess(table[i][p], table[j][q])
      /\ Precedes(j, q, i, p) => BytewiseLess(table[j][q], table[i][p])
  BY DEF Sorted
<1>4. Precedes(i, p, j, q) \/ Precedes(j, q, i, p) \/ (i = j /\ p = q)
  BY <1>2 DEF Precedes
<1>5. CASE Precedes(i, p, j, q)
  BY <1>3, <1>5
<1>6. CASE Precedes(j, q, i, p)
  <2>1. ~BytewiseLess(table[i][p], table[j][q])
    BY <1>1, <1>3, <1>6, LessAsymmetric
  <2>2. ~Precedes(i, p, j, q)
    BY <1>2, <1>6 DEF Precedes
  <2> QED BY <1>6, <2>1, <2>2
<1>7. CASE i = j /\ p = q
  <2>1. ~BytewiseLess(table[i][p], table[j][q])
    BY <1>1, <1>7, LessAsymmetric
  <2>2. ~Precedes(i, p, j, q)
    BY <1>2, <1>7 DEF Precedes
  <2> QED BY <1>7, <2>1, <2>2
<1> QED BY <1>4, <1>5, <1>6, <1>7

\* Keys of a table can be told apart by their order.
LEMMA KeysCompare ==
  ASSUME Sorted(table), NEW a \in Keys, NEW b \in Keys
  PROVE  /\ BytewiseLess(a, b) \/ a = b \/ BytewiseLess(b, a)
         /\ ~(BytewiseLess(a, b) /\ BytewiseLess(b, a)) /\ ~BytewiseLess(a, a)
<1>1. PICK i \in DOMAIN table : \E p \in DOMAIN table[i] : a = table[i][p]
  BY SortedFacts
<1>2. PICK p \in DOMAIN table[i] : a = table[i][p]
  BY <1>1
<1>3. PICK j \in DOMAIN table : \E q \in DOMAIN table[j] : b = table[j][q]
  BY SortedFacts
<1>4. PICK q \in DOMAIN table[j] : b = table[j][q]
  BY <1>3
<1>5. BytewiseLess(a, b) \/ a = b \/ BytewiseLess(b, a)
  BY <1>2, <1>4, EntryOrder
<1>6. a \in Target /\ b \in Target
  BY <1>2, <1>4, SortedFacts DEF Target
<1> QED BY <1>5, <1>6, LessAsymmetric

\* A scan that has shown every key before an entry goes on to that entry.
LEMMA ScanMoves ==
  ASSUME Sorted(table), NEW i \in Nat \ {0}, NEW q, i \in DOMAIN table => q \in DOMAIN table[i],
         NEW iter \in TableIters, Landed(iter, i, q), NEW start \in Target, NEW keys \in Seq(Key),
         \A l, m \in 1 .. Len(keys) : l < m => BytewiseLess(keys[l], keys[m]),
         Range(keys) \subseteq From(start),
         i \in DOMAIN table => /\ ~BytewiseLess(table[i][q], start)
                               /\ \A k \in Range(keys) : BytewiseLess(k, table[i][q]),
         damage.kind # "entry" =>
           Range(keys) = {k \in From(start) : i \in DOMAIN table => BytewiseLess(k, table[i][q])}
  PROVE  Scan(iter, IF iter.valid THEN Append(keys, Current(iter)) ELSE keys, start)
<1>1. CASE AtEntry(iter, i, q)
  <2> DEFINE key  == table[i][q]
             more == Append(keys, key)
  <2>1. iter.valid /\ iter.idx = i /\ i \in DOMAIN table /\ q \in DOMAIN table[i] /\ Current(iter) = key
    BY <1>1 DEF AtEntry, AtBlockEntry, Current
  <2>2. key \in Key /\ key \in Keys /\ i \in Nat /\ q \in Nat
    BY <2>1, SortedFacts
  <2> HIDE DEF key
  <2>3. /\ more \in Seq(Key) /\ Len(more) = Len(keys) + 1 /\ Len(keys) \in Nat
        /\ more # << >> /\ Last(more) = key /\ more[Len(keys) + 1] = key
        /\ \A m \in 1 .. Len(keys) : more[m] = keys[m] /\ keys[m] \in Range(keys)
    <3>1. more \in Seq(Key) /\ Len(more) = Len(keys) + 1 /\ Len(keys) \in Nat /\ more[Len(keys) + 1] = key
      BY <2>2
    <3>2. more # << >> /\ Last(more) = key
      <4> HIDE DEF more
      <4>1. Len(more) # 0
        BY <3>1
      <4> QED BY <3>1, <4>1 DEF Last
    <3>3. \A m \in 1 .. Len(keys) : more[m] = keys[m] /\ keys[m] \in Range(keys)
      BY <2>2 DEF Range
    <3> QED BY <3>1, <3>2, <3>3
  <2>4. Range(more) = Range(keys) \cup {key}
    <3>1. Range(more) = {more[m] : m \in 1 .. Len(keys) + 1}
      BY <2>3, RangeEquality
    <3>2. Range(keys) = {keys[m] : m \in 1 .. Len(keys)}
      BY RangeEquality
    <3>3. 1 .. Len(keys) + 1 = (1 .. Len(keys)) \cup {Len(keys) + 1}
      BY <2>3
    <3> HIDE DEF more
    <3>4. Range(more) = {more[m] : m \in 1 .. Len(keys)} \cup {more[Len(keys) + 1]}
      BY <3>1, <3>3
    <3>5. {more[m] : m \in 1 .. Len(keys)} = {keys[m] : m \in 1 .. Len(keys)}
      BY <2>3
    <3> QED BY <2>3, <3>2, <3>4, <3>5
  <2> HIDE DEF more
  <2>5. ASSUME NEW l \in 1 .. Len(more), NEW m \in 1 .. Len(more), l < m
        PROVE  BytewiseLess(more[l], more[m])
    <3>1. l \in 1 .. Len(keys) /\ more[l] = keys[l] /\ keys[l] \in Range(keys)
      BY <2>3, <2>5
    <3>2. CASE m = Len(keys) + 1
      BY <2>1, <2>3, <3>1, <3>2 DEF key
    <3>3. CASE m # Len(keys) + 1
      <4>1. m \in 1 .. Len(keys)
        BY <2>3, <3>3
      <4> QED BY <4>1, <2>3, <2>5, <3>1
    <3> QED BY <3>2, <3>3
  <2>6. key \in From(start)
    BY <2>1, <2>2 DEF From, key
  <2>7. Range(more) \subseteq From(start)
    BY <2>4, <2>6
  <2>8. damage.kind # "entry" => Range(more) = {k \in From(start) : ~BytewiseLess(key, k)}
    <3> SUFFICES ASSUME damage.kind # "entry"
                 PROVE  Range(more) = {k \in From(start) : ~BytewiseLess(key, k)}
      OBVIOUS
    <3>1. Range(keys) = {k \in From(start) : BytewiseLess(k, key)}
      BY <2>1 DEF key
    <3>2. \A k \in From(start) : BytewiseLess(k, key) \/ k = key <=> ~BytewiseLess(key, k)
      BY <2>2, KeysCompare DEF From
    <3> QED BY <2>4, <2>6, <3>1, <3>2
  <2>9. Scan(iter, more, start)
    BY <1>1, <2>1, <2>2, <2>3, <2>5, <2>7, <2>8 DEF Scan, key
  <2> QED BY <2>1, <2>9 DEF more
<1>2. CASE ~iter.valid /\ iter.idx = i /\ (iter.status = "ok" => i \notin DOMAIN table \/ damage.kind = "entry")
  <2>1. iter.status = "ok" /\ damage.kind # "entry" => Range(keys) = From(start)
    BY <1>2
  <2> QED BY <1>2, <2>1 DEF Scan
<1> QED BY <1>1, <1>2 DEF Landed

-----------------------------------------------------------------------------
(* What the index and a block are searched for *)

\* There is a first position that is not below, one past the last if need be, and
\* the search returns no other.
LEMMA FirstNotBelow ==
  ASSUME NEW n \in Nat, NEW below, NEW readable,
         \A p, q \in 1 .. n : p < q /\ q \in below => p \in below
  PROVE  \E r \in 1 .. n + 1 :
           /\ \A p \in 1 .. n : p \in below <=> p < r
           /\ \/ Search(n, below, readable) = r
              \/ Search(n, below, readable) = Unreadable /\ \E p \in 1 .. n : p \notin readable
<1>1. CASE Search(n, below, readable) \in 1 .. n + 1
  <2>1. Search(n, below, readable) # Unreadable
    BY <1>1 DEF Unreadable
  <2> QED BY <1>1, <2>1, SearchFinds
<1>2. CASE Search(n, below, readable) \notin 1 .. n + 1
  <2>1. Search(n, below, readable) = Unreadable /\ \E p \in 1 .. n : p \notin readable
    BY <1>2, SearchFinds
  <2>2. Search(n, below, 1 .. n) \in 1 .. n + 1 /\ \A p \in 1 .. n : p \in below <=> p < Search(n, below, 1 .. n)
    BY SearchFinds
  <2> QED BY <2>1, <2>2
<1> QED BY <1>1, <1>2

\* The index leads to the first block whose last key is not below the target.
LEMMA BlockFound ==
  ASSUME Sorted(table), NEW target \in Target
  PROVE  \/ FindBlock(target) = Unreadable /\ damage.kind = "index"
         \/ /\ FindBlock(target) \in 1 .. Len(table) + 1
            /\ \A i \in DOMAIN table : BytewiseLess(IndexKey(i), target) <=> i < FindBlock(target)
<1> DEFINE n        == Len(table)
           below    == {i \in DOMAIN table : BytewiseLess(IndexKey(i), target)}
           readable == {i \in DOMAIN table : IndexEntryAt(i)}
<1>1. n \in Nat /\ DOMAIN table = 1 .. n
  BY SortedFacts
<1>2. \A i \in DOMAIN table : Len(table[i]) \in DOMAIN table[i] /\ IndexKey(i) = table[i][Len(table[i])]
                              /\ IndexKey(i) \in Target
  BY SortedFacts DEF Target
<1>3. ASSUME NEW p \in 1 .. n, NEW q \in 1 .. n, p < q, q \in below
      PROVE  p \in below
  <2>1. BytewiseLess(IndexKey(p), IndexKey(q))
    BY <1>1, <1>2, <1>3 DEF Sorted, Precedes
  <2> QED BY <1>1, <1>2, <1>3, <2>1, LessTransitive
<1>4. \A p \in 1 .. n : p \notin readable => damage.kind = "index"
  BY <1>1 DEF IndexEntryAt, Place
<1>5. FindBlock(target) = Search(n, below, readable)
  BY DEF FindBlock
<1>6. \A i \in DOMAIN table : i \in below <=> BytewiseLess(IndexKey(i), target)
  OBVIOUS
<1> HIDE DEF n, below, readable
<1>7. PICK r \in 1 .. n + 1 :
        /\ \A p \in 1 .. n : p \in below <=> p < r
        /\ \/ Search(n, below, readable) = r
           \/ Search(n, below, readable) = Unreadable /\ \E p \in 1 .. n : p \notin readable
  BY <1>1, <1>3, FirstNotBelow
<1> QED BY <1>1, <1>4, <1>5, <1>6, <1>7 DEF n

\* Within that block the search leads to the first key that is not below it.
LEMMA BlockSought ==
  ASSUME Sorted(table), NEW target \in Target, NEW i \in DOMAIN table,
         ~BytewiseLess(IndexKey(i), target)
  PROVE  \E q \in DOMAIN table[i] :
           /\ \A p \in DOMAIN table[i] : BytewiseLess(table[i][p], target) <=> p < q
           /\ \A b : Opened(b, i) =>
                \/ BlockSeek(b, target) = LoadCurrent(b, q)
                \/ BlockSeek(b, target) = Corrupted(b) /\ damage.kind = "entry"
<1> DEFINE keys     == table[i]
           n        == Len(keys)
           below    == {p \in DOMAIN keys : BytewiseLess(keys[p], target)}
           readable == {p \in DOMAIN keys : EntryAt(i, p)}
<1>1. n \in Nat \ {0} /\ DOMAIN keys = 1 .. n /\ IndexKey(i) = keys[n] /\ \A p \in 1 .. n : keys[p] \in Target
  BY SortedFacts DEF Target
<1>2. ASSUME NEW p \in 1 .. n, NEW q \in 1 .. n, p < q, q \in below
      PROVE  p \in below
  <2>1. BytewiseLess(keys[p], keys[q])
    BY <1>1, <1>2 DEF Sorted, Precedes
  <2> QED BY <1>1, <1>2, <2>1, LessTransitive
<1>3. \A p \in 1 .. n : p \notin readable => damage.kind = "entry"
  BY <1>1, UndecodedEntry
<1>4. n \notin below
  BY <1>1
<1>5. \A b : Opened(b, i) =>
        BlockSeek(b, target) = IF Search(n, below, readable) = Unreadable THEN Corrupted(b)
                               ELSE LoadCurrent(b, Search(n, below, readable))
  BY DEF BlockSeek, Opened
<1>6. \A p \in 1 .. n : p \in below <=> BytewiseLess(keys[p], target)
  BY <1>1
<1> HIDE DEF n, below, readable
<1>7. PICK r \in 1 .. n + 1 :
        /\ \A p \in 1 .. n : p \in below <=> p < r
        /\ \/ Search(n, below, readable) = r
           \/ Search(n, below, readable) = Unreadable /\ \E p \in 1 .. n : p \notin readable
  BY <1>1, <1>2, FirstNotBelow
<1>8. r \in 1 .. n
  BY <1>1, <1>4, <1>7
<1>9. r # Unreadable
  BY <1>8 DEF Unreadable
<1> QED BY <1>1, <1>3, <1>5, <1>6, <1>7, <1>8, <1>9

-----------------------------------------------------------------------------
(* The steps of the iterator *)

\* A scan begins at the first entry that is not below its start.
LEMMA ScanBegins ==
  ASSUME Sorted(table), NEW i \in Nat \ {0}, NEW q, i \in DOMAIN table => q \in DOMAIN table[i],
         NEW iter \in TableIters, Landed(iter, i, q), NEW start \in Target,
         i \in DOMAIN table => ~BytewiseLess(table[i][q], start),
         \A j \in DOMAIN table : \A p \in DOMAIN table[j] :
           (i \in DOMAIN table => Precedes(j, p, i, q)) => BytewiseLess(table[j][p], start)
  PROVE  Scan(iter, IF iter.valid THEN Append(<< >>, Current(iter)) ELSE << >>, start)
<1>1. << >> \in Seq(Key) /\ Len(<< >>) = 0 /\ Range(<< >>) = {}
  BY DEF Range
<1>2. ASSUME NEW k \in From(start), i \in DOMAIN table => BytewiseLess(k, table[i][q])
      PROVE  FALSE
  <2>1. k \in Keys /\ ~BytewiseLess(k, start)
    BY DEF From
  <2>2. PICK j \in DOMAIN table : \E p \in DOMAIN table[j] : k = table[j][p]
    BY <2>1, SortedFacts
  <2>3. PICK p \in DOMAIN table[j] : k = table[j][p]
    BY <2>2
  <2>4. i \in DOMAIN table => Precedes(j, p, i, q)
    BY <1>2, <2>3, EntryOrder
  <2> QED BY <2>1, <2>3, <2>4
<1>3. {} = {k \in From(start) : i \in DOMAIN table => BytewiseLess(k, table[i][q])}
  BY <1>2
<1> DEFINE none == << >>
<1>4. /\ \A l, m \in 1 .. Len(none) : l < m => BytewiseLess(none[l], none[m])
      /\ Range(none) \subseteq From(start)
      /\ i \in DOMAIN table => \A k \in Range(none) : BytewiseLess(k, table[i][q])
      /\ Range(none) = {k \in From(start) : i \in DOMAIN table => BytewiseLess(k, table[i][q])}
      /\ none \in Seq(Key)
  BY <1>1, <1>3
<1> HIDE DEF none
<1>5. Scan(iter, IF iter.valid THEN Append(none, Current(iter)) ELSE none, start)
  BY <1>4, ScanMoves
<1> QED BY <1>5 DEF none

LEMMA SeekToFirstScans ==
  ASSUME IInv, SeekToFirst
  PROVE  Scan(it', shown', from') /\ UNCHANGED <<table, damage>>
<1>1. Sorted(table) /\ from' = Start /\ Start \in Target
  BY DEF IInv, SeekToFirst, Target
<1>2. PICK read \in BOOLEAN : Show(OnData(Load(1, read), BlockSeekToFirst(Load(1, read).data)), << >>)
  BY DEF SeekToFirst
<1> DEFINE iter == OnData(Load(1, read), BlockSeekToFirst(Load(1, read).data))
<1>3. 1 \in DOMAIN table => 1 \in DOMAIN table[1]
  BY <1>1, SortedFacts
<1>4. iter \in TableIters /\ Landed(iter, 1, 1)
  BY <1>1, <1>3, Lands DEF BlockSeekToFirst
<1> HIDE DEF iter
<1>5. \A j \in DOMAIN table : \A p \in DOMAIN table[j] :
        ~BytewiseLess(table[j][p], Start) /\ 1 \in DOMAIN table /\ ~Precedes(j, p, 1, 1)
  BY <1>1, SortedFacts, StartIsFirst DEF Precedes
<1>6. 1 \in DOMAIN table => ~BytewiseLess(table[1][1], Start)
  BY <1>3, <1>5
<1>7. \A j \in DOMAIN table : \A p \in DOMAIN table[j] :
        (1 \in DOMAIN table => Precedes(j, p, 1, 1)) => BytewiseLess(table[j][p], Start)
  BY <1>5
<1>8. 1 \in Nat \ {0}
  OBVIOUS
<1>9. Scan(iter, IF iter.valid THEN Append(<< >>, Current(iter)) ELSE << >>, Start)
  BY <1>1, <1>3, <1>4, <1>6, <1>7, <1>8, ScanBegins
<1> QED BY <1>1, <1>2, <1>9 DEF Show, iter

LEMMA SeekScans ==
  ASSUME IInv, NEW target \in Key, Seek(target)
  PROVE  Scan(it', shown', from') /\ UNCHANGED <<table, damage>>
<1> DEFINE at == FindBlock(target)
<1>1. Sorted(table) /\ it \in TableIters /\ from' = target /\ target \in Target
  BY DEF IInv, Scan, Seek, Target
<1>2. CASE at = Unreadable
  <2>1. Show([it EXCEPT !.valid = FALSE, !.status = "error"], << >>)
    BY <1>2 DEF Seek
  <2>2. it' \in TableIters /\ ~it'.valid /\ it'.status = "error"
    BY <1>1, <2>1 DEF Show, TableIters
  <2>3. shown' = << >> /\ UNCHANGED <<table, damage>>
    BY <2>1, <2>2 DEF Show
  <2>4. << >> \in Seq(Key) /\ Len(<< >>) = 0 /\ Range(<< >>) = {}
    BY DEF Range
  <2> QED BY <1>1, <2>2, <2>3, <2>4 DEF Scan
<1>3. CASE at # Unreadable
  <2>1. at \in 1 .. Len(table) + 1 /\ \A i \in DOMAIN table : BytewiseLess(IndexKey(i), target) <=> i < at
    BY <1>1, <1>3, BlockFound
  <2>2. PICK read \in BOOLEAN : Show(OnData(Load(at, read), BlockSeek(Load(at, read).data, target)), << >>)
    BY <1>3 DEF Seek
  <2> HIDE DEF at
  <2>3. PICK q \in Nat :
          at \in DOMAIN table =>
            /\ q \in DOMAIN table[at]
            /\ \A p \in DOMAIN table[at] : BytewiseLess(table[at][p], target) <=> p < q
            /\ \A b : Opened(b, at) =>
                 \/ BlockSeek(b, target) = LoadCurrent(b, q)
                 \/ BlockSeek(b, target) = Corrupted(b) /\ damage.kind = "entry"
    <3>1. CASE at \in DOMAIN table
      <4>1. ~BytewiseLess(IndexKey(at), target)
        BY <2>1, <3>1
      <4>2. DOMAIN table[at] \subseteq Nat
        BY <1>1, <3>1, SortedFacts
      <4> QED BY <1>1, <3>1, <4>1, <4>2, BlockSought
    <3>2. CASE at \notin DOMAIN table
      BY <3>2
    <3> QED BY <3>1, <3>2
  <2> DEFINE iter == OnData(Load(at, read), BlockSeek(Load(at, read).data, target))
  <2>4. at \in Nat \ {0} /\ Len(table) \in Nat /\ DOMAIN table = 1 .. Len(table)
    BY <1>1, <2>1, SortedFacts
  <2>5. iter \in TableIters /\ Landed(iter, at, q)
    BY <1>1, <2>3, <2>4, Lands
  <2> HIDE DEF iter
  <2>6. at \in DOMAIN table => ~BytewiseLess(table[at][q], target)
    <3> SUFFICES ASSUME at \in DOMAIN table PROVE ~BytewiseLess(table[at][q], target)
      OBVIOUS
    <3>1. q \in DOMAIN table[at] /\ ~(q < q)
      BY <2>3
    <3> QED BY <2>3, <3>1
  <2>7. ASSUME NEW j \in DOMAIN table, NEW p \in DOMAIN table[j], at \in DOMAIN table => Precedes(j, p, at, q)
        PROVE  BytewiseLess(table[j][p], target)
    <3>1. CASE j < at
      <4>1. BytewiseLess(IndexKey(j), target)
        BY <2>1, <3>1
      <4>2. Len(table[j]) \in DOMAIN table[j] /\ IndexKey(j) = table[j][Len(table[j])]
            /\ p \in Int /\ (p = Len(table[j]) \/ p < Len(table[j]))
        BY <1>1, SortedFacts
      <4>3. IndexKey(j) \in Target /\ table[j][p] \in Target
        BY <1>1, <4>2, SortedFacts DEF Target
      <4>4. CASE p < Len(table[j])
        <5>1. BytewiseLess(table[j][p], IndexKey(j))
          BY <1>1, <4>2, <4>4, EntryOrder DEF Precedes
        <5> QED BY <1>1, <4>1, <4>3, <5>1, LessTransitive
      <4> QED BY <4>1, <4>2, <4>4
    <3>2. CASE ~(j < at)
      <4>1. at \in DOMAIN table /\ j \in Nat
        BY <2>1, <2>4, <3>2
      <4>2. j = at /\ p < q
        BY <2>4, <2>7, <3>2, <4>1 DEF Precedes
      <4> QED BY <2>3, <4>2
    <3> QED BY <3>1, <3>2
  <2>8. Scan(iter, IF iter.valid THEN Append(<< >>, Current(iter)) ELSE << >>, target)
    BY <1>1, <2>3, <2>4, <2>5, <2>6, <2>7, ScanBegins
  <2> QED BY <1>1, <2>2, <2>8 DEF Show, iter
<1> QED BY <1>2, <1>3

\* From the entry it is at, a scan goes on to one that comes later; unless an entry
\* cannot be decoded, there is none between the two.
LEMMA ScanGoesOn ==
  ASSUME Sorted(table), Scan(it, shown, from),
         NEW i, NEW p, AtEntry(it, i, p), shown # << >>, Last(shown) = table[i][p],
         NEW j \in Nat \ {0}, NEW q, j \in DOMAIN table => q \in DOMAIN table[j] /\ Precedes(i, p, j, q),
         damage.kind # "entry" =>
           \A h \in DOMAIN table : \A r \in DOMAIN table[h] :
             Precedes(i, p, h, r) \/ (j \in DOMAIN table => Precedes(h, r, j, q)),
         damage.kind # "entry" =>
           \A h \in DOMAIN table : \A r \in DOMAIN table[h] :
             Precedes(i, p, h, r) => j \in DOMAIN table /\ ~Precedes(h, r, j, q),
         NEW iter \in TableIters, Landed(iter, j, q)
  PROVE  Scan(iter, IF iter.valid THEN Append(shown, Current(iter)) ELSE shown, from)
<1> DEFINE cur  == table[i][p]
           next == table[j][q]
<1>1. it.valid /\ it.status = "ok" /\ it.idx = i /\ i \in DOMAIN table /\ p \in DOMAIN table[i]
  BY DEF AtEntry
<1>2. cur \in Key /\ cur \in Keys /\ i > 0
  BY <1>1, SortedFacts
<1>3. /\ shown \in Seq(Key) /\ from \in Target /\ Range(shown) \subseteq From(from)
      /\ \A l, m \in 1 .. Len(shown) : l < m => BytewiseLess(shown[l], shown[m])
  BY DEF Scan
<1>4. Range(shown) = {shown[m] : m \in 1 .. Len(shown)} /\ Len(shown) \in Nat \ {0} /\ shown[Len(shown)] = cur
  <2>1. Len(shown) \in Nat \ {0} /\ shown[Len(shown)] = cur
    BY <1>3 DEF Last
  <2> QED BY <1>3, <2>1, RangeEquality
<1>5. cur \in Range(shown) /\ ~BytewiseLess(cur, from)
  <2>1. cur \in Range(shown)
    BY <1>4
  <2> QED BY <2>1, <1>3 DEF From
<1>6. \A k \in Range(shown) : k = cur \/ BytewiseLess(k, cur)
  BY <1>3, <1>4
<1>7. ASSUME j \in DOMAIN table
      PROVE  /\ next \in Key /\ next \in Keys /\ BytewiseLess(cur, next) /\ ~BytewiseLess(next, from)
             /\ \A k \in Range(shown) : BytewiseLess(k, next)
  <2>1. next \in Key /\ next \in Keys /\ q \in DOMAIN table[j]
    BY <1>7, SortedFacts
  <2>2. BytewiseLess(cur, next)
    BY <1>1, <1>7, <2>1, EntryOrder
  <2>3. Key \subseteq Target
    BY DEF Target
  <2> HIDE DEF cur, next
  <2>4. ~BytewiseLess(next, from)
    BY <1>2, <1>3, <1>5, <2>1, <2>2, <2>3, LessTransitive
  <2>5. \A k \in Range(shown) : k \in Key
    BY <1>3, <1>4
  <2>6. \A k \in Range(shown) : BytewiseLess(k, next)
    BY <1>2, <1>6, <2>1, <2>2, <2>3, <2>5, LessTransitive
  <2> QED BY <2>1, <2>2, <2>4, <2>6
<1>8. ASSUME damage.kind # "entry"
      PROVE  Range(shown) = {k \in From(from) : j \in DOMAIN table => BytewiseLess(k, next)}
  <2>1. Range(shown) = {k \in From(from) : ~BytewiseLess(cur, k)}
    BY <1>1, <1>2, <1>8 DEF Scan
  <2>2. ASSUME NEW k \in Keys
        PROVE  ~BytewiseLess(cur, k) <=> (j \in DOMAIN table => BytewiseLess(k, next))
    <3>1. PICK h \in DOMAIN table : \E r \in DOMAIN table[h] : k = table[h][r]
      BY <2>2, SortedFacts
    <3>2. PICK r \in DOMAIN table[h] : k = table[h][r]
      BY <3>1
    <3>3. BytewiseLess(cur, k) <=> Precedes(i, p, h, r)
      BY <1>1, <3>2, EntryOrder
    <3>4. j \in DOMAIN table => (BytewiseLess(k, next) <=> Precedes(h, r, j, q))
      BY <3>2, EntryOrder
    <3>5. Precedes(i, p, h, r) \/ (j \in DOMAIN table => Precedes(h, r, j, q))
      BY <1>8
    <3>6. Precedes(i, p, h, r) => j \in DOMAIN table /\ ~Precedes(h, r, j, q)
      BY <1>8
    <3> QED BY <3>3, <3>4, <3>5, <3>6
  <2> QED BY <2>1, <2>2 DEF From
<1> QED BY <1>3, <1>7, <1>8, ScanMoves

LEMMA AdvanceScans ==
  ASSUME IInv, Advance
  PROVE  Scan(it', shown', from') /\ UNCHANGED <<table, damage>>
<1>1. Sorted(table) /\ Scan(it, shown, from) /\ it \in TableIters /\ it.valid /\ from' = from
  BY DEF IInv, Scan, Advance
<1>2. PICK i \in Nat, p \in Nat : AtEntry(it, i, p) /\ shown # << >> /\ Last(shown) = table[i][p]
  BY <1>1 DEF Scan
<1>3. /\ Len(table) \in Nat /\ DOMAIN table = 1 .. Len(table) /\ i \in DOMAIN table /\ p \in DOMAIN table[i]
      /\ \A h \in DOMAIN table : Len(table[h]) \in Nat \ {0} /\ DOMAIN table[h] = 1 .. Len(table[h])
  BY <1>1, <1>2, SortedFacts DEF AtEntry
<1>4. it.data \in BlockIters /\ it.data.status = "ok" /\ it.data.block = i /\ it.data.idx = p /\ it.idx = i
      /\ it.status = "ok"
  BY <1>1, <1>2 DEF AtEntry, AtBlockEntry, TableIters
<1> DEFINE next == BlockNext(it.data)
<1>5. /\ next \in BlockIters
      /\ \/ AtBlockEntry(next, i, p + 1) /\ ~(p + 1 > Len(table[i]))
         \/ ~next.valid /\ (p + 1 > Len(table[i]) \/ damage.kind = "entry")
  <2>1. next = LoadCurrent(it.data, p + 1)
    BY <1>4 DEF BlockNext
  <2>2. p + 1 \in Nat
    OBVIOUS
  <2> HIDE DEF next
  <2> QED BY <1>4, <2>1, <2>2, LoadCurrentCases
<1>6. CASE next.valid
  <2> DEFINE iter == Sync(it, next)
  <2>1. Show(iter, shown)
    BY <1>6 DEF Advance
  <2> HIDE DEF next
  <2>2. AtBlockEntry(next, i, p + 1) /\ p + 1 \in DOMAIN table[i]
    BY <1>3, <1>5, <1>6
  <2>3. iter \in TableIters /\ iter.idx = i /\ iter.data = next /\ iter.status = "ok" /\ iter.valid
    <3>1. (it.status = "ok" /\ next.valid) \in BOOLEAN
      OBVIOUS
    <3> QED BY <1>1, <1>4, <1>5, <1>6, <3>1 DEF Sync, TableIters
  <2> HIDE DEF iter
  <2>4. Landed(iter, i, p + 1)
    BY <1>3, <2>2, <2>3 DEF Landed, AtEntry
  <2>5. Precedes(i, p, i, p + 1)
    BY DEF Precedes
  <2>6. \A h \in DOMAIN table : \A r \in DOMAIN table[h] :
          Precedes(i, p, h, r) <=> ~Precedes(h, r, i, p + 1)
    BY <1>3 DEF Precedes
  <2>7. i \in Nat \ {0}
    BY <1>3
  <2>8. Scan(iter, IF iter.valid THEN Append(shown, Current(iter)) ELSE shown, from)
    BY <1>1, <1>2, <1>3, <2>2, <2>3, <2>4, <2>5, <2>6, <2>7, ScanGoesOn
  <2> QED BY <1>1, <2>1, <2>8 DEF Show
<1>7. CASE ~next.valid
  <2>1. PICK read \in BOOLEAN :
          Show(OnData(Load(i + 1, read), BlockSeekToFirst(Load(i + 1, read).data)), shown)
    BY <1>4, <1>7 DEF Advance
  <2> DEFINE iter == OnData(Load(i + 1, read), BlockSeekToFirst(Load(i + 1, read).data))
  <2> HIDE DEF next
  <2>2. p + 1 > Len(table[i]) \/ damage.kind = "entry"
    BY <1>5, <1>7 DEF AtBlockEntry
  <2>3. i + 1 \in Nat \ {0} /\ (i + 1 \in DOMAIN table => 1 \in DOMAIN table[i + 1])
    BY <1>3
  <2>4. iter \in TableIters /\ Landed(iter, i + 1, 1)
    BY <1>1, <2>3, Lands DEF BlockSeekToFirst
  <2> HIDE DEF iter
  <2>5. Precedes(i, p, i + 1, 1)
    BY DEF Precedes
  <2>6. ASSUME damage.kind # "entry", NEW h \in DOMAIN table, NEW r \in DOMAIN table[h]
        PROVE  /\ Precedes(i, p, h, r) <=> ~Precedes(h, r, i + 1, 1)
               /\ Precedes(i, p, h, r) => i + 1 \in DOMAIN table
    <3>1. h \in Nat /\ r \in Nat \ {0} /\ p = Len(table[i])
      BY <1>3, <2>2, <2>6
    <3>2. h = i => ~(p < r)
      BY <1>3, <3>1
    <3>3. Precedes(i, p, h, r) <=> i < h
      BY <3>1, <3>2 DEF Precedes
    <3>4. Precedes(h, r, i + 1, 1) <=> h < i + 1
      BY <3>1 DEF Precedes
    <3>5. i < h => i + 1 \in DOMAIN table
      BY <1>3, <3>1
    <3> QED BY <3>1, <3>3, <3>4, <3>5
  <2>7. Scan(iter, IF iter.valid THEN Append(shown, Current(iter)) ELSE shown, from)
    BY <1>1, <1>2, <2>3, <2>4, <2>5, <2>6, ScanGoesOn
  <2> QED BY <1>1, <2>1, <2>7 DEF Show, iter
<1> QED BY <1>6, <1>7

\* The invariant holds to begin with, and every step keeps it.
LEMMA InvInit == Init => IInv
<1> SUFFICES ASSUME Init PROVE IInv
  OBVIOUS
<1>1. Sorted(table)
  <2>1. PICK keys \in Runs : \E ends \in Cuts(Len(keys)) : table = Blocks(keys, ends)
    BY DEF Init, Tables
  <2> QED BY <2>1, BlocksAreSorted
<1>2. it.idx = 0 /\ ~it.valid /\ it \in TableIters
  <2>1. NoBlock \in BlockIters
    BY DEF NoBlock, BlockIters
  <2>2. it = [idx |-> 0, data |-> NoBlock, valid |-> FALSE, status |-> "ok"]
    BY DEF Init
  <2> QED BY <2>1, <2>2 DEF TableIters
<1>3. from \in Target /\ shown = << >>
  BY DEF Init, Target
<1>4. << >> \in Seq(Key) /\ Len(<< >>) = 0 /\ Range(<< >>) = {}
  BY DEF Range
<1>5. Scan(it, shown, from)
  BY <1>2, <1>3, <1>4 DEF Scan
<1> QED BY <1>1, <1>5 DEF IInv

LEMMA InvNext == IInv /\ [Next]_rvars => IInv'
<1> SUFFICES ASSUME IInv, [Next]_rvars PROVE IInv'
  OBVIOUS
<1>1. Scan(it', shown', from') /\ UNCHANGED <<table, damage>>
  <2>1. CASE SeekToFirst
    BY <2>1, SeekToFirstScans
  <2>2. CASE \E target \in Key : Seek(target)
    BY <2>2, SeekScans
  <2>3. CASE Advance
    BY <2>3, AdvanceScans
  <2>4. CASE UNCHANGED <<table, damage, it, from, shown>>
    BY <2>4 DEF IInv
  <2>5. (\E user \in UserKey, snapshot \in SeqNo : LookUp(user, snapshot)) \/ UNCHANGED rvars
          => UNCHANGED <<table, damage, it, from, shown>>
    BY DEF LookUp, rvars
  <2> QED BY <2>1, <2>2, <2>3, <2>4, <2>5 DEF Next
<1>2. Sorted(table)'
  BY <1>1 DEF IInv, Sorted
<1>3. Scan(it, shown, from)'
  BY <1>1 DEF Scan, AtEntry, From, Keys
<1> QED BY <1>2, <1>3 DEF IInv

LEMMA InvHolds == Spec => []IInv
BY InvInit, InvNext, PTL DEF Spec

-----------------------------------------------------------------------------
(* Scans *)

\* TableIter (reader.cpp:175): for every table, damage in any one place and reads
\* that fail at any time, a scan that goes on or ends with a good status has left out
\* nothing; an entry that cannot be decoded within a block is the exception.
\* The blocks are ones whose entries ParseBlock finds (see TableReader).
THEOREM ScanLosesNothing == Spec => []ScanComplete
<1>1. IInv => ScanComplete
  BY DEF IInv, Scan, ScanComplete, From, Wanted
<1> QED BY <1>1, InvHolds, PTL

\* TableIter: a scan never turns back, repeats a key, or shows one that the table
\* has not or that lies before the place it was positioned at.
THEOREM ScanTurnsNeverBack == Spec => []ScanAscends
<1>1. IInv => ScanAscends
  <2> SUFFICES ASSUME IInv PROVE ScanAscends
    OBVIOUS
  <2>1. /\ shown \in Seq(Key) /\ Range(shown) \subseteq Wanted
        /\ \A l, m \in 1 .. Len(shown) : l < m => BytewiseLess(shown[l], shown[m])
    BY DEF IInv, Scan, From, Wanted
  <2>2. \A m \in 1 .. Len(shown) - 1 : m \in 1 .. Len(shown) /\ m + 1 \in 1 .. Len(shown) /\ m < m + 1
    BY <2>1
  <2> QED BY <2>1, <2>2 DEF ScanAscends
<1> QED BY <1>1, InvHolds, PTL

-----------------------------------------------------------------------------
(* Get *)

\* What the walk comes to at an entry, given what it comes to at the later ones.
WalkFrom(walk, i, target, p) ==
  IF p > Len(table[i]) \/ ~EntryAt(i, p) THEN NotFound
  ELSE IF table[i][p].user # target.user THEN NotFound
  ELSE IF Sees(target, table[i][p]) THEN Found(table[i][p]) ELSE walk[p + 1]

\* The walk ends with the block, so it is defined from each of its entries.
LEMMA WalkDefined ==
  ASSUME NEW target, NEW b, NEW i, b.block = i, Len(table[i]) \in Nat
  PROVE  \E f : /\ Walk(b, target) = f[b.idx]
                /\ \A p \in 1 .. Len(table[i]) + 1 : f[p] = WalkFrom(f, i, target, p)
<1> DEFINE n       == Len(table[i])
           step(f) == [p \in 1 .. n + 1 |-> WalkFrom(f, i, target, p)]
           S       == {d \in Nat : \E f : \A p \in 1 .. n + 1 : n + 1 - p <= d => f[p] = WalkFrom(f, i, target, p)}
<1>1. ASSUME NEW f, NEW g, NEW p \in 1 .. n + 1, \A r \in 1 .. n + 1 : p < r => f[r] = g[r]
      PROVE  WalkFrom(f, i, target, p) = WalkFrom(g, i, target, p)
  <2>1. CASE p > n
    BY <2>1 DEF WalkFrom
  <2>2. CASE ~(p > n)
    <3>1. p + 1 \in 1 .. n + 1 /\ p < p + 1
      BY <2>2
    <3>2. f[p + 1] = g[p + 1]
      BY <1>1, <3>1
    <3> QED BY <3>2 DEF WalkFrom
  <2> QED BY <2>1, <2>2
<1>2. 0 \in S
  <2> DEFINE f == [p \in 1 .. n + 1 |-> NotFound]
  <2>1. \A p \in 1 .. n + 1 : n + 1 - p <= 0 => f[p] = WalkFrom(f, i, target, p)
    <3> SUFFICES ASSUME NEW p \in 1 .. n + 1, n + 1 - p <= 0 PROVE f[p] = WalkFrom(f, i, target, p)
      OBVIOUS
    <3>1. p > n
      OBVIOUS
    <3> QED BY <3>1 DEF WalkFrom
  <2> QED BY <2>1
<1>3. \A d \in S : d + 1 \in S
  <2> SUFFICES ASSUME NEW d \in S PROVE d + 1 \in S
    OBVIOUS
  <2>1. PICK f : \A p \in 1 .. n + 1 : n + 1 - p <= d => f[p] = WalkFrom(f, i, target, p)
    OBVIOUS
  <2> DEFINE g == [p \in 1 .. n + 1 |-> IF n + 1 - p <= d THEN f[p] ELSE WalkFrom(f, i, target, p)]
  <2>2. ASSUME NEW p \in 1 .. n + 1, n + 1 - p <= d + 1
        PROVE  g[p] = WalkFrom(g, i, target, p)
    <3>1. g[p] = WalkFrom(f, i, target, p)
      BY <2>1
    <3>2. \A r \in 1 .. n + 1 : p < r => f[r] = g[r]
      BY <2>2
    <3> HIDE DEF g
    <3> QED BY <1>1, <3>1, <3>2
  <2>3. d + 1 \in Nat
    OBVIOUS
  <2> QED BY <2>2, <2>3
<1>4. n \in S
  <2>1. S \subseteq Nat
    OBVIOUS
  <2> HIDE DEF S
  <2> QED BY <1>2, <1>3, <2>1, AllNumbers
<1>5. \E f : f = step(f)
  <2>1. PICK f : \A p \in 1 .. n + 1 : n + 1 - p <= n => f[p] = WalkFrom(f, i, target, p)
    BY <1>4
  <2>2. \A p \in 1 .. n + 1 : n + 1 - p <= n
    OBVIOUS
  <2>3. \A p \in 1 .. n + 1 : step(f)[p] = f[p]
    BY <2>1, <2>2
  <2>4. \A p \in 1 .. n + 1 : WalkFrom(f, i, target, p) = WalkFrom(step(f), i, target, p)
    BY <1>1, <2>3
  <2>5. step(f) = step(step(f))
    BY <2>4
  <2> QED BY <2>5
<1> DEFINE walk == CHOOSE f : f = step(f)
<1>6. walk = step(walk)
  BY <1>5
<1>7. Walk(b, target) = walk[b.idx]
  BY DEF Walk, WalkFrom
<1> HIDE DEF walk
<1>8. \A p \in 1 .. n + 1 : walk[p] = WalkFrom(walk, i, target, p)
  BY <1>6
<1> QED BY <1>7, <1>8

\* What the walk finds is in the block and the snapshot may see it; at the very key
\* asked for, it finds that key.
LEMMA WalkFinds ==
  ASSUME Sorted(table), NEW i \in DOMAIN table, NEW q \in DOMAIN table[i], NEW target \in Key,
         NEW b, b.block = i, b.idx = q
  PROVE  /\ Walk(b, target) # NotFound =>
              \E p \in DOMAIN table[i] : /\ Walk(b, target) = Found(table[i][p])
                                         /\ table[i][p].user = target.user
                                         /\ table[i][p].seq <= target.seq
         /\ EntryAt(i, q) /\ table[i][q] = target => Walk(b, target) = Found(target)
<1> DEFINE n == Len(table[i])
           Good(a) == a # NotFound => \E p \in DOMAIN table[i] : /\ a = Found(table[i][p])
                                                                 /\ table[i][p].user = target.user
                                                                 /\ table[i][p].seq <= target.seq
<1>1. n \in Nat /\ DOMAIN table[i] = 1 .. n
  BY SortedFacts
<1>2. PICK f : Walk(b, target) = f[q] /\ \A p \in 1 .. n + 1 : f[p] = WalkFrom(f, i, target, p)
  BY <1>1, WalkDefined
<1> DEFINE S == {d \in Nat : \A p \in 1 .. n + 1 : n + 1 - p <= d => Good(f[p])}
<1>3. ASSUME NEW p \in 1 .. n + 1, p <= n => Good(f[p + 1])
      PROVE  Good(f[p])
  <2>1. f[p] = WalkFrom(f, i, target, p)
    BY <1>2
  <2>2. CASE f[p] = NotFound
    BY <2>2
  <2>3. CASE p <= n /\ f[p] = f[p + 1]
    <3> HIDE DEF Good
    <3> QED BY <1>3, <2>3
  <2>4. CASE p <= n /\ f[p] = Found(table[i][p]) /\ table[i][p].user = target.user /\ Sees(target, table[i][p])
    BY <1>1, <2>4 DEF Sees
  <2> QED BY <1>1, <2>1, <2>2, <2>3, <2>4 DEF WalkFrom
<1>4. 0 \in S
  <2> SUFFICES ASSUME NEW p \in 1 .. n + 1, n + 1 - p <= 0 PROVE Good(f[p])
    OBVIOUS
  <2>1. ~(p <= n)
    BY <1>1
  <2> HIDE DEF Good
  <2> QED BY <1>3, <2>1
<1>5. \A d \in S : d + 1 \in S
  <2> SUFFICES ASSUME NEW d \in S, NEW p \in 1 .. n + 1, n + 1 - p <= d + 1 PROVE Good(f[p])
    <3>1. \A d \in S : d + 1 \in Nat
      OBVIOUS
    <3> HIDE DEF Good
    <3> QED BY <3>1
  <2>1. p <= n => p + 1 \in 1 .. n + 1 /\ n + 1 - (p + 1) <= d
    BY <1>1
  <2> HIDE DEF Good
  <2> QED BY <1>3, <2>1
<1>6. n \in S
  <2>1. S \subseteq Nat
    OBVIOUS
  <2> HIDE DEF S
  <2> QED BY <1>1, <1>4, <1>5, <2>1, AllNumbers
<1>7. Good(f[q])
  <2>1. q \in 1 .. n + 1 /\ n + 1 - q <= n
    BY <1>1
  <2> HIDE DEF Good
  <2> QED BY <1>6, <2>1
<1>8. ASSUME EntryAt(i, q), table[i][q] = target
      PROVE  f[q] = Found(target)
  <2>1. Sees(target, target)
    <3>1. target.seq \in SeqNo
      BY DEF Key
    <3>2. target.seq \in 0 .. ByteBase * ByteBase - 1
      BY <3>1, KeyAssumption
    <3> QED BY <3>2 DEF Sees
  <2>2. f[q] = WalkFrom(f, i, target, q) /\ ~(q > n)
    BY <1>1, <1>2
  <2> QED BY <1>8, <2>1, <2>2 DEF WalkFrom
<1> QED BY <1>2, <1>7, <1>8

\* What seeking a data block comes to: the first entry that is not below the target
\* if it can be decoded, or a status that is not good.
LEMMA SeekInBlock ==
  ASSUME Sorted(table), NEW target \in Target, NEW i \in DOMAIN table,
         ~BytewiseLess(IndexKey(i), target)
  PROVE  \/ BlockSeek(BlockIter(i), target).status = "corruption"
         \/ /\ BlockSeek(BlockIter(i), target).status = "ok" /\ BlockSeek(BlockIter(i), target).valid
            /\ BlockSeek(BlockIter(i), target).block = i
            /\ BlockSeek(BlockIter(i), target).idx \in DOMAIN table[i]
            /\ \A p \in DOMAIN table[i] :
                 BytewiseLess(table[i][p], target) <=> p < BlockSeek(BlockIter(i), target).idx
            /\ EntryAt(i, BlockSeek(BlockIter(i), target).idx)
<1>1. Len(table[i]) \in Nat /\ DOMAIN table[i] = 1 .. Len(table[i]) /\ i \in Nat
  BY SortedFacts
<1>2. BlockIter(i) \in BlockIters /\ BlockIter(i).block = i
      /\ BlockIter(i).status = IF Parses(i) THEN "ok" ELSE "corruption"
  BY <1>1 DEF BlockIter, NoBlock, BlockIters
<1>3. CASE ~Parses(i)
  <2>1. BlockSeek(BlockIter(i), target) = [BlockIter(i) EXCEPT !.valid = FALSE]
    BY <1>2, <1>3 DEF BlockSeek
  <2> QED BY <1>2, <1>3, <2>1 DEF BlockIters
<1>4. CASE Parses(i)
  <2> DEFINE b    == BlockIter(i)
             seek == BlockSeek(b, target)
  <2>1. Opened(b, i) /\ b \in BlockIters /\ b.block = i /\ b.status = "ok"
    BY <1>2, <1>4 DEF Opened
  <2>2. PICK q \in DOMAIN table[i] :
          /\ \A p \in DOMAIN table[i] : BytewiseLess(table[i][p], target) <=> p < q
          /\ \A c : Opened(c, i) => \/ BlockSeek(c, target) = LoadCurrent(c, q)
                                    \/ BlockSeek(c, target) = Corrupted(c) /\ damage.kind = "entry"
    BY BlockSought
  <2>3. q \in Nat /\ ~(q > Len(table[i]))
    BY <1>1
  <2>4. seek = LoadCurrent(b, q) \/ seek = Corrupted(b)
    BY <2>1, <2>2
  <2> HIDE DEF b, seek
  <2>5. CASE seek = Corrupted(b)
    BY <2>1, <2>5, CorruptedCase DEF b, seek
  <2>6. CASE seek = LoadCurrent(b, q)
    <3>1. CASE EntryAt(i, q)
      <4>1. seek = [b EXCEPT !.idx = q, !.valid = TRUE]
        BY <2>1, <2>3, <2>6, <3>1 DEF LoadCurrent
      <4>2. seek.status = "ok" /\ seek.valid /\ seek.block = i /\ seek.idx = q
        BY <2>1, <4>1 DEF BlockIters
      <4> QED BY <2>2, <3>1, <4>2 DEF b, seek
    <3>2. CASE ~EntryAt(i, q)
      <4>1. seek = Corrupted([b EXCEPT !.idx = q])
        BY <2>1, <2>3, <2>6, <3>2 DEF LoadCurrent
      <4>2. [b EXCEPT !.idx = q] \in BlockIters
        BY <2>1, <2>3 DEF BlockIters
      <4>3. seek.status = "corruption"
        BY <4>1, <4>2, CorruptedCase
      <4> QED BY <4>3 DEF b, seek
    <3> QED BY <3>1, <3>2
  <2> QED BY <2>4, <2>5, <2>6
<1> QED BY <1>3, <1>4

\* What Get answers is in the table and may be seen; what the table holds is found,
\* or its loss is told.
LEMMA GetAnswers ==
  ASSUME Sorted(table), NEW target \in Key, NEW read \in BOOLEAN
  PROVE  /\ Get(target, read).status = "ok" =>
              /\ Get(target, read).key \in Keys
              /\ Get(target, read).key.user = target.user /\ Get(target, read).key.seq <= target.seq
         /\ target \in Keys /\ damage.kind \notin {"index", "handle"} =>
              Get(target, read) \in {Found(target), Failed("corruption"), Failed("io error")}
<1> DEFINE at     == FindBlock(target)
           b      == BlockSeek(BlockIter(at), target)
           answer == Get(target, read)
<1>1. target \in Target /\ Len(table) \in Nat /\ DOMAIN table = 1 .. Len(table)
  BY SortedFacts DEF Target
<1>2. /\ NotFound.status # "ok" /\ \A s : Failed(s).status = s
      /\ \A k : Found(k).status = "ok" /\ Found(k).key = k
  BY DEF NotFound, Failed, Found
<1>3. answer = IF at = Unreadable \/ at > Len(table) THEN NotFound
               ELSE IF ~IndexEntryAt(at) \/ ~HandleAt(at) THEN NotFound
               ELSE IF ~read THEN Failed("io error")
               ELSE IF b.status # "ok" THEN Failed(b.status)
               ELSE IF ~b.valid THEN NotFound
               ELSE Walk(b, target)
  BY DEF Get
<1>4. \/ at = Unreadable /\ damage.kind = "index"
      \/ at \in 1 .. Len(table) + 1 /\ \A i \in DOMAIN table : BytewiseLess(IndexKey(i), target) <=> i < at
  BY <1>1, BlockFound
<1>5. \A i : /\ ~IndexEntryAt(i) => damage.kind = "index"
             /\ ~HandleAt(i) => damage.kind = "handle"
  BY DEF IndexEntryAt, HandleAt, Place
<1> HIDE DEF at, answer
<1>6. ASSUME at \in DOMAIN table
      PROVE  \/ b.status = "corruption"
             \/ /\ b.status = "ok" /\ b.valid /\ b.block = at /\ b.idx \in DOMAIN table[at]
                /\ \A p \in DOMAIN table[at] : BytewiseLess(table[at][p], target) <=> p < b.idx
                /\ EntryAt(at, b.idx)
  <2>1. at # Unreadable
    BY <1>1, <1>6 DEF Unreadable
  <2>2. ~BytewiseLess(IndexKey(at), target)
    BY <1>1, <1>4, <1>6, <2>1
  <2> QED BY <1>1, <1>6, <2>2, SeekInBlock
<1> HIDE DEF b
<1>7. ASSUME answer.status = "ok"
      PROVE  answer.key \in Keys /\ answer.key.user = target.user /\ answer.key.seq <= target.seq
  <2>1. /\ at # Unreadable /\ ~(at > Len(table)) /\ b.status = "ok" /\ b.valid
        /\ answer = Walk(b, target) /\ answer # NotFound
    BY <1>2, <1>3, <1>7
  <2>2. at \in DOMAIN table
    BY <1>1, <1>4, <2>1
  <2>3. PICK p \in DOMAIN table[at] : /\ answer = Found(table[at][p])
                                      /\ table[at][p].user = target.user
                                      /\ table[at][p].seq <= target.seq
    BY <1>6, <2>1, <2>2, WalkFinds
  <2>4. answer.key = table[at][p]
    BY <1>2, <2>3
  <2> QED BY <2>2, <2>3, <2>4, SortedFacts
<1>8. ASSUME target \in Keys, damage.kind \notin {"index", "handle"}
      PROVE  answer \in {Found(target), Failed("corruption"), Failed("io error")}
  <2>1. PICK i \in DOMAIN table : \E p \in DOMAIN table[i] : target = table[i][p]
    BY <1>8, SortedFacts
  <2>2. PICK p \in DOMAIN table[i] : target = table[i][p]
    BY <2>1
  <2>3. /\ \A j \in DOMAIN table : j \in Nat /\ Len(table[j]) \in DOMAIN table[j] /\ DOMAIN table[j] = 1 .. Len(table[j])
                                   /\ Len(table[j]) \in Nat /\ IndexKey(j) = table[j][Len(table[j])]
    BY SortedFacts
  <2>4. ~BytewiseLess(IndexKey(i), target)
    <3>1. ~Precedes(i, Len(table[i]), i, p)
      BY <2>3 DEF Precedes
    <3> QED BY <2>2, <2>3, <3>1, EntryOrder
  <2>5. \A j \in DOMAIN table : j < i => BytewiseLess(IndexKey(j), target)
    BY <2>2, <2>3, EntryOrder DEF Precedes
  <2>6. at = i
    <3>1. at \in 1 .. Len(table) + 1 /\ \A j \in DOMAIN table : BytewiseLess(IndexKey(j), target) <=> j < at
      BY <1>4, <1>8
    <3>2. ~(i < at)
      BY <2>4, <3>1
    <3>3. ~(at < i)
      <4>1. at < i => at \in DOMAIN table /\ ~(at < at)
        BY <1>1, <2>3, <3>1
      <4> QED BY <2>5, <3>1, <4>1
    <3> QED BY <2>3, <3>1, <3>2, <3>3
  <2>7. at # Unreadable /\ ~(at > Len(table)) /\ IndexEntryAt(at) /\ HandleAt(at)
    BY <1>1, <1>5, <1>8, <2>6 DEF Unreadable
  <2>8. CASE ~read
    BY <1>3, <2>7, <2>8
  <2>9. CASE read /\ b.status = "corruption"
    BY <1>3, <2>7, <2>9
  <2>10. CASE read /\ b.status # "corruption"
    <3>1. /\ b.status = "ok" /\ b.valid /\ b.block = i /\ b.idx \in DOMAIN table[i] /\ EntryAt(i, b.idx)
          /\ \A r \in DOMAIN table[i] : BytewiseLess(table[i][r], target) <=> r < b.idx
      BY <1>6, <2>6, <2>10
    <3>2. b.idx = p
      <4>1. ~BytewiseLess(target, target)
        BY <1>1, LessAsymmetric
      <4>2. ~(p < b.idx)
        BY <2>2, <3>1, <4>1
      <4>3. ~(b.idx < p)
        <5>1. b.idx < p => BytewiseLess(table[i][b.idx], target)
          BY <2>2, <3>1, EntryOrder DEF Precedes
        <5>2. ~(b.idx < b.idx)
          BY <2>3, <3>1
        <5> QED BY <3>1, <5>1, <5>2
      <4> QED BY <2>3, <3>1, <4>2, <4>3
    <3>3. Walk(b, target) = Found(target)
      BY <2>2, <3>1, <3>2, WalkFinds
    <3> QED BY <1>3, <2>7, <2>10, <3>1, <3>3
  <2> QED BY <2>8, <2>9, <2>10
<1> QED BY <1>7, <1>8 DEF answer

\* TableReader::Get (reader.cpp:267): what Get finds is in the table and visible to
\* the snapshot; a put the table holds under the sequence number asked for is found,
\* or the loss is told, unless an index entry or a handle cannot be decoded.
\* The blocks are ones whose entries ParseBlock finds (see TableReader).
THEOREM GetFindsPut == Spec => []GetFindsItsPut
<1>1. Init => GetFindsItsPut
  BY DEF Init, GetFindsItsPut
<1>2. IInv /\ GetFindsItsPut /\ [Next]_rvars => GetFindsItsPut'
  <2> SUFFICES ASSUME IInv, GetFindsItsPut, [Next]_rvars PROVE GetFindsItsPut'
    OBVIOUS
  <2>1. ASSUME NEW user \in UserKey, NEW snapshot \in SeqNo, LookUp(user, snapshot)
        PROVE  GetFindsItsPut'
    <3> DEFINE target == [user |-> user, seq |-> snapshot, type |-> kPut]
    <3>1. PICK read \in BOOLEAN : got' = [target |-> target, answer |-> Get(target, read)]
      BY <2>1 DEF LookUp
    <3>2. target \in Key
      BY DEF Key
    <3> HIDE DEF target
    <3>3. got'.target = target /\ got'.answer = Get(target, read)
      BY <3>1
    <3>4. UNCHANGED <<table, damage>>
      BY <2>1 DEF LookUp
    <3>5. Keys' = Keys
      BY <3>4 DEF Keys
    <3>6. /\ got'.answer.status = "ok" =>
               /\ got'.answer.key \in Keys
               /\ got'.answer.key.user = got'.target.user /\ got'.answer.key.seq <= got'.target.seq
          /\ got'.target \in Keys /\ damage.kind \notin {"index", "handle"} =>
               got'.answer \in {Found(got'.target), Failed("corruption"), Failed("io error")}
      BY <3>2, <3>3, GetAnswers DEF IInv
    <3> QED BY <3>4, <3>5, <3>6 DEF GetFindsItsPut, Found, Failed, Start
  <2>2. CASE got' = NothingAsked
    BY <2>2 DEF GetFindsItsPut, NothingAsked
  <2>3. CASE UNCHANGED rvars
    BY <2>3 DEF rvars, GetFindsItsPut, Keys
  <2>4. SeekToFirst \/ (\E target \in Key : Seek(target)) \/ Advance => got' = NothingAsked
    BY DEF SeekToFirst, Seek, Advance, Show
  <2> QED BY <2>1, <2>2, <2>3, <2>4 DEF Next
<1> QED BY <1>1, <1>2, InvHolds, PTL DEF Spec

-----------------------------------------------------------------------------
(* The table iterator implements the iterator interface *)

After(key) == {k \in Keys : BytewiseLess(key, k)}

\* What is known of the entry shown after a step.
LEMMA ShownEntry ==
  ASSUME IInv', UNCHANGED table, it'.valid
  PROVE  /\ it'.status = "ok" /\ Last(shown') = Current(it)' /\ shown' # << >>
         /\ Current(it)' \in Keys
<1>1. Sorted(table) /\ Keys' = Keys
  BY DEF IInv, Sorted, Keys
<1>2. PICK i \in Nat, p \in Nat : AtEntry(it, i, p)' /\ shown' # << >> /\ Last(shown') = table'[i][p]
  BY DEF IInv, Scan
<1>3. /\ it'.status = "ok" /\ Current(it)' = table[i][p] /\ i \in DOMAIN table /\ p \in DOMAIN table[i]
  BY <1>2 DEF AtEntry, AtBlockEntry, Current
<1>4. table[i][p] \in Keys
  BY <1>1, <1>3, SortedFacts
<1> QED BY <1>2, <1>3, <1>4

\* A step among the keys S goes to the first of them, or past the end if there are
\* none; to a later one, or past the end, if an entry cannot be decoded.
LEMMA PositionOf ==
  ASSUME UNCHANGED <<table, damage>>, NEW S, S \subseteq Keys, Keys \subseteq Key,
         it'.valid => /\ it'.status = "ok" /\ Current(it)' \in S /\ After(Current(it)') \subseteq S
                      /\ damage.kind # "entry" => S \subseteq {Current(it)'} \cup After(Current(it)'),
         ~it'.valid => it'.status # "ok" \/ S = {} \/ damage.kind = "entry"
  PROVE  Contract!Position(S)
<1> DEFINE keys == [k \in Keys |-> k]
           next == Current(it)'
           T    == IF it'.valid THEN {next} \cup After(next) ELSE {}
<1>1. UNCHANGED <<keys, damage.kind = "entry">> /\ Keys' = Keys
  BY DEF Keys
<1>2. ASSUME it'.status = "ok"
      PROVE  Contract!ShowLeast(T) /\ T \in SUBSET S /\ (damage.kind # "entry" => T = S)
  <2>1. CASE it'.valid
    <3>1. \A k \in T : k \in Target /\ k \in Keys /\ keys[k] = k
      BY <2>1 DEF After, Target
    <3>2. \A k \in T : ~BytewiseLess(k, next)
      BY <2>1, <3>1, LessAsymmetric DEF After
    <3>3. next \in T /\ T \ {next} = After(next)
      BY <2>1, <3>1, LessAsymmetric DEF After
    <3>4. next \in Contract!Least(T)
      <4> HIDE DEF keys, next, T
      <4> QED BY <3>1, <3>2, <3>3 DEF Contract!Least, keys
    <3>5. After(next) = {k \in Keys' : BytewiseLess(next, k)}
      BY <1>1 DEF After
    <3>6. Contract!ShowLeast(T)
      <4> HIDE DEF T
      <4> QED BY <1>2, <2>1, <3>3, <3>4, <3>5 DEF Contract!ShowLeast
    <3> QED BY <2>1, <3>6
  <2>2. CASE ~it'.valid
    <3>1. T = {} /\ Contract!ShowLeast({})
      BY <1>2, <2>2 DEF Contract!ShowLeast
    <3> QED BY <1>2, <2>2, <3>1
  <2> QED BY <2>1, <2>2
<1>3. ASSUME it'.status # "ok"
      PROVE  Contract!Fail
  BY <1>3 DEF Contract!Fail
<1> HIDE DEF keys, next, T
<1> QED BY <1>1, <1>2, <1>3 DEF Contract!Position, keys

\* Both seeks: the scan has shown at most the key it is at.
LEMMA SeekRefines ==
  ASSUME IInv', UNCHANGED <<table, damage>>, it'.idx > 0 \/ it'.status # "ok",
         shown' = IF it'.valid THEN Append(<< >>, Current(it)') ELSE << >>
  PROVE  Contract!Position({k \in Keys : ~BytewiseLess(k, from')})
<1> DEFINE S    == {k \in Keys : ~BytewiseLess(k, from')}
           next == Current(it)'
<1>1. Sorted(table) /\ Keys \subseteq Key /\ from' \in Target /\ Keys' = Keys
  <2>1. Sorted(table)
    BY DEF IInv, Sorted
  <2> QED BY <2>1, SortedFacts DEF IInv, Scan, Keys
<1>2. /\ Range(shown') \subseteq S
      /\ (it'.idx > 0 /\ it'.status = "ok" /\ damage.kind # "entry") =>
           Range(shown') = IF it'.valid THEN {k \in S : ~BytewiseLess(Last(shown'), k)} ELSE S
  BY <1>1 DEF IInv, Scan, From, Range, Last
<1>3. CASE it'.valid
  <2>1. it'.status = "ok" /\ Last(shown') = next /\ next \in Keys
    BY <1>3, ShownEntry
  <2>2. Range(shown') = {next}
    BY <1>3 DEF Range
  <2>3. next \in S
    BY <1>2, <2>2
  <2>4. After(next) \subseteq S
    <3> SUFFICES ASSUME NEW k \in Keys, BytewiseLess(next, k), BytewiseLess(k, from') PROVE FALSE
      BY DEF After
    <3>1. next \in Target /\ k \in Target /\ ~BytewiseLess(next, from')
      BY <1>1, <2>1, <2>3 DEF Target
    <3> HIDE DEF next
    <3> QED BY <1>1, <3>1, LessTransitive
  <2>5. damage.kind # "entry" => S \subseteq {next} \cup After(next)
    BY <1>2, <1>3, <2>1, <2>2 DEF After
  <2> HIDE DEF S
  <2> QED BY <1>1, <1>3, <2>1, <2>3, <2>4, <2>5, PositionOf DEF S
<1>4. CASE ~it'.valid
  <2>1. Range(shown') = {}
    BY <1>4 DEF Range
  <2> QED BY <1>1, <1>2, <1>4, <2>1, PositionOf
<1> QED BY <1>3, <1>4

\* Next: the scan has shown one key more, or none.
LEMMA AdvanceRefines ==
  ASSUME IInv, IInv', Advance
  PROVE  Contract!Advance
<1> DEFINE cur  == Current(it)
           next == Current(it)'
           S    == {k \in Keys : BytewiseLess(cur, k)}
<1>1. /\ Sorted(table) /\ Keys \subseteq Key /\ Keys' = Keys /\ from \in Target
      /\ UNCHANGED <<table, damage, from>> /\ it.valid
  BY AdvanceScans, SortedFacts DEF Advance, IInv, Scan, Keys
<1>2. /\ it \in TableIters /\ it.status = "ok" /\ it.idx > 0
      /\ shown # << >> /\ Last(shown) = cur /\ cur \in Keys
  <2>1. PICK i \in Nat, p \in Nat : AtEntry(it, i, p) /\ shown # << >> /\ Last(shown) = table[i][p]
    BY <1>1 DEF IInv, Scan
  <2>2. i \in 1 .. Len(table) /\ p \in DOMAIN table[i] /\ cur = table[i][p]
    BY <1>1, <2>1, SortedFacts DEF AtEntry, AtBlockEntry, Current
  <2> HIDE DEF cur
  <2> QED BY <1>1, <2>1, <2>2, SortedFacts DEF AtEntry, IInv, Scan
<1>3. /\ shown' = IF it'.valid THEN Append(shown, next) ELSE shown
      /\ it'.idx > 0
  <2>1. PICK iter : Show(iter, shown) /\ iter.idx > 0
    <3>1. CASE BlockNext(it.data).valid
      <4>1. Show(Sync(it, BlockNext(it.data)), shown)
        BY <3>1 DEF Advance
      <4>2. \A b : Sync(it, b).idx = it.idx
        BY <1>2 DEF Sync, TableIters
      <4> QED BY <1>2, <4>1, <4>2
    <3>2. CASE ~BlockNext(it.data).valid
      <4>1. PICK read \in BOOLEAN :
              Show(OnData(Load(it.idx + 1, read), BlockSeekToFirst(Load(it.idx + 1, read).data)), shown)
        BY <3>2 DEF Advance
      <4>2. \A b : OnData(Load(it.idx + 1, read), b).idx = it.idx + 1
        BY DEF OnData, Sync, Load
      <4>3. it.idx + 1 > 0
        BY <1>2 DEF TableIters
      <4> QED BY <4>1, <4>2, <4>3
    <3> QED BY <3>1, <3>2
  <2> QED BY <1>1, <2>1 DEF Show, Current
<1>4. /\ shown \in Seq(Key) /\ Range(shown) \subseteq From(from) /\ Range(shown') \subseteq From(from)
      /\ \A l, m \in 1 .. Len(shown') : l < m => BytewiseLess(shown'[l], shown'[m])
      /\ damage.kind # "entry" => Range(shown) = {k \in From(from) : ~BytewiseLess(cur, k)}
      /\ (it'.status = "ok" /\ damage.kind # "entry") =>
           Range(shown') = IF it'.valid THEN {k \in From(from) : ~BytewiseLess(Last(shown'), k)}
                                        ELSE From(from)
  BY <1>1, <1>2, <1>3 DEF IInv, Scan, From, Range, Last
<1>5. S \subseteq From(from)
  <2> SUFFICES ASSUME NEW k \in Keys, BytewiseLess(cur, k), BytewiseLess(k, from) PROVE FALSE
    BY DEF From
  <2>1. ~BytewiseLess(cur, from)
    <3>1. cur \in Range(shown)
      BY <1>2, <1>4 DEF Range, Last
    <3> QED BY <1>4, <3>1 DEF From
  <2>2. cur \in Target /\ k \in Target
    BY <1>1, <1>2 DEF Target
  <2> HIDE DEF cur
  <2> QED BY <1>1, <2>1, <2>2, LessTransitive
<1>6. CASE it'.valid
  <2>1. it'.status = "ok" /\ Last(shown') = next /\ next \in Keys
    BY <1>1, <1>6, ShownEntry
  <2> DEFINE n == Len(shown)
  <2>2. /\ n \in Nat \ {0} /\ shown[n] = cur /\ DOMAIN shown = 1 .. n
        /\ Len(shown') = n + 1 /\ DOMAIN shown' = 1 .. n + 1 /\ shown'[n + 1] = next
        /\ \A m \in 1 .. n : shown'[m] = shown[m]
    BY <1>2, <1>3, <1>4, <1>6 DEF Last
  <2> HIDE DEF n, cur, next
  <2>3. BytewiseLess(cur, next)
    <3>1. n \in 1 .. n + 1 /\ n + 1 \in 1 .. n + 1 /\ n < n + 1 /\ n \in 1 .. n
      BY <2>2
    <3> QED BY <1>4, <2>2, <3>1
  <2>4. After(next) \subseteq S
    BY <1>1, <1>2, <2>1, <2>3, LessTransitive DEF After, Target
  <2>5. \A k \in Range(shown') : k = next \/ k \in Range(shown)
    BY <2>2 DEF Range
  <2>6. damage.kind # "entry" => S \subseteq {next} \cup After(next)
    <3> SUFFICES ASSUME damage.kind # "entry", NEW k \in S, ~BytewiseLess(next, k) PROVE k = next
      BY DEF After
    <3>1. k \in Range(shown')
      BY <1>4, <1>5, <1>6, <2>1
    <3>2. k \notin Range(shown)
      BY <1>4
    <3> QED BY <2>5, <3>1, <3>2
  <2>7. next \in S
    BY <2>1, <2>3
  <2>8. Contract!Position(S)
    BY <1>1, <1>6, <2>1, <2>4, <2>6, <2>7, PositionOf DEF next
  <2> QED BY <1>1, <2>8 DEF Contract!Advance, cur
<1>7. CASE ~it'.valid
  <2>1. S = {} \/ it'.status # "ok" \/ damage.kind = "entry"
    BY <1>3, <1>4, <1>5, <1>7
  <2>2. Contract!Position(S)
    BY <1>1, <1>7, <2>1, PositionOf
  <2> QED BY <1>1, <2>2 DEF Contract!Advance
<1> QED BY <1>6, <1>7

\* Both ways to position an iterator show it as SeekRefines needs it.
LEMMA SeekShows ==
  ASSUME Sorted(table), it \in TableIters, SeekToFirst \/ \E target \in Key : Seek(target)
  PROVE  /\ UNCHANGED <<table, damage>> /\ (it'.idx > 0 \/ it'.status # "ok")
         /\ shown' = IF it'.valid THEN Append(<< >>, Current(it)') ELSE << >>
<1> SUFFICES ASSUME NEW iter, Show(iter, << >>), iter.idx > 0 \/ iter.status # "ok"
             PROVE  /\ UNCHANGED <<table, damage>> /\ (it'.idx > 0 \/ it'.status # "ok")
                    /\ shown' = IF it'.valid THEN Append(<< >>, Current(it)') ELSE << >>
  <2>1. CASE SeekToFirst
    <3>1. \A read \in BOOLEAN : \A b : OnData(Load(1, read), b).idx = 1
      BY DEF OnData, Sync, Load
    <3> QED BY <2>1, <3>1 DEF SeekToFirst
  <2>2. ASSUME NEW target \in Key, Seek(target)
        PROVE  \E iter : Show(iter, << >>) /\ (iter.idx > 0 \/ iter.status # "ok")
    <3> DEFINE at == FindBlock(target)
    <3>1. CASE at = Unreadable
      <4>1. Show([it EXCEPT !.valid = FALSE, !.status = "error"], << >>)
        BY <2>2, <3>1 DEF Seek
      <4>2. [it EXCEPT !.valid = FALSE, !.status = "error"].status # "ok"
        BY DEF TableIters
      <4> QED BY <4>1, <4>2
    <3>2. CASE at # Unreadable
      <4>1. PICK read \in BOOLEAN :
              Show(OnData(Load(at, read), BlockSeek(Load(at, read).data, target)), << >>)
        BY <2>2, <3>2 DEF Seek
      <4>2. at \in 1 .. Len(table) + 1 /\ Len(table) \in Nat
        BY <3>2, BlockFound, SortedFacts DEF Target
      <4>3. \A b : OnData(Load(at, read), b).idx = at
        BY DEF OnData, Sync, Load
      <4> HIDE DEF at
      <4>4. at > 0
        BY <4>2
      <4> QED BY <4>1, <4>3, <4>4
    <3> QED BY <3>1, <3>2
  <2> QED BY <2>1, <2>2
<1> QED BY DEF Show, Current

\* TableIter is an Iterator (reader.cpp:175) in the sense of that module, for every
\* table, damage in any one place, and reads that fail at any time: an entry that
\* cannot be decoded within a block makes it lossy, and nothing else does.
\* The blocks are ones whose entries ParseBlock finds (see TableReader).
THEOREM TableIterIsIterator == Spec => ImplementsIterator
<1>1. Init => Contract!Init
  <2> SUFFICES ASSUME Init PROVE Contract!Init
    OBVIOUS
  <2>1. Keys \subseteq Key
    BY InvInit, SortedFacts DEF IInv
  <2>2. ~it.valid /\ it.status = "ok"
    BY DEF Init
  <2> QED BY <2>1, <2>2 DEF Contract!Init, Contract!HasKeys
<1>2. IInv /\ IInv' /\ [Next]_rvars => [Contract!Next]_(Contract!cvars)
  <2> SUFFICES ASSUME IInv, IInv', [Next]_rvars PROVE [Contract!Next]_(Contract!cvars)
    OBVIOUS
  <2>1. it \in TableIters /\ Sorted(table) /\ Keys \subseteq Key
    BY SortedFacts DEF IInv, Scan
  <2>2. CASE SeekToFirst
    <3>1. Contract!Position({k \in Keys : ~BytewiseLess(k, from')})
      BY <2>1, <2>2, SeekShows, SeekRefines
    <3>2. {k \in Keys : ~BytewiseLess(k, from')} = Keys
      BY <2>1, <2>2, StartIsFirst DEF SeekToFirst
    <3>3. Contract!SeekToFirst
      BY <3>1, <3>2 DEF Contract!SeekToFirst
    <3> QED BY <3>3 DEF Contract!Next
  <2>3. ASSUME NEW target \in Key, Seek(target) PROVE Contract!Seek(target)
    <3>1. Contract!Position({k \in Keys : ~BytewiseLess(k, target)})
      BY <2>1, <2>3, SeekShows, SeekRefines DEF Seek
    <3>2. {k \in Keys : ~BytewiseLess(k, target)} =
            {k \in DOMAIN [k \in Keys |-> k] : ~BytewiseLess([k1 \in Keys |-> k1][k], target)}
      OBVIOUS
    <3> QED BY <3>1, <3>2 DEF Contract!Seek
  <2>4. CASE Advance
    BY <2>4, AdvanceRefines DEF Contract!Next
  <2>5. CASE UNCHANGED <<table, damage, it>>
    BY <2>5 DEF Contract!cvars, Keys, Current
  <2>6. (\E user \in UserKey, snapshot \in SeqNo : LookUp(user, snapshot)) \/ UNCHANGED rvars
          => UNCHANGED <<table, damage, it>>
    BY DEF LookUp, rvars
  <2> QED BY <2>2, <2>3, <2>4, <2>5, <2>6 DEF Next, Contract!Next
<1> QED BY <1>1, <1>2, InvHolds, PTL DEF Spec, ImplementsIterator, Contract!Spec

=============================================================================
