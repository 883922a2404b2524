------------------------- MODULE MergingIterProofs -------------------------
(***************************************************************************)
(* Theorems about MergingIter and the memtables under it, for any keys,    *)
(* values, sequence numbers, snapshots and seek targets.                   *)
(***************************************************************************)
EXTENDS MergingIter, DataLemmas

-----------------------------------------------------------------------------
(* Internal keys *)

\* Below 2^56 a sequence number and a type pack without loss.
LEMMA PackUnpack ==
  ASSUME NEW s \in 0 .. SeqLimit - 1, NEW y \in {kDel, kPut}
  PROVE  /\ PackTrailer(s, y) = s * 2 + y
         /\ PackTrailer(s, y) \in 0 .. 2 * SeqLimit - 1
         /\ TrailerSeq(PackTrailer(s, y)) = s
         /\ TrailerType(PackTrailer(s, y)) = y
<1>1. SeqLimit \in Nat \ {0} /\ s \in Nat /\ s < SeqLimit
  BY MemTableAssumption
<1>2. s % SeqLimit = s
  BY <1>1
<1>3. y \in {0, 1} /\ PackTrailer(s, y) = s * 2 + y
  BY <1>2 DEF PackTrailer, kDel, kPut
<1>4. (s * 2 + y) \div 2 = s /\ (s * 2 + y) % 2 = y
  BY <1>1, <1>3
<1> QED BY <1>1, <1>3, <1>4 DEF TrailerSeq, TrailerType

\* One trailer, one number and one type.
LEMMA PackedOnce ==
  ASSUME NEW a \in Int, NEW b \in Int, NEW x \in {0, 1}, NEW y \in {0, 1}, a * 2 + x = b * 2 + y
  PROVE  a = b /\ x = y
OBVIOUS

\* Where Get starts: at the highest trailer that the snapshot sees.
LEMMA SeekBound ==
  ASSUME NEW s \in Snapshot, NEW tr \in 0 .. 2 * SeqLimit - 1, TrailerSeq(tr) <= s
  PROVE  tr <= SeekTrailer(s)
<1>1. SeqLimit \in Nat \ {0} /\ s \in Nat /\ tr \in Nat /\ tr \div 2 <= s
  BY MemTableAssumption DEF TrailerSeq
<1>2. SeekTrailer(s) = (s % SeqLimit) * 2 + 1
  BY DEF SeekTrailer, PackTrailer, kPut
<1>3. CASE s < SeqLimit
  <2>1. s % SeqLimit = s
    BY <1>1, <1>3
  <2> QED BY <2>1, <1>1, <1>2
<1>4. CASE s % SeqLimit = SeqLimit - 1
  BY <1>1, <1>2, <1>4
<1> QED BY <1>3, <1>4, SnapshotAssumption

\* Keys with numbers for their parts: the keys stored, and those sought.
OrderedKey == [user : Int, trailer : Int]

\* The comparator orders them strictly and totally.
LEMMA KeysOrdered ==
  ASSUME NEW a \in OrderedKey, NEW b \in OrderedKey, NEW c \in OrderedKey
  PROVE  /\ ~Before(a, a)
         /\ Before(a, b) => ~Before(b, a)
         /\ Before(a, b) /\ Before(b, c) => Before(a, c)
         /\ ~Before(a, b) /\ ~Before(b, a) => a = b
         /\ ~Before(a, b) /\ ~Before(b, c) => ~Before(a, c)
BY DEF Before, OrderedKey

LEMMA InternalKeysOrdered == InternalKey \subseteq OrderedKey
<1>1. UserKey \subseteq Int /\ 0 .. 2 * SeqLimit - 1 \subseteq Int
  BY MemTableAssumption
<1> QED BY <1>1 DEF InternalKey, OrderedKey

-----------------------------------------------------------------------------
(* The memtable and the calls that wrote it *)

Call == [user : UserKey, seq : WriteSeq, type : {kPut}, value : Value]
          \cup [user : UserKey, seq : WriteSeq, type : {kDel}, value : {"none"}]

Table == [map : UNION {[keys -> Value \cup {"none"}] : keys \in SUBSET InternalKey},
          bytes : Nat, log : Seq(Call)]

KeyOf(call) == [user |-> call.user, trailer |-> PackTrailer(call.seq, call.type)]

\* The last call that wrote an internal key.
LastWrite(log, i, ik) ==
  KeyOf(log[i]) = ik /\ \A k \in DOMAIN log : k > i => KeyOf(log[k]) # ik

\* The map holds, for each internal key that was written, what the last call
\* wrote, and its keys are finitely many.
Logged(t) ==
  /\ IsFiniteSet(DOMAIN t.map)
  /\ \A i \in DOMAIN t.log : KeyOf(t.log[i]) \in DOMAIN t.map
  /\ \A ik \in DOMAIN t.map :
       \E i \in DOMAIN t.log : LastWrite(t.log, i, ik) /\ t.map[ik] = t.log[i].value

PutKeys(t) == {k \in DOMAIN t.map : TrailerType(k.trailer) = kPut}

Covered(t) ==
  t.bytes >= KeySize * Cardinality(DOMAIN t.map) + ValueSize * Cardinality(PutKeys(t))

TableInv(t) == t \in Table /\ Logged(t) /\ Covered(t)

\* What Put and Del do to a table.
Written(t, call) ==
  [map   |-> Assign(t.map, KeyOf(call), call.value),
   bytes |-> t.bytes + KeySize + (IF call.type = kPut THEN ValueSize ELSE 0),
   log   |-> Append(t.log, call)]

\* What a call writes: the parts of its internal key.
LEMMA CallKey ==
  ASSUME NEW call \in Call
  PROVE  /\ KeyOf(call) \in InternalKey /\ KeyOf(call).user = call.user
         /\ KeyOf(call).trailer = call.seq * 2 + call.type
         /\ TrailerSeq(KeyOf(call).trailer) = call.seq
         /\ TrailerType(KeyOf(call).trailer) = call.type
         /\ call.user \in UserKey /\ call.seq \in Nat /\ call.type \in {kDel, kPut}
         /\ call.value \in Value \cup {"none"}
<1>1. /\ call.user \in UserKey /\ call.seq \in 0 .. SeqLimit - 1 /\ call.type \in {kDel, kPut}
      /\ call.value \in Value \cup {"none"}
  BY MemTableAssumption DEF Call
<1> QED BY <1>1, PackUnpack, MemTableAssumption DEF KeyOf, InternalKey

LEMMA TableParts ==
  ASSUME NEW t \in Table
  PROVE  /\ t.map \in [DOMAIN t.map -> Value \cup {"none"}] /\ DOMAIN t.map \subseteq InternalKey
         /\ t.bytes \in Nat /\ t.log \in Seq(Call)
BY DEF Table

\* A write keeps all this: an overwritten key is counted again, never less.
LEMMA WrittenTable ==
  ASSUME NEW t, TableInv(t), NEW call \in Call
  PROVE  TableInv(Written(t, call))
<1> DEFINE ik == KeyOf(call)
           u  == Written(t, call)
<1>1. /\ t.map \in [DOMAIN t.map -> Value \cup {"none"}] /\ DOMAIN t.map \subseteq InternalKey
      /\ t.bytes \in Nat /\ t.log \in Seq(Call) /\ Logged(t) /\ Covered(t)
  BY TableParts DEF TableInv
<1>2. /\ ik \in InternalKey /\ TrailerType(ik.trailer) = call.type
      /\ call.value \in Value \cup {"none"} /\ call.type \in {kDel, kPut}
  BY CallKey
<1>3. /\ u.map = Assign(t.map, ik, call.value)
      /\ u.bytes = t.bytes + KeySize + (IF call.type = kPut THEN ValueSize ELSE 0)
      /\ u.log = Append(t.log, call)
  BY DEF Written
<1>4. /\ DOMAIN u.map = DOMAIN t.map \cup {ik}
      /\ u.map[ik] = call.value
      /\ \A k \in DOMAIN t.map \ {ik} : u.map[k] = t.map[k]
      /\ u.map \in [DOMAIN u.map -> Value \cup {"none"}]
  BY <1>1, <1>2, <1>3 DEF Assign
<1>5. /\ u.log \in Seq(Call) /\ DOMAIN t.log = 1 .. Len(t.log) /\ Len(t.log) \in Nat
      /\ DOMAIN u.log = 1 .. Len(t.log) + 1 /\ u.log[Len(t.log) + 1] = call
      /\ \A i \in DOMAIN t.log : u.log[i] = t.log[i]
  BY <1>1, <1>3
<1>6. u \in Table
  <2>1. u.map \in UNION {[keys -> Value \cup {"none"}] : keys \in SUBSET InternalKey}
    BY <1>1, <1>2, <1>4
  <2>2. u.bytes \in Nat
    BY <1>1, <1>3, MemTableAssumption
  <2> QED BY <2>1, <2>2, <1>3, <1>5 DEF Table, Written
<1>7. Logged(u)
  <2>1. IsFiniteSet(DOMAIN u.map)
    <3>1. IsFiniteSet(DOMAIN t.map)
      BY <1>1 DEF Logged
    <3>2. IsFiniteSet(DOMAIN t.map \cup {ik})
      BY <3>1, FS_AddElement
    <3> QED BY <3>2, <1>4
  <2>2. \A i \in DOMAIN u.log : KeyOf(u.log[i]) \in DOMAIN u.map
    <3>1. \A i \in DOMAIN u.log : i \in DOMAIN t.log \/ i = Len(t.log) + 1
      BY <1>5
    <3> QED BY <3>1, <1>1, <1>4, <1>5 DEF Logged
  <2>3. ASSUME NEW k \in DOMAIN u.map
        PROVE  \E i \in DOMAIN u.log : LastWrite(u.log, i, k) /\ u.map[k] = u.log[i].value
    <3>1. CASE k = ik
      <4>1. LastWrite(u.log, Len(t.log) + 1, k)
        BY <3>1, <1>5 DEF LastWrite
      <4> QED BY <4>1, <3>1, <1>4, <1>5
    <3>2. CASE k # ik
      <4>1. k \in DOMAIN t.map /\ u.map[k] = t.map[k]
        BY <3>2, <2>3, <1>4
      <4>2. PICK i \in DOMAIN t.log : LastWrite(t.log, i, k) /\ t.map[k] = t.log[i].value
        BY <4>1, <1>1 DEF Logged
      <4>3. i \in DOMAIN u.log /\ u.log[i] = t.log[i]
        BY <1>5
      <4>4. LastWrite(u.log, i, k)
        BY <3>2, <4>2, <4>3, <1>5 DEF LastWrite
      <4> QED BY <4>1, <4>2, <4>3, <4>4
    <3> QED BY <3>1, <3>2
  <2> QED BY <2>1, <2>2, <2>3 DEF Logged
<1>8. Covered(u)
  <2> DEFINE n == Cardinality(DOMAIN t.map)
             p == Cardinality(PutKeys(t))
  <2>1. /\ IsFiniteSet(DOMAIN t.map) /\ n \in Nat
        /\ Cardinality(DOMAIN u.map) \in {n, n + 1}
    <3>1. IsFiniteSet(DOMAIN t.map)
      BY <1>1 DEF Logged
    <3>2. Cardinality(DOMAIN t.map \cup {ik}) \in {n, n + 1}
      BY <3>1, FS_AddElement
    <3> QED BY <3>1, <3>2, <1>4, FS_CardinalityType
  <2>2. /\ IsFiniteSet(PutKeys(t)) /\ p \in Nat
    BY <2>1, FS_Subset, FS_CardinalityType DEF PutKeys
  <2>3. CASE call.type = kPut
    <3>1. PutKeys(u) = PutKeys(t) \cup {ik}
      BY <2>3, <1>2, <1>4 DEF PutKeys
    <3>2. Cardinality(PutKeys(u)) \in {p, p + 1}
      BY <3>1, <2>2, FS_AddElement
    <3>3. /\ \A a \in {n, n + 1} : KeySize * a <= KeySize * n + KeySize /\ KeySize * a \in Nat
          /\ \A b \in {p, p + 1} : /\ ValueSize * b <= ValueSize * p + ValueSize
                                  /\ ValueSize * b \in Nat
      BY <2>1, <2>2, MemTableAssumption
    <3>4. u.bytes = t.bytes + KeySize + ValueSize
      BY <2>3, <1>3
    <3>5. t.bytes >= KeySize * n + ValueSize * p
      BY <1>1 DEF Covered
    <3> HIDE DEF n, p
    <3>6. /\ KeySize * Cardinality(DOMAIN u.map) <= KeySize * n + KeySize
          /\ KeySize * Cardinality(DOMAIN u.map) \in Nat
          /\ ValueSize * Cardinality(PutKeys(u)) <= ValueSize * p + ValueSize
          /\ ValueSize * Cardinality(PutKeys(u)) \in Nat
      BY <2>1, <3>2, <3>3
    <3>7. KeySize * n \in Nat /\ ValueSize * p \in Nat
      BY <3>3
    <3> DEFINE keys == KeySize * Cardinality(DOMAIN u.map)
               puts == ValueSize * Cardinality(PutKeys(u))
               kn == KeySize * n
               vp == ValueSize * p
    <3>8. /\ keys \in Nat /\ puts \in Nat /\ kn \in Nat /\ vp \in Nat
          /\ keys <= kn + KeySize /\ puts <= vp + ValueSize /\ t.bytes >= kn + vp
      BY <3>5, <3>6, <3>7
    <3>9. t.bytes \in Nat /\ KeySize \in Nat /\ ValueSize \in Nat
      BY <1>1, MemTableAssumption
    <3> HIDE DEF keys, puts, kn, vp
    <3>10. u.bytes >= keys + puts
      BY <3>4, <3>8, <3>9
    <3> QED BY <3>10 DEF Covered, keys, puts
  <2>4. CASE call.type = kDel
    <3>1. PutKeys(u) = PutKeys(t)
      BY <2>4, <1>2, <1>4 DEF PutKeys, kDel, kPut
    <3>2. \A a \in {n, n + 1} : KeySize * a <= KeySize * n + KeySize
      BY <2>1, MemTableAssumption
    <3>3. KeySize * n \in Nat /\ ValueSize * p \in Nat
      BY <2>1, <2>2, MemTableAssumption
    <3>4. u.bytes = t.bytes + KeySize
      BY <2>4, <1>3, <1>1, MemTableAssumption DEF kDel, kPut
    <3>5. t.bytes >= KeySize * n + ValueSize * p
      BY <1>1 DEF Covered
    <3>6. KeySize * Cardinality(DOMAIN u.map) <= KeySize * n + KeySize
          /\ KeySize * Cardinality(DOMAIN u.map) \in Nat
      BY <2>1, <3>2, MemTableAssumption
    <3> QED BY <3>1, <3>3, <3>4, <3>5, <3>6, <1>1, MemTableAssumption DEF Covered
  <2> QED BY <2>3, <2>4, <1>2
<1> QED BY <1>6, <1>7, <1>8 DEF TableInv

-----------------------------------------------------------------------------
(* Get answers as the calls say *)

\* The keys of a user key that a snapshot sees.
Seen(t, user, s) == {k \in DOMAIN t.map : k.user = user /\ TrailerSeq(k.trailer) <= s}

\* The first scan meets all of them, and the second scan no other.
LEMMA ScansSeen ==
  ASSUME NEW t \in Table, NEW user \in UserKey, NEW s \in Snapshot
  PROVE  /\ Visible(t.map, user, SeekTrailer(s), s) = Seen(t, user, s)
         /\ Visible(t.map, user, 0, s) \subseteq Seen(t, user, s)
<1>1. \A k \in DOMAIN t.map : k \in InternalKey
  BY TableParts
<1>2. \A k \in Seen(t, user, s) : k.trailer <= SeekTrailer(s)
  BY <1>1, SeekBound DEF Seen, InternalKey
<1>3. SeekTrailer(s) \in Int /\ \A k \in InternalKey : k.trailer \in Int
  <2>1. s \in Nat /\ SeqLimit \in Nat \ {0}
    BY MemTableAssumption
  <2>2. SeekTrailer(s) \in Int
    BY <2>1 DEF SeekTrailer, PackTrailer, kPut
  <2>3. \A k \in InternalKey : k.trailer \in 0 .. 2 * SeqLimit - 1
    BY DEF InternalKey
  <2> QED BY <2>1, <2>2, <2>3
<1>4. \A k \in Seen(t, user, s) : ~Before(k, [user |-> user, trailer |-> SeekTrailer(s)])
  <2> SUFFICES ASSUME NEW k \in Seen(t, user, s)
               PROVE  ~Before(k, [user |-> user, trailer |-> SeekTrailer(s)])
    OBVIOUS
  <2>1. k.user = user /\ k.trailer <= SeekTrailer(s) /\ k.trailer \in Int /\ user \in Int
    BY <1>1, <1>2, <1>3, MemTableAssumption DEF Seen
  <2> QED BY <2>1, <1>3 DEF Before
<1> QED BY <1>4 DEF Visible, AtOrAfter, Seen

\* Among the keys seen one comes first, since trailers are bounded.
LEMMA FirstSeen ==
  ASSUME NEW t \in Table, NEW user \in UserKey, NEW s \in Snapshot, Seen(t, user, s) # {}
  PROVE  /\ First(Seen(t, user, s)) \in Seen(t, user, s)
         /\ \A k \in Seen(t, user, s) \ {First(Seen(t, user, s))} :
              k.trailer < First(Seen(t, user, s)).trailer
<1> DEFINE S  == Seen(t, user, s)
           Tr == {k.trailer : k \in S}
<1>1. \A k \in S : k \in InternalKey /\ k.user = user
  BY TableParts DEF Seen
<1>2. 2 * SeqLimit - 1 \in Nat /\ \A k \in S : k.trailer \in 0 .. 2 * SeqLimit - 1
  BY <1>1, MemTableAssumption DEF InternalKey
<1>3. Tr \subseteq Nat /\ Tr # {} /\ \A n \in Tr : n <= 2 * SeqLimit - 1
  BY <1>2
<1>4. PICK n \in Tr : \A m \in Tr : m <= n
  BY <1>2, <1>3, GreatestNumber
<1>5. PICK k \in S : k.trailer = n
  BY <1>4
<1>6. \A o \in S \ {k} : Before(k, o)
  <2> SUFFICES ASSUME NEW o \in S, o # k PROVE Before(k, o)
    OBVIOUS
  <2>1. o.user = k.user /\ o.trailer <= k.trailer
    BY <1>1, <1>4, <1>5
  <2>2. o.trailer # k.trailer
    BY <1>1, <2>1 DEF InternalKey
  <2> QED BY <1>2, <2>1, <2>2 DEF Before
<1>7. First(S) \in S /\ \A o \in S \ {First(S)} : Before(First(S), o)
  BY <1>6 DEF First
<1>8. \A o \in S \ {First(S)} : o.trailer < First(S).trailer
  <2> SUFFICES ASSUME NEW o \in S \ {First(S)} PROVE o.trailer < First(S).trailer
    OBVIOUS
  <2>1. Before(First(S), o) /\ o.user = First(S).user /\ o.user \in Int
    BY <1>1, <1>7, MemTableAssumption
  <2> QED BY <1>2, <1>7, <2>1 DEF Before
<1> QED BY <1>7, <1>8

\* A read at any snapshot answers what the winning call wrote.
LEMMA GetFromLog ==
  ASSUME NEW t, TableInv(t), NEW user \in UserKey, NEW s \in Snapshot
  PROVE  LET won == Winner(t.log, user, s)
         IN  Get(t.map, user, s) =
               IF won = {} THEN NotFound
               ELSE LET call == t.log[CHOOSE i \in won : TRUE]
                    IN  [type |-> call.type, value |-> call.value]
<1> DEFINE S     == Seen(t, user, s)
           log   == t.log
           won   == Winner(log, user, s)
           calls == {i \in DOMAIN log : log[i].user = user /\ log[i].seq <= s}
           Beats(i, k) == \/ log[i].seq > log[k].seq
                          \/ log[i].seq = log[k].seq /\ log[i].type > log[k].type
                          \/ log[i].seq = log[k].seq /\ log[i].type = log[k].type /\ i > k
<1>1. t \in Table /\ Logged(t) /\ log \in Seq(Call)
  BY TableParts DEF TableInv
<1>2. \A i \in DOMAIN log : log[i] \in Call /\ i \in Nat
  BY <1>1
<1>3. \A i \in calls : KeyOf(log[i]) \in S
  BY <1>1, <1>2, CallKey DEF Logged, Seen
<1>4. won = {i \in calls : \A k \in calls \ {i} : Beats(i, k)}
  BY DEF Winner
<1>5. CASE S = {}
  <2>1. calls = {} /\ won = {}
    BY <1>3, <1>4, <1>5
  <2>2. Get(t.map, user, s) = NotFound
    BY <1>1, <1>5, ScansSeen DEF Get
  <2> QED BY <2>1, <2>2
<1>6. CASE S # {}
  <2> DEFINE f == First(S)
  <2>1. f \in S /\ \A k \in S \ {f} : k.trailer < f.trailer
    BY <1>1, <1>6, FirstSeen
  <2>2. Get(t.map, user, s) = Entry(t.map, f)
    BY <1>1, <1>6, ScansSeen DEF Get
  <2>3. PICK i \in DOMAIN log : LastWrite(log, i, f) /\ t.map[f] = log[i].value
    BY <1>1, <2>1 DEF Logged, Seen
  <2>4. KeyOf(log[i]) = f /\ \A k \in DOMAIN log : KeyOf(log[k]) = f => k <= i
    BY <1>2, <2>3 DEF LastWrite
  <2>5. i \in calls
    BY <1>2, <2>1, <2>4, CallKey DEF Seen
  <2>6. ASSUME NEW k \in calls \ {i} PROVE Beats(i, k) /\ ~Beats(k, i)
    <3>1. /\ log[i].seq \in Int /\ log[k].seq \in Int /\ i \in Nat /\ k \in Nat
          /\ log[i].type \in {0, 1} /\ log[k].type \in {0, 1}
          /\ KeyOf(log[i]).trailer = log[i].seq * 2 + log[i].type
          /\ KeyOf(log[k]).trailer = log[k].seq * 2 + log[k].type
      BY <1>2, <2>6, CallKey DEF kPut, kDel
    <3>2. CASE KeyOf(log[k]) = f
      <4> DEFINE a == log[k].seq
                 b == log[i].seq
                 x == log[k].type
                 y == log[i].type
      <4>1. a \in Int /\ b \in Int /\ x \in {0, 1} /\ y \in {0, 1} /\ a * 2 + x = b * 2 + y
        BY <2>4, <3>1, <3>2
      <4> HIDE DEF a, b, x, y
      <4>2. a = b /\ x = y
        BY <4>1, PackedOnce
      <4> USE DEF a, b, x, y
      <4>3. k < i
        BY <2>4, <2>6, <3>1, <3>2
      <4> QED BY <3>1, <4>2, <4>3
    <3>3. CASE KeyOf(log[k]) # f
      <4>1. KeyOf(log[k]).trailer < f.trailer
        BY <1>3, <2>1, <2>6, <3>3
      <4> QED BY <2>4, <3>1, <4>1
    <3> QED BY <3>2, <3>3
  <2>7. won = {i}
    BY <1>4, <2>5, <2>6
  <2>8. Entry(t.map, f) = [type |-> log[i].type, value |-> log[i].value]
    <3>1. TrailerType(f.trailer) = log[i].type /\ log[i] \in Call
      BY <1>2, <2>4, CallKey
    <3>2. CASE log[i].type = kPut
      BY <2>3, <3>1, <3>2 DEF Entry
    <3>3. CASE log[i].type # kPut
      <4>1. log[i].type = kDel /\ log[i].value = "none"
        BY <3>1, <3>3 DEF Call
      <4> QED BY <3>1, <3>3, <4>1 DEF Entry, Deleted
    <3> QED BY <3>2, <3>3
  <2>9. (CHOOSE x \in won : TRUE) = i
    BY <2>7
  <2>10. log[CHOOSE x \in won : TRUE] = log[i] /\ won # {}
    BY <2>7, <2>9
  <2> HIDE DEF won
  <2>11. Get(t.map, user, s) = IF won = {} THEN NotFound
                              ELSE [type  |-> log[CHOOSE x \in won : TRUE].type,
                                    value |-> log[CHOOSE x \in won : TRUE].value]
    BY <2>2, <2>8, <2>10
  <2> QED BY <2>11 DEF won
<1> QED BY <1>5, <1>6

-----------------------------------------------------------------------------
(* The memtables: every table is what its calls made it *)

MemInv ==
  /\ TableInv(mem)
  /\ frozen \in Seq(Table)
  /\ \A i \in DOMAIN frozen : TableInv(frozen[i])

LEMMA EmptyTable == TableInv(Empty)
<1>1. /\ DOMAIN Empty.map = {} /\ Empty.map = [k \in {} |-> k] /\ Empty.bytes = 0
      /\ Empty.log = << >> /\ DOMAIN Empty.log = {} /\ PutKeys(Empty) = {}
  BY DEF Empty, PutKeys
<1>2. Empty \in Table
  <2>1. Empty.map \in [{} -> Value \cup {"none"}] /\ {} \in SUBSET InternalKey
    BY <1>1
  <2>2. Empty.map \in UNION {[keys -> Value \cup {"none"}] : keys \in SUBSET InternalKey}
    BY <2>1
  <2>3. Empty.bytes \in Nat /\ Empty.log \in Seq(Call)
    BY <1>1
  <2>4. Empty = [map |-> Empty.map, bytes |-> Empty.bytes, log |-> Empty.log]
    BY DEF Empty
  <2> QED BY <2>2, <2>3, <2>4 DEF Table
<1>3. Logged(Empty)
  BY <1>1, FS_EmptySet DEF Logged
<1>4. Covered(Empty)
  <2>1. Cardinality(DOMAIN Empty.map) = 0 /\ Cardinality(PutKeys(Empty)) = 0
    BY <1>1, FS_EmptySet
  <2> QED BY <1>1, <2>1, MemTableAssumption DEF Covered
<1> QED BY <1>2, <1>3, <1>4 DEF TableInv

\* A write adds its call to the live table; a freeze hands that table over.
LEMMA NextMemInv == MemInv /\ [Next]_mvars => MemInv'
<1> SUFFICES ASSUME MemInv, [Next]_mvars PROVE MemInv'
  OBVIOUS
<1>1. ASSUME NEW user \in UserKey, NEW seq \in WriteSeq, Del(user, seq) PROVE MemInv'
  <2> DEFINE call == [user |-> user, seq |-> seq, type |-> kDel, value |-> "none"]
  <2>1. call \in Call
    BY DEF Call
  <2>2. mem.bytes \in Int /\ KeySize \in Int
    BY MemTableAssumption DEF MemInv, TableInv, Table
  <2>3. Written(mem, call).bytes = mem.bytes + KeySize
    BY <2>2 DEF Written, kDel, kPut
  <2>4. /\ mem' = [map |-> Assign(mem.map, KeyOf(call), "none"), bytes |-> mem.bytes + KeySize,
                   log |-> Append(mem.log, call)]
        /\ frozen' = frozen
    BY <1>1 DEF Del, WrittenBytes, KeyOf
  <2>5. mem' = Written(mem, call)
    BY <2>3, <2>4 DEF Written
  <2> QED BY <2>1, <2>4, <2>5, WrittenTable DEF MemInv
<1>2. ASSUME NEW user \in UserKey, NEW seq \in WriteSeq, NEW v \in Value, Put(user, seq, v)
      PROVE  MemInv'
  <2> DEFINE call == [user |-> user, seq |-> seq, type |-> kPut, value |-> v]
  <2>1. call \in Call
    BY DEF Call
  <2>2. mem' = Written(mem, call) /\ frozen' = frozen
    BY <1>2 DEF Put, Written, WrittenBytes, KeyOf
  <2> QED BY <2>1, <2>2, WrittenTable DEF MemInv
<1>3. CASE Freeze
  <2>1. mem' = Empty /\ frozen' = Append(frozen, mem) /\ mem \in Table
    BY <1>3 DEF Freeze, MemInv, TableInv
  <2>2. /\ frozen' \in Seq(Table) /\ DOMAIN frozen = 1 .. Len(frozen)
        /\ DOMAIN frozen' = 1 .. Len(frozen) + 1 /\ Len(frozen) \in Nat
        /\ \A i \in 1 .. Len(frozen) : frozen'[i] = frozen[i]
        /\ frozen'[Len(frozen) + 1] = mem
    BY <2>1 DEF MemInv
  <2>3. \A i \in DOMAIN frozen' : i \in DOMAIN frozen \/ i = Len(frozen) + 1
    BY <2>2
  <2> QED BY <2>1, <2>2, <2>3, EmptyTable DEF MemInv
<1>4. CASE UNCHANGED mvars
  BY <1>4 DEF MemInv, mvars
<1> QED BY <1>1, <1>2, <1>3, <1>4 DEF Next

\* The iterator never writes.
LEMMA ISpecMemInv == ISpec => []MemInv
<1>1. IInit => MemInv
  <2> SUFFICES ASSUME IInit PROVE MemInv
    OBVIOUS
  <2>1. mem = Empty /\ frozen = << >>
    BY DEF IInit, Init
  <2> QED BY <2>1, EmptyTable DEF MemInv
<1>2. MemInv /\ [INext]_allvars => MemInv'
  <2> SUFFICES ASSUME MemInv, [INext]_allvars PROVE MemInv'
    OBVIOUS
  <2>1. [Next]_mvars
    BY DEF INext, Open, SeekToFirst, Seek, Reposition, Advance, allvars
  <2> QED BY <2>1, NextMemInv
<1> QED BY <1>1, <1>2, PTL DEF ISpec

LEMMA EveryTable == MemInv => \A t \in Tables : TableInv(t)
BY DEF MemInv, Tables

\* The maps hold internal keys, and values where a put wrote.
THEOREM MemTypeCorrect == ISpec => []MemTypeOK
<1>1. MemInv => MemTypeOK
  <2> SUFFICES ASSUME MemInv, NEW t \in Tables
               PROVE  /\ DOMAIN t.map \subseteq InternalKey
                      /\ \A k \in DOMAIN t.map :
                           IF TrailerType(k.trailer) = kPut THEN t.map[k] \in Value
                                                           ELSE t.map[k] = "none"
                      /\ t.bytes \in Nat
    BY DEF MemTypeOK
  <2>1. TableInv(t) /\ t \in Table
    BY EveryTable DEF TableInv
  <2> SUFFICES ASSUME NEW k \in DOMAIN t.map
               PROVE  IF TrailerType(k.trailer) = kPut THEN t.map[k] \in Value
                                                       ELSE t.map[k] = "none"
    BY <2>1, TableParts
  <2>2. PICK i \in DOMAIN t.log : KeyOf(t.log[i]) = k /\ t.map[k] = t.log[i].value
    BY <2>1 DEF TableInv, Logged, LastWrite
  <2>3. t.log[i] \in Call
    BY <2>1, TableParts
  <2>4. TrailerType(k.trailer) = t.log[i].type
    BY <2>2, <2>3, CallKey
  <2> QED BY <2>2, <2>3, <2>4 DEF Call, kDel, kPut
<1> QED BY <1>1, ISpecMemInv, PTL

\* At every snapshot a read returns the newest visible entry, in whatever order
\* the writes arrived, from the live table and from every frozen one.
THEOREM GetReturnsNewest == ISpec => []GetIsNewestVisible
<1>1. MemInv => GetIsNewestVisible
  BY EveryTable, GetFromLog DEF GetIsNewestVisible
<1> QED BY <1>1, ISpecMemInv, PTL

\* The size that decides about flushing covers what the map holds.
THEOREM SizeCoversMap == ISpec => []BytesCoverMap
<1>1. MemInv => BytesCoverMap
  BY EveryTable DEF BytesCoverMap, TableInv, Covered, PutKeys
<1> QED BY <1>1, ISpecMemInv, PTL

-----------------------------------------------------------------------------
(* A finite set of keys has one sorted order, the one a child goes through *)

\* Of finitely many keys, one comes after all others.
LEMMA LastKey ==
  ASSUME NEW keys, keys \subseteq InternalKey, IsFiniteSet(keys), keys # {}
  PROVE  \E l \in keys : \A k \in keys \ {l} : Before(k, l)
<1> DEFINE HasLast(S) == \E l \in S : \A k \in S \ {l} : Before(k, l)
           Sizes == {n \in Nat : \A S \in SUBSET InternalKey :
                                   IsFiniteSet(S) /\ Cardinality(S) = n /\ S # {} => HasLast(S)}
<1>1. 0 \in Sizes
  BY FS_EmptySet
<1>2. ASSUME NEW n \in Sizes PROVE n + 1 \in Sizes
  <2> SUFFICES ASSUME NEW S \in SUBSET InternalKey, IsFiniteSet(S), Cardinality(S) = n + 1
               PROVE  S # {} => HasLast(S)
    OBVIOUS
  <2> SUFFICES ASSUME S # {} PROVE HasLast(S)
    OBVIOUS
  <2>1. PICK x \in S : TRUE
    OBVIOUS
  <2>2. IsFiniteSet(S \ {x}) /\ Cardinality(S \ {x}) = n
    <3>1. n \in Nat
      OBVIOUS
    <3> HIDE DEF Sizes
    <3> QED BY <3>1, OneFewer
  <2>3. CASE S \ {x} = {}
    BY <2>1, <2>3
  <2>4. CASE S \ {x} # {}
    <3>1. PICK l \in S \ {x} : \A k \in (S \ {x}) \ {l} : Before(k, l)
      BY <2>2, <2>4
    <3>2. \A a, b \in S : a = b \/ Before(a, b) \/ Before(b, a)
      BY KeysOrdered, InternalKeysOrdered
    <3>3. CASE Before(x, l)
      BY <3>1, <3>3
    <3>4. CASE Before(l, x)
      <4>1. \A k \in S \ {x} : Before(k, x)
        BY <3>1, <3>4, KeysOrdered, InternalKeysOrdered
      <4> QED BY <4>1, <2>1
    <3> QED BY <3>1, <3>2, <3>3, <3>4, <2>1
  <2> QED BY <2>3, <2>4
<1>3. Sizes = Nat
  <2> HIDE DEF HasLast
  <2>1. Sizes \subseteq Nat
    OBVIOUS
  <2> HIDE DEF Sizes
  <2> QED BY <1>1, <1>2, <2>1, AllNumbers
<1>4. Cardinality(keys) \in Sizes
  BY <1>3, FS_CardinalityType
<1> QED BY <1>4

\* Sorted enumerations exist.
LEMMA SortedOrderExists ==
  ASSUME NEW keys, keys \subseteq InternalKey, IsFiniteSet(keys)
  PROVE  SortedOrders(keys) # {}
<1> DEFINE Sizes == {n \in Nat : \A S \in SUBSET InternalKey :
                                   IsFiniteSet(S) /\ Cardinality(S) = n => SortedOrders(S) # {}}
<1>1. 0 \in Sizes
  <2> SUFFICES ASSUME NEW S \in SUBSET InternalKey, IsFiniteSet(S), Cardinality(S) = 0
               PROVE  SortedOrders(S) # {}
    OBVIOUS
  <2>1. S = {}
    BY FS_EmptySet
  <2>2. [i \in {} |-> i] \in Bijection({}, {})
    BY DEF Bijection, Injection, Surjection, IsInjective
  <2>3. 1 .. Cardinality(S) = {}
    OBVIOUS
  <2>4. [i \in {} |-> i] \in SortedOrders(S)
    BY <2>1, <2>2, <2>3 DEF SortedOrders
  <2> QED BY <2>4
<1>2. ASSUME NEW n \in Sizes PROVE n + 1 \in Sizes
  <2> SUFFICES ASSUME NEW S \in SUBSET InternalKey, IsFiniteSet(S), Cardinality(S) = n + 1
               PROVE  SortedOrders(S) # {}
    OBVIOUS
  <2>1. n \in Nat /\ S # {}
    BY FS_EmptySet
  <2>2. PICK l \in S : \A k \in S \ {l} : Before(k, l)
    BY <2>1, LastKey
  <2> DEFINE T == S \ {l}
  <2>3. IsFiniteSet(T) /\ Cardinality(T) = n
    BY <2>1, OneFewer
  <2>4. PICK s \in SortedOrders(T) : TRUE
    BY <2>3
  <2>5. /\ s \in [1 .. n -> T]
        /\ \A a, b \in 1 .. n : s[a] = s[b] => a = b
        /\ \A k \in T : \E a \in 1 .. n : s[a] = k
        /\ \A a, b \in 1 .. n : a < b => Before(s[a], s[b])
    BY <2>3, <2>4 DEF SortedOrders, Bijection, Injection, Surjection, IsInjective
  <2> DEFINE u == [i \in 1 .. n + 1 |-> IF i = n + 1 THEN l ELSE s[i]]
  <2>6. /\ u[n + 1] = l /\ n + 1 \in 1 .. n + 1
        /\ \A a \in 1 .. n : a \in 1 .. n + 1 /\ u[a] = s[a] /\ u[a] \in T /\ a < n + 1
        /\ \A a \in 1 .. n + 1 : a \in 1 .. n \/ a = n + 1
    BY <2>1, <2>5
  <2>7. u \in [1 .. n + 1 -> S]
    BY <2>5, <2>6
  <2>8. \A a, b \in 1 .. n + 1 : u[a] = u[b] => a = b
    BY <2>5, <2>6
  <2>9. \A k \in S : \E a \in 1 .. n + 1 : u[a] = k
    BY <2>5, <2>6
  <2>10. \A a, b \in 1 .. n + 1 : a < b => Before(u[a], u[b])
    <3> SUFFICES ASSUME NEW a \in 1 .. n + 1, NEW b \in 1 .. n + 1, a < b
                 PROVE  Before(u[a], u[b])
      OBVIOUS
    <3>1. a \in 1 .. n
      BY <2>1
    <3>2. CASE b \in 1 .. n
      BY <3>1, <3>2, <2>5, <2>6
    <3>3. CASE b = n + 1
      BY <3>1, <3>3, <2>2, <2>6
    <3> QED BY <2>6, <3>2, <3>3
  <2> HIDE DEF u
  <2>11. u \in SortedOrders(S)
    BY <2>7, <2>8, <2>9, <2>10
       DEF SortedOrders, Bijection, Injection, Surjection, IsInjective
  <2> QED BY <2>11
<1>3. Sizes = Nat
  <2>1. Sizes \subseteq Nat
    OBVIOUS
  <2> HIDE DEF Sizes
  <2> QED BY <1>1, <1>2, <2>1, AllNumbers
<1>4. Cardinality(keys) \in Sizes
  BY <1>3, FS_CardinalityType
<1> QED BY <1>4

-----------------------------------------------------------------------------
(* The inductive invariant of the iterator *)

ChildrenSorted ==
  \A i \in DOMAIN children :
    /\ children[i] \in Seq(InternalKey)
    /\ \A a, b \in DOMAIN children[i] : a < b => Before(KeyAt(i, a), KeyAt(i, b))

\* The heap holds children that stand at a key, and the entry shown is a least one.
Placed(h, p) ==
  h \subseteq DOMAIN children /\ \A i \in h : i \in DOMAIN p /\ p[i] \in DOMAIN children[i]

TopShown ==
  valid => status = "ok" /\ cur[1] \in Top(heap, pos) /\ cur = <<cur[1], pos[cur[1]]>>

InOrder(sh) == \A a, b \in DOMAIN sh : a < b => ~Before(Key(sh[b]), Key(sh[a]))

\* No key shown comes after a key that is still to be shown.
Caught(sh, h, p) == \A a \in DOMAIN sh, i \in h : ~Before(KeyAt(i, p[i]), Key(sh[a]))

ShownInOrder ==
  shown \in Seq(Entries) /\ InOrder(shown) /\ (valid => Caught(shown, heap, pos))

\* As long as the status is OK a child is out of the heap only at its end, what is
\* ahead of the children is wanted, and what was wanted behind them was shown once.
Behind(p)  == {e \in Entries : e[2] < p[e[1]]}

Accounted ==
  (target # << >> /\ status = "ok") =>
    /\ pos \in [DOMAIN children -> Nat \ {0}]
    /\ \A i \in DOMAIN children : pos[i] \in DOMAIN children[i] => i \in heap
    /\ Entries \ Behind(pos) \subseteq Wanted(target)
    /\ IsInjective(shown)
    /\ Range(shown) = (Wanted(target) \cap Behind(pos)) \cup (IF valid THEN {cur} ELSE {})
    /\ ~valid => heap = {}

IterInv ==
  /\ valid \in BOOLEAN
  /\ children = << >> => target = << >>
  /\ valid => target # << >>
  /\ ChildrenSorted
  /\ Placed(heap, pos)
  /\ TopShown
  /\ ShownInOrder
  /\ Accounted

LEMMA EntryKeys ==
  ASSUME ChildrenSorted
  PROVE  /\ \A i \in DOMAIN children : \A p \in DOMAIN children[i] : <<i, p>> \in Entries
         /\ \A e \in Entries : /\ e = <<e[1], e[2]>> /\ e[1] \in DOMAIN children
                               /\ e[2] \in DOMAIN children[e[1]] /\ e[2] \in Nat \ {0}
                               /\ Key(e) \in InternalKey
         /\ \A i \in DOMAIN children : DOMAIN children[i] = 1 .. Len(children[i])
                                       /\ Len(children[i]) \in Nat
<1>1. \A i \in DOMAIN children : DOMAIN children[i] = 1 .. Len(children[i])
                                 /\ Len(children[i]) \in Nat
                                 /\ \A p \in DOMAIN children[i] : children[i][p] \in InternalKey
  BY DEF ChildrenSorted
<1> QED BY <1>1 DEF Entries, Key, KeyAt

\* RebuildTop shows a least key of the heap: it does not come before anything
\* shown so far, nor after anything that is left.
LEMMA ShowKeeps ==
  ASSUME ChildrenSorted, NEW h, NEW p, NEW st, NEW before,
         Placed(h, p), before \in Seq(Entries), InOrder(before), Caught(before, h, p),
         Show(h, p, st, before),
         children' = children, heap' = h, pos' = p, status' = st
  PROVE  /\ valid' \in BOOLEAN /\ TopShown' /\ ShownInOrder'
         /\ \/ valid' /\ cur'[1] \in h /\ cur' = <<cur'[1], p[cur'[1]]>>
               /\ shown' = Append(before, cur')
            \/ ~valid' /\ shown' = before /\ (st = "ok" => h = {})
<1>1. /\ Entries' = Entries /\ \A sh : InOrder(sh)' = InOrder(sh)
      /\ \A sh : Caught(sh, h, p)' = Caught(sh, h, p)
      /\ Top(h, p)' = Top(h, p)
  BY DEF Entries, InOrder, Caught, Top, Key, KeyAt
<1>2. CASE st = "ok" /\ h # {}
  <2>1. PICK i \in Top(h, p) :
          valid' = TRUE /\ cur' = <<i, p[i]>> /\ shown' = Append(before, <<i, p[i]>>)
    BY <1>2 DEF Show
  <2> DEFINE e == <<i, p[i]>>
             n == Len(before)
  <2>2. i \in h /\ e \in Entries /\ Key(e) = KeyAt(i, p[i])
        /\ \A k \in h : ~Before(KeyAt(k, p[k]), Key(e))
    BY <2>1, EntryKeys DEF Top, Placed, Key
  <2>3. /\ shown' \in Seq(Entries) /\ n \in Nat /\ DOMAIN before = 1 .. n
        /\ DOMAIN shown' = 1 .. n + 1 /\ shown'[n + 1] = e
        /\ \A a \in 1 .. n : shown'[a] = before[a]
    BY <2>1, <2>2
  <2>4. InOrder(shown')
    <3> SUFFICES ASSUME NEW a \in 1 .. n + 1, NEW b \in 1 .. n + 1, a < b
                 PROVE  ~Before(Key(shown'[b]), Key(shown'[a]))
      BY <2>3 DEF InOrder
    <3>1. a \in 1 .. n /\ shown'[a] = before[a]
      BY <2>3
    <3>2. CASE b \in 1 .. n
      BY <3>1, <3>2, <2>3 DEF InOrder
    <3>3. CASE b = n + 1
      BY <3>1, <3>3, <2>2, <2>3 DEF Caught
    <3> QED BY <3>2, <3>3, <2>3
  <2>5. Caught(shown', h, p)
    <3> SUFFICES ASSUME NEW a \in 1 .. n + 1, NEW k \in h
                 PROVE  ~Before(KeyAt(k, p[k]), Key(shown'[a]))
      BY <2>3 DEF Caught
    <3>1. CASE a \in 1 .. n
      BY <3>1, <2>3 DEF Caught
    <3>2. CASE a = n + 1
      BY <3>2, <2>2, <2>3
    <3> QED BY <3>1, <3>2, <2>3
  <2>6. InOrder(shown)' /\ Caught(shown, heap, pos)'
    BY <2>4, <2>5 DEF InOrder, Caught, Key, KeyAt
  <2>7. ShownInOrder'
    BY <1>1, <2>3, <2>6 DEF ShownInOrder
  <2>8. TopShown'
    BY <1>1, <1>2, <2>1 DEF TopShown
  <2> QED BY <2>1, <2>2, <2>7, <2>8
<1>3. CASE ~(st = "ok" /\ h # {})
  <2>1. valid' = FALSE /\ shown' = before
    BY <1>3 DEF Show
  <2>2. InOrder(shown)'
    BY <2>1 DEF InOrder, Key, KeyAt
  <2> QED BY <1>1, <1>3, <2>1, <2>2 DEF TopShown, ShownInOrder
<1> QED BY <1>2, <1>3

LEMMA KeysAreNotEmpty == Start # << >> /\ \A ik \in InternalKey : ik # << >>
<1>1. DOMAIN Start = {"user", "trailer"} /\ DOMAIN << >> = {}
  BY DEF Start
<1>2. \A ik \in InternalKey : DOMAIN ik = {"user", "trailer"}
  BY DEF InternalKey
<1> QED BY <1>1, <1>2

\* Repositioning: each child goes to the first of its keys that does not come
\* before the target.
LEMMA RepositionKeeps ==
  ASSUME IterInv, children # << >>, NEW ik, ik # << >>, NEW p \in [DOMAIN children -> Nat \ {0}],
         \A e \in Entries : e[2] < p[e[1]] <=> Before(Key(e), ik),
         Reposition(p, ik)
  PROVE  IterInv'
<1>1. PICK failed \in SUBSET (IF ChildMayFail THEN DOMAIN children ELSE {}) :
        /\ pos' = p /\ status' = SeekStatus(failed) /\ target' = ik
        /\ heap' = {i \in DOMAIN children \ failed : p[i] <= Len(children[i])}
        /\ Show(heap', p, SeekStatus(failed), << >>)
        /\ children' = children
  BY DEF Reposition
<1>2. ChildrenSorted /\ ChildrenSorted'
  BY <1>1 DEF IterInv, ChildrenSorted, KeyAt
<1>3. Placed(heap', p)
  BY <1>1, <1>2, EntryKeys DEF Placed
<1>4. /\ << >> \in Seq(Entries) /\ DOMAIN << >> = {}
      /\ InOrder(<< >>) /\ Caught(<< >>, heap', p)
  BY DEF InOrder, Caught
<1>5. /\ valid' \in BOOLEAN /\ TopShown' /\ ShownInOrder'
      /\ \/ valid' /\ cur'[1] \in heap' /\ cur' = <<cur'[1], p[cur'[1]]>>
            /\ shown' = Append(<< >>, cur')
         \/ ~valid' /\ shown' = << >> /\ (SeekStatus(failed) = "ok" => heap' = {})
  BY <1>1, <1>2, <1>3, <1>4, ShowKeeps
<1>6. Placed(heap, pos)'
  BY <1>1, <1>3 DEF Placed
<1>7. Accounted'
  <2> SUFFICES ASSUME status' = "ok"
               PROVE  /\ \A i \in DOMAIN children : p[i] \in DOMAIN children[i] => i \in heap'
                      /\ Entries \ Behind(p) \subseteq Wanted(ik)
                      /\ IsInjective(shown')
                      /\ Range(shown') = (Wanted(ik) \cap Behind(p))
                                           \cup (IF valid' THEN {cur'} ELSE {})
                      /\ ~valid' => heap' = {}
    BY <1>1 DEF Accounted, Entries, Wanted, Behind, Key, KeyAt
  <2>1. failed = {}
    BY <1>1 DEF SeekStatus
  <2>2. \A i \in DOMAIN children : p[i] \in DOMAIN children[i] => i \in heap'
    BY <1>1, <1>2, <2>1, EntryKeys
  <2>3. Entries \ Behind(p) \subseteq Wanted(ik) /\ Wanted(ik) \cap Behind(p) = {}
    BY DEF Behind, Wanted
  <2>4. IsInjective(shown') /\ Range(shown') = IF valid' THEN {cur'} ELSE {}
    <3>1. CASE valid'
      <4>1. shown' = <<cur'>>
        BY <1>5, <3>1
      <4> QED BY <3>1, <4>1 DEF IsInjective, Range
    <3>2. CASE ~valid'
      BY <1>5, <3>2 DEF IsInjective, Range
    <3> QED BY <3>1, <3>2
  <2>5. ~valid' => heap' = {}
    BY <1>1, <1>5
  <2> QED BY <2>2, <2>3, <2>4, <2>5
<1> QED BY <1>1, <1>2, <1>5, <1>6, <1>7 DEF IterInv

LEMMA SeekToFirstIterInv ==
  ASSUME IterInv, SeekToFirst
  PROVE  IterInv'
<1> DEFINE p == [i \in DOMAIN children |-> 1]
<1>1. p \in [DOMAIN children -> Nat \ {0}] /\ Reposition(p, Start) /\ children # << >>
  BY DEF SeekToFirst
<1>2. \A e \in Entries : e[2] < p[e[1]] <=> Before(Key(e), Start)
  <2> SUFFICES ASSUME NEW e \in Entries PROVE ~(e[2] < p[e[1]]) /\ ~Before(Key(e), Start)
    OBVIOUS
  <2>1. e[1] \in DOMAIN children /\ e[2] \in Nat \ {0} /\ Key(e) \in InternalKey
    BY EntryKeys DEF IterInv
  <2>2. Key(e).user \in Nat /\ Key(e).trailer \in 0 .. 2 * SeqLimit - 1
    BY <2>1, MemTableAssumption DEF InternalKey
  <2> QED BY <2>1, <2>2, MemTableAssumption DEF Before, Start
<1> QED BY <1>1, <1>2, KeysAreNotEmpty, RepositionKeeps

\* The keys of a child that come before a target are its first ones.
LEMMA SeekIterInv ==
  ASSUME IterInv, NEW ik \in Target, Seek(ik)
  PROVE  IterInv'
<1> DEFINE D(i) == {q \in DOMAIN children[i] : Before(KeyAt(i, q), ik)}
           p    == [i \in DOMAIN children |-> 1 + Cardinality(D(i))]
<1>1. ChildrenSorted /\ ik \in OrderedKey /\ Reposition(p, ik) /\ children # << >>
  BY IterAssumption, InternalKeysOrdered DEF IterInv, Seek
<1>2. ASSUME NEW i \in DOMAIN children
      PROVE  Cardinality(D(i)) \in Nat /\ D(i) = 1 .. Cardinality(D(i))
  <2>1. DOMAIN children[i] = 1 .. Len(children[i]) /\ Len(children[i]) \in Nat
    BY <1>1, EntryKeys
  <2>2. \A q \in DOMAIN children[i] : KeyAt(i, q) \in OrderedKey
    BY <1>1, <1>2, InternalKeysOrdered DEF ChildrenSorted, KeyAt
  <2>3. ASSUME NEW q \in D(i), NEW r \in 1 .. Len(children[i]), r < q PROVE r \in D(i)
    <3>1. Before(KeyAt(i, r), KeyAt(i, q)) /\ Before(KeyAt(i, q), ik)
      BY <1>1, <2>1, <2>3 DEF ChildrenSorted
    <3> QED BY <1>1, <2>1, <2>2, <3>1, KeysOrdered
  <2>4. D(i) \subseteq 1 .. Len(children[i])
    BY <2>1
  <2> HIDE DEF D
  <2> QED BY <2>1, <2>3, <2>4, PrefixCounts
<1>3. p \in [DOMAIN children -> Nat \ {0}]
  BY <1>2
<1>4. \A e \in Entries : e[2] < p[e[1]] <=> Before(Key(e), ik)
  <2> SUFFICES ASSUME NEW e \in Entries PROVE e[2] < p[e[1]] <=> Before(Key(e), ik)
    OBVIOUS
  <2>1. e[1] \in DOMAIN children /\ e[2] \in DOMAIN children[e[1]] /\ e[2] \in Nat \ {0}
    BY <1>1, EntryKeys
  <2>2. e[2] < p[e[1]] <=> e[2] \in 1 .. Cardinality(D(e[1]))
    BY <1>2, <2>1
  <2>3. e[2] \in D(e[1]) <=> Before(Key(e), ik)
    BY <2>1 DEF Key
  <2>4. D(e[1]) = 1 .. Cardinality(D(e[1]))
    BY <1>2, <2>1
  <2> HIDE DEF D
  <2> QED BY <2>2, <2>3, <2>4
<1>5. ik # << >>
  BY IterAssumption, KeysAreNotEmpty
<1> HIDE DEF p
<1> QED BY <1>1, <1>3, <1>4, <1>5, RepositionKeeps

\* Next: the entry shown falls behind its child, and nothing else moves.
LEMMA AdvanceIterInv ==
  ASSUME IterInv, Advance
  PROVE  IterInv'
<1> DEFINE i == cur[1]
           p == [pos EXCEPT ![i] = @ + 1]
<1>1. PICK failed \in {FALSE, ChildMayFail} :
        /\ pos' = p /\ heap' = PushBack(heap, i, p, failed)
        /\ status' = (IF failed THEN "failed" ELSE status)
        /\ Show(heap', p, status', shown)
  BY DEF Advance
<1>2. /\ valid /\ children' = children /\ target' = target
      /\ ChildrenSorted /\ Placed(heap, pos) /\ ShownInOrder /\ Accounted
      /\ status = "ok" /\ i \in Top(heap, pos) /\ cur = <<i, pos[i]>>
  BY DEF Advance, IterInv, TopShown
<1>3. ChildrenSorted'
  BY <1>2 DEF ChildrenSorted, KeyAt
<1>4. /\ i \in heap /\ i \in DOMAIN children /\ i \in DOMAIN pos
      /\ pos[i] \in DOMAIN children[i] /\ pos[i] \in Nat \ {0}
      /\ p[i] = pos[i] + 1 /\ DOMAIN p = DOMAIN pos
      /\ \A k \in DOMAIN pos \ {i} : p[k] = pos[k]
      /\ cur \in Entries /\ Key(cur) = KeyAt(i, pos[i])
  <2>1. i \in heap /\ i \in DOMAIN children /\ i \in DOMAIN pos /\ pos[i] \in DOMAIN children[i]
    BY <1>2 DEF Top, Placed
  <2>2. cur \in Entries /\ pos[i] \in Nat \ {0}
    BY <1>2, <2>1, EntryKeys
  <2> QED BY <1>2, <2>1, <2>2 DEF Key
<1> HIDE DEF p
<1>5. heap' \subseteq heap
      /\ (i \in heap' <=> ~failed /\ p[i] \in DOMAIN children[i])
      /\ \A k \in heap \ {i} : k \in heap'
  <2>1. p[i] > Len(children[i]) <=> p[i] \notin DOMAIN children[i]
    BY <1>2, <1>4, EntryKeys
  <2> QED BY <1>1, <1>4, <2>1 DEF PushBack
<1>6. Placed(heap', p)
  BY <1>2, <1>4, <1>5 DEF Placed
<1>7. Caught(shown, heap', p)
  <2> SUFFICES ASSUME NEW a \in DOMAIN shown, NEW k \in heap'
               PROVE  ~Before(KeyAt(k, p[k]), Key(shown[a]))
    BY DEF Caught
  <2>1. ~Before(KeyAt(k, pos[k]), Key(shown[a]))
    BY <1>2, <1>5 DEF ShownInOrder, Caught
  <2>2. CASE k # i
    BY <2>1, <2>2, <1>2, <1>4, <1>5 DEF Placed
  <2>3. CASE k = i
    <3>1. p[i] \in DOMAIN children[i] /\ Before(KeyAt(i, pos[i]), KeyAt(i, p[i]))
      BY <2>3, <1>2, <1>4, <1>5 DEF ChildrenSorted
    <3>2. KeyAt(i, pos[i]) \in OrderedKey /\ KeyAt(i, p[i]) \in OrderedKey
      BY <3>1, <1>2, <1>4, InternalKeysOrdered DEF ChildrenSorted, KeyAt
    <3>3. Key(shown[a]) \in OrderedKey
      BY <1>2, EntryKeys, InternalKeysOrdered DEF ShownInOrder
    <3> QED BY <2>1, <2>3, <3>1, <3>2, <3>3, KeysOrdered
  <2> QED BY <2>2, <2>3
<1>8. /\ valid' \in BOOLEAN /\ TopShown' /\ ShownInOrder'
      /\ \/ valid' /\ cur'[1] \in heap' /\ cur' = <<cur'[1], p[cur'[1]]>>
            /\ shown' = Append(shown, cur')
         \/ ~valid' /\ shown' = shown /\ (status' = "ok" => heap' = {})
  <2>1. shown \in Seq(Entries) /\ InOrder(shown)
    BY <1>2 DEF ShownInOrder
  <2> QED BY <1>1, <1>2, <1>6, <1>7, <2>1, ShowKeeps
<1>9. Placed(heap, pos)'
  BY <1>1, <1>2, <1>6 DEF Placed
<1>10. Accounted'
  <2> SUFFICES ASSUME target # << >>, status' = "ok"
               PROVE  /\ p \in [DOMAIN children -> Nat \ {0}]
                      /\ \A k \in DOMAIN children : p[k] \in DOMAIN children[k] => k \in heap'
                      /\ Entries \ Behind(p) \subseteq Wanted(target)
                      /\ IsInjective(shown')
                      /\ Range(shown') = (Wanted(target) \cap Behind(p))
                                           \cup (IF valid' THEN {cur'} ELSE {})
                      /\ ~valid' => heap' = {}
    BY <1>1, <1>2 DEF Accounted, Entries, Wanted, Behind, Key, KeyAt
  <2>1. ~failed
    BY <1>1
  <2>2. /\ pos \in [DOMAIN children -> Nat \ {0}]
        /\ \A k \in DOMAIN children : pos[k] \in DOMAIN children[k] => k \in heap
        /\ Entries \ Behind(pos) \subseteq Wanted(target)
        /\ IsInjective(shown)
        /\ Range(shown) = (Wanted(target) \cap Behind(pos)) \cup {cur}
    BY <1>2 DEF Accounted
  <2>3. p \in [DOMAIN children -> Nat \ {0}]
    BY <2>2, <1>4 DEF p
  <2>4. \A k \in DOMAIN children : p[k] \in DOMAIN children[k] => k \in heap'
    BY <2>1, <2>2, <1>4, <1>5
  <2>5. Behind(p) = Behind(pos) \cup {cur} /\ cur \notin Behind(pos)
    <3>1. \A e \in Entries : e[1] \in DOMAIN children /\ e[2] \in Nat /\ e = <<e[1], e[2]>>
      BY <1>2, EntryKeys
    <3>2. cur[1] = i /\ cur[2] = pos[i]
      BY <1>2
    <3>3. ASSUME NEW e \in Entries PROVE e[2] < p[e[1]] <=> e[2] < pos[e[1]] \/ e = cur
      <4>1. CASE e[1] = i
        BY <3>1, <3>2, <4>1, <1>4
      <4>2. CASE e[1] # i
        BY <3>1, <3>2, <4>2, <2>2, <1>4
      <4> QED BY <4>1, <4>2
    <3> QED BY <3>2, <3>3, <1>4 DEF Behind
  <2>6. Wanted(target) \cap Behind(p) = Range(shown) /\ Entries \ Behind(p) \subseteq Wanted(target)
    <3>1. cur \in Wanted(target)
      BY <2>2, <2>5, <1>4
    <3> QED BY <2>2, <2>5, <3>1
  <2>7. CASE valid'
    <3>1. cur' \in Entries /\ cur' \notin Behind(p)
      <4>1. cur'[1] \in DOMAIN children /\ p[cur'[1]] \in DOMAIN children[cur'[1]]
        BY <2>7, <1>6, <1>8 DEF Placed
      <4>2. cur' \in Entries
        BY <4>1, <2>7, <1>2, <1>8, EntryKeys
      <4>3. cur'[2] = p[cur'[1]] /\ cur'[2] \in Nat
        BY <4>2, <2>7, <1>2, <1>8, EntryKeys
      <4> QED BY <4>2, <4>3 DEF Behind
    <3>2. cur' \notin Range(shown) /\ shown \in Seq(Entries) /\ IsInjective(shown)
      BY <3>1, <2>2, <2>6, <1>2 DEF ShownInOrder
    <3>3. IsInjective(shown') /\ Range(shown') = Range(shown) \cup {cur'}
      <4>1. IsInjective(Append(shown, cur')) /\ Range(Append(shown, cur')) = Range(shown) \cup {cur'}
        BY <3>1, <3>2, AppendNew
      <4> QED BY <4>1, <2>7, <1>8
    <3> QED BY <2>3, <2>4, <2>6, <2>7, <3>3
  <2>8. CASE ~valid'
    BY <2>2, <2>3, <2>4, <2>6, <2>8, <1>8
  <2> QED BY <2>7, <2>8
<1> QED BY <1>2, <1>3, <1>8, <1>9, <1>10 DEF IterInv

-----------------------------------------------------------------------------
\* Opening gives each child the sorted keys of its memtable; only an iterator
\* that was not opened yet sees the memtables change.
LEMMA NextIterInv == MemInv /\ IterInv /\ [INext]_allvars => IterInv'
<1> SUFFICES ASSUME MemInv, IterInv, [INext]_allvars PROVE IterInv'
  OBVIOUS
<1>1. CASE UNCHANGED ivars
  BY <1>1 DEF ivars, IterInv, ChildrenSorted, Placed, TopShown, Top, ShownInOrder, InOrder,
              Caught, Accounted, Wanted, Behind, Entries, Key, KeyAt
<1>2. CASE Open
  <2>1. /\ DOMAIN children = {} /\ UNCHANGED <<pos, heap, cur, valid, status, target, shown>>
        /\ children' = [i \in DOMAIN frozen |->
                          CHOOSE s \in SortedOrders(DOMAIN frozen[i].map) : TRUE]
    BY <1>2 DEF Open
  <2>2. heap = {} /\ ~valid
    BY <2>1 DEF IterInv, Placed, TopShown, Top
  <2>3. Entries = {} /\ shown = << >>
    <3>1. Entries = {}
      BY <2>1 DEF Entries
    <3>2. shown \in Seq({})
      BY <3>1 DEF IterInv, ShownInOrder
    <3> QED BY <3>1, <3>2
  <2>4. ASSUME NEW i \in DOMAIN frozen
        PROVE  /\ children'[i] \in Seq(InternalKey)
               /\ \A a, b \in DOMAIN children'[i] : a < b => Before(children'[i][a], children'[i][b])
    <3> DEFINE keys == DOMAIN frozen[i].map
    <3>1. keys \subseteq InternalKey /\ IsFiniteSet(keys)
      BY <2>4, TableParts DEF MemInv, TableInv, Logged
    <3>2. children'[i] \in SortedOrders(keys)
      BY <2>1, <3>1, SortedOrderExists
    <3>3. Cardinality(keys) \in Nat
      BY <3>1, FS_CardinalityType
    <3>4. children'[i] \in [1 .. Cardinality(keys) -> InternalKey]
      BY <3>1, <3>2 DEF SortedOrders, Bijection, Injection
    <3> QED BY <3>2, <3>3, <3>4 DEF SortedOrders
  <2>5. ChildrenSorted'
    BY <2>1, <2>4 DEF ChildrenSorted, KeyAt
  <2>6. target = << >>
    BY <1>2 DEF IterInv, Open
  <2>7. (Placed(heap, pos) /\ TopShown /\ ShownInOrder /\ Accounted)'
    BY <2>1, <2>2, <2>3, <2>6 DEF Placed, TopShown, ShownInOrder, InOrder, Accounted
  <2> QED BY <2>1, <2>2, <2>5, <2>6, <2>7 DEF IterInv
<1>3. CASE SeekToFirst
  BY <1>3, SeekToFirstIterInv
<1>4. ASSUME NEW ik \in Target, Seek(ik) PROVE IterInv'
  BY <1>4, SeekIterInv
<1>5. CASE Advance
  BY <1>5, AdvanceIterInv
<1> QED BY <1>1, <1>2, <1>3, <1>4, <1>5 DEF INext, allvars

LEMMA ISpecIterInv == ISpec => []IterInv
<1>1. IInit => IterInv
  <2> SUFFICES ASSUME IInit PROVE IterInv
    OBVIOUS
  <2>1. /\ DOMAIN children = {} /\ heap = {} /\ valid = FALSE /\ shown = << >>
        /\ target = << >> /\ DOMAIN shown = {}
    BY DEF IInit
  <2>2. ChildrenSorted /\ Placed(heap, pos) /\ TopShown /\ Accounted
    BY <2>1 DEF ChildrenSorted, Placed, TopShown, Accounted
  <2>3. ShownInOrder
    <3>1. shown \in Seq(Entries)
      BY <2>1
    <3> QED BY <2>1, <3>1 DEF ShownInOrder, InOrder
  <2> QED BY <2>1, <2>2, <2>3 DEF IterInv
<1> QED BY <1>1, NextIterInv, ISpecMemInv, PTL DEF ISpec

\* The merge keeps the global order, whatever memtables the versions are in,
\* whichever child is taken of two with equal keys, and whatever fails.
THEOREM MergeKeepsOrder == ISpec => []MergedInOrder
<1>1. IterInv => MergedInOrder
  BY DEF IterInv, ShownInOrder, InOrder, MergedInOrder, Key
<1> QED BY <1>1, ISpecIterInv, PTL

\* A scan with an OK status shows every entry from its target on, once; one that
\* lost a child does not end with an OK status.
THEOREM MergeSkipsNothing == ISpec => []NothingSkipped
<1>1. IterInv => NothingSkipped
  <2> SUFFICES ASSUME IterInv, target # << >>, status = "ok" PROVE NothingSkipped
    BY DEF NothingSkipped
  <2> DEFINE ahead == {e \in Wanted(target) : e[1] \in heap /\ e[2] >= pos[e[1]]}
  <2>1. /\ pos \in [DOMAIN children -> Nat \ {0}]
        /\ \A i \in DOMAIN children : pos[i] \in DOMAIN children[i] => i \in heap
        /\ Entries \ Behind(pos) \subseteq Wanted(target)
        /\ IsInjective(shown)
        /\ Range(shown) = (Wanted(target) \cap Behind(pos)) \cup (IF valid THEN {cur} ELSE {})
        /\ ~valid => heap = {}
    BY DEF IterInv, Accounted
  <2>2. ChildrenSorted /\ Placed(heap, pos) /\ TopShown
    BY DEF IterInv
  <2>3. /\ \A e \in Entries : /\ e[1] \in DOMAIN children /\ e[2] \in 1 .. Len(children[e[1]])
                              /\ Len(children[e[1]]) \in Nat /\ pos[e[1]] \in Nat \ {0}
                              /\ e = <<e[1], e[2]>>
        /\ \A i \in DOMAIN children : DOMAIN children[i] = 1 .. Len(children[i])
    BY <2>1, <2>2, EntryKeys
  <2>4. \A e \in Entries : e[2] >= pos[e[1]] => e[1] \in heap
    <3> SUFFICES ASSUME NEW e \in Entries, e[2] >= pos[e[1]] PROVE e[1] \in heap
      OBVIOUS
    <3>1. pos[e[1]] \in 1 .. Len(children[e[1]])
      BY <2>3
    <3> QED BY <2>1, <2>3, <3>1
  <2>5. ahead = Wanted(target) \ Behind(pos)
    <3>1. \A e \in Entries : e[2] >= pos[e[1]] <=> e \notin Behind(pos)
      BY <2>3 DEF Behind
    <3> QED BY <2>4, <3>1 DEF Wanted
  <2>6. valid => cur \in Wanted(target) \ Behind(pos)
    <3> SUFFICES ASSUME valid PROVE cur \in Wanted(target) \ Behind(pos)
      OBVIOUS
    <3>1. cur = <<cur[1], pos[cur[1]]>> /\ cur[1] \in heap
      BY <2>2 DEF TopShown, Top
    <3>2. cur \in Entries
      BY <2>2, <3>1, EntryKeys DEF Placed
    <3>3. cur \notin Behind(pos)
      BY <2>3, <3>1, <3>2 DEF Behind
    <3> QED BY <2>1, <3>2, <3>3
  <2>7. Range(shown) \cup ahead = Wanted(target) /\ (~valid => ahead = {})
    BY <2>1, <2>5, <2>6
  <2> QED BY <2>1, <2>7 DEF NothingSkipped
<1> QED BY <1>1, ISpecIterInv, PTL

-----------------------------------------------------------------------------
(* The merge implements the iterator interface *)

\* What is known of the entry shown after a step that leaves the children in place.
LEMMA ShownIsLeast ==
  ASSUME IterInv', UNCHANGED children, valid'
  PROVE  /\ status' = "ok" /\ cur' \in Entries \ Behind(pos')
         /\ Range(shown') = (Wanted(target') \cap Behind(pos')) \cup {cur'}
         /\ Entries \ Behind(pos') \subseteq Wanted(target')
         /\ \A e \in Entries \ Behind(pos') : ~Before(Key(e), Key(cur'))
<1>1. /\ Entries' = Entries /\ \A i, p : KeyAt(i, p)' = KeyAt(i, p)
      /\ \A e : Key(e)' = Key(e)
      /\ \A ik : Wanted(ik)' = Wanted(ik)
      /\ \A p : Behind(p)' = Behind(p)
  BY DEF Entries, KeyAt, Key, Wanted, Behind
<1>2. ChildrenSorted
  BY <1>1 DEF IterInv, ChildrenSorted
<1>3. /\ status' = "ok" /\ target' # << >> /\ cur' = <<cur'[1], pos'[cur'[1]]>>
      /\ cur'[1] \in heap' /\ \A j \in heap' : ~Before(KeyAt(j, pos'[j]), KeyAt(cur'[1], pos'[cur'[1]]))
  BY <1>1 DEF IterInv, TopShown, Top
<1>4. /\ heap' \subseteq DOMAIN children /\ \A i \in heap' : pos'[i] \in DOMAIN children[i]
  BY DEF IterInv, Placed
<1>5. /\ pos' \in [DOMAIN children -> Nat \ {0}]
      /\ \A i \in DOMAIN children : pos'[i] \in DOMAIN children[i] => i \in heap'
      /\ Entries' \ Behind(pos)' \subseteq Wanted(target)'
      /\ Range(shown)' = (Wanted(target)' \cap Behind(pos)') \cup {cur'}
  BY <1>3 DEF IterInv, Accounted
<1>6. /\ Entries \ Behind(pos') \subseteq Wanted(target')
      /\ Range(shown') = (Wanted(target') \cap Behind(pos')) \cup {cur'}
  BY <1>5 DEF Entries, KeyAt, Key, Wanted, Behind, Range
<1>7. cur' \in Entries \ Behind(pos')
  BY <1>2, <1>3, <1>4, <1>5, EntryKeys DEF Behind
<1>8. ASSUME NEW e \in Entries \ Behind(pos')
      PROVE  ~Before(Key(e), Key(cur'))
  <2> DEFINE i == e[1]
             k == KeyAt(i, pos'[i])
  <2>1. /\ i \in DOMAIN children /\ e[2] \in DOMAIN children[i] /\ e[2] \in Nat
        /\ DOMAIN children[i] = 1 .. Len(children[i]) /\ pos'[i] \in Nat \ {0} /\ pos'[i] <= e[2]
    BY <1>2, <1>5, <1>8, EntryKeys DEF Behind
  <2>2. pos'[i] \in DOMAIN children[i] /\ i \in heap'
    BY <1>2, <1>5, <2>1, EntryKeys
  <2>3. k = Key(e) \/ Before(k, Key(e))
    BY <1>2, <2>1, <2>2 DEF ChildrenSorted, Key
  <2>4. k = Key(<<i, pos'[i]>>) /\ <<i, pos'[i]>> \in Entries
    BY <1>2, <2>1, <2>2, EntryKeys DEF Key
  <2>5. k \in OrderedKey /\ Key(e) \in OrderedKey /\ Key(cur') \in OrderedKey
    BY <1>2, <1>7, <2>4, EntryKeys, InternalKeysOrdered
  <2>6. ~Before(k, Key(cur'))
    BY <1>3, <2>2 DEF Key
  <2> HIDE DEF k
  <2> QED BY <2>3, <2>5, <2>6, KeysOrdered
<1> QED BY <1>3, <1>6, <1>7, <1>8

\* A step that goes to a least of some entries, and has the others ahead.
LEMMA PositionOf ==
  ASSUME UNCHANGED children, NEW S, S \subseteq Entries, valid' \in BOOLEAN,
         valid' => /\ status' = "ok" /\ cur' \in S /\ \A e \in S : ~Before(Key(e), Key(cur'))
                   /\ Wanted(target') \ Range(shown') = S \ {cur'},
         ~valid' => status' # "ok" \/ S = {}
  PROVE  Contract!Position(S)
<1> DEFINE keys == [e \in Entries |-> Key(e)]
<1>1. UNCHANGED keys
  BY DEF Entries, Key, KeyAt
<1>2. Wanted(target)' = Wanted(target') /\ Range(shown)' = Range(shown')
  BY DEF Wanted, Entries, Key, KeyAt, Range
<1>3. Contract!Least(S) = {e \in S : \A other \in S : ~Before(keys[other], keys[e])}
  BY DEF Contract!Least
<1>4. \A e \in S : keys[e] = Key(e)
  OBVIOUS
<1> HIDE DEF keys
<1>5. CASE valid'
  <2>1. cur' \in Contract!Least(S)
    BY <1>3, <1>4, <1>5
  <2>2. Contract!ShowLeast(S)
    BY <1>2, <1>5, <2>1 DEF Contract!ShowLeast
  <2> QED BY <1>1, <2>2 DEF Contract!Position, keys
<1>6. CASE ~valid' /\ status' # "ok"
  <2>1. Contract!Fail
    BY <1>6 DEF Contract!Fail
  <2> QED BY <1>1, <2>1 DEF Contract!Position, keys
<1>7. CASE ~valid' /\ status' = "ok"
  <2>1. S = {} /\ Contract!ShowLeast(S)
    BY <1>7 DEF Contract!ShowLeast
  <2> QED BY <1>1, <2>1 DEF Contract!Position, keys
<1> QED BY <1>5, <1>6, <1>7

\* A scan that ends with an OK status has shown what was wanted.
LEMMA NothingLeft ==
  ASSUME IterInv', UNCHANGED children, ~valid', status' = "ok", target' # << >>
  PROVE  Wanted(target') = Range(shown')
<1>1. /\ Entries' = Entries /\ Wanted(target)' = Wanted(target') /\ Behind(pos)' = Behind(pos')
      /\ Range(shown)' = Range(shown')
  BY DEF Entries, KeyAt, Key, Wanted, Behind, Range
<1>2. ChildrenSorted
  BY DEF IterInv, ChildrenSorted, KeyAt
<1>3. /\ pos' \in [DOMAIN children -> Nat \ {0}]
      /\ \A i \in DOMAIN children : pos'[i] \notin DOMAIN children[i]
      /\ Range(shown') = Wanted(target') \cap Behind(pos')
  BY <1>1 DEF IterInv, Accounted
<1>4. Entries \subseteq Behind(pos')
  <2> SUFFICES ASSUME NEW e \in Entries PROVE e[2] < pos'[e[1]]
    BY DEF Behind
  <2>1. e[1] \in DOMAIN children /\ DOMAIN children[e[1]] = 1 .. Len(children[e[1]])
        /\ e[2] \in DOMAIN children[e[1]] /\ Len(children[e[1]]) \in Nat
    BY <1>2, EntryKeys
  <2> QED BY <1>3, <2>1
<1> QED BY <1>3, <1>4 DEF Wanted

LEMMA RepositionRefines ==
  ASSUME IterInv', NEW ik, ik # << >>, NEW p, Reposition(p, ik)
  PROVE  Contract!Position(Wanted(ik))
<1>1. /\ UNCHANGED children /\ target' = ik /\ valid' \in BOOLEAN
      /\ IF valid' THEN shown' = Append(<< >>, cur') ELSE shown' = << >>
  BY DEF Reposition, Show
<1>2. CASE valid'
  <2>1. Range(shown') = {cur'}
    BY <1>1, <1>2 DEF Range
  <2>2. /\ status' = "ok" /\ cur' \in Entries \ Behind(pos')
        /\ Range(shown') = (Wanted(ik) \cap Behind(pos')) \cup {cur'}
        /\ Entries \ Behind(pos') \subseteq Wanted(ik)
        /\ \A e \in Entries \ Behind(pos') : ~Before(Key(e), Key(cur'))
    BY <1>1, <1>2, ShownIsLeast
  <2>3. cur' \in Wanted(ik) /\ \A e \in Wanted(ik) : ~Before(Key(e), Key(cur'))
    BY <2>1, <2>2 DEF Wanted
  <2>4. Wanted(ik) \ Range(shown') = Wanted(ik) \ {cur'} /\ Wanted(ik) \subseteq Entries
    BY <2>1 DEF Wanted
  <2> QED BY <1>1, <1>2, <2>2, <2>3, <2>4, PositionOf
<1>3. CASE ~valid'
  <2>1. status' = "ok" => Wanted(ik) = {}
    <3>1. Range(<< >>) = {}
      BY DEF Range
    <3> QED BY <1>1, <1>3, <3>1, NothingLeft
  <2>2. Wanted(ik) \subseteq Entries
    BY DEF Wanted
  <2> QED BY <1>1, <1>3, <2>1, <2>2, PositionOf
<1> QED BY <1>1, <1>2, <1>3

LEMMA AdvanceRefines ==
  ASSUME IterInv, IterInv', Advance
  PROVE  Contract!Advance
<1> DEFINE left == Wanted(target) \ Range(shown)
<1>1. /\ UNCHANGED <<children, target>> /\ valid /\ valid' \in BOOLEAN /\ target # << >>
      /\ IF valid' THEN shown' = Append(shown, cur') ELSE shown' = shown
  BY DEF Advance, Show, IterInv
<1>2. shown \in Seq(Entries) /\ left \subseteq Entries
  BY DEF IterInv, ShownInOrder, Wanted
<1>3. Contract!Position(left)
  <2>1. CASE valid'
    <3>1. /\ status' = "ok" /\ cur' \in Entries \ Behind(pos')
          /\ Range(shown') = (Wanted(target) \cap Behind(pos')) \cup {cur'}
          /\ Entries \ Behind(pos') \subseteq Wanted(target)
          /\ \A e \in Entries \ Behind(pos') : ~Before(Key(e), Key(cur'))
      BY <1>1, <2>1, ShownIsLeast
    <3> DEFINE n == Len(shown)
    <3>2. /\ n \in Nat /\ DOMAIN shown = 1 .. n /\ DOMAIN shown' = 1 .. n + 1
          /\ shown'[n + 1] = cur' /\ \A a \in 1 .. n : shown'[a] = shown[a]
          /\ n + 1 \in 1 .. n + 1 /\ \A a \in 1 .. n : a \in 1 .. n + 1 /\ a # n + 1
      BY <1>1, <1>2, <2>1
    <3>3. Range(shown') = Range(shown) \cup {cur'} /\ cur' \notin Range(shown)
      <4>1. IsInjective(shown')
        BY <1>1, <3>1 DEF IterInv, Accounted
      <4>2. cur' \notin Range(shown)
        BY <3>2, <4>1 DEF IsInjective, Range
      <4>3. \A a \in 1 .. n + 1 : a \in 1 .. n \/ a = n + 1
        BY <3>2
      <4> HIDE DEF n
      <4> QED BY <3>2, <4>2, <4>3 DEF Range
    <3>4. cur' \in left /\ left \ {cur'} = Wanted(target) \ Range(shown')
      BY <3>1, <3>3
    <3>5. \A e \in left : ~Before(Key(e), Key(cur'))
      BY <1>2, <3>1, <3>3
    <3> HIDE DEF left
    <3> QED BY <1>1, <1>2, <2>1, <3>1, <3>4, <3>5, PositionOf
  <2>2. CASE ~valid'
    <3>1. status' = "ok" => left = {}
      BY <1>1, <2>2, NothingLeft
    <3> HIDE DEF left
    <3> QED BY <1>1, <1>2, <2>2, <3>1, PositionOf
  <2> QED BY <1>1, <2>1, <2>2
<1> QED BY <1>1, <1>3 DEF Contract!Advance

LEMMA NothingBeforeStart == ChildrenSorted => Wanted(Start) = Entries
<1> SUFFICES ASSUME ChildrenSorted, NEW e \in Entries PROVE ~Before(Key(e), Start)
  BY DEF Wanted
<1>1. Key(e).user \in Nat /\ Key(e).trailer \in 0 .. 2 * SeqLimit - 1
  BY EntryKeys, MemTableAssumption DEF InternalKey
<1> QED BY <1>1, MemTableAssumption DEF Before, Start

\* MergingIterator is an Iterator (iter/merging_iter.h:8) in the sense of that module,
\* for any number of children and of keys in each, whichever of them fail and when.
THEOREM MergeIsIterator == ISpec => ImplementsIterator
<1>1. IInit => Contract!Init
  <2> SUFFICES ASSUME IInit PROVE Contract!Init
    OBVIOUS
  <2>1. Entries = {}
    BY DEF IInit, Entries
  <2> QED BY <2>1 DEF IInit, Contract!Init, Contract!HasKeys
<1>2. IterInv /\ IterInv' /\ [INext]_allvars => [Contract!Next]_(Contract!cvars)
  <2> SUFFICES ASSUME IterInv, IterInv', [INext]_allvars PROVE [Contract!Next]_(Contract!cvars)
    OBVIOUS
  <2>1. CASE UNCHANGED ivars
    BY <2>1 DEF ivars, Contract!cvars, Entries, Wanted, Key, KeyAt, Range
  <2>2. CASE Open
    <3>1. children = << >> /\ ~valid /\ UNCHANGED <<valid, status>>
      BY <2>2 DEF Open, IterInv
    <3>2. Entries = {}
      BY <3>1 DEF Entries
    <3>3. \A e \in Entries' : Key(e)' \in InternalKey
      BY DEF IterInv, ChildrenSorted, Entries, Key, KeyAt
    <3>4. Contract!Open
      BY <3>1, <3>2, <3>3 DEF Contract!Open, Contract!HasKeys
    <3> QED BY <3>4 DEF Contract!Next
  <2>3. CASE SeekToFirst
    <3>1. Contract!Position(Wanted(Start))
      BY <2>3, KeysAreNotEmpty, RepositionRefines DEF SeekToFirst
    <3>2. Contract!SeekToFirst
      BY <3>1, NothingBeforeStart DEF IterInv, Contract!SeekToFirst
    <3> QED BY <3>2 DEF Contract!Next
  <2>4. ASSUME NEW ik \in Target, Seek(ik) PROVE Contract!Seek(ik)
    <3>1. Contract!Position(Wanted(ik))
      BY <2>4, KeysAreNotEmpty, IterAssumption, RepositionRefines DEF Seek
    <3>2. Wanted(ik) = {e \in DOMAIN [e \in Entries |-> Key(e)] :
                          ~Before([e1 \in Entries |-> Key(e1)][e], ik)}
      BY DEF Wanted
    <3> QED BY <3>1, <3>2 DEF Contract!Seek
  <2>5. CASE Advance
    BY <2>5, AdvanceRefines DEF Contract!Next
  <2> QED BY <2>1, <2>2, <2>3, <2>4, <2>5 DEF INext, allvars, Contract!Next
<1> QED BY <1>1, <1>2, ISpecIterInv, PTL DEF ISpec, ImplementsIterator, Contract!Spec

=============================================================================
