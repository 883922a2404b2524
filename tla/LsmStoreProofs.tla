--------------------------- MODULE LsmStoreProofs ---------------------------
(***************************************************************************)
(* Theorems about LsmStore, for any keys, threshold and bounds: no write   *)
(* vanishes from a running process, however its flushes end; the MANIFEST  *)
(* and the published version agree but for the step between the rename and *)
(* Publish; the tables they name stay whole, and one file at most is left  *)
(* behind.                                                                 *)
(***************************************************************************)
EXTENDS LsmStore, DataLemmas

\* The memtables of a list are those before the last, and the last.
LEMMA RangeFront ==
  ASSUME NEW S, NEW s \in Seq(S), s # << >>
  PROVE  /\ Front(s) \in Seq(S)
         /\ Range(s) = Range(Front(s)) \cup {Last(s)}
<1>1. Len(s) \in Nat \ {0}
  OBVIOUS
<1>2. /\ Front(s) \in Seq(S) /\ Len(Front(s)) = Len(s) - 1
      /\ \A i \in 1 .. Len(s) - 1 : Front(s)[i] = s[i]
  <2> DEFINE n == Len(s) - 1
  <2>1. n \in Nat /\ \A i \in 1 .. n : s[i] \in S
    BY <1>1
  <2>2. Front(s) = SubSeq(s, 1, n)
    BY DEF Front
  <2> HIDE DEF n
  <2>3. /\ Front(s) \in Seq(S)
        /\ Len(Front(s)) = IF 1 <= n THEN n - 1 + 1 ELSE 0
        /\ \A i \in 1 .. n - 1 + 1 : Front(s)[i] = s[1 + i - 1]
    <3>1. 1 \in Int /\ n \in Int
      BY <2>1
    <3>2. /\ SubSeq(s, 1, n) \in Seq(S)
          /\ Len(SubSeq(s, 1, n)) = IF 1 <= n THEN n - 1 + 1 ELSE 0
          /\ \A i \in 1 .. n - 1 + 1 : SubSeq(s, 1, n)[i] = s[1 + i - 1]
      BY <3>1, <2>1, SubSeqProperties
    <3> QED BY <3>2, <2>2, Zenon
  <2>4. n - 1 + 1 = n /\ (~ (1 <= n) => n = 0) /\ \A i \in 1 .. n : 1 + i - 1 = i
    BY <2>1
  <2>5. Len(Front(s)) = n /\ \A i \in 1 .. n : Front(s)[i] = s[i]
    BY <2>3, <2>4, Zenon
  <2> QED BY <2>3, <2>5 DEF n
<1>3. Range(s) = {s[i] : i \in 1 .. Len(s)}
  BY RangeEquality DEF Range
<1>4. Range(Front(s)) = {Front(s)[i] : i \in 1 .. Len(s) - 1}
  BY <1>2, RangeEquality DEF Range
<1>5. 1 .. Len(s) = (1 .. Len(s) - 1) \cup {Len(s)}
  BY <1>1
<1> QED BY <1>2, <1>3, <1>4, <1>5 DEF Last

\* A frozen memtable joins the list.
LEMMA RangeAppend ==
  ASSUME NEW S, NEW s \in Seq(S), NEW x
  PROVE  /\ Append(s, x) \in Seq(S \cup {x})
         /\ Range(Append(s, x)) = Range(s) \cup {x}
         /\ Append(s, x) # << >>
<1>1. s \in Seq(S \cup {x})
  <2>1. s \in [1 .. Len(s) -> S \cup {x}]
    OBVIOUS
  <2> QED BY <2>1, SeqDef
<1>2. /\ Append(s, x) \in Seq(S \cup {x}) /\ Len(Append(s, x)) = Len(s) + 1 /\ Len(s) \in Nat
      /\ \A i \in 1 .. Len(s) : Append(s, x)[i] = s[i]
      /\ Append(s, x)[Len(s) + 1] = x
  BY <1>1
<1>3. Range(s) = {s[i] : i \in 1 .. Len(s)}
  BY RangeEquality DEF Range
<1>4. Range(Append(s, x)) = {Append(s, x)[i] : i \in 1 .. Len(s) + 1}
  BY <1>2, RangeEquality DEF Range
<1>5. 1 .. Len(s) + 1 = (1 .. Len(s)) \cup {Len(s) + 1}
  BY <1>2
<1> QED BY <1>2, <1>3, <1>4, <1>5

-----------------------------------------------------------------------------
(* The inductive invariant *)

\* What the edit of a flush in progress will publish is the memtable that will be
\* dropped for it, the last one; no edit takes a file away.
EditKeepsWrites ==
  /\ after \in {"open", "replayed"}
  /\ \E S : immutables \in Seq(S)
  /\ pc = "flush" => immutables # << >>
  /\ pc \in {"log", "rename", "publish"} =>
       /\ edit.del_l0 = {}
       /\ after = "open" =>
            immutables # << >> /\ \E f \in edit.add_l0 : f.writes = Last(immutables)

\* A process that is not up has accepted nothing.
NothingBefore == ~Up \/ pc \in {"recovered"} => acked = {}

StoreInv == EditKeepsWrites /\ NothingBefore /\ NoWriteVanishes

\* Applying an edit that takes no file away keeps the writes of the version.
LEMMA ApplyKeeps ==
  ASSUME NEW v, NEW e, e.del_l0 = {}
  PROVE  WritesIn(Apply(v, e).l0) = WritesIn(v.l0) \cup WritesIn(e.add_l0)
<1>1. Apply(v, e).l0 = v.l0 \cup e.add_l0
  BY DEF Apply
<1> QED BY <1>1 DEF WritesIn

LEMMA InitStoreInv == Init => StoreInv
<1> SUFFICES ASSUME Init PROVE StoreInv
  OBVIOUS
<1>1. << >> \in Seq({})
  OBVIOUS
<1> QED BY <1>1 DEF Init, StoreInv, EditKeepsWrites, NothingBefore, NoWriteVanishes, Up

\* A new process has nothing to lose.
LEMMA FreshStoreInv ==
  ASSUME Fresh, pc' = "down"
  PROVE  StoreInv'
<1>1. << >> \in Seq({})
  OBVIOUS
<1> QED BY <1>1 DEF Fresh, StoreInv, EditKeepsWrites, NothingBefore, NoWriteVanishes, Up

\* Publishing a flush drops the memtable whose writes the new version has.
LEMMA PublishStoreInv ==
  ASSUME StoreInv, Publish
  PROVE  StoreInv'
<1>1. /\ version' = Apply(version, edit) /\ pc = "publish" /\ pc' = after
      /\ UNCHANGED <<mem, acked, edit, after>>
      /\ immutables' = IF after = "open" THEN Front(immutables) ELSE immutables
  BY DEF Publish
<1>2. edit.del_l0 = {} /\ acked \subseteq mem \cup Frozen \cup WritesIn(version.l0)
  BY <1>1 DEF StoreInv, EditKeepsWrites, NoWriteVanishes, Up
<1>3. WritesIn(version'.l0) = WritesIn(version.l0) \cup WritesIn(edit.add_l0)
  BY <1>1, <1>2, ApplyKeeps
<1>4. Frozen \subseteq Frozen' \cup WritesIn(edit.add_l0) /\ \E S : immutables' \in Seq(S)
  <2>1. PICK S : immutables \in Seq(S)
    BY DEF StoreInv, EditKeepsWrites
  <2>2. CASE after = "open"
    <3>1. immutables # << >> /\ immutables' = Front(immutables)
      BY <2>2, <1>1 DEF StoreInv, EditKeepsWrites
    <3>2. PICK f \in edit.add_l0 : f.writes = Last(immutables)
      BY <2>2, <1>1 DEF StoreInv, EditKeepsWrites
    <3>3. Range(immutables) = Range(immutables') \cup {f.writes} /\ immutables' \in Seq(S)
      BY <2>1, <3>1, <3>2, RangeFront
    <3> QED BY <3>2, <3>3 DEF Frozen, WritesIn
  <2>3. CASE after # "open"
    BY <2>1, <2>3, <1>1 DEF Frozen
  <2> QED BY <2>2, <2>3
<1>5. NoWriteVanishes'
  BY <1>1, <1>2, <1>3, <1>4 DEF NoWriteVanishes
<1>6. EditKeepsWrites' /\ NothingBefore'
  BY <1>1, <1>4 DEF StoreInv, EditKeepsWrites, NothingBefore, Up
<1> QED BY <1>5, <1>6 DEF StoreInv

\* Opening: nothing is accepted before the WAL is replayed, and what it holds is
\* then in the memtable.
LEMMA OpenStoreInv ==
  ASSUME StoreInv,
         CreateManifest \/ AppendInitial \/ AppendInitialFails \/ RecoverManifest
           \/ ReplayWal \/ TruncateWal
  PROVE  StoreInv'
<1>1. CASE CreateManifest \/ AppendInitial \/ AppendInitialFails \/ RecoverManifest
  <2>1. /\ pc \in {"down", "created"} /\ acked = {} /\ UNCHANGED <<acked, immutables, after>>
        /\ pc' \in {"down", "created", "recovered", "refused"}
    BY <1>1 DEF StoreInv, NothingBefore, Up,
                CreateManifest, AppendInitial, AppendInitialFails, RecoverManifest
  <2> QED BY <2>1 DEF StoreInv, EditKeepsWrites, NothingBefore, NoWriteVanishes
<1>2. CASE ReplayWal
  <2>1. pc = "recovered" /\ acked = {} /\ UNCHANGED <<immutables, version>>
    BY <1>2 DEF StoreInv, NothingBefore, ReplayWal
  <2>2. CASE pc' = "log"
    <3>1. mem' = acked' /\ edit'.del_l0 = {} /\ after' = "replayed"
      BY <1>2, <2>2 DEF ReplayWal, NoEdit
    <3> QED BY <2>1, <2>2, <3>1 DEF StoreInv, EditKeepsWrites, NothingBefore, NoWriteVanishes, Up
  <2>3. CASE pc' \in {"replayed", "refused"} /\ UNCHANGED <<acked, after>>
    BY <2>1, <2>3 DEF StoreInv, EditKeepsWrites, NothingBefore, NoWriteVanishes, Up
  <2> QED BY <1>2, <2>2, <2>3 DEF ReplayWal
<1>3. CASE TruncateWal
  BY <1>3 DEF TruncateWal, StoreInv, EditKeepsWrites, NothingBefore, NoWriteVanishes, Up, Frozen
<1> QED BY <1>1, <1>2, <1>3

\* Logging: until the version is published, whatever fails leaves the memtables.
LEMMA LogStoreInv ==
  ASSUME StoreInv, WriteTemp \/ WriteTempAlone \/ RenameTemp \/ LogFails
  PROVE  StoreInv'
<1>1. CASE WriteTemp \/ WriteTempAlone \/ RenameTemp
  BY <1>1 DEF WriteTemp, WriteTempAlone, WriteRecords, RenameTemp, StoreInv, EditKeepsWrites, NothingBefore, NoWriteVanishes, Up, Frozen
<1>2. CASE LogFails
  <2>1. CASE after = "open"
    BY <1>2, <2>1
       DEF LogFails, LogError, StoreInv, EditKeepsWrites, NothingBefore, NoWriteVanishes, Up, Frozen
  <2>2. CASE after # "open"
    BY <1>2, <2>2, FreshStoreInv DEF LogFails, LogError
  <2> QED BY <2>1, <2>2
<1> QED BY <1>1, <1>2

\* Writing and flushing: a write is in the memtable, the memtable becomes the last
\* immutable one, and stays that when the flush fails.
LEMMA WriteStoreInv ==
  ASSUME StoreInv, (\E key \in UserKey : Put(key) \/ Del(key)) \/ MaybeFlush \/ WriteTable \/ FlushFails
  PROVE  StoreInv'
<1>1. ASSUME NEW key \in UserKey, Put(key) \/ Del(key) PROVE StoreInv'
  <2>1. /\ pc = "open" /\ pc' = "written"
        /\ acked' \ acked \subseteq mem' /\ mem \subseteq mem'
        /\ UNCHANGED <<version, immutables, after>>
    BY <1>1 DEF Put, Del, Write
  <2> QED BY <2>1 DEF StoreInv, EditKeepsWrites, NothingBefore, NoWriteVanishes, Up, Frozen
<1>2. CASE MaybeFlush
  <2>1. pc = "written" /\ UNCHANGED <<version, acked, after>>
    BY <1>2 DEF MaybeFlush
  <2>2. CASE UNCHANGED <<mem, immutables>> /\ pc' = "open"
    BY <2>1, <2>2 DEF StoreInv, EditKeepsWrites, NothingBefore, NoWriteVanishes, Up, Frozen
  <2>3. CASE immutables' = Append(immutables, mem) /\ pc' = "flush"
    <3>1. PICK S : immutables \in Seq(S)
      BY DEF StoreInv, EditKeepsWrites
    <3>2. /\ immutables' \in Seq(S \cup {mem}) /\ immutables' # << >>
          /\ Range(immutables') = Range(immutables) \cup {mem}
      BY <2>3, <3>1, RangeAppend
    <3>3. Frozen' = Frozen \cup mem
      BY <3>2 DEF Frozen
    <3>4. NoWriteVanishes'
      BY <2>1, <2>3, <3>3 DEF StoreInv, NoWriteVanishes, Up
    <3> QED BY <2>1, <2>3, <3>2, <3>4 DEF StoreInv, EditKeepsWrites, NothingBefore, Up
  <2> QED BY <1>2, <2>2, <2>3 DEF MaybeFlush
<1>3. CASE WriteTable
  <2>1. /\ pc = "flush" /\ pc' = "log" /\ after' = "open"
        /\ edit'.del_l0 = {} /\ \E f \in edit'.add_l0 : f.writes = Last(immutables)
        /\ UNCHANGED <<version, mem, immutables, acked>>
    BY <1>3 DEF WriteTable, FileMeta
  <2> QED BY <2>1 DEF StoreInv, EditKeepsWrites, NothingBefore, NoWriteVanishes, Up, Frozen
<1>4. CASE FlushFails
  BY <1>4 DEF FlushFails, FlushError, StoreInv, EditKeepsWrites, NothingBefore, NoWriteVanishes, Up, Frozen
<1> QED BY <1>1, <1>2, <1>3, <1>4

LEMMA NextStoreInv == StoreInv /\ [Next]_svars => StoreInv'
<1> SUFFICES ASSUME StoreInv, [Next]_svars PROVE StoreInv'
  OBVIOUS
<1>1. CASE UNCHANGED svars
  BY <1>1 DEF svars, disk, log, StoreInv, EditKeepsWrites, NothingBefore, NoWriteVanishes, Up, Frozen
<1>2. CASE CreateManifest \/ AppendInitial \/ AppendInitialFails \/ RecoverManifest
            \/ ReplayWal \/ TruncateWal
  BY <1>2, OpenStoreInv
<1>3. CASE WriteTemp \/ WriteTempAlone \/ RenameTemp \/ LogFails
  BY <1>3, LogStoreInv
<1>4. CASE Publish
  BY <1>4, PublishStoreInv
<1>5. CASE (\E key \in UserKey : Put(key) \/ Del(key)) \/ MaybeFlush \/ WriteTable \/ FlushFails
  BY <1>5, WriteStoreInv
<1>6. CASE Crash \/ Close \/ OpenFails
  BY <1>6, FreshStoreInv DEF Crash, Close, OpenFails
<1> QED BY <1>1, <1>2, <1>3, <1>4, <1>5, <1>6 DEF Next

-----------------------------------------------------------------------------
\* A write that the process replayed or accepted is in the memtable, an immutable
\* one or a published table, whatever call of a flush or of the log fails.
THEOREM WritesStay == Spec => []NoWriteVanishes
<1>1. StoreInv => NoWriteVanishes
  BY DEF StoreInv
<1> QED BY <1>1, InitStoreInv, NextStoreInv, PTL DEF Spec

-----------------------------------------------------------------------------
(* What the records of a MANIFEST describe *)

\* The versions after each record, and what makes a function that.
UpTo(records) ==
  CHOOSE f : f = [i \in 0 .. Len(records) |->
                    IF i = 0 THEN NewVersion ELSE Apply(f[i - 1], records[i].edit)]

Versions(f, records, n) ==
  f = [i \in 0 .. n |-> IF i = 0 THEN NewVersion ELSE Apply(f[i - 1], records[i].edit)]

LEMMA VersionsExist ==
  ASSUME NEW records, NEW n \in Nat
  PROVE  \E f : Versions(f, records, n)
<1> DEFINE S == {k \in Nat : \E f : Versions(f, records, k)}
<1>1. 0 \in S
  <2>1. Versions([i \in 0 .. 0 |-> NewVersion], records, 0)
    <3> DEFINE f == [i \in 0 .. 0 |-> NewVersion]
    <3>1. \A i \in 0 .. 0 : i = 0
      OBVIOUS
    <3> QED BY <3>1 DEF Versions
  <2> QED BY <2>1
<1>2. \A k \in S : k + 1 \in S
  <2> SUFFICES ASSUME NEW k \in Nat, NEW f, Versions(f, records, k)
               PROVE  \E g : Versions(g, records, k + 1)
    OBVIOUS
  <2> DEFINE g == [i \in 0 .. k + 1 |-> IF i = k + 1 THEN Apply(f[k], records[k + 1].edit) ELSE f[i]]
  <2>1. \A i \in 0 .. k : f[i] = IF i = 0 THEN NewVersion ELSE Apply(f[i - 1], records[i].edit)
    BY DEF Versions
  <2>2. \A i \in 0 .. k + 1 : g[i] = IF i = 0 THEN NewVersion ELSE Apply(g[i - 1], records[i].edit)
    <3> SUFFICES ASSUME NEW i \in 0 .. k + 1
                 PROVE  g[i] = IF i = 0 THEN NewVersion ELSE Apply(g[i - 1], records[i].edit)
      OBVIOUS
    <3>1. CASE i = k + 1
      <4>1. i # 0 /\ i - 1 = k /\ k \in 0 .. k + 1 /\ k # k + 1
        BY <3>1
      <4>2. g[k] = f[k] /\ g[i] = Apply(f[k], records[k + 1].edit)
        BY <3>1, <4>1
      <4> QED BY <3>1, <4>1, <4>2
    <3>2. CASE i = 0
      BY <2>1, <3>2
    <3>3. CASE i # 0 /\ i # k + 1
      <4>1. i \in 0 .. k /\ i - 1 \in 0 .. k + 1 /\ i - 1 # k + 1
        BY <3>3
      <4>2. g[i] = f[i] /\ g[i - 1] = f[i - 1]
        BY <3>3, <4>1
      <4> QED BY <2>1, <3>3, <4>1, <4>2
    <3> QED BY <3>1, <3>2, <3>3
  <2>3. g = [i \in 0 .. k + 1 |-> g[i]]
    OBVIOUS
  <2> HIDE DEF g
  <2>4. g = [i \in 0 .. k + 1 |-> IF i = 0 THEN NewVersion ELSE Apply(g[i - 1], records[i].edit)]
    BY <2>2, <2>3, Zenon
  <2> QED BY <2>4 DEF Versions
<1> HIDE DEF S
<1>3. S \subseteq Nat
  BY DEF S
<1>4. S = Nat
  BY <1>1, <1>2, <1>3, AllNumbers
<1> QED BY <1>4 DEF S

LEMMA UpToIsVersions ==
  ASSUME NEW records, Len(records) \in Nat
  PROVE  /\ Replayed(records) = UpTo(records)[Len(records)]
         /\ \A i \in 0 .. Len(records) :
              UpTo(records)[i] = IF i = 0 THEN NewVersion
                                 ELSE Apply(UpTo(records)[i - 1], records[i].edit)
<1>1. \E f : Versions(f, records, Len(records))
  BY VersionsExist
<1>2. Versions(UpTo(records), records, Len(records))
  BY <1>1 DEF Versions, UpTo
<1>3. Replayed(records) = UpTo(records)[Len(records)]
  BY DEF Replayed, UpTo
<1> DEFINE f == UpTo(records)
<1> HIDE DEF f
<1>4. f = [i \in 0 .. Len(records) |-> IF i = 0 THEN NewVersion ELSE Apply(f[i - 1], records[i].edit)]
  BY <1>2 DEF Versions, f
<1>5. \A i \in 0 .. Len(records) : f[i] = IF i = 0 THEN NewVersion ELSE Apply(f[i - 1], records[i].edit)
  BY <1>4, Zenon
<1> QED BY <1>3, <1>5 DEF f

\* Without records it is a new version, with one more the edit of that is applied.
LEMMA ReplayedNone == Replayed(<< >>) = NewVersion
<1>1. Len(<< >>) = 0 /\ 0 \in 0 .. 0 /\ 0 \in Nat
  OBVIOUS
<1> QED BY <1>1, UpToIsVersions

LEMMA ReplayedAppend ==
  ASSUME NEW R, NEW records \in Seq(R), NEW r
  PROVE  Replayed(Append(records, r)) = Apply(Replayed(records), r.edit)
<1> DEFINE more == Append(records, r)
           n == Len(records)
<1>1. n \in Nat /\ Len(more) = n + 1 /\ more[n + 1] = r /\ \A i \in 1 .. n : more[i] = records[i]
  <2>1. records \in Seq(R \cup {r})
    <3>1. records \in [1 .. Len(records) -> R \cup {r}]
      OBVIOUS
    <3> QED BY <3>1, SeqDef
  <2> QED BY <2>1
<1> HIDE DEF more, n
<1>2. /\ Replayed(more) = UpTo(more)[n + 1]
      /\ \A i \in 0 .. n + 1 :
           UpTo(more)[i] = IF i = 0 THEN NewVersion ELSE Apply(UpTo(more)[i - 1], more[i].edit)
  <2>1. Len(more) \in Nat
    BY <1>1
  <2>2. /\ Replayed(more) = UpTo(more)[Len(more)]
        /\ \A i \in 0 .. Len(more) :
             UpTo(more)[i] = IF i = 0 THEN NewVersion ELSE Apply(UpTo(more)[i - 1], more[i].edit)
    BY <2>1, UpToIsVersions
  <2> QED BY <2>2, <1>1
<1>3. /\ Replayed(records) = UpTo(records)[n]
      /\ \A i \in 0 .. n :
           UpTo(records)[i] = IF i = 0 THEN NewVersion ELSE Apply(UpTo(records)[i - 1], records[i].edit)
  BY <1>1, UpToIsVersions DEF n
<1> DEFINE S == {k \in Nat : k <= n => UpTo(more)[k] = UpTo(records)[k]}
<1>4. 0 \in S
  <2>1. 0 \in 0 .. n /\ 0 \in 0 .. n + 1
    BY <1>1
  <2> QED BY <2>1, <1>2, <1>3
<1>5. \A k \in S : k + 1 \in S
  <2> SUFFICES ASSUME NEW k \in S, k + 1 <= n
               PROVE  UpTo(more)[k + 1] = UpTo(records)[k + 1]
    OBVIOUS
  <2>1. /\ k + 1 \in 0 .. n /\ k + 1 \in 0 .. n + 1 /\ k + 1 # 0 /\ (k + 1) - 1 = k
        /\ k + 1 \in 1 .. n /\ k <= n
    BY <1>1
  <2>2. UpTo(more)[k] = UpTo(records)[k] /\ more[k + 1] = records[k + 1]
    BY <2>1, <1>1
  <2>3. UpTo(more)[k + 1] = Apply(UpTo(more)[k], more[k + 1].edit)
    BY <2>1, <1>2
  <2>4. UpTo(records)[k + 1] = Apply(UpTo(records)[k], records[k + 1].edit)
    BY <2>1, <1>3
  <2> QED BY <2>2, <2>3, <2>4
<1>6. S \subseteq Nat
  OBVIOUS
<1> HIDE DEF S
<1>7. S = Nat
  BY <1>4, <1>5, <1>6, AllNumbers
<1>8. UpTo(more)[n] = UpTo(records)[n]
  BY <1>1, <1>7 DEF S
<1>9. n + 1 \in 0 .. n + 1 /\ n + 1 # 0 /\ (n + 1) - 1 = n
  BY <1>1
<1>10. UpTo(more)[n + 1] = Apply(UpTo(more)[n], more[n + 1].edit)
  BY <1>2, <1>9
<1> QED BY <1>1, <1>2, <1>3, <1>8, <1>10 DEF more

\* The one record of a new MANIFEST.
LEMMA ReplayedOne ==
  ASSUME NEW r
  PROVE  Replayed(<<r>>) = Apply(NewVersion, r.edit)
<1>1. << >> \in Seq({}) /\ <<r>> = Append(<< >>, r)
  OBVIOUS
<1>2. Replayed(<<r>>) = Apply(Replayed(<< >>), r.edit)
  BY <1>1, ReplayedAppend
<1> QED BY <1>2, ReplayedNone

-----------------------------------------------------------------------------
(* The MANIFEST, the published version and the tables *)

Logged == Replayed(manifest.records)

IsVersion(v) ==
  /\ v = [last_sequence |-> v.last_sequence, next_file_number |-> v.next_file_number, l0 |-> v.l0]
  /\ v.next_file_number \in Nat
  /\ \A f \in v.l0 : f.number \in Nat

\* There is a MANIFEST once a process runs, without records until the first.
RecordsKept ==
  /\ manifest = [exists |-> manifest.exists, records |-> manifest.records, torn |-> manifest.torn]
  /\ \E S : manifest.records \in Seq(S)
  /\ pc # "down" => manifest.exists
  /\ ~manifest.exists \/ pc = "created" => manifest.records = << >>

\* A number is listed, dropped from the MANIFEST, or not used yet.
NumbersUsed ==
  /\ IsVersion(Logged) /\ IsVersion(version)
  /\ forgotten \subseteq Nat
  /\ Numbers(Listed) \cap forgotten = {}

\* Until the log has been renamed, the edit is of the WAL's last sequence number, or
\* of the table that was just written under the next number.
EditOfFlush ==
  \/ edit.add_l0 = {} /\ edit.next_file_number = version.next_file_number
  \/ \E w : /\ edit.add_l0 = {FileMeta(version.next_file_number, w)}
            /\ edit.next_file_number = version.next_file_number + 1
            /\ version.next_file_number \in DOMAIN tables
            /\ tables[version.next_file_number] = [writes |-> w, whole |-> TRUE]

EditFits ==
  /\ after \in {"open", "replayed"}
  /\ pc \in {"log", "rename", "publish"} =>
       /\ edit.del_l0 = {} /\ edit.next_file_number \in Nat
       /\ \A f \in edit.add_l0 : f.number \in Nat
  /\ pc \in {"log", "rename"} => EditOfFlush
  /\ pc = "rename" => temp \in {Append(manifest.records, Record(edit)), <<Record(edit)>>}

ManifestInv ==
  /\ RecordsKept /\ NumbersUsed /\ EditFits
  /\ ManifestIsVersion /\ ListedTablesWhole /\ OneOrphan

LEMMA NewIsVersion == IsVersion(NewVersion) /\ NewVersion.l0 = {} /\ NewVersion.next_file_number = 1
BY DEF IsVersion, NewVersion

LEMMA AppliedIsVersion ==
  ASSUME NEW v, NEW e, IsVersion(v), e.del_l0 = {}, e.next_file_number \in Nat,
         \A f \in e.add_l0 : f.number \in Nat
  PROVE  /\ IsVersion(Apply(v, e))
         /\ Apply(v, e) = [last_sequence |-> e.last_sequence,
                           next_file_number |-> e.next_file_number, l0 |-> v.l0 \cup e.add_l0]
BY DEF Apply, IsVersion

\* The initial record describes what no record does.
LEMMA ReplayedInitial == Replayed(<<Record(NoEdit)>>) = NewVersion
<1>1. Replayed(<<Record(NoEdit)>>) = Apply(NewVersion, NoEdit)
  BY ReplayedOne DEF Record
<1> QED BY <1>1 DEF Apply, NewVersion, NoEdit

LEMMA InitManifestInv == Init => ManifestInv
<1> SUFFICES ASSUME Init PROVE ManifestInv
  OBVIOUS
<1>1. manifest.records = << >> /\ << >> \in Seq({}) /\ ~manifest.exists
  BY DEF Init, NoFile
<1>2. Replayed(manifest.records) = NewVersion
  BY <1>1, ReplayedNone
<1>3. RecordsKept
  BY <1>1 DEF Init, RecordsKept, NoFile
<1>4. NumbersUsed
  BY <1>2, NewIsVersion DEF Init, NumbersUsed, Logged, Listed, Numbers
<1>5. EditFits /\ ManifestIsVersion
  BY DEF Init, EditFits, ManifestIsVersion, Up
<1>6. ListedTablesWhole /\ OneOrphan
  <2>1. Listed = {} /\ forgotten = {} /\ DOMAIN tables = {} /\ Numbers(Listed) = {}
    BY <1>2, NewIsVersion DEF Init, Listed, Numbers
  <2> QED BY <2>1 DEF ListedTablesWhole, OneOrphan
<1> QED BY <1>3, <1>4, <1>5, <1>6 DEF ManifestInv

\* What a step that leaves the log and the tables alone keeps.
LEMMA SameLog ==
  ASSUME ManifestInv, Logged' = Logged, forgotten' = forgotten, tables' = tables
  PROVE  /\ ListedTablesWhole' /\ OneOrphan'
         /\ IsVersion(Logged)' /\ forgotten' \subseteq Nat /\ (Numbers(Listed) \cap forgotten = {})'
BY DEF ManifestInv, ListedTablesWhole, OneOrphan, NumbersUsed, Logged, Listed

\* A new process has published nothing.
LEMMA FreshManifestInv ==
  ASSUME ManifestInv, Fresh, pc' = "down", Logged' = Logged, RecordsKept',
         forgotten' = forgotten, tables' = tables
  PROVE  ManifestInv'
<1>1. NumbersUsed'
  BY SameLog, NewIsVersion DEF Fresh, NumbersUsed
<1>2. EditFits' /\ ManifestIsVersion'
  BY DEF Fresh, EditFits, ManifestIsVersion, Up
<1> QED BY <1>1, <1>2, SameLog DEF ManifestInv

\* A step within a process that leaves the log, the tables and what is published.
LEMMA SameVersion ==
  ASSUME ManifestInv, UNCHANGED <<manifest, tables, forgotten, version>>,
         Up, Up', pc # "publish", pc' # "publish"
  PROVE  /\ RecordsKept' /\ NumbersUsed' /\ ManifestIsVersion' /\ ListedTablesWhole' /\ OneOrphan'
         /\ version.next_file_number = Logged.next_file_number
<1>1. Logged' = Logged
  BY DEF Logged
<1>2. ListedTablesWhole' /\ OneOrphan' /\ NumbersUsed'
  BY <1>1, SameLog DEF ManifestInv, NumbersUsed
<1>3. ManifestIsVersion'
  BY DEF ManifestInv, ManifestIsVersion
<1>4. RecordsKept'
  BY DEF ManifestInv, RecordsKept, Up
<1>5. version.next_file_number = Logged.next_file_number
  <2>1. Logged = [version EXCEPT !.l0 = {f \in @ : f.number \notin forgotten}]
    BY DEF ManifestInv, ManifestIsVersion, Logged
  <2>2. IsVersion(version)
    BY DEF ManifestInv, NumbersUsed
  <2> QED BY <2>1, <2>2 DEF IsVersion
<1> QED BY <1>2, <1>3, <1>4, <1>5

\* Opening: what is published is what was replayed, and the initial record says
\* nothing new.
LEMMA OpenManifestInv ==
  ASSUME ManifestInv,
         CreateManifest \/ AppendInitial \/ AppendInitialFails \/ RecoverManifest
           \/ ReplayWal \/ TruncateWal
  PROVE  ManifestInv'
<1>1. CASE CreateManifest
  <2>1. manifest'.records = manifest.records /\ manifest'.exists /\ pc' = "created"
    BY <1>1 DEF CreateManifest, EmptyFile, ManifestInv, RecordsKept
  <2>2. Logged' = Logged /\ UNCHANGED <<forgotten, tables, version, after>>
    BY <1>1, <2>1 DEF CreateManifest, Logged, log
  <2>3. RecordsKept'
    BY <1>1, <2>1 DEF CreateManifest, ManifestInv, RecordsKept, EmptyFile
  <2>4. NumbersUsed' /\ EditFits' /\ ManifestIsVersion'
    BY <2>1, <2>2, SameLog DEF ManifestInv, NumbersUsed, EditFits, ManifestIsVersion, Up
  <2> QED BY <2>2, <2>3, <2>4, SameLog DEF ManifestInv
<1>2. CASE AppendInitial \/ AppendInitialFails
  <2>1. /\ manifest.records = << >> /\ manifest.exists /\ manifest'.exists
        /\ manifest'.records \in {manifest.records, <<Record(NoEdit)>>}
        /\ manifest' = [exists |-> manifest'.exists, records |-> manifest'.records, torn |-> manifest'.torn]
        /\ pc' \in {"down", "recovered"}
        /\ pc' = "recovered" => version' = NewVersion
        /\ UNCHANGED <<forgotten, tables, after>>
        /\ version' \in {version, NewVersion}
    <3>1. /\ manifest.records = << >> /\ manifest.exists
          /\ manifest = [exists |-> manifest.exists, records |-> manifest.records, torn |-> manifest.torn]
      BY <1>2 DEF AppendInitial, AppendInitialFails, ManifestInv, RecordsKept
    <3>2. CASE AppendInitial
      BY <3>1, <3>2 DEF AppendInitial, log
    <3>3. CASE AppendInitialFails
      BY <3>1, <3>3 DEF AppendInitialFails, log
    <3> QED BY <1>2, <3>2, <3>3
  <2>2. Logged = NewVersion /\ Logged' = NewVersion
    BY <2>1, ReplayedNone, ReplayedInitial DEF Logged
  <2>3. RecordsKept'
    <3>1. \E S : manifest'.records \in Seq(S)
      <4>1. <<Record(NoEdit)>> \in Seq({Record(NoEdit)}) /\ << >> \in Seq({})
        OBVIOUS
      <4> QED BY <2>1, <4>1
    <3> QED BY <2>1, <3>1 DEF RecordsKept
  <2>4. NumbersUsed'
    <3>1. IsVersion(version)'
      <4>1. IsVersion(version) /\ IsVersion(NewVersion)
        BY NewIsVersion DEF ManifestInv, NumbersUsed
      <4>2. CASE version' = version
        BY <4>1, <4>2 DEF IsVersion
      <4>3. CASE version' = NewVersion
        BY <4>1, <4>3 DEF IsVersion
      <4> QED BY <2>1, <4>2, <4>3
    <3> QED BY <2>1, <2>2, <3>1, SameLog DEF NumbersUsed
  <2>5. EditFits'
    BY <2>1 DEF ManifestInv, EditFits
  <2>6. ManifestIsVersion'
    <3>1. NewVersion = [NewVersion EXCEPT !.l0 = {f \in @ : f.number \notin forgotten'}]
      BY DEF NewVersion
    <3>2. CASE pc' = "recovered"
      BY <2>1, <2>2, <3>1, <3>2 DEF ManifestIsVersion, Logged
    <3>3. CASE pc' = "down"
      BY <3>3 DEF ManifestIsVersion, Up
    <3> QED BY <2>1, <3>2, <3>3
  <2> QED BY <2>1, <2>2, <2>3, <2>4, <2>5, <2>6, SameLog DEF ManifestInv
<1>3. CASE RecoverManifest
  <2>1. /\ pc = "down" /\ manifest.exists /\ pc' \in {"recovered", "refused"}
        /\ UNCHANGED <<manifest, tables, forgotten, after>>
        /\ version' \in {version, Logged}
        /\ pc' = "recovered" => version' = Logged
    BY <1>3 DEF RecoverManifest, disk, log, Logged
  <2>2. Logged' = Logged
    BY <2>1 DEF Logged
  <2>3. RecordsKept' /\ EditFits'
    BY <2>1 DEF ManifestInv, RecordsKept, EditFits
  <2>4. NumbersUsed'
    <3>1. IsVersion(version)'
      <4>1. CASE version' = version
        BY <4>1 DEF ManifestInv, NumbersUsed, IsVersion
      <4>2. CASE version' = Logged
        BY <4>2 DEF ManifestInv, NumbersUsed, IsVersion
      <4> QED BY <2>1, <4>1, <4>2
    <3> QED BY <2>1, <2>2, <3>1, SameLog DEF NumbersUsed
  <2>5. ManifestIsVersion'
    <3>1. CASE pc' = "recovered"
      <4>1. {f \in Logged.l0 : f.number \notin forgotten} = Logged.l0
        BY DEF ManifestInv, NumbersUsed, Numbers, Listed, Logged
      <4>2. Logged = [Logged EXCEPT !.l0 = {f \in @ : f.number \notin forgotten}]
        BY <4>1 DEF ManifestInv, NumbersUsed, IsVersion
      <4>3. version' = Logged /\ forgotten' = forgotten
        BY <2>1, <3>1
      <4> QED BY <2>2, <3>1, <4>2, <4>3 DEF ManifestIsVersion, Logged
    <3>2. CASE pc' = "refused"
      BY <3>2 DEF ManifestIsVersion, Up
    <3> QED BY <2>1, <3>1, <3>2
  <2> QED BY <2>1, <2>2, <2>3, <2>4, <2>5, SameLog DEF ManifestInv
<1>4. CASE ReplayWal
  <2>1. /\ pc = "recovered" /\ UNCHANGED <<manifest, tables, forgotten, version>>
        /\ \/ pc' \in {"replayed", "refused"} /\ after' = after
           \/ /\ pc' = "log" /\ after' = "replayed"
              /\ edit'.del_l0 = {} /\ edit'.add_l0 = {}
              /\ edit'.next_file_number = version.next_file_number
    BY <1>4 DEF ReplayWal, disk, log, NoEdit
  <2>2. EditFits'
    BY <2>1 DEF ManifestInv, EditFits, EditOfFlush, NumbersUsed, IsVersion
  <2>3. CASE pc' = "refused"
    <3>1. Logged' = Logged
      BY <2>1 DEF Logged
    <3>2. RecordsKept' /\ NumbersUsed' /\ ManifestIsVersion'
      BY <2>1, <2>3, <3>1, SameLog DEF ManifestInv, RecordsKept, NumbersUsed, ManifestIsVersion, Up
    <3> QED BY <2>1, <2>2, <3>1, <3>2, SameLog DEF ManifestInv
  <2>4. CASE pc' # "refused"
    <3>1. Up /\ Up' /\ pc # "publish" /\ pc' # "publish"
      BY <2>1, <2>4 DEF Up
    <3> QED BY <2>1, <2>2, <3>1, SameVersion DEF ManifestInv
  <2> QED BY <2>3, <2>4
<1>5. CASE TruncateWal
  <2>1. /\ pc = "replayed" /\ pc' = "open" /\ UNCHANGED <<manifest, tables, forgotten, version, after>>
    BY <1>5 DEF TruncateWal, log
  <2>2. EditFits' /\ Up /\ Up'
    BY <2>1 DEF ManifestInv, EditFits, Up
  <2> QED BY <2>1, <2>2, SameVersion DEF ManifestInv
<1> QED BY <1>1, <1>2, <1>3, <1>4, <1>5

\* Writing the records of the new log to the other file.
LEMMA WriteTempManifestInv ==
  ASSUME ManifestInv, WriteTemp \/ WriteTempAlone
  PROVE  ManifestInv'
<1>1. /\ pc = "log" /\ pc' = "rename" /\ UNCHANGED <<manifest, tables, forgotten, version, edit, after>>
      /\ temp' \in {Append(manifest.records, Record(edit)), <<Record(edit)>>}
  BY DEF WriteTemp, WriteTempAlone, WriteRecords, disk
<1>2. EditFits'
  BY <1>1 DEF ManifestInv, EditFits, EditOfFlush
<1>3. Up /\ Up'
  BY <1>1 DEF Up
<1> QED BY <1>1, <1>2, <1>3, SameVersion DEF ManifestInv

\* A log that fails leaves the version as it was, or the process ends.
LEMMA LogFailsManifestInv ==
  ASSUME ManifestInv, LogFails
  PROVE  ManifestInv'
<1>1. pc \in {"log", "rename"} /\ UNCHANGED <<manifest, tables, forgotten>>
  BY DEF LogFails, LogError, disk
<1>2. CASE after = "open"
  <2>1. pc' = "open" /\ UNCHANGED <<version, edit, after>>
    BY <1>2 DEF LogFails, LogError
  <2>2. EditFits' /\ Up /\ Up'
    BY <1>1, <2>1 DEF ManifestInv, EditFits, Up
  <2> QED BY <1>1, <2>1, <2>2, SameVersion DEF ManifestInv
<1>3. CASE after # "open"
  <2>1. Fresh /\ pc' = "down"
    BY <1>3 DEF LogFails, LogError
  <2>2. Logged' = Logged /\ RecordsKept'
    BY <1>1, <2>1 DEF Logged, ManifestInv, RecordsKept
  <2> QED BY <1>1, <2>1, <2>2, FreshManifestInv
<1> QED BY <1>2, <1>3

\* The rename: what the new log says is the version with the edit, but for files of
\* an old log that was not found.
LEMMA RenameManifestInv ==
  ASSUME ManifestInv, RenameTemp
  PROVE  ManifestInv'
<1>1. /\ pc = "rename" /\ pc' = "publish" /\ UNCHANGED <<tables, version, edit, after>>
      /\ manifest' = [manifest EXCEPT !.records = temp]
      /\ forgotten' = forgotten \cup (Numbers(Logged.l0) \ Numbers(Replayed(temp).l0))
  BY DEF RenameTemp, Logged
<1>2. /\ manifest'.records = temp /\ manifest'.exists
      /\ manifest' = [exists |-> manifest'.exists, records |-> manifest'.records, torn |-> manifest'.torn]
  BY <1>1 DEF ManifestInv, RecordsKept
<1>3. Logged' = Replayed(temp)
  BY <1>2 DEF Logged
<1>4. /\ IsVersion(version) /\ IsVersion(Logged) /\ forgotten \subseteq Nat
      /\ Numbers(Logged.l0) \cap forgotten = {}
      /\ \A n \in forgotten \cup Numbers(Logged.l0) : n < Logged.next_file_number
  BY DEF ManifestInv, NumbersUsed, Logged, Listed, ListedTablesWhole
<1>5. /\ Logged.next_file_number = version.next_file_number
      /\ Logged.l0 = {f \in version.l0 : f.number \notin forgotten}
  <2>1. Logged = [version EXCEPT !.l0 = {f \in @ : f.number \notin forgotten}]
    BY <1>1 DEF ManifestInv, ManifestIsVersion, Up, Logged
  <2> QED BY <1>4, <2>1 DEF IsVersion
<1>6. edit.del_l0 = {} /\ edit.next_file_number \in Nat /\ \A f \in edit.add_l0 : f.number \in Nat
  BY <1>1 DEF ManifestInv, EditFits
<1>7. \E l0 \in {Logged.l0, {}} :
        Logged' = [last_sequence |-> edit.last_sequence,
                   next_file_number |-> edit.next_file_number, l0 |-> l0 \cup edit.add_l0]
  <2>1. Record(edit).edit = edit
    BY DEF Record
  <2>2. CASE temp = Append(manifest.records, Record(edit))
    <3>1. Logged' = Apply(Logged, edit)
      <4>1. PICK S : manifest.records \in Seq(S)
        BY DEF ManifestInv, RecordsKept
      <4>2. Replayed(temp) = Apply(Replayed(manifest.records), edit)
        BY <2>1, <2>2, <4>1, ReplayedAppend
      <4> QED BY <4>2, <1>3 DEF Logged
    <3> QED BY <3>1, <1>4, <1>6, AppliedIsVersion
  <2>3. CASE temp = <<Record(edit)>>
    <3>1. Logged' = Apply(NewVersion, edit)
      BY <1>3, <2>1, <2>3, ReplayedOne
    <3> QED BY <3>1, <1>6, NewIsVersion, AppliedIsVersion
  <2> QED BY <1>1, <2>2, <2>3 DEF ManifestInv, EditFits
<1>8. PICK l0 \in {Logged.l0, {}} :
        Logged' = [last_sequence |-> edit.last_sequence,
                   next_file_number |-> edit.next_file_number, l0 |-> l0 \cup edit.add_l0]
  BY <1>7
<1>9. /\ l0 \subseteq Logged.l0
      /\ Logged'.l0 = l0 \cup edit.add_l0 /\ Logged'.next_file_number = edit.next_file_number
      /\ forgotten' = forgotten \cup (Numbers(Logged.l0) \ Numbers(Logged'.l0))
      /\ IsVersion(Logged)'
  <2>1. Logged'.l0 = l0 \cup edit.add_l0 /\ Logged'.next_file_number = edit.next_file_number
    BY <1>8
  <2>2. IsVersion(Logged')
    BY <1>4, <1>6, <1>8, <2>1 DEF IsVersion
  <2> QED BY <1>1, <1>3, <2>1, <2>2 DEF IsVersion
\* The edit adds nothing, or the table of the next number.
<1>10. EditOfFlush
  BY <1>1 DEF ManifestInv, EditFits
<1> DEFINE NextTable ==
             /\ \A f \in edit.add_l0 :
                  /\ f.number = Logged.next_file_number
                  /\ f.number \in DOMAIN tables /\ tables[f.number] = [writes |-> f.writes, whole |-> TRUE]
                  /\ f.number < edit.next_file_number
             /\ \A f, g \in edit.add_l0 : f = g
             /\ Logged.next_file_number <= edit.next_file_number
             /\ \/ edit.next_file_number = Logged.next_file_number
                \/ Logged.next_file_number \in Numbers(edit.add_l0)
<1>11. NextTable
  <2>1. Logged.next_file_number \in Nat
    BY <1>4 DEF IsVersion
  <2>2. CASE edit.add_l0 = {} /\ edit.next_file_number = version.next_file_number
    BY <2>1, <2>2, <1>5
  <2>3. ASSUME NEW w, edit.add_l0 = {FileMeta(version.next_file_number, w)},
               edit.next_file_number = version.next_file_number + 1,
               version.next_file_number \in DOMAIN tables,
               tables[version.next_file_number] = [writes |-> w, whole |-> TRUE]
        PROVE  NextTable
    BY <2>1, <2>3, <1>5 DEF FileMeta, Numbers
  <2> QED BY <1>10, <2>2, <2>3 DEF EditOfFlush
<1>12. /\ Listed = Logged.l0 /\ Listed' = Logged'.l0 /\ tables' = tables
       /\ \A n \in forgotten \cup Numbers(Logged.l0) : n \in Nat /\ n < Logged.next_file_number
       /\ Logged.next_file_number \in Nat /\ Logged.next_file_number \notin forgotten
       /\ Logged.next_file_number \notin Numbers(Logged.l0)
  BY <1>1, <1>4 DEF Listed, Logged, IsVersion, Numbers
<1>13. NumbersUsed'
  <2>1. \A f \in Logged'.l0 : f.number \notin forgotten'
    <3>1. \A f \in l0 : f.number \notin forgotten
      BY <1>4, <1>9 DEF Numbers
    <3>2. \A f \in edit.add_l0 : f.number \notin forgotten
      BY <1>11, <1>12
    <3> QED BY <3>1, <3>2, <1>9 DEF Numbers
  <2>2. forgotten' \subseteq Nat
    BY <1>9, <1>12
  <2>3. IsVersion(version)'
    BY <1>1, <1>4 DEF IsVersion
  <2> QED BY <2>1, <2>2, <2>3, <1>9, <1>12 DEF NumbersUsed, Numbers
<1>14. ListedTablesWhole'
  <2>1. \A f, g \in Logged.l0 : f.number = g.number => f = g
    BY <1>12 DEF ManifestInv, ListedTablesWhole
  <2>2. \A f \in Logged.l0 :
          f.number \in DOMAIN tables /\ tables[f.number] = [writes |-> f.writes, whole |-> TRUE]
    BY <1>12 DEF ManifestInv, ListedTablesWhole
  <2>3. \A f \in l0, g \in edit.add_l0 : f.number # g.number
    BY <1>9, <1>11, <1>12 DEF Numbers
  <2>4. \A f, g \in Logged'.l0 : f.number = g.number => f = g
    BY <2>1, <2>3, <1>9, <1>11
  <2>5. \A f \in Logged'.l0 :
          f.number \in DOMAIN tables /\ tables[f.number] = [writes |-> f.writes, whole |-> TRUE]
    BY <2>2, <1>9, <1>11
  <2>6. \A n \in forgotten' \cup Numbers(Logged'.l0) : n < Logged'.next_file_number
    <3>1. \A n \in forgotten \cup Numbers(Logged.l0) : n < edit.next_file_number
      BY <1>4, <1>6, <1>11, <1>12 DEF IsVersion
    <3>2. \A n \in Numbers(edit.add_l0) : n < edit.next_file_number
      BY <1>11 DEF Numbers
    <3> QED BY <3>1, <3>2, <1>9 DEF Numbers
  <2> QED BY <2>4, <2>5, <2>6, <1>12 DEF ListedTablesWhole, Logged
<1>15. OneOrphan'
  <2>1. DOMAIN tables \subseteq Numbers(Logged.l0) \cup forgotten \cup {Logged.next_file_number}
    BY <1>12 DEF ManifestInv, OneOrphan, Logged
  <2>2. Numbers(edit.add_l0) \subseteq Numbers(Logged'.l0)
    BY <1>9 DEF Numbers
  <2>3. DOMAIN tables' \subseteq Numbers(Logged'.l0) \cup forgotten' \cup {Logged'.next_file_number}
    BY <2>1, <2>2, <1>9, <1>11, <1>12
  <2> QED BY <2>3, <1>12 DEF OneOrphan, Logged
<1>16. ManifestIsVersion'
  <2>1. \A f \in Logged'.l0 : f.number \notin forgotten'
    BY <1>12, <1>13 DEF NumbersUsed, Numbers
  <2>2. Logged'.l0 \subseteq version.l0 \cup edit.add_l0
    BY <1>5, <1>9
  <2>3. ASSUME NEW f \in version.l0, f.number \notin forgotten'
        PROVE  f \in Logged'.l0
    <3>1. f \in Logged.l0 /\ f.number \in Numbers(Logged'.l0)
      BY <2>3, <1>5, <1>9 DEF Numbers
    <3>2. PICK g \in Logged'.l0 : g.number = f.number
      BY <3>1 DEF Numbers
    <3>3. g \notin edit.add_l0
      BY <3>1, <3>2, <1>11, <1>12 DEF Numbers
    <3>4. g \in Logged.l0
      BY <3>2, <3>3, <1>9
    <3>5. f = g
      BY <3>1, <3>2, <3>4, <1>12 DEF ManifestInv, ListedTablesWhole
    <3> QED BY <3>2, <3>5
  <2>4. Logged'.l0 = {f \in version.l0 \cup edit.add_l0 : f.number \notin forgotten'}
    BY <2>1, <2>2, <2>3, <1>9
  <2>5. Apply(version, edit) = [last_sequence |-> edit.last_sequence,
                                next_file_number |-> edit.next_file_number,
                                l0 |-> version.l0 \cup edit.add_l0]
    BY <1>4, <1>6, AppliedIsVersion
  <2>6. Logged' = [Apply(version, edit) EXCEPT !.l0 = {f \in @ : f.number \notin forgotten'}]
    <3>1. Logged' = [last_sequence |-> edit.last_sequence,
                     next_file_number |-> edit.next_file_number, l0 |-> Logged'.l0]
      BY <1>8
    <3>2. [Apply(version, edit) EXCEPT !.l0 = {f \in @ : f.number \notin forgotten'}]
            = [last_sequence |-> edit.last_sequence, next_file_number |-> edit.next_file_number,
               l0 |-> {f \in version.l0 \cup edit.add_l0 : f.number \notin forgotten'}]
      BY <2>5
    <3> QED BY <2>4, <3>1, <3>2
  <2>7. Apply(version, edit)' = Apply(version, edit)
    BY <1>1 DEF Apply
  <2>8. pc' = "publish"
    BY <1>1
  <2> QED BY <2>6, <2>7, <2>8 DEF ManifestIsVersion, Logged
<1>17. RecordsKept'
  <2>1. \E S : temp \in Seq(S)
    <3>1. PICK S : manifest.records \in Seq(S)
      BY DEF ManifestInv, RecordsKept
    <3>2. Append(manifest.records, Record(edit)) \in Seq(S \cup {Record(edit)})
      BY <3>1, RangeAppend
    <3>3. <<Record(edit)>> \in Seq({Record(edit)})
      OBVIOUS
    <3> QED BY <3>2, <3>3, <1>1 DEF ManifestInv, EditFits
  <2> QED BY <2>1, <1>1, <1>2 DEF RecordsKept
<1>18. EditFits'
  BY <1>1, <1>6 DEF ManifestInv, EditFits
<1> QED BY <1>13, <1>14, <1>15, <1>16, <1>17, <1>18 DEF ManifestInv

\* Publishing: the version catches up with the log.
LEMMA PublishManifestInv ==
  ASSUME ManifestInv, Publish
  PROVE  ManifestInv'
<1>1. /\ pc = "publish" /\ pc' = after /\ version' = Apply(version, edit)
      /\ UNCHANGED <<manifest, tables, forgotten, edit, after>>
  BY DEF Publish, disk, log
<1>2. Logged' = Logged /\ after \in {"open", "replayed"}
  BY <1>1 DEF Logged, ManifestInv, EditFits
<1>3. IsVersion(version')
  BY <1>1, AppliedIsVersion DEF ManifestInv, NumbersUsed, EditFits
<1>4. NumbersUsed'
  <2>1. IsVersion(version)'
    BY <1>3 DEF IsVersion
  <2> QED BY <1>1, <1>2, <2>1, SameLog DEF NumbersUsed
<1>5. ManifestIsVersion'
  BY <1>1, <1>2 DEF ManifestInv, ManifestIsVersion, Up
<1>6. RecordsKept' /\ EditFits'
  BY <1>1, <1>2 DEF ManifestInv, RecordsKept, EditFits
<1> QED BY <1>1, <1>2, <1>4, <1>5, <1>6, SameLog DEF ManifestInv

\* A file that is written under the next number hides no table.
LEMMA NextTableKept ==
  ASSUME ManifestInv, NEW table, tables' = SetTable(version.next_file_number, table),
         UNCHANGED <<manifest, forgotten, version>>, Up, Up', pc # "publish", pc' # "publish"
  PROVE  /\ RecordsKept' /\ NumbersUsed' /\ ManifestIsVersion' /\ ListedTablesWhole' /\ OneOrphan'
         /\ version.next_file_number \in DOMAIN tables'
         /\ tables'[version.next_file_number] = table
<1>1. Logged' = Logged /\ Listed' = Listed /\ Listed = Logged.l0
  BY DEF Logged, Listed
<1>2. /\ version.next_file_number = Logged.next_file_number /\ version.next_file_number \in Nat
      /\ \A n \in forgotten \cup Numbers(Listed) : n < Logged.next_file_number
  <2>1. Logged = [version EXCEPT !.l0 = {f \in @ : f.number \notin forgotten}]
    BY DEF ManifestInv, ManifestIsVersion, Logged
  <2>2. IsVersion(version)
    BY DEF ManifestInv, NumbersUsed
  <2>3. \A n \in forgotten \cup Numbers(Listed) : n < Logged.next_file_number
    BY DEF ManifestInv, ListedTablesWhole, Logged
  <2> QED BY <2>1, <2>2, <2>3 DEF IsVersion
<1>3. /\ DOMAIN tables' = DOMAIN tables \cup {version.next_file_number}
      /\ tables'[version.next_file_number] = table
      /\ \A n \in DOMAIN tables : n # version.next_file_number => tables'[n] = tables[n]
  BY DEF SetTable
<1>4. NumbersUsed' /\ RecordsKept' /\ ManifestIsVersion'
  BY <1>1 DEF ManifestInv, NumbersUsed, IsVersion, RecordsKept, ManifestIsVersion, Up
<1>5. ListedTablesWhole'
  <2>1. \A f \in Listed : f.number \in DOMAIN tables /\ f.number # version.next_file_number
                           /\ tables[f.number] = [writes |-> f.writes, whole |-> TRUE]
    <3>1. \A f \in Listed : f.number \in DOMAIN tables
                             /\ tables[f.number] = [writes |-> f.writes, whole |-> TRUE]
      BY DEF ManifestInv, ListedTablesWhole
    <3>2. \A f \in Listed : f.number < version.next_file_number
      BY <1>2 DEF Numbers
    <3>3. \A f \in Listed : f.number # version.next_file_number
      BY <3>2, <1>2
    <3> QED BY <3>1, <3>3
  <2>2. \A f \in Listed : f.number \in DOMAIN tables' 
                           /\ tables'[f.number] = [writes |-> f.writes, whole |-> TRUE]
    BY <2>1, <1>3
  <2>3. /\ \A f, g \in Listed : f.number = g.number => f = g
        /\ \A n \in forgotten \cup Numbers(Listed) : n < Logged.next_file_number
    BY DEF ManifestInv, ListedTablesWhole, Logged
  <2> QED BY <2>2, <2>3, <1>1 DEF ListedTablesWhole, Logged
<1>6. OneOrphan'
  <2>1. DOMAIN tables' \subseteq Numbers(Listed) \cup forgotten \cup {Logged.next_file_number}
    BY <1>2, <1>3 DEF ManifestInv, OneOrphan, Logged
  <2> QED BY <2>1, <1>1 DEF OneOrphan, Logged
<1> QED BY <1>3, <1>4, <1>5, <1>6

\* Writing and flushing touch the log not at all, and no file but the next table.
LEMMA WriteManifestInv ==
  ASSUME ManifestInv, (\E key \in UserKey : Put(key) \/ Del(key)) \/ MaybeFlush \/ WriteTable \/ FlushFails
  PROVE  ManifestInv'
<1>1. CASE (\E key \in UserKey : Put(key) \/ Del(key)) \/ MaybeFlush
  <2>1. /\ pc \in {"open", "written"} /\ pc' \in {"open", "written", "flush"}
        /\ UNCHANGED <<manifest, tables, forgotten, version, after>>
    BY <1>1 DEF Put, Del, Write, MaybeFlush, disk, log
  <2>2. EditFits' /\ Up /\ Up'
    BY <2>1 DEF ManifestInv, EditFits, Up
  <2> QED BY <2>1, <2>2, SameVersion DEF ManifestInv
<1>2. CASE WriteTable
  <2>1. /\ pc = "flush" /\ pc' = "log" /\ after' = "open"
        /\ tables' = SetTable(version.next_file_number, [writes |-> Last(immutables), whole |-> TRUE])
        /\ edit'.add_l0 = {FileMeta(version.next_file_number, Last(immutables))}
        /\ edit'.next_file_number = version.next_file_number + 1 /\ edit'.del_l0 = {}
        /\ UNCHANGED <<manifest, forgotten, version>>
    BY <1>2 DEF WriteTable, NumberAfter, log
  <2>2. Up /\ Up' /\ pc # "publish" /\ pc' # "publish"
    BY <2>1 DEF Up
  <2>3. /\ RecordsKept' /\ NumbersUsed' /\ ManifestIsVersion' /\ ListedTablesWhole' /\ OneOrphan'
        /\ version.next_file_number \in DOMAIN tables'
        /\ tables'[version.next_file_number] = [writes |-> Last(immutables), whole |-> TRUE]
    BY <2>1, <2>2, NextTableKept
  <2>4. EditOfFlush'
    BY <2>1, <2>3 DEF EditOfFlush
  <2>5. EditFits'
    <3>1. edit'.next_file_number \in Nat /\ \A f \in edit'.add_l0 : f.number \in Nat
      BY <2>1 DEF ManifestInv, NumbersUsed, IsVersion, FileMeta
    <3> QED BY <2>1, <2>4, <3>1 DEF EditFits
  <2> QED BY <2>3, <2>5 DEF ManifestInv
<1>3. CASE FlushFails
  <2>1. /\ pc = "flush" /\ pc' = "open" /\ UNCHANGED <<manifest, forgotten, version, after>>
        /\ \/ tables' = SetTable(version.next_file_number, [writes |-> {}, whole |-> FALSE])
           \/ UNCHANGED tables
    BY <1>3 DEF FlushFails, FlushError, log
  <2>2. EditFits' /\ Up /\ Up'
    BY <2>1 DEF ManifestInv, EditFits, Up
  <2>3. RecordsKept' /\ NumbersUsed' /\ ManifestIsVersion' /\ ListedTablesWhole' /\ OneOrphan'
    BY <2>1, <2>2, NextTableKept, SameVersion
  <2> QED BY <2>2, <2>3 DEF ManifestInv
<1> QED BY <1>1, <1>2, <1>3

\* A crash cuts the MANIFEST nowhere but in its first record.
LEMMA RestartManifestInv ==
  ASSUME ManifestInv, Crash \/ Close \/ OpenFails
  PROVE  ManifestInv'
<1>1. /\ Fresh /\ pc' = "down" /\ UNCHANGED <<tables, forgotten>>
      /\ pc \notin {"down"}
      /\ manifest' = manifest \/ \E torn \in BOOLEAN : manifest' = [manifest EXCEPT !.torn = torn]
  BY DEF Crash, Close, OpenFails, disk, log
<1>2. /\ manifest'.records = manifest.records /\ manifest'.exists = manifest.exists
      /\ manifest' = [exists |-> manifest'.exists, records |-> manifest'.records, torn |-> manifest'.torn]
  BY <1>1 DEF ManifestInv, RecordsKept
<1>3. Logged' = Logged /\ RecordsKept'
  BY <1>1, <1>2 DEF Logged, ManifestInv, RecordsKept
<1> QED BY <1>1, <1>3, FreshManifestInv

LEMMA NextManifestInv == ManifestInv /\ [Next]_svars => ManifestInv'
<1> SUFFICES ASSUME ManifestInv, [Next]_svars PROVE ManifestInv'
  OBVIOUS
<1>1. CASE UNCHANGED svars
  <2>1. UNCHANGED <<manifest, tables, temp, forgotten, pc, version, edit, after>>
    BY <1>1 DEF svars, disk, log
  <2>2. Logged' = Logged
    BY <2>1 DEF Logged
  <2>3. RecordsKept' /\ EditFits'
    BY <2>1 DEF ManifestInv, RecordsKept, EditFits, EditOfFlush
  <2>4. NumbersUsed'
    BY <2>1, <2>2, SameLog DEF ManifestInv, NumbersUsed, IsVersion
  <2>5. ManifestIsVersion'
    BY <2>1 DEF ManifestInv, ManifestIsVersion, Up
  <2> QED BY <2>1, <2>2, <2>3, <2>4, <2>5, SameLog DEF ManifestInv
<1>2. CASE CreateManifest \/ AppendInitial \/ AppendInitialFails \/ RecoverManifest
            \/ ReplayWal \/ TruncateWal
  BY <1>2, OpenManifestInv
<1>3. CASE WriteTemp \/ WriteTempAlone
  BY <1>3, WriteTempManifestInv
<1>4. CASE RenameTemp
  BY <1>4, RenameManifestInv
<1>5. CASE LogFails
  BY <1>5, LogFailsManifestInv
<1>6. CASE Publish
  BY <1>6, PublishManifestInv
<1>7. CASE (\E key \in UserKey : Put(key) \/ Del(key)) \/ MaybeFlush \/ WriteTable \/ FlushFails
  BY <1>7, WriteManifestInv
<1>8. CASE Crash \/ Close \/ OpenFails
  BY <1>8, RestartManifestInv
<1> QED BY <1>1, <1>2, <1>3, <1>4, <1>5, <1>6, <1>7, <1>8 DEF Next

-----------------------------------------------------------------------------
\* What is published is what the MANIFEST describes, after any failed or interrupted
\* change, but for the files that a FileExists without an answer made it drop.
THEOREM LogMatchesVersion == Spec => []ManifestIsVersion
<1>1. ManifestInv => ManifestIsVersion
  BY DEF ManifestInv
<1> QED BY <1>1, InitManifestInv, NextManifestInv, PTL DEF Spec

\* No flush, failed flush or crash takes or damages the file of a table that the
\* MANIFEST lists or a process still reads.
THEOREM TablesStayWhole == Spec => []ListedTablesWhole
<1>1. ManifestInv => ListedTablesWhole
  BY DEF ManifestInv
<1> QED BY <1>1, InitManifestInv, NextManifestInv, PTL DEF Spec

\* However many flushes fail, they leave one file that no one lists.
THEOREM OrphansBounded == Spec => []OneOrphan
<1>1. ManifestInv => OneOrphan
  BY DEF ManifestInv
<1> QED BY <1>1, InitManifestInv, NextManifestInv, PTL DEF Spec

=============================================================================
