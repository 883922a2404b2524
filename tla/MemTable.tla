------------------------------ MODULE MemTable ------------------------------
(***************************************************************************)
(* The multi-version memtable of lsm_mini_engine: a map ordered by         *)
(* internal key (user key ascending, packed trailer descending) that is    *)
(* written under an exclusive lock, read at snapshots under a shared one,  *)
(* and copied when the engine freezes it to flush it (DB::MaybeFlush).     *)
(* Put, Del, Get and Freeze hold the lock throughout, so each is one       *)
(* action.  ApproxBytes and NewIterator take no lock: the engine calls     *)
(* them from its one thread, and iterates over frozen copies only.         *)
(*                                                                         *)
(* The key of the map is the pair of user key and trailer; a trailer is    *)
(* kept as a number, seq above, type below, in as many bits as the code's. *)
(* As in LeaseQueue, a definition directly above another with the same     *)
(* parameters is a slip that the properties are known to detect.           *)
(***************************************************************************)
EXTENDS Integers, Sequences, FiniteSets, Functions

CONSTANTS UserKey,   \* user keys: numbers, for their byte order
          Value,     \* the values put
          WriteSeq,  \* the sequence numbers writers use
          Snapshot,  \* the sequence numbers readers read at
          SeqLimit,  \* 2^56: seq << 8 wraps from here on
          KeySize, ValueSize, \* bytes of an internal key, and of a value
          \* Bounds, for model checking only.
          MaxWrites, MaxFrozen

ASSUME MemTableAssumption ==
  /\ UserKey \subseteq Nat /\ WriteSeq \subseteq 0 .. SeqLimit - 1 /\ Snapshot \subseteq Nat
  /\ SeqLimit \in Nat \ {0} /\ KeySize \in Nat /\ ValueSize \in Nat
  /\ MaxWrites \in Nat /\ MaxFrozen \in Nat

\* A snapshot is a sequence number, or UINT64_MAX for the latest: all its low
\* bits are set, so its trailer is the highest (Get would miss entries at others).
ASSUME SnapshotAssumption ==
  \A s \in Snapshot : s < SeqLimit \/ s % SeqLimit = SeqLimit - 1

VARIABLES mem,    \* the live memtable: [map, bytes, log]
          frozen  \* the copies Freeze made, oldest first

mvars == <<mem, frozen>>

-----------------------------------------------------------------------------
(* Internal keys *)

kDel == 0
kPut == 1

\* (seq << 8) | type in 64 bits; the type needs one bit of its eight.
PackTypeAbove(seq, type) == type * SeqLimit + (seq % SeqLimit)
PackTrailer(seq, type) == (seq % SeqLimit) * 2 + type
TrailerSeq(tr)  == tr \div 2
TrailerType(tr) == tr % 2

InternalKey == [user : UserKey, trailer : 0 .. 2 * SeqLimit - 1]

\* InternalKeyComparator: newest version first within a user key.
Before(a, b) == a.user < b.user \/ (a.user = b.user /\ a.trailer > b.trailer)

\* lower_bound.
AtOrAfter(map, ik) == {k \in DOMAIN map : ~Before(k, ik)}

First(keys) == CHOOSE k \in keys : \A other \in keys \ {k} : Before(k, other)

-----------------------------------------------------------------------------
(* Get *)

\* The scan from `from` on: it stops at another user key or at the first
\* version that the snapshot sees.
Visible(map, user, from, snapshot) ==
  {k \in AtOrAfter(map, [user |-> user, trailer |-> from]) :
     k.user = user /\ TrailerSeq(k.trailer) <= snapshot}

NotFound == [type |-> kDel, value |-> "not found"]
Deleted  == [type |-> kDel, value |-> "none"]

Entry(map, ik) ==
  IF TrailerType(ik.trailer) = kPut THEN [type |-> kPut, value |-> map[ik]] ELSE Deleted

SeekJustBelow(snapshot) == PackTrailer(snapshot, kDel)
SeekTrailer(snapshot) == PackTrailer(snapshot, kPut)

\* A scan from the snapshot's position, then one from the key's lowest trailer.
Get(map, user, snapshot) ==
  LET seen == Visible(map, user, SeekTrailer(snapshot), snapshot)
      low  == Visible(map, user, 0, snapshot)
  IN  CASE seen # {} -> Entry(map, First(seen))
        [] seen = {} /\ low # {} -> Entry(map, First(low))
        [] OTHER -> NotFound

-----------------------------------------------------------------------------
(* Writes.  The log of a memtable is not in the code: it remembers the     *)
(* calls, for the properties.                                              *)

Empty == [map |-> << >>, bytes |-> 0, log |-> << >>]

\* map_[ik] = v.
KeepFirst(map, ik, v) ==
  [k \in DOMAIN map \cup {ik} |-> IF k \in DOMAIN map THEN map[k] ELSE v]
Assign(map, ik, v) == [k \in DOMAIN map \cup {ik} |-> IF k = ik THEN v ELSE map[k]]

\* approx_bytes_ grows by the key's size, also when the key is overwritten.
DeletesUncounted(ik) == IF TrailerType(ik.trailer) = kPut THEN KeySize ELSE 0
WrittenBytes(ik) == KeySize

\* Bound: this many writes, in all the memtables together.
RoomForWrite ==
  Len(mem.log) + FoldFunctionOnSet(LAMBDA t, n : Len(t.log) + n, 0, frozen, DOMAIN frozen) < MaxWrites

Put(user, seq, v) ==
  LET ik == [user |-> user, trailer |-> PackTrailer(seq, kPut)]
  IN  /\ RoomForWrite
      /\ mem' = [map   |-> Assign(mem.map, ik, v),
                 bytes |-> mem.bytes + WrittenBytes(ik) + ValueSize,
                 log   |-> Append(mem.log, [user |-> user, seq |-> seq, type |-> kPut, value |-> v])]
      /\ UNCHANGED frozen

Del(user, seq) ==
  LET ik == [user |-> user, trailer |-> PackTrailer(seq, kDel)]
  IN  /\ RoomForWrite
      /\ mem' = [map   |-> Assign(mem.map, ik, "none"),
                 bytes |-> mem.bytes + WrittenBytes(ik),
                 log   |-> Append(mem.log, [user |-> user, seq |-> seq, type |-> kDel, value |-> "none"])]
      /\ UNCHANGED frozen

\* Freeze copies map and size; MaybeFlush keeps the copy and starts afresh.
Freeze ==
  /\ mem.log # << >> /\ Len(frozen) < MaxFrozen
  /\ frozen' = Append(frozen, mem)
  /\ mem' = Empty

Init == mem = Empty /\ frozen = << >>

Next ==
  \/ \E user \in UserKey, seq \in WriteSeq : Del(user, seq) \/ \E v \in Value : Put(user, seq, v)
  \/ Freeze

Spec == Init /\ [][Next]_mvars

-----------------------------------------------------------------------------
Tables == {mem} \cup {frozen[i] : i \in DOMAIN frozen}

MemTypeOK ==
  \A t \in Tables :
    /\ DOMAIN t.map \subseteq InternalKey
    /\ \A k \in DOMAIN t.map :
         IF TrailerType(k.trailer) = kPut THEN t.map[k] \in Value ELSE t.map[k] = "none"
    /\ t.bytes \in Nat

\* The reference a read is held against: of the calls that wrote the key no
\* later than the snapshot, the one with the highest sequence number, a put over
\* a deletion of the same number, and the last of several such calls.
Winner(log, user, snapshot) ==
  LET calls == {i \in DOMAIN log : log[i].user = user /\ log[i].seq <= snapshot}
      Beats(i, k) == \/ log[i].seq > log[k].seq
                     \/ log[i].seq = log[k].seq /\ log[i].type > log[k].type
                     \/ log[i].seq = log[k].seq /\ log[i].type = log[k].type /\ i > k
  IN  {i \in calls : \A k \in calls \ {i} : Beats(i, k)}

\* memtable.h: Get returns the "newest visible entry", at every snapshot, in
\* whatever order the writes arrived, and the frozen copies go on answering
\* the same.
GetIsNewestVisible ==
  \A t \in Tables, user \in UserKey, s \in Snapshot :
    LET won == Winner(t.log, user, s)
    IN  Get(t.map, user, s) =
          IF won = {} THEN NotFound
          ELSE LET call == t.log[CHOOSE i \in won : TRUE]
               IN  [type |-> call.type, value |-> call.value]

\* The size that decides about flushing never lags behind what the map holds.
BytesCoverMap ==
  \A t \in Tables :
    t.bytes >= KeySize * Cardinality(DOMAIN t.map)
               + ValueSize * Cardinality({k \in DOMAIN t.map : TrailerType(k.trailer) = kPut})

=============================================================================
