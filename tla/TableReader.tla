----------------------------- MODULE TableReader -----------------------------
(***************************************************************************)
(* The reader of lsm_mini_engine's sorted tables: Get and the table        *)
(* iterator, which search the index block and then one data block, on a    *)
(* table that may be damaged in one place and whose blocks may fail to be  *)
(* read.                                                                   *)
(*                                                                         *)
(* The table is what SSTableBuilder's properties promise of a finished     *)
(* one: blocks that are not empty, keys that ascend bytewise, and an index *)
(* entry with the last key of each block.  Open is in SSTableBuilder; here *)
(* it has succeeded and ParseBlock finds the entries of a block, which it  *)
(* does not on the builder's own bytes (TableReadsBack).  Positions count  *)
(* from 1.  Values follow from their keys.  A definition directly above    *)
(* another with the same parameters is a slip that the properties detect.  *)
(***************************************************************************)
EXTENDS KeyOrder, Sequences, SequencesExt

CONSTANT MaxEntries \* bound: entries of a table

ASSUME EntriesAssumption == MaxEntries \in Nat

VARIABLES table,  \* the data blocks, each a sequence of keys
          damage, \* the place that cannot be decoded: [kind, block, entry]
          it,     \* the TableIter: [idx, data, valid, status]
          \* For the properties.
          got,    \* the Get just made: [target, answer]
          from,   \* where the iterator was last positioned, a key or Start
          shown   \* what it has shown since

rvars == <<table, damage, it, got, from, shown>>

-----------------------------------------------------------------------------
(* Tables *)

\* The runs of keys Add accepts one after the other.
Runs ==
  {keys \in UNION {[1 .. n -> Key] : n \in 1 .. MaxEntries} :
     \A p, q \in DOMAIN keys : p < q => BytewiseLess(keys[p], keys[q])}

\* Where blocks of n keys in all may end.
Cuts(n) ==
  {ends \in UNION {[1 .. m -> 1 .. n] : m \in 1 .. n} :
     /\ \A i, j \in DOMAIN ends : i < j => ends[i] < ends[j]
     /\ Last(ends) = n}

\* The blocks of a run of keys that end at the given positions.
Blocks(keys, ends) ==
  [i \in DOMAIN ends |-> SubSeq(keys, IF i = 1 THEN 1 ELSE ends[i - 1] + 1, ends[i])]

Tables == UNION {{Blocks(keys, ends) : ends \in Cuts(Len(keys))} : keys \in Runs}

IndexKey(i) == Last(table[i])

Place(kind, block, entry) == [kind |-> kind, block |-> block, entry |-> entry]
Undamaged == Place("none", 0, 0)

\* An index entry, the block handle in it, a block's trailer, or a block's entry.
Damages(t) ==
  {Undamaged}
    \cup {Place(kind, i, 0) : kind \in {"index", "handle", "block"}, i \in DOMAIN t}
    \cup UNION {{Place("entry", i, p) : p \in DOMAIN t[i]} : i \in DOMAIN t}

\* What EntryAt, DecodeBlockHandleFromValue and ParseBlock can decode.
IndexEntryAt(i) == damage # Place("index", i, 0)
HandleAt(i) == damage # Place("handle", i, 0)
Parses(i) == damage # Place("block", i, 0)
EntryAt(i, p) == damage # Place("entry", i, p)

\* Where the search goes on when the entry in the middle is not below.
HighBelowMid(mid) == mid - 1
High(mid) == mid

\* The binary search of index and block: the first of the positions 1 .. n that is
\* not below the target, n + 1 if all are, Unreadable if one it looks at is not readable.
Unreadable == 0

Search(n, below, readable) ==
  LET search[r \in (1 .. n + 1) \X (0 .. n + 1)] ==
        LET lo  == r[1]
            hi  == r[2]
            mid == lo + (hi - lo) \div 2
        IN  IF lo >= hi THEN lo
            ELSE IF mid \notin readable THEN Unreadable
            ELSE IF mid \in below THEN search[<<mid + 1, hi>>] ELSE search[<<lo, High(mid)>>]
  IN  search[<<1, n + 1>>]

FindBlock(target) ==
  Search(Len(table), {i \in DOMAIN table : BytewiseLess(IndexKey(i), target)},
         {i \in DOMAIN table : IndexEntryAt(i)})

-----------------------------------------------------------------------------
(* BlockIter: [block, idx, valid, status] *)

NoBlock == [block |-> 0, idx |-> 0, valid |-> FALSE, status |-> "ok"]

BlockIter(i) == [NoBlock EXCEPT !.block = i, !.status = IF Parses(i) THEN "ok" ELSE "corruption"]

Corrupted(b) == [b EXCEPT !.valid = FALSE, !.status = "corruption"]

LoadCurrent(b, p) ==
  IF b.status # "ok" THEN [b EXCEPT !.valid = FALSE]
  ELSE IF p > Len(table[b.block]) THEN [b EXCEPT !.idx = p, !.valid = FALSE]
  ELSE IF EntryAt(b.block, p) THEN [b EXCEPT !.idx = p, !.valid = TRUE]
  ELSE Corrupted([b EXCEPT !.idx = p])

BlockSeekToFirst(b) == LoadCurrent(b, 1)

BlockSeek(b, target) ==
  LET keys == table[b.block]
      at   == Search(Len(keys), {p \in DOMAIN keys : BytewiseLess(keys[p], target)},
                     {p \in DOMAIN keys : EntryAt(b.block, p)})
  IN  IF b.status # "ok" THEN [b EXCEPT !.valid = FALSE]
      ELSE IF at = Unreadable THEN Corrupted(b)
      ELSE LoadCurrent(b, at)

BlockNext(b) == LoadCurrent(b, b.idx + 1)

-----------------------------------------------------------------------------
(* TableIter *)

LoadStatusForgotten(failed) == "ok"
LoadStatus(failed) == IF failed THEN "error" ELSE "ok"

\* LoadDataBlockAtIndex: `read` is whether the file gives the block.  Without a
\* block to load there is no data, and no error either past the last one.
Load(i, read) ==
  LET loads == IndexEntryAt(i) /\ HandleAt(i) /\ read /\ Parses(i)
  IN  [idx |-> i, valid |-> FALSE,
       data   |-> IF i <= Len(table) /\ loads THEN BlockIter(i) ELSE NoBlock,
       status |-> LoadStatus(i <= Len(table) /\ ~loads)]

\* Sync: the iterator shows what the block iterator is at.  It does not look at
\* the status of the block iterator.
Sync(iter, data) ==
  [iter EXCEPT !.data = data, !.valid = iter.status = "ok" /\ data.valid]

Current(iter) == table[iter.data.block][iter.data.idx]

Start == [user |-> 0, seq |-> 0, type |-> kDel]

NotFound == [status |-> "not found", key |-> Start]
Failed(status) == [status |-> status, key |-> Start]
Found(key) == [status |-> "ok", key |-> key]

\* No Get has been made, or the iterator has moved since.
NothingAsked == [target |-> Start, answer |-> NotFound]

\* What the iterator shows next, after those it has shown.
Show(iter, before) ==
  /\ it' = iter
  /\ shown' = IF iter.valid THEN Append(before, Current(iter)) ELSE before
  /\ got' = NothingAsked
  /\ UNCHANGED <<table, damage>>

\* Sync after the block iterator, if there is one, was positioned.
OnData(iter, positioned) == Sync(iter, IF iter.data = NoBlock THEN NoBlock ELSE positioned)

SeekToFirst ==
  /\ from' = Start
  /\ \E read \in BOOLEAN :
       LET iter == Load(1, read) IN Show(OnData(iter, BlockSeekToFirst(iter.data)), << >>)

Seek(target) ==
  /\ from' = target
  /\ LET at == FindBlock(target)
     IN  IF at = Unreadable
           THEN Show([it EXCEPT !.valid = FALSE, !.status = "error"], << >>)
           ELSE \E read \in BOOLEAN :
                  LET iter == Load(at, read)
                  IN  Show(OnData(iter, BlockSeek(iter.data, target)), << >>)

\* At the end of a block, or at an entry that cannot be decoded, the next block.
Advance ==
  /\ it.valid
  /\ LET next == BlockNext(it.data)
     IN  IF next.valid
           THEN Show(Sync(it, next), shown)
           ELSE \E read \in BOOLEAN :
                  LET iter == Load(it.idx + 1, read)
                  IN  Show(OnData(iter, BlockSeekToFirst(iter.data)), shown)
  /\ UNCHANGED from

-----------------------------------------------------------------------------
(* Get *)

\* The snapshot sees a version up to its own sequence number.
SeesBelow(target, key) == key.seq < target.seq
Sees(target, key) == key.seq <= target.seq

\* From an entry of a block on: the first of the user key that the snapshot sees.
Walk(b, target) ==
  LET keys == table[b.block]
      walk[p \in 1 .. Len(keys) + 1] ==
        IF p > Len(keys) \/ ~EntryAt(b.block, p) THEN NotFound
        ELSE IF keys[p].user # target.user THEN NotFound
        ELSE IF Sees(target, keys[p]) THEN Found(keys[p])
        ELSE walk[p + 1]
  IN  walk[b.idx]

\* FindDataBlockForKey does not tell a block that is not there from an index entry
\* or a handle that cannot be decoded.
Get(target, read) ==
  LET at == FindBlock(target)
      b  == BlockSeek(BlockIter(at), target)
  IN  IF at = Unreadable \/ at > Len(table) THEN NotFound
      ELSE IF ~IndexEntryAt(at) \/ ~HandleAt(at) THEN NotFound
      ELSE IF ~read THEN Failed("io error")
      ELSE IF b.status # "ok" THEN Failed(b.status)
      ELSE IF ~b.valid THEN NotFound
      ELSE Walk(b, target)

\* The caller asks for (user key, snapshot, kPut).  Get is const and shares nothing
\* with an iterator: it is looked at before there is one.
LookUp(user, snapshot) ==
  /\ it.idx = 0
  /\ LET target == [user |-> user, seq |-> snapshot, type |-> kPut]
     IN  \E read \in BOOLEAN : got' = [target |-> target, answer |-> Get(target, read)]
  /\ UNCHANGED <<table, damage, it, from, shown>>

Init ==
  /\ table \in Tables
  /\ damage \in Damages(table)
  /\ it = [idx |-> 0, data |-> NoBlock, valid |-> FALSE, status |-> "ok"]
  /\ got = NothingAsked
  /\ from = Start /\ shown = << >>

Next ==
  \/ SeekToFirst
  \/ \E target \in Key : Seek(target)
  \/ Advance
  \/ \E user \in UserKey, snapshot \in SeqNo : LookUp(user, snapshot)

Spec == Init /\ [][Next]_rvars

-----------------------------------------------------------------------------
Keys == UNION {Range(table[i]) : i \in DOMAIN table}

\* What a scan is to show.
Wanted == {k \in Keys : ~BytewiseLess(k, from)}

\* A scan that goes on with a good status has left out nothing before the key it
\* shows, and one that ends with a good status has shown everything from where it
\* was positioned, over blocks, reads that fail and repeated positioning.  (In
\* order: ScanAscends.)  An entry within a block that cannot be decoded is the
\* exception: no status tells of it (reader.cpp:210).
ScanComplete ==
  (it.idx > 0 /\ it.status = "ok" /\ damage.kind # "entry") =>
    Range(shown) = IF it.valid THEN {k \in Wanted : ~BytewiseLess(Last(shown), k)} ELSE Wanted

\* Whatever is damaged, a scan never turns back, repeats a key, shows one that
\* the table has not, or one before the place it was positioned at.
ScanAscends ==
  /\ \A i \in 1 .. Len(shown) - 1 : BytewiseLess(shown[i], shown[i + 1])
  /\ Range(shown) \subseteq Wanted

\* The table iterator is one over the table's keys, which leaves some out in silence
\* only where an entry within a block cannot be decoded.
Contract ==
  INSTANCE Iterator WITH
    InternalKey <- Key, Target <- Key, Less <- BytewiseLess,
    lossy    <- damage.kind = "entry",
    contents <- [k \in Keys |-> k],
    at       <- IF it.valid THEN {Current(it)} ELSE {},
    ahead    <- IF it.valid THEN {k \in Keys : BytewiseLess(Current(it), k)} ELSE {},
    ok       <- it.status = "ok"

\* Every step of the table iterator is one that iter/iterator.h promises, or none.
ImplementsIterator == Contract!Spec

\* A put that the table holds under the very sequence number asked for is found,
\* or its loss is told; only an index entry or a handle that cannot be decoded
\* makes Get call it missing.  What Get finds, the snapshot may see.
GetFindsItsPut ==
  got # NothingAsked =>
    /\ got.answer.status = "ok" =>
         /\ got.answer.key \in Keys
         /\ got.answer.key.user = got.target.user /\ got.answer.key.seq <= got.target.seq
    /\ got.target \in Keys /\ damage.kind \notin {"index", "handle"} =>
         got.answer \in {Found(got.target), Failed("corruption"), Failed("io error")}

\* The versions of the user key that the snapshot sees.
VisibleTo(target) == {k \in Keys : k.user = target.user /\ k.seq <= target.seq}

\* reader.cpp:281 and :292, "Snapshot semantics", "until we find seq <= snapshot":
\* on an undamaged table Get finds the newest version the snapshot sees.
GetSeesSnapshot ==
  (got # NothingAsked /\ damage = Undamaged /\ got.answer.status # "io error") =>
    IF VisibleTo(got.target) = {} THEN got.answer = NotFound
    ELSE \A k \in VisibleTo(got.target) : got.answer.status = "ok" /\ k.seq <= got.answer.key.seq

=============================================================================
