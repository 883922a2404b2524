# Verification of sample_projects

This directory holds TLA+ models of the two programs of the repository that have
logic of their own, the runs that check them with TLC, and theorems about them
that TLAPS checks:

- `job_queue`: an in-memory queue whose jobs are leased to workers for a time;
- `lsm_mini_engine`: a log-structured key-value engine (memtable, write-ahead
  log, sorted tables, MANIFEST, merging iterator).

Every definition is translated from the source. `PROJECT.json` says for each one
which lines it stands for ("map"), which properties each run checks ("runs"),
which slip of the code makes each property fail ("mutants"), what can go wrong
and where ("hazards"), and where the code and its documents disagree
("findings").

## 1. The system

### job_queue

| part | state | operations | talks to |
|---|---|---|---|
| `LeaseQueue` (src/job_queue/src/LeaseQueue.h) | job map, FIFO of ready ids, map of leases, heap of expiry items, two counters; one mutex | enqueue, lease, extend, complete, reap_expired | the injected clock |
| clock (`IClock`, `SteadyClock`, `FakeClock`) | a time that never goes back | now, advance | - |
| worker, cleaner and main threads (test/test_lease_queue_concurrency.cpp) | a stop flag, what each worker was granted, the set of recorded completions | loops over the queue's operations | the queue; each other through the flag, `join` and the recorded set |

Hard: every call may come between any two others; a worker that lost its lease
comes back late; the heap is never cleaned up, so items of finished leases and of
earlier expiries are popped long after they were pushed; times meet exactly at the
boundary; durations are signed.

Correct means: an unfinished job is in one place; a lease in force is never taken
away and one that ran out is found by the reaper; only the current holder
completes, once per enqueued job; nothing is lost; jobs are first handed out in
the order of their arrival.

### lsm_mini_engine

| part | state | operations | talks to |
|---|---|---|---|
| `MemTable`, internal keys | map from internal key to value, byte estimate; a reader/writer lock | Put, Del, Get at a snapshot, Freeze, NewIterator | - |
| `MergingIterator` | children, heap, current entry, status | SeekToFirst, Seek, Next | iterators of memtables and tables |
| `SSTableBuilder`, `BlockBuilder` | current block, index block, last keys, offset | Add, Finish, Abandon | the file |
| `TableReader`, `BlockIter`, `TableIter` | footer, index block | Open, Get, Seek, Next | the file |
| `WalWriter`, `WalReader` | the WAL file | AppendPut, AppendDel, Replay | `DB`, `MemTable` |
| `VersionSet` | the published `Version`, the MANIFEST | Recover, LogAndApply, Publish | the file system |
| `DB` | live and immutable memtables, last sequence number | Open, RecoverWAL, MaybeFlush, FlushFrozenToSST (Put, Get, Del and NewIterator are declared and not defined) | all of them |
| `Compactor` | - | PickL0; RunL0Compaction is a scaffold that returns an error | - |
| `BloomBuilder`, `Bloom`, varints | hashes of the added keys; bits | Add, Finish, MayContain, Encode, Decode (tables do not use the filter) | - |

Hard: many versions of a key in several sources, found by seeking to an encoded
position; numbers compared in two different encodings; a child iterator that fails
while others go on; sizes counted in bytes and sizes estimated; a process that
dies, or a call that fails, between writing a table, logging it, publishing it and
dropping the memtable; files written by one process and read by another.

Correct means: a read at a snapshot gives the newest version it may see; a scan is
ordered and complete or says that it is not; a table addresses and keeps what it
was given; the MANIFEST, the published version and the files on disk agree after
any failure; no accepted write vanishes.

### The rest

`generic/` and `wal/` are build skeletons (a hello program each) with prompts and
designs; `vdb_merge/` holds designs only. `tools/extract_gpt_blocks.py`, in four
copies, is a text-extraction script without state. None of them is modelled. The
file system (`env/posix_env.h`) is included by the engine and is not in the
repository; it is modelled from how it is called.

## 2. The modules

    VisibilityQueue <--implements-- LeaseQueue --extended by--> LeaseHistory
                                        |                       LeaseWorkers
    MemTable --extended by--> MergingIter
    KeyOrder --extended by--> SSTableBuilder
                              TableReader
    Varint   --extended by--> Bloom
    LsmStore

    Iterator <--implements-- MergingIter, TableReader

    proofs:  LeaseQueueProofs <--extended by-- LeaseClientsProofs
             MergingIterProofs (with the memtable's), SSTableBuilderProofs,
             TableReaderProofs, BloomProofs, LsmStoreProofs
             all of them on DataLemmas

A definition that stands directly above another with the same parameters (say
`KeepFirst` above `Assign`) is a slip the code avoids; the model uses the second,
and "mutants" lists which property detects the first.

**LeaseQueue** has one action per public operation, since each holds the mutex from
its first line to its last. Calls that return false or nullopt change nothing and
are stuttering. The state is the class's, with the heap as the set of its items:
`PoppedBefore` is the heap's comparator and `RequeueOrders` gives the orders in
which a reap may requeue, items of equal expiry in any order. `Reap` is the whole
loop. Job payloads are left out. Times are ticks, and `extend` may be given a
negative duration, as its type allows.

**VisibilityQueue** is what the queue promises, without the heap, the job map or
the counters: jobs in line, claimed jobs with a deadline, and a requeue of all
overdue jobs at once. `LeaseQueue!VQ` is the refinement mapping.

**LeaseHistory** adds what the queue does not remember: every `LeaseResult` ever
handed out, which its worker may present at any later time, and those that a
successful `complete` was called with.

**LeaseWorkers** adds the threads of the concurrency test. `sleep_for` only delays
a thread, so between two of its steps any time may pass. A worker may crash
(forget its job), stall, extend and complete; `grant` is its local `lr`, which is
empty when `lease` had no job for it, and which `WTypeOK` says it then does not
use. What the test asserts at its end is stated for every interleaving. In the
drain only the sleeps take time.

**MemTable** keeps an internal key as user key and trailer, the trailer as a number
in as many bits as the code has (`SeqLimit` is 2^56 there), with the wrap of
`seq << 8`. `Get` has both scans of the code. The log of the calls is not in the
code; the properties compare reads with it. `Put`, `Del`, `Get` and `Freeze` hold the
lock throughout and are one action each; `ApproxBytes` and `NewIterator` take no lock,
and the engine calls them from its one thread, the latter on frozen copies only.

**MergingIter** extends it with the merge over frozen memtables. The heap is the set
of children in it; of children with equal keys any may be on top. A child may fail
at any repositioning: it is then invalid and says so in its status.

**Iterator** is what the interface in `iter/iterator.h` promises, whoever implements it:
an iterator shows the least of the entries it has yet to come by, or none when there are
none left; where it shows none too early its status has failed. A lossy one may leave
entries out with a good status, and still ascends. The merge and the table iterator both
implement it (`Contract` is the refinement mapping of each), each in its own order: the
merge in the order of memtables, the table iterator in that of bytes, which differ between
the versions of a key (older_version in section 6). The merge also relies on children that
fail openly; a table iterator does, unless an entry within a block cannot be decoded.

**KeyOrder** has the internal keys of tables, their encoding (`Bytes`: user key, type and
the sequence number's bytes from the low one on) and their two orders: `BytewiseLess`, which
compares encoded keys byte by byte as builder and reader do, and `MemtableBefore`, in
which a memtable iterates.

**SSTableBuilder** keeps blocks as entries and computes the bytes as the code does:
varints, trailers, the block size estimate, offsets. Each `Append` to the file may fail, after which the
caller gives the table up. `Opened` is what `TableReader::Open` makes of the
file, with `ParseBlock` on its index block.

**TableReader** is the block iterator, the table iterator over it and `Get`, on the
tables that SSTableBuilder's properties promise: non-empty blocks with keys that ascend
bytewise, and the last key of each block in the index. One place of the table may be
damaged (an index entry, the handle in it, a block's trailer, an entry), and every read
of a block may fail. `Search` is the binary search that the code has three times; it
decodes what it looks at and nothing else, so a damaged entry may be met or missed.
What an iterator showed since it was last positioned is kept for the properties.

**Varint** and **Bloom** are the encoding of integers and the filter. `AddedBit` and
`AskedBit` are the two places where the code computes a probe, in 32 bits; `NumBits`
cuts the product to a word after the comparison with 64, as the code does, and
`Undefined` stands for a division by zero or a write out of range. `Store` writes the
encoding, whole or in part, and decodes it.

**LsmStore** is the storage side with its one thread, whose place is `pc`: opening
(Recover, opening tables, WAL replay, truncation of the WAL), writes, flushes, and
`LogAndApply` in three steps (new file written, renamed, version published). Every
call may fail, and the process may die between any two steps. The new MANIFEST is a
copy of the old one with the record after it, unless `FileExists` fails, whose status
is ignored: then it is the record alone (`WriteTempAlone`), and `forgotten` remembers
which tables the log no longer lists. A crash keeps any prefix of the WAL, which the
engine never syncs, possibly cut within a record. `DB::Put` and `DB::Del`
are taken from docs/design_output.md:11-15, and their failures are left out. Whether the builder and the
reader accept a table is either way here; SSTableBuilder says which. A checksum
stands for the bytes it is computed over. The order of level-0 files is left out, as
nothing defined reads it.

## 3. The runs

| run | instance | shows |
|---|---|---|
| lease_history | 3 jobs (4 enqueues), 2 workers, 3 leases, durations 0, 2, extension 1 tick | the queue's invariants and step properties; completed at most once, by the last holder; attempts are grants; nothing lost; the queue implements VisibilityQueue |
| lease_workers | 2 jobs, 2 workers, 3 leases of 2 ticks, drain of 2 rounds | the concurrency test's assertions; the test ends; an expired lease is resolved |
| merging_iter | 2 keys, 2 sequence numbers, 3 writes in 2 frozen memtables, wrap at 3 | newest visible version; byte estimate; merged order; nothing skipped; the merge implements Iterator |
| sstable_builder | 2 keys, 2 sequence numbers, both types, short and long values, 5 entries | index and footer address the blocks; nothing dropped; sorted; blocks within target |
| table_reader | every table of up to 4 of 8 keys, in 1 to 4 blocks, one damaged place at most | a scan with a good status is complete and none turns back; Get finds what is stored under the exact number |
| bloom | 2 keys with any of 12 hashes of 6 bits, up to 3 additions, sizes below, at and past the word | no false negatives, also of a filter cut short; encoding reads back; no undefined arithmetic below the limit |
| lsm_store | 6 puts or deletions, flush at 2, 3 crashes | MANIFEST and version agree; listed tables whole; one orphan at most; no write vanishes |

Five more runs expect a violation; they are the findings of section 6.

Bounds, and why they are enough to meet the interesting cases:

- `MaxToken` 3 and `MaxSeq` above the number of jobs: an id is enqueued again, a
  job goes to one worker, is requeued, goes to another and back, while two others
  wait. A stale heap item needs one extension or one requeue. `Horizon` keeps
  extensions from growing the clock range. `MaxClock` bounds `Tick`; the properties
  compare times only by order, and the durations straddle every boundary.
- In lease_workers the drain lasts as long as a lease: this is what "No stuck
  leases" needs, and with one round less it fails. `WorkerIdle` treats a spent
  `MaxToken` as an empty queue, so that the bound never blocks a worker.
- In merging_iter two memtables with three writes have every pattern of shared,
  overwritten, deleted and distinct keys; `SeqLimit` = 3 puts the wrap and the
  "latest" snapshot within reach.
- In sstable_builder the block size makes blocks of one or two entries, one value length
  lands an entry exactly on the boundary, and five entries make three blocks or more.
  `ByteBase` is 2, so that the carry into the second byte of a little-endian trailer,
  at 256 in the code, comes at small numbers.
- In table_reader a search over four blocks or four entries looks at up to three
  places, so that the damaged one is met first, later or never; keys of two users with
  two numbers and both types cover every order of types and low bytes.
- In bloom the word is narrow, so that probes wrap and the number of bits
  reaches and passes it.
- In lsm_store three flushes follow each other, two crashes are needed to come back
  with a WAL (the first must leave an empty MANIFEST), the third falls anywhere.

Deadlock is checked, except in sstable_builder, where a table that was finished,
abandoned or given up rightly stops, and in bloom, where nothing follows the decoded
filter.

## 4. Fairness

Only LeaseWorkers has liveness properties. `WFairSpec` assumes weak fairness of each
thread (they are std::threads that are never blocked for ever: the mutex is held for
a bounded time), of the main thread's loop over the jobs, and of time. Nothing is
assumed of the queue: `ExpiredLeaseResolved` holds because the cleaner, or the drain,
keeps calling `reap_expired`. A crashed worker takes no help to recover.

## 5. The theorems

The theorems hold for any jobs, workers, keys, lengths, durations, thresholds and
bounds that satisfy the modules' named assumptions. Most of these only say that a
constant is a number, or a set of them. Those that say more, and where the code has
them:

| assumption | says | because |
|---|---|---|
| `HarnessAssumption` (LeaseWorkers) | the model's clock has room for the time budget and the drain | a bound of the model only |
| `DrainAssumption` (LeaseWorkers) | no lease is longer than the drain | 50 sleeps of 2 ms, leases of at most 25 ms |
| `MemTableAssumption` (MemTable) | writes have sequence numbers below `SeqLimit` | 56 bits, counted up from zero |
| `SnapshotAssumption` (MemTable) | a snapshot is below `SeqLimit`, or all ones in its low bits | a sequence number, or UINT64_MAX for the latest |
| `BloomAssumption` (Bloom) | hashes are words, the rotation is within a word, the least size leaves room for a byte | uint32_t, 15, 64 |
| `EncodingAssumption` (Bloom) | a varint holds every word and every number of probes | ten digits of seven bits |
| `KeyAssumption` (KeyOrder) | a sequence number has two digits of base `ByteBase` | seven bytes in the code |
| `PowerAssumption` (Bloom), `VarintPowers` (Varint) | powers are natural numbers, and b^0 = 1, b^(d+1) = b * b^d | arithmetic, of which the provers know nothing |

The invariants the runs check are seldom inductive by themselves. For each module
follow the strengthening and the reason for it. The proof that a step preserves it
has a lemma or a step per action.

**LeaseQueueProofs**: type correctness, `Partition`, `LeaseCovered`, `TokensFenced`
and `FirstAttemptFIFO` as invariants of `Spec`; `RequeueOnlyExpired`,
`ReapTakesAllExpired` and `ReapEmptiesHeap` as properties of every step; and that
`Spec` implements `VisibilityQueue`. That a job is in one place needs that the ready
queue has no repetition; that `reap_expired` requeues only what has expired needs
that a heap item with a lease's token is of that lease (`TokensFenced`), which needs
that counters exceed everything granted; that it finds all that expired needs
`LeaseCovered`; and the order of first attempts needs `JobsCounted`: the sequence
number of every job is below the next one, and a job in a lease has been attempted.
`IInv` is their conjunction, with the finiteness of the leases (a reap puts them in
order). Lemmas about sequences without repetition (appending, taking the head,
joining) carry the ready queue; the refinement uses the same invariant, with the reap
mapped to the abstract requeue through the bijection of overdue jobs and positions
that `RequeueOrders` yields. Durations and extensions are any integers, negative ones
included, while the run has one extension of one tick.

**LeaseClientsProofs**, for LeaseHistory: `HTypeOK`, `CompletedOnce`, `LastHolderCompletes`,
`AttemptsAreGrants` and `NothingLost` as invariants of `HSpec`, and that it implements
`VisibilityQueue`. The queue's `IInv` is kept because every step of `HSpec` is one of
the queue. What connects the history to it, and makes `HIInv`: every grant has a token
that was issued (`GrantsIssued`), every lease in force was granted (`LeasesGranted`),
and the enqueue numbers of two jobs differ (`JobsApart`). A late `complete` is then the
current lease's or has a token that no lease has, which is the whole argument.

For LeaseWorkers: what the concurrency test asserts at its end, `NoStuckLease`
and `EachJobCompletedOrReady`, with `RecordNeverAhead` and `WTypeOK`, as invariants of
`WSpec`, for any number of jobs and workers; and that `WSpec` is a behaviour of the
queue (`HarnessUsesQueue`), so that its theorems hold in the test. `WIInv` adds to `IInv`:
`JobsAccounted`, a job that left the queue is recorded or in the hands of one worker
about to record it; `RecordingNeverAhead`, such a job is not in the queue again; and
`DrainOnTime`, the rounds that are left are enough for every lease that is left. A
lease may be longer than the drain only while its worker is about to complete it: an
extension is followed by that call and by nothing else of that worker (`LeaseEnds`).

**MergingIterProofs**, for the memtable: `MemTypeOK`, `GetIsNewestVisible` and
`BytesCoverMap`. `MemInv` says that each table is what its log of calls made it: every
call left its key, no key came from nowhere, the value is that of the last such call,
and the estimate counts a key per entry and a value per put. Then the first key of
the scan and the call that the reference picks are the same (both orders
are total). For the merge: `MergedInOrder` and `NothingSkipped`. `IterInv` adds that
the entry shown is on top of the heap (`TopShown`), that nothing shown comes after
what is still ahead (`Caught`), and, as long as the status is good, that a child
leaves the heap only at its end and what lies behind the children was shown if it was
wanted (`Accounted`). The number of children, and of keys in each, is any. That the merge
implements Iterator follows from the invariant before and after a step: the entry on top
of the heap is a least one of all that lie ahead of the children (`ShownIsLeast`), which
are those wanted and not shown.

**SSTableBuilderProofs**: `IndexAddressesBlocks`, `NothingDropped`, `SortedForSearch` and
`BlocksWithinTarget` as invariants of `Spec`, for any lengths of keys and values and any
block size. `TableInv` describes the file by what was flushed so far: `Written` gives the
place, the size and the last key of each block and the order of the blocks, `Current`
the block being filled. After Finish, or an Append that failed, the blocks are followed
by the index and the footer, or by as much as was written (`EndedInv`). That a block
is below its target follows from the estimate's 16 bytes: two varints of at most five
bytes, a word for the offset and at most two to spare. Sums of lengths and the joining
of blocks are proved by induction once (`TotalOfMore`, `FlattenMore`).

**TableReaderProofs**: `ScanComplete`, `ScanAscends` and `GetFindsItsPut` for every table,
one damaged place and any failing reads, provided that `ParseBlock` finds the entries of a
block, which it does not on the bytes the builder writes today (table_reads_back). First the binary search, by induction on what is
left of it: on positions of which a first part is below the target it gives the first that
is not, or meets one that cannot be read (`SearchFinds`). `ScanComplete` is not inductive:
`Scan` adds that a valid iterator is at an entry of the block its index entry leads to,
that this is the last entry shown, and that those shown ascend from where the scan was
positioned; `Sorted` is what is needed of the table. A step that lands on an entry keeps it
if no entry lies between (`ScanGoesOn`); so does one that gives up with an error, and one
that met a damaged entry is excused. `Get` is a search and a walk, and by induction
over the rest of the block the walk finds only versions that may be seen (`WalkFinds`).
`TableIterIsIterator` uses the same invariant: after a step the keys shown are those
not beyond the current one, so none was passed over. No run checks that last one,
which takes TLC too long on the run's tables; on those of up to three keys it holds.

**BloomProofs**: `NoFalseNegatives` and `FinishDefinedBelowLimit` need that `hashes` holds
the hash of every key in `covered`, and that a finished filter has the bits that
`Finished` writes for them; a probe of a lookup is then a probe that was written,
whatever the width, the rotation and the multiplier are; and a size with room for a
byte in the word is not cut, so that rounding up to bytes does not wrap.
`DecodeReadsBack` and `NoneWhenCutShort` need `StoredInv`, that what was decoded is the
decoding of the encoding, whole or cut. A varint holds its number in digits of which
only the last ends it (`PutVarintHolds`, by induction on the number); read whole it
gives the number and the place after it (`GetWhole`), cut short it gives nothing
(`GetCut`), and the bits that follow may be cut anywhere.

**LsmStoreProofs**: `NoWriteVanishes`, for which `StoreInv` adds `EditKeepsWrites`, that
the edit of a flush in progress publishes the memtable that `Publish` will drop, the
last one, and takes no table away; and `NothingBefore`, that nothing was accepted
before the WAL is replayed. And over crashes and failures `ManifestIsVersion`,
`ListedTablesWhole` and `OneOrphan`, which need each other: `ManifestInv` is their
conjunction with what an edit is on its way to the log (`EditFits`: of the table just
written under the next number, or of none), what is in the new MANIFEST before it is
renamed, and that a number is listed, forgotten, or not used yet (`NumbersUsed`). One
more record applies one more edit (`ReplayedAppend`, by induction over the records).

**DataLemmas** has what several of them need, such as that comparing byte strings from
the first byte on is an order (`LexTransitive`, `LexAsymmetric`). Induction there is over the set of the
numbers that have a property (`AllNumbers`, from the least number of its complement),
and a recursive function is first shown to exist with the values its definition gives.

Only model-checked: the liveness of LeaseWorkers (`Ends`, `ExpiredLeaseResolved`), since
fairness and enabledness are out of the prover's reach; and the runs that expect a
violation. Every other property of a run is a theorem.

## 6. Where code and documents disagree

| run | the code | the document, comment or test |
|---|---|---|
| table_reads_back | the reader takes the last offset of a block for its number of entries: tables of one block open empty, others are refused | sstable/block.h:12: layout |
| older_version | trailers are little-endian, and the builder compares bytes: the older version of a key is refused | test/lsm_engine_test.cpp:433: accepted |
| table_get | `Get` seeks bytewise to (key, snapshot, put), and a trailer's type byte comes first: a deletion at the snapshot, and other visible versions, lie before it and are not found | test/lsm_engine_test.cpp:444: the deletion is found |
| reopen | MANIFEST checksums are written over length and payload and verified over the payload: no database can be opened twice | version/manifest.h:53: rebuilt |
| stale_immutable | a memtable whose flush failed is never flushed again, while later ones are: it holds older versions than the tables | docs/design_output.md:19-21: read order |

Three divergences have no run, because they show in single steps of the models:
`extend` with a negative duration brings the expiry forward (LeaseQueue.h:235;
job_queue/docs/invariants.md:28 calls extension monotonic); `reap_expired` leaves
`attempts` alone, `lease` counts them (LeaseQueue.h:284;
job_queue/docs/control_flow.md:28 counts them on requeue); and a failing `FileExists`
makes `LogAndApply` replace the MANIFEST by the new record alone (manifest.cpp:232;
version/manifest.h:56 appends the edit to it).

The WAL is emptied at Open while its writes are in the memtable alone (db.cpp:50-54):
the code's comment states it as a choice, so no property is held against it, and a crash
at that point is a step of the model.

## 7. Not modelled, and the plan

Order of the modules: the lease queue first, as the only finished program of the
repository and the one with concurrency; then what the engine's reads rest on
(memtable, merge), what it writes (tables), and what ties them together (store).
Done so far: sections 2 to 5. What comes next, most important first:

1. *An abstract key-value store* that the memtable, its frozen copies and the merge
   implement, with the documented collapse of versions.
2. *The store again*: the bytes of WAL and MANIFEST records, cut and damaged, and the
   survival of WAL records over a crash.

Not planned: the compaction scaffold, which does nothing; the skeletons, tools and
designs; payloads, logging, and the formats of records beyond what their readers
and writers could disagree on.
