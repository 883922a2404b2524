------------------------------ MODULE LsmStore ------------------------------
(***************************************************************************)
(* The storage side of lsm_mini_engine: opening a database (DB::Open,      *)
(* VersionSet::Recover, WalReader::Replay), flushing frozen memtables to   *)
(* tables (DB::MaybeFlush, FlushFrozenToSST) and logging every change of   *)
(* the set of tables in the MANIFEST (VersionSet::LogAndApply), with a     *)
(* file system whose calls may fail and a process that may die between     *)
(* any two of them.                                                        *)
(*                                                                         *)
(* One thread runs all of it: pc is where that thread is.  The steps are   *)
(* the calls that change files, with what the code does up to the next.    *)
(* DB::Put is declared and not defined in the repository: it is modelled   *)
(* as docs/design_output.md:11-15 orders its steps.  So is the Env, from   *)
(* how it is called: rename is atomic, Sync keeps what was appended, and   *)
(* a crash keeps any prefix of what was not synced, cut within a record.   *)
(* A write is its key, sequence number and type; a put's value follows     *)
(* from them.                                                              *)
(***************************************************************************)
EXTENDS Integers, Sequences, SequencesExt

CONSTANTS UserKey,
          FlushAt,  \* mem_flush_threshold_bytes, in writes
          \* Bounds, for model checking only.
          MaxSeq, MaxCrash

ASSUME StoreAssumption ==
  FlushAt \in Nat \ {0} /\ MaxSeq \in Nat /\ MaxCrash \in Nat

VARIABLES \* On disk.
          manifest,  \* [exists, records, torn]
          wal,       \* [exists, records, torn]
          tables,    \* file number :> [writes, whole]
          temp,      \* the records of MANIFEST.tmp_append
          \* In the process.
          pc,
          version,   \* the published Version: [last_sequence, next_file_number, l0]
          mem, immutables, last_seq,
          edit, after, \* LogAndApply: the edit, and where it returns to
          \* For the properties and the bound.
          acked,     \* writes this process replayed or accepted
          forgotten, \* numbers of the files LogAndApply dropped from the MANIFEST
          crashes

disk == <<manifest, wal, tables>>
log == <<temp, forgotten>>
svars == <<disk, log, pc, version, mem, immutables, last_seq, edit, after, acked, crashes>>

-----------------------------------------------------------------------------
(* The MANIFEST *)

Numbers(files) == {f.number : f \in files}

FileMeta(number, writes) == [number |-> number, writes |-> writes]

NewVersion == [last_sequence |-> 0, next_file_number |-> 1, l0 |-> {}]

\* The generation and the order of the files are left out: nothing here reads them.
Apply(v, e) ==
  [last_sequence    |-> e.last_sequence,
   next_file_number |-> e.next_file_number,
   l0 |-> {f \in v.l0 : f.number \notin e.del_l0} \cup e.add_l0]

NoEdit == [last_sequence |-> 0, next_file_number |-> 1, add_l0 |-> {}, del_l0 |-> {}]

\* A record's checksum stands for the bytes it is computed over: length and
\* payload when it is appended, the payload alone when it is verified.
AppendedCrc(e) == [length |-> TRUE, payload |-> e]
VerifiedCrc(e) == [length |-> FALSE, payload |-> e]

Record(e) == [crc |-> AppendedCrc(e), edit |-> e]

\* The version the records describe.
Replayed(records) ==
  LET upto[i \in 0 .. Len(records)] ==
        IF i = 0 THEN NewVersion ELSE Apply(upto[i - 1], records[i].edit)
  IN  upto[Len(records)]

\* Recover reads the file as a whole or not at all.
Readable(m) == ~m.torn /\ \A i \in DOMAIN m.records : m.records[i].crc = VerifiedCrc(m.records[i].edit)

-----------------------------------------------------------------------------
(* Opening *)

NoFile == [exists |-> FALSE, records |-> << >>, torn |-> FALSE]
EmptyFile == [exists |-> TRUE, records |-> << >>, torn |-> FALSE]

\* What a new process starts from.
Fresh ==
  /\ version' = NewVersion /\ mem' = {} /\ immutables' = << >> /\ last_seq' = 0
  /\ edit' = NoEdit /\ after' = "open" /\ acked' = {}

\* Recover: a new MANIFEST is created, an existing one replayed.
CreateManifest ==
  /\ pc = "down" /\ ~manifest.exists
  /\ manifest' = EmptyFile
  /\ pc' = "created"
  /\ UNCHANGED <<wal, tables, version, mem, immutables, last_seq, edit, after, acked, log, crashes>>

\* Append and Sync of the initial record.
AppendInitial ==
  /\ pc = "created"
  /\ manifest' = [manifest EXCEPT !.records = <<Record(NoEdit)>>]
  /\ version' = NewVersion
  /\ pc' = "recovered"
  /\ UNCHANGED <<wal, tables, mem, immutables, last_seq, edit, after, acked, log, crashes>>

\* It may have left a part of the record, or all of it.
AppendInitialFails ==
  /\ pc = "created"
  /\ manifest' \in {manifest, [manifest EXCEPT !.torn = TRUE],
                     [manifest EXCEPT !.records = <<Record(NoEdit)>>]}
  /\ pc' = "down"
  /\ UNCHANGED <<wal, tables, version, mem, immutables, last_seq, edit, after, acked, log, crashes>>

RecoverManifest ==
  /\ pc = "down" /\ manifest.exists
  /\ IF Readable(manifest)
       THEN pc' = "recovered" /\ version' = Replayed(manifest.records)
       ELSE pc' = "refused" /\ UNCHANGED version
  /\ UNCHANGED <<disk, mem, immutables, last_seq, edit, after, acked, log, crashes>>

\* What WalReader makes of the file: the records and their last sequence number,
\* unless it ends within a record.
Replay ==
  [status  |-> IF wal.torn THEN "corruption" ELSE "ok",
   writes  |-> Range(wal.records),
   max_seq |-> Max({0} \cup {w.seq : w \in Range(wal.records)})]

\* RecoverWAL, after the listed tables were opened: the records are applied to the
\* memtable, and the MANIFEST is told of the last sequence number.
ReplayWal ==
  /\ pc = "recovered"
  /\ IF ~wal.exists THEN pc' = "replayed" /\ UNCHANGED <<mem, last_seq, edit, after, acked>>
     ELSE IF Replay.status # "ok" THEN pc' = "refused" /\ UNCHANGED <<mem, last_seq, edit, after, acked>>
     ELSE /\ mem' = Replay.writes /\ acked' = Replay.writes
          /\ last_seq' = Replay.max_seq
          /\ edit' = [NoEdit EXCEPT !.last_sequence = last_seq',
                                    !.next_file_number = version.next_file_number]
          /\ pc' = "log" /\ after' = "replayed"
  /\ UNCHANGED <<disk, version, immutables, log, crashes>>

\* The WAL is opened anew, which empties it.
TruncateWal ==
  /\ pc = "replayed"
  /\ wal' = EmptyFile
  /\ pc' = "open"
  /\ UNCHANGED <<manifest, tables, version, mem, immutables, last_seq, edit, after, acked, log, crashes>>

\* A table or the WAL could not be opened, the latter before it was emptied or after.
OpenFails ==
  /\ pc \in {"recovered", "replayed"}
  /\ wal' = wal \/ (pc = "replayed" /\ wal' = EmptyFile)
  /\ pc' = "down" /\ Fresh
  /\ UNCHANGED <<manifest, tables, log, crashes>>

-----------------------------------------------------------------------------
(* LogAndApply *)

\* The old MANIFEST and the new record are written to another file and synced.
\* Whether there is an old one FileExists says, whose status nobody looks at: if
\* it fails, the new record is all that is written.
WriteRecords(records) ==
  /\ pc = "log"
  /\ temp' = records
  /\ pc' = "rename"
  /\ UNCHANGED <<disk, forgotten, version, mem, immutables, last_seq, edit, after, acked, crashes>>

WriteTemp == WriteRecords(Append(manifest.records, Record(edit)))
WriteTempAlone == WriteRecords(<<Record(edit)>>)

RenameTemp ==
  /\ pc = "rename"
  /\ manifest' = [manifest EXCEPT !.records = temp]
  /\ temp' = << >>
  /\ forgotten' = forgotten \cup (Numbers(Replayed(manifest.records).l0) \ Numbers(Replayed(temp).l0))
  /\ pc' = "publish"
  /\ UNCHANGED <<wal, tables, version, mem, immutables, last_seq, edit, after, acked, crashes>>

\* An error returns at once, in the end from Open, or from MaybeFlush.  What is
\* left in the other file nobody reads.
LogError(v) ==
  /\ pc \in {"log", "rename"}
  /\ temp' = << >>
  /\ IF after = "open"
       THEN pc' = "open" /\ version' = v /\ UNCHANGED <<mem, immutables, last_seq, edit, after, acked>>
       ELSE pc' = "down" /\ Fresh
  /\ UNCHANGED <<disk, forgotten, crashes>>

LogFailsPublished == LogError(Apply(version, edit))
LogFails == LogError(version)

\* Back in MaybeFlush, the flushed memtable is dropped.
Publish ==
  /\ pc = "publish"
  /\ version' = Apply(version, edit)
  /\ pc' = after
  /\ immutables' = IF after = "open" THEN Front(immutables) ELSE immutables
  /\ UNCHANGED <<disk, mem, last_seq, edit, after, acked, log, crashes>>

-----------------------------------------------------------------------------
(* Writing and flushing *)

kDel == 0
kPut == 1

\* WalWriter::AppendRecord: a record at the end of the file.
AppendRecord(w) == wal' = [wal EXCEPT !.records = Append(@, w)]

AppendPut(key, seq) == [key |-> key, seq |-> seq, type |-> kPut]
AppendDel(key, seq) == [key |-> key, seq |-> seq, type |-> kDel]

\* WAL first, then the memtable.
Write(w) ==
  /\ pc = "open" /\ last_seq < MaxSeq
  /\ AppendRecord(w)
  /\ mem' = mem \cup {w} /\ acked' = acked \cup {w}
  /\ last_seq' = last_seq + 1
  /\ pc' = "written"
  /\ UNCHANGED <<manifest, tables, version, immutables, edit, after, log, crashes>>

Put(key) == Write(AppendPut(key, last_seq + 1))
Del(key) == Write(AppendDel(key, last_seq + 1))

MaybeFlush ==
  /\ pc = "written"
  /\ IF Cardinality(mem) < FlushAt
       THEN pc' = "open" /\ UNCHANGED <<mem, immutables>>
       ELSE pc' = "flush" /\ immutables' = Append(immutables, mem) /\ mem' = {}
  /\ UNCHANGED <<disk, version, last_seq, edit, after, acked, log, crashes>>

NumberReused(number) == number
NumberAfter(number) == number + 1

SetTable(number, table) ==
  [n \in DOMAIN tables \cup {number} |-> IF n = number THEN table ELSE tables[n]]

\* The table is built, finished, synced and opened, and its edit goes to the log.
WriteTable ==
  /\ pc = "flush"
  /\ LET number == version.next_file_number
         writes == Last(immutables)
     IN  /\ tables' = SetTable(number, [writes |-> writes, whole |-> TRUE])
         /\ edit' = [last_sequence    |-> last_seq,
                     next_file_number |-> NumberAfter(number),
                     add_l0 |-> {FileMeta(number, writes)}, del_l0 |-> {}]
  /\ pc' = "log" /\ after' = "open"
  /\ UNCHANGED <<manifest, wal, version, mem, immutables, last_seq, acked, log, crashes>>

\* A flush that ends in an error, after the file was created or before: a call of
\* the file system failed, the builder refused an older version of a key, or the
\* reader the index of the table (SSTableBuilder says which; here either may be).
FlushError(kept, v) ==
  /\ pc = "flush"
  /\ \/ tables' = SetTable(version.next_file_number, [writes |-> {}, whole |-> FALSE])
     \/ UNCHANGED tables
  /\ pc' = "open" /\ immutables' = kept /\ version' = v
  /\ UNCHANGED <<manifest, wal, mem, last_seq, edit, after, acked, log, crashes>>

FlushFailsForgetting == FlushError(Front(immutables), version)
FlushFailsSkipping == FlushError(immutables, [version EXCEPT !.next_file_number = @ + 1])
FlushFails == FlushError(immutables, version)

-----------------------------------------------------------------------------
(* The process dies.  The WAL is never synced by the engine. *)

Crash ==
  /\ pc \notin {"down", "refused"} /\ crashes < MaxCrash
  /\ crashes' = crashes + 1
  /\ pc' = "down"
  /\ \E kept \in Prefixes(wal.records), torn \in BOOLEAN :
       /\ torn => kept # wal.records
       /\ wal' = [wal EXCEPT !.records = kept, !.torn = torn]
  /\ \E torn \in BOOLEAN :
       /\ torn => pc = "created"
       /\ manifest' = [manifest EXCEPT !.torn = torn]
  /\ Fresh /\ temp' = << >>
  /\ UNCHANGED <<tables, forgotten>>

\* Open returned an error, or the database was closed; it can be opened again.
Close ==
  /\ pc \in {"refused", "open"}
  /\ pc' = "down" /\ Fresh
  /\ UNCHANGED <<disk, log, crashes>>

Init ==
  /\ manifest = NoFile /\ wal = NoFile /\ tables = << >>
  /\ pc = "down"
  /\ version = NewVersion /\ mem = {} /\ immutables = << >> /\ last_seq = 0
  /\ edit = NoEdit /\ after = "open" /\ acked = {} /\ crashes = 0
  /\ temp = << >> /\ forgotten = {}

Next ==
  \/ CreateManifest \/ AppendInitial \/ AppendInitialFails \/ RecoverManifest
  \/ ReplayWal \/ TruncateWal \/ OpenFails
  \/ WriteTemp \/ WriteTempAlone \/ RenameTemp \/ LogFails \/ Publish
  \/ \E key \in UserKey : Put(key) \/ Del(key)
  \/ MaybeFlush \/ WriteTable \/ FlushFails
  \/ Crash \/ Close

Spec == Init /\ [][Next]_svars

-----------------------------------------------------------------------------
Up == pc \notin {"down", "created", "refused"}

Listed == Replayed(manifest.records).l0
WritesIn(files) == UNION {f.writes : f \in files}
Frozen == UNION Range(immutables)

\* What is published is what the MANIFEST says, after any failed or interrupted
\* change: the log is one record ahead between the rename and Publish, and never
\* behind.  Only files that a FileExists without an answer made LogAndApply drop
\* are missing from it.
ManifestIsVersion ==
  Up => LET published == IF pc = "publish" THEN Apply(version, edit) ELSE version
        IN  Replayed(manifest.records)
              = [published EXCEPT !.l0 = {f \in @ : f.number \notin forgotten}]

\* A table in the MANIFEST is whole on disk, with the writes it was made for, and
\* no later flush takes its number, nor that of a dropped one the process still
\* reads, also after flushes that failed and crashes.
ListedTablesWhole ==
  LET v == Replayed(manifest.records)
  IN  /\ \A f, g \in Listed : f.number = g.number => f = g
      /\ \A f \in Listed :
           f.number \in DOMAIN tables /\ tables[f.number] = [writes |-> f.writes, whole |-> TRUE]
      /\ \A n \in forgotten \cup Numbers(Listed) : n < v.next_file_number

\* Flushes that fail leave at most one file behind, the one the next overwrites.
OneOrphan ==
  DOMAIN tables \subseteq
    Numbers(Listed) \cup forgotten \cup {Replayed(manifest.records).next_file_number}

\* While the process lives, a write it replayed or accepted is in the memtable, in
\* an immutable one, or in a published table, however a flush ends.
NoWriteVanishes ==
  Up => acked \subseteq mem \cup Frozen \cup WritesIn(version.l0)

\* manifest.h:53: "DB open: rebuild version by replaying MANIFEST records.", so
\* Open refuses only files that a crash has cut within a record.
ReopenRebuilds == pc = "refused" => manifest.torn \/ wal.torn

\* docs/design_output.md:17-21: a read asks the memtable, then the immutable ones,
\* then the tables, and stops at the first hit, which is right as long as the
\* former hold the newer versions of a key.
ImmutablesNewer ==
  \A w \in Frozen, t \in WritesIn(version.l0) : w.key = t.key => w.seq >= t.seq

=============================================================================
