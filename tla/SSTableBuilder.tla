--------------------------- MODULE SSTableBuilder ---------------------------
(***************************************************************************)
(* The writer of lsm_mini_engine's sorted tables: entries are collected in *)
(* a block builder, full blocks are appended to the file and indexed by    *)
(* their last key, and Finish appends the index block and the footer.      *)
(* And what TableReader::Open makes of the index block (ParseBlock).       *)
(*                                                                         *)
(* Blocks are kept as their entries; the bytes the code counts (sizes,     *)
(* offsets, the block size estimate) are the numbers the code computes.    *)
(* The file may refuse an Append; the caller then gives the table up, as   *)
(* DB::FlushFrozenToSST does.  A definition directly above another with    *)
(* the same parameters is a slip that the properties detect.               *)
(***************************************************************************)
EXTENDS KeyOrder, Sequences, SequencesExt, Functions

CONSTANTS ValueLen,   \* the lengths of the values added
          KeyLen,     \* the length of an internal key
          BlockSize,  \* SstBuilderOptions::block_size
          MaxEntries  \* bound: entries accepted

ASSUME TableAssumption ==
  /\ ValueLen \subseteq Nat /\ KeyLen \in Nat /\ BlockSize \in Nat /\ MaxEntries \in Nat

VARIABLES data_block,    \* the entries of the current block: [key, len]
          index_block,   \* the index entries: [key, offset, size]
          last_data_key, \* a key, or << >> before the first
          last_key_in_current_block,
          offset, finished,
          file,          \* what was appended: data blocks, index block, footer
          \* The calls, for the properties.
          accepted,      \* the entries whose Add returned OK
          asked, result  \* the key and the status of the last call

tvars == <<data_block, index_block, last_data_key, last_key_in_current_block, offset, finished,
           file, accepted, asked, result>>

-----------------------------------------------------------------------------
(* Sizes *)

\* Seven bits to a byte, of lengths in 32 bits and of offsets below 2^35.
VarintLen(n) == 1 + Cardinality({i \in 1 .. 4 : n >= 128 ^ i})

EntryLen(klen, vlen) == VarintLen(klen) + VarintLen(vlen) + klen + vlen

Total(lens) ==
  LET sum[i \in 0 .. Len(lens)] == IF i = 0 THEN 0 ELSE sum[i - 1] + lens[i]
  IN  sum[Len(lens)]

DataLens(entries) == [i \in DOMAIN entries |-> EntryLen(KeyLen, entries[i].len)]
IndexLens(entries) ==
  [i \in DOMAIN entries |->
     EntryLen(KeyLen, VarintLen(entries[i].offset) + VarintLen(entries[i].size))]

\* A finished block: entries, number of entries, offsets of the entries.
BlockLen(lens) == Total(lens) + 4 + 4 * Len(lens)

FooterLen == 40

-----------------------------------------------------------------------------
(* Add *)

OrderedAsMemtable(key) == last_data_key # << >> => MemtableBefore(last_data_key, key)
Ordered(key) == last_data_key # << >> => BytewiseLess(last_data_key, key)

\* The current block is written out when the entry could take it to its size.
FullWithoutOverhead(vlen) ==
  data_block # << >> /\ BlockLen(DataLens(data_block)) + KeyLen + vlen >= BlockSize
Full(vlen) ==
  data_block # << >> /\ BlockLen(DataLens(data_block)) + KeyLen + vlen + 16 >= BlockSize

DataPiece(entries) == [kind |-> "data", entries |-> entries, len |-> BlockLen(DataLens(entries))]

\* The index entry of the current block.
HandleAfter(key) ==
  [key |-> key, offset |-> offset + DataPiece(data_block).len, size |-> DataPiece(data_block).len]
Handle(key) == [key |-> key, offset |-> offset, size |-> DataPiece(data_block).len]

Refused(key, status) ==
  /\ asked' = key /\ result' = status
  /\ UNCHANGED <<data_block, index_block, last_data_key, last_key_in_current_block, offset,
                 finished, file, accepted>>

\* The entry goes to `block`, the current one or, after a flush, a new one.
AddTo(block, key, vlen) ==
  /\ data_block' = Append(block, [key |-> key, len |-> vlen])
  /\ last_data_key' = key /\ last_key_in_current_block' = key
  /\ accepted' = Append(accepted, [key |-> key, len |-> vlen])
  /\ asked' = key /\ result' = "ok"
  /\ UNCHANGED finished

AddRefused(key) ==
  /\ result # "io_error"
  /\ finished \/ ~Ordered(key)
  /\ Refused(key, "invalid")

AddToBlock(key, vlen) ==
  /\ result # "io_error" /\ ~finished /\ Ordered(key) /\ ~Full(vlen)
  /\ Len(accepted) < MaxEntries
  /\ AddTo(data_block, key, vlen)
  /\ UNCHANGED <<index_block, offset, file>>

\* FlushDataBlock, then the entry starts a block.
AddAfterFlush(key, vlen) ==
  /\ result # "io_error" /\ ~finished /\ Ordered(key) /\ Full(vlen)
  /\ Len(accepted) < MaxEntries
  /\ file' = Append(file, DataPiece(data_block))
  /\ offset' = offset + DataPiece(data_block).len
  /\ index_block' = Append(index_block, Handle(last_key_in_current_block))
  /\ AddTo(<< >>, key, vlen)

\* The block builder is reset before the Append that fails.
AddFails(key, vlen) ==
  /\ result # "io_error" /\ ~finished /\ Ordered(key) /\ Full(vlen)
  /\ data_block' = << >>
  /\ asked' = key /\ result' = "io_error"
  /\ UNCHANGED <<index_block, last_data_key, last_key_in_current_block, offset, finished, file,
                 accepted>>

Add(key, vlen) ==
  AddRefused(key) \/ AddToBlock(key, vlen) \/ AddAfterFlush(key, vlen) \/ AddFails(key, vlen)

-----------------------------------------------------------------------------
(* Finish and Abandon *)

IndexPiece(entries) == [kind |-> "index", entries |-> entries, len |-> BlockLen(IndexLens(entries))]
Footer(at, len) == [kind |-> "footer", index_offset |-> at, index_size |-> len, len |-> FooterLen]

\* What Finish appends: the last data block, if there is one, the index block
\* (the meta block is empty) and the footer.
PiecesWithoutLast ==
  LET index == IndexPiece(index_block)
  IN  <<index, Footer(offset, index.len)>>
Pieces ==
  LET rest  == IF data_block = << >> THEN << >> ELSE <<DataPiece(data_block)>>
      index == IndexPiece(IF data_block = << >> THEN index_block
                          ELSE Append(index_block, Handle(last_key_in_current_block)))
      at    == offset + Total([i \in DOMAIN rest |-> rest[i].len])
  IN  rest \o <<index, Footer(at, index.len)>>

\* The first `done` of the Appends succeed, then one fails, unless all are done.
Finish ==
  /\ result # "io_error" /\ ~finished
  /\ \E done \in 0 .. Len(Pieces) :
       LET written == SubSeq(Pieces, 1, done)
       IN  /\ file' = file \o written
           /\ offset' = offset + Total([i \in DOMAIN written |-> written[i].len])
           /\ finished' = (done = Len(Pieces))
           /\ result' = IF done = Len(Pieces) THEN "ok" ELSE "io_error"
       /\ IF data_block = << >> \/ done > 0
            THEN index_block' = << >> /\ last_key_in_current_block' = << >>
            ELSE UNCHANGED <<index_block, last_key_in_current_block>>
  /\ data_block' = << >>
  /\ asked' = << >>
  /\ UNCHANGED <<last_data_key, accepted>>

\* A table that was abandoned stays as it is on disk.
Abandon ==
  /\ result # "io_error" /\ ~finished
  /\ finished' = TRUE
  /\ asked' = << >> /\ result' = "abandoned"
  /\ UNCHANGED <<data_block, index_block, last_data_key, last_key_in_current_block, offset, file,
                 accepted>>

FinishRefused ==
  result # "io_error" /\ finished /\ Refused(<< >>, "invalid")

Init ==
  /\ data_block = << >> /\ index_block = << >>
  /\ last_data_key = << >> /\ last_key_in_current_block = << >>
  /\ offset = 0 /\ finished = FALSE
  /\ file = << >>
  /\ accepted = << >> /\ asked = << >> /\ result = "ok"

Next ==
  \/ \E key \in Key, vlen \in ValueLen : Add(key, vlen)
  \/ Finish \/ FinishRefused \/ Abandon

Spec == Init /\ [][Next]_tvars

-----------------------------------------------------------------------------
(* What TableReader::Open reads *)

\* The last four bytes of a block: its last offset, or, without entries, their number.
LastWord(lens) == IF lens = << >> THEN 0 ELSE Total(Front(lens))

\* ParseBlock takes the last word for the number of entries.
ParseBlock(lens) ==
  LET n == LastWord(lens)
  IN  [status |-> IF BlockLen(lens) < 4 + 4 * n THEN "bad_trailer" ELSE "ok", num_entries |-> n]

\* The index block is where the footer says; a file that does not end in one is
\* too small or has not the magic number.
Opened ==
  IF file = << >> \/ Last(file).kind # "footer"
    THEN [status |-> "not_a_table", num_entries |-> 0]
    ELSE ParseBlock(IndexLens(file[Len(file) - 1].entries))

-----------------------------------------------------------------------------
At(kind) == {i \in DOMAIN file : file[i].kind = kind}

\* The data blocks, which come first.
DataPieces == SubSeq(file, 1, Cardinality(At("data")))

\* The index: in the builder, and then in the file.
Index == IF At("index") = {} THEN index_block ELSE file[CHOOSE i \in At("index") : TRUE].entries

LenOf(pieces) == Total([i \in DOMAIN pieces |-> pieces[i].len])

\* Every index entry locates its data block to the byte and carries the last key
\* in it; the footer locates the index.  An Append that failed is not counted.
IndexAddressesBlocks ==
  /\ offset = LenOf(file)
  /\ result # "io_error" =>
       /\ Len(Index) = Len(DataPieces)
       /\ \A i \in DOMAIN Index :
            Index[i] = [key    |-> Last(DataPieces[i].entries).key,
                        offset |-> LenOf(SubSeq(DataPieces, 1, i - 1)),
                        size   |-> DataPieces[i].len]
  /\ \A i \in DOMAIN file :
       file[i].kind = "footer" =>
         /\ file[i].index_offset = LenOf(SubSeq(file, 1, i - 2))
         /\ file[i].index_size = file[i - 1].len

\* Every entry whose Add returned OK is in the file or in the current block, in
\* order and once, over any number of blocks, refused keys and repeated calls; in
\* a finished table all of them are in the file.
NothingDropped ==
  result # "io_error" =>
    FlattenSeq([i \in DOMAIN DataPieces |-> DataPieces[i].entries]) \o data_block = accepted

\* What the binary searches of the reader rest on: no key of a block is above its
\* index key, and every key of a later block is, also across a block boundary,
\* where the block builder has forgotten the last key.
SortedForSearch ==
  result # "io_error" =>
    \A i, k \in DOMAIN DataPieces : \A e \in Range(DataPieces[k].entries) :
      /\ i = k => ~BytewiseLess(Index[i].key, e.key)
      /\ i < k => BytewiseLess(Index[i].key, e.key)

\* A block of more than one entry stays below the block size, whatever the varints
\* and offsets add to keys and values (the code allows 16 bytes for them).
BlocksWithinTarget ==
  \A i \in DOMAIN DataPieces :
    Len(DataPieces[i].entries) > 1 => DataPieces[i].len < BlockSize

\* block.h:11-12: "entries... + [num_entries fixed32] + [offsets fixed32[num_entries]]":
\* the reader of a finished table finds the index entries the builder wrote.
TableReadsBack ==
  (finished /\ At("index") # {}) => Opened = [status |-> "ok", num_entries |-> Len(Index)]

\* lsm_engine_test.cpp:432-434: a memtable goes into a table in its own order, the
\* older version of a key after the newer one.
OlderVersionAccepted ==
  (result = "invalid" /\ ~finished) =>
    ~(last_data_key.user = asked.user /\ last_data_key.seq > asked.seq)

=============================================================================
