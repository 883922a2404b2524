------------------------------ MODULE KeyOrder ------------------------------
(***************************************************************************)
(* The internal keys of lsm_mini_engine and their two orders: the one      *)
(* tables are searched in, byte by byte, and the one memtables iterate in. *)
(***************************************************************************)
EXTENDS Integers

CONSTANTS UserKey,  \* user keys, of equal length: numbers, for their byte order
          SeqNo,    \* sequence numbers
          ByteBase  \* 256: a sequence number is stored low byte first

ASSUME KeyAssumption ==
  UserKey \subseteq Nat /\ ByteBase \in Nat \ {0, 1} /\ SeqNo \subseteq 0 .. ByteBase * ByteBase - 1

kDel == 0
kPut == 1

Key == [user : UserKey, seq : SeqNo, type : {kDel, kPut}]

\* An internal key as it is stored: the user key, then the trailer, little-endian:
\* the type comes first and the sequence number's low byte before its high one.
Bytes(key) == <<key.user, key.type, key.seq % ByteBase, key.seq \div ByteBase>>

BytewiseLess(a, b) ==
  LET x == Bytes(a)
      y == Bytes(b)
  IN  \E i \in 1 .. 4 : x[i] < y[i] /\ \A j \in 1 .. i - 1 : x[j] = y[j]

\* The order the memtable iterates in: InternalKeyComparator.
MemtableBefore(a, b) ==
  \/ a.user < b.user
  \/ a.user = b.user /\ (a.seq > b.seq \/ (a.seq = b.seq /\ a.type > b.type))

=============================================================================
