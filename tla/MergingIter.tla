---------------------------- MODULE MergingIter ----------------------------
(***************************************************************************)
(* The k-way merge of lsm_mini_engine/src/iter: child iterators over       *)
(* sorted internal keys, here those of frozen memtables, behind one        *)
(* iterator that keeps the children in a heap by their current key.        *)
(*                                                                         *)
(* A child may fail at any repositioning, as an iterator over a table does *)
(* when it cannot read a block: it is then invalid and says so in its      *)
(* status.  The iterator is opened once the memtables are frozen; writes   *)
(* that come later go to other memtables and are left out.                 *)
(***************************************************************************)
EXTENDS MemTable

CONSTANTS Target,      \* the internal keys Seek is called with
          ChildMayFail

ASSUME IterAssumption == Target \subseteq InternalKey /\ ChildMayFail \in BOOLEAN

VARIABLES children, \* the sorted keys of each child
          pos,      \* where each child stands
          heap,     \* the children in the heap (their key is the current one)
          cur,      \* the entry shown, as <<child, position>>
          valid, status,
          \* What the caller asked for and was shown since, for the properties.
          target, shown

ivars == <<children, pos, heap, cur, valid, status, target, shown>>
allvars == <<mvars, ivars>>

Start == [user |-> 0, trailer |-> 2 * SeqLimit]

KeyAt(i, p) == children[i][p]

\* The child with the least key is on top; of equal keys, any.
TopByUserKey(h, p) ==
  {i \in h : \A j \in h : KeyAt(i, p[i]).user <= KeyAt(j, p[j]).user}
Top(h, p) == {i \in h : \A j \in h : ~Before(KeyAt(j, p[j]), KeyAt(i, p[i]))}

\* RebuildTop.
Show(h, p, st, before) ==
  IF st = "ok" /\ h # {}
    THEN \E i \in Top(h, p) :
           valid' = TRUE /\ cur' = <<i, p[i]>> /\ shown' = Append(before, <<i, p[i]>>)
    ELSE valid' = FALSE /\ cur' = cur /\ shown' = before

LastStatus(failed) == IF Len(children) \in failed THEN "failed" ELSE "ok"
SeekStatus(failed) == IF failed # {} THEN "failed" ELSE "ok"

\* Seek and SeekToFirst: every child is repositioned, and the valid ones are
\* pushed on an empty heap.
Reposition(p, ik) ==
  \E failed \in SUBSET (IF ChildMayFail THEN DOMAIN children ELSE {}) :
    LET h == {i \in DOMAIN children \ failed : p[i] <= Len(children[i])}
    IN  /\ pos' = p /\ heap' = h /\ status' = SeekStatus(failed) /\ target' = ik
        /\ Show(h, p, SeekStatus(failed), << >>)
        /\ UNCHANGED <<mvars, children>>

SeekToFirst ==
  children # << >> /\ Reposition([i \in DOMAIN children |-> 1], Start)

Seek(ik) ==
  /\ children # << >>
  /\ Reposition([i \in DOMAIN children |->
                   1 + Cardinality({q \in DOMAIN children[i] : Before(KeyAt(i, q), ik)})], ik)

PushNever(h, i, p, failed) == h \ {i}
PushBack(h, i, p, failed) ==
  IF failed \/ p[i] > Len(children[i]) THEN h \ {i} ELSE h

\* Next: AdvanceTop pops the top, moves its child and pushes it back if it is
\* still valid; then RebuildTop.
Advance ==
  /\ valid
  /\ \E failed \in {FALSE, ChildMayFail} :
       LET i  == cur[1]
           p  == [pos EXCEPT ![i] = @ + 1]
           h  == PushBack(heap, i, p, failed)
           st == IF failed THEN "failed" ELSE status
       IN  /\ pos' = p /\ heap' = h /\ status' = st
           /\ Show(h, p, st, shown)
  /\ UNCHANGED <<mvars, children, target>>

SortedOrders(keys) ==
  {s \in Bijection(1 .. Cardinality(keys), keys) :
     \A a, b \in 1 .. Cardinality(keys) : a < b => Before(s[a], s[b])}

\* One child per frozen memtable (MemTable::NewIterator).
Open ==
  /\ children = << >> /\ frozen # << >>
  /\ children' = [i \in DOMAIN frozen |-> CHOOSE s \in SortedOrders(DOMAIN frozen[i].map) : TRUE]
  /\ UNCHANGED <<mvars, pos, heap, cur, valid, status, target, shown>>

IInit ==
  /\ Init
  /\ children = << >> /\ pos = << >> /\ heap = {} /\ cur = << >>
  /\ valid = FALSE /\ status = "ok" /\ target = << >> /\ shown = << >>

INext ==
  \/ children = << >> /\ Next /\ UNCHANGED ivars
  \/ Open
  \/ SeekToFirst
  \/ \E ik \in Target : Seek(ik)
  \/ Advance

ISpec == IInit /\ [][INext]_allvars

-----------------------------------------------------------------------------
\* Global order: user keys ascending and, for each, the newest version first,
\* whichever memtables the versions are in.
MergedInOrder ==
  \A a, b \in DOMAIN shown :
    a < b => ~Before(KeyAt(shown[b][1], shown[b][2]), KeyAt(shown[a][1], shown[a][2]))

Entries == UNION {{<<i, p>> : p \in DOMAIN children[i]} : i \in DOMAIN children}

Key(e) == KeyAt(e[1], e[2])

Wanted(ik) == {e \in Entries : ~Before(Key(e), ik)}

\* As long as the status is OK, the entries at or after the target are those
\* shown so far, each once, and those ahead of the children in the heap: a scan
\* that ends with an OK status has shown everything, and an iterator that lost
\* something says so.
NothingSkipped ==
  (target # << >> /\ status = "ok") =>
    LET ahead == {e \in Wanted(target) : e[1] \in heap /\ e[2] >= pos[e[1]]}
    IN  /\ IsInjective(shown)
        /\ Range(shown) \cup ahead = Wanted(target)
        /\ ~valid => ahead = {}

\* The merge is an iterator over the entries of all its children, one that leaves
\* out nothing in silence, as long as none of its children does.
Contract ==
  INSTANCE Iterator WITH
    Less <- Before, lossy <- FALSE,
    contents <- [e \in Entries |-> Key(e)],
    at       <- IF valid THEN {cur} ELSE {},
    ahead    <- IF valid THEN Wanted(target) \ Range(shown) ELSE {},
    ok       <- status = "ok"

\* Every step of the merge is one that iter/iterator.h promises, or none: Seek and
\* SeekToFirst go to a least entry, Next to a least of those that are left, and the
\* status fails when a child's does.
ImplementsIterator == Contract!Spec

=============================================================================
