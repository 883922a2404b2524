------------------------------ MODULE Iterator ------------------------------
(***************************************************************************)
(* What the iterator interface of lsm_mini_engine (iter/iterator.h)        *)
(* promises its callers, whoever implements it: the merge, and the table   *)
(* iterators that it may merge.  An iterator shows the entry it is at, or  *)
(* none; it comes by the entries in the order of their keys; and where it  *)
(* shows none although some remain, its status says so.                    *)
(*                                                                         *)
(* A lossy iterator may leave entries out and still have a good status, as *)
(* one over a damaged block does.  It keeps the order all the same.        *)
(***************************************************************************)
CONSTANTS InternalKey, Target, Less(_, _)

VARIABLES contents, \* the key of each entry
          lossy,
          at,       \* the entry shown, if there is one (Valid)
          ahead,    \* those it has yet to come by
          ok        \* whether status() is OK

cvars == <<contents, lossy, at, ahead, ok>>

-----------------------------------------------------------------------------
Least(S) == {e \in S : \A other \in S : ~Less(contents[other], contents[e])}

\* Show the least of the entries, or that there are none.
ShowLeast(S) ==
  /\ ok' = TRUE
  /\ \/ S = {} /\ at' = {} /\ ahead' = {}
     \/ \E e \in Least(S) : at' = {e} /\ ahead' = S \ {e}

Fail == ok' = FALSE /\ at' = {} /\ ahead' = {}

Position(S) ==
  /\ \/ ShowLeast(S)
     \/ Fail
     \/ lossy /\ \E rest \in SUBSET S : ShowLeast(rest)
  /\ UNCHANGED <<contents, lossy>>

-----------------------------------------------------------------------------
HasKeys(c) == \A e \in DOMAIN c : c[e] \in InternalKey

\* What an iterator is over is settled once.
Open ==
  /\ DOMAIN contents = {}
  /\ HasKeys(contents')
  /\ UNCHANGED <<lossy, at, ahead, ok>>

SeekToFirst == Position(DOMAIN contents)

Seek(target) == Position({e \in DOMAIN contents : ~Less(contents[e], target)})

\* Next does nothing on an iterator that is not valid.
Advance == at # {} /\ Position(ahead)

Init ==
  /\ HasKeys(contents) /\ lossy \in BOOLEAN
  /\ at = {} /\ ahead = {} /\ ok = TRUE

Next ==
  \/ Open
  \/ SeekToFirst
  \/ \E target \in Target : Seek(target)
  \/ Advance

Spec == Init /\ [][Next]_cvars

=============================================================================
