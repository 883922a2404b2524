---------------------------- MODULE LeaseHistory ----------------------------
(***************************************************************************)
(* The lease queue as its workers see it over time.  lease() hands each    *)
(* worker a LeaseResult, and a worker can present it to extend() and       *)
(* complete() at any later time: after the lease expired, after the job    *)
(* went to another worker or back to the same one, and after a new job     *)
(* was enqueued under the same id.  The queue itself remembers none of     *)
(* this, so the module records what was granted and what was completed.    *)
(***************************************************************************)
EXTENDS LeaseQueue

VARIABLES grants, \* the LeaseResults handed out: [id, seq, worker, token]
          done    \* those that a complete() that returned true was called with

hvars == <<vars, grants, done>>

Grant == [id : JobId, seq : Nat, worker : WorkerId, token : Nat]

\* What was completed had been granted.
HTypeOK == TypeOK /\ grants \subseteq Grant /\ done \subseteq grants

HInit == Init /\ grants = {} /\ done = {}

HEnqueue(id) == Enqueue(id) /\ UNCHANGED <<grants, done>>

\* What lease() returns goes to the worker; nullopt goes nowhere.
HLease(w, d) ==
  /\ Lease(w, d)
  /\ grants' = grants \cup {[id |-> id, seq |-> jobs[id].seq, worker |-> w,
                             token |-> next_lease_token] :
                              id \in {Head(ready)} \cap DOMAIN jobs}
  /\ UNCHANGED done

\* Workers keep what they were given, and use it when they like.
HExtend(g, extra) ==
  Extend(g.id, g.worker, g.token, extra) /\ UNCHANGED <<grants, done>>

HComplete(g) ==
  Complete(g.id, g.worker, g.token) /\ done' = done \cup {g} /\ UNCHANGED grants

HReap == Reap /\ UNCHANGED <<grants, done>>

HTick == Tick /\ UNCHANGED <<grants, done>>

HNext ==
  \/ \E id \in JobId : HEnqueue(id)
  \/ \E w \in WorkerId, d \in LeaseDur : HLease(w, d)
  \/ \E g \in grants : HComplete(g) \/ \E extra \in ExtraDur : HExtend(g, extra)
  \/ HReap
  \/ HTick

HSpec == HInit /\ [][HNext]_hvars

-----------------------------------------------------------------------------
\* A job that was enqueued once is completed at most once, however many of the
\* workers it was leased to come back and report success.
CompletedOnce == \A c, d \in done : c.seq = d.seq => c = d

\* The completion that counts is that of the last worker the job was leased to:
\* no earlier holder gets in before it, and nobody is given the job afterwards.
LastHolderCompletes ==
  \A c \in done, g \in grants : g.seq = c.seq => g.token <= c.token

\* attempts is the number of times the job was handed to a worker (Job's
\* comment), counted per enqueued job and not per id.
AttemptsAreGrants ==
  \A id \in DOMAIN jobs :
    jobs[id].attempts = Cardinality({g \in grants : g.seq = jobs[id].seq})

\* Every job that enqueue accepted is still there or was completed, not both:
\* expiry, requeueing and refused duplicates lose and duplicate nothing.
NothingLost ==
  \A s \in 1 .. next_enqueue_seq - 1 :
    (\E id \in DOMAIN jobs : jobs[id].seq = s) <=> ~ \E c \in done : c.seq = s

=============================================================================
