-------------------------- MODULE LeaseClientsProofs --------------------------
(***************************************************************************)
(* Theorems about the queue's two clients.  LeaseHistory: what late        *)
(* workers can and cannot do, for any jobs, workers, durations and bounds. *)
(* LeaseWorkers: what the concurrency test asserts at its end, for any     *)
(* number of jobs and workers and every interleaving of the main thread,   *)
(* the cleaner and the workers.  The invariant of the queue                *)
(* (LeaseQueueProofs) is one conjunct of the invariant of each.            *)
(***************************************************************************)
EXTENDS LeaseHistory, LeaseWorkers, LeaseQueueProofs

-----------------------------------------------------------------------------
(* LeaseHistory: the inductive invariant *)

\* Grants carry tokens and sequence numbers the queue has given out, and a
\* token belongs to one grant.
GrantsIssued ==
  /\ next_enqueue_seq >= 1 /\ next_lease_token >= 1
  /\ IsFiniteSet(grants) /\ grants \subseteq Grant /\ done \subseteq grants
  /\ \A g \in grants :
       g.token \in 1 .. MaxToken /\ g.token < next_lease_token /\ g.seq < next_enqueue_seq
  /\ \A g, h \in grants : g.token = h.token => g = h

GrantOf(id) == [id |-> id, seq |-> jobs[id].seq, worker |-> leased[id].worker,
                token |-> leased[id].token]

\* A lease in force is the latest grant of its job.
LeasesGranted ==
  \A id \in DOMAIN leased :
    /\ GrantOf(id) \in grants
    /\ \A g \in grants : g.seq = jobs[id].seq => g.token <= leased[id].token

\* A sequence number names one enqueued job, which is unfinished.
JobsApart ==
  /\ \A a, b \in DOMAIN jobs : jobs[a].seq = jobs[b].seq => a = b
  /\ \A id \in DOMAIN jobs, c \in done : c.seq # jobs[id].seq

HIInv ==
  /\ IInv
  /\ GrantsIssued
  /\ LeasesGranted
  /\ JobsApart
  /\ CompletedOnce
  /\ LastHolderCompletes
  /\ AttemptsAreGrants
  /\ NothingLost

GrantsOf(s) == {g \in grants : g.seq = s}

\* Nothing was granted and nothing completed when the queue is created.
LEMMA HInitHIInv == HInit => HIInv
<1> SUFFICES ASSUME HInit PROVE HIInv
  OBVIOUS
<1>1. IInv
  BY InitIInv DEF HInit
<1>2. GrantsIssued
  BY FS_EmptySet DEF HInit, Init, GrantsIssued
<1>3. LeasesGranted /\ JobsApart /\ AttemptsAreGrants
  BY DEF HInit, Init, LeasesGranted, JobsApart, AttemptsAreGrants
<1>4. CompletedOnce /\ LastHolderCompletes
  BY DEF HInit, CompletedOnce, LastHolderCompletes
<1>5. NothingLost
  BY DEF HInit, Init, NothingLost
<1> QED BY <1>1, <1>2, <1>3, <1>4, <1>5 DEF HIInv

\* Extending, reaping and waiting end leases or change their expiry, and leave
\* jobs and history alone.
LEMMA QuietHIInv ==
  ASSUME HIInv, IInv', UNCHANGED <<jobs, next_enqueue_seq, next_lease_token, grants, done>>,
         DOMAIN leased' \subseteq DOMAIN leased,
         \A id \in DOMAIN leased' :
           leased'[id].worker = leased[id].worker /\ leased'[id].token = leased[id].token
  PROVE  HIInv'
<1>1. GrantsIssued'
  BY DEF HIInv, GrantsIssued
<1>2. LeasesGranted'
  BY DEF HIInv, LeasesGranted, GrantOf
<1>3. (JobsApart /\ CompletedOnce /\ LastHolderCompletes /\ AttemptsAreGrants /\ NothingLost)'
  BY DEF HIInv, JobsApart, CompletedOnce, LastHolderCompletes, AttemptsAreGrants, NothingLost
<1> QED BY <1>1, <1>2, <1>3 DEF HIInv

\* A job that is enqueued has a sequence number that no grant carries.
LEMMA HEnqueueHIInv ==
  ASSUME HIInv, IInv', NEW id \in JobId, HEnqueue(id)
  PROVE  HIInv'
<1> DEFINE n == next_enqueue_seq
<1>1. /\ id \notin DOMAIN jobs
      /\ DOMAIN jobs' = DOMAIN jobs \cup {id}
      /\ jobs'[id] = [seq |-> n, attempts |-> 0]
      /\ \A x \in DOMAIN jobs : jobs'[x] = jobs[x]
      /\ next_enqueue_seq' = n + 1
      /\ UNCHANGED <<leased, next_lease_token, grants, done>>
  BY DEF HEnqueue, Enqueue, Known, Emplace
<1>2. /\ \A x \in DOMAIN jobs : jobs[x].seq < n /\ jobs[x].seq \in Nat
      /\ n \in Nat /\ DOMAIN leased \subseteq DOMAIN jobs
  BY DEF HIInv, IInv, JobsCounted, TypeOK, JobRec, Partition
<1>3. \A g \in grants : g.seq < n /\ g.seq \in Nat
  BY DEF HIInv, GrantsIssued, Grant
<1>4. \A c \in done : c \in grants
  BY DEF HIInv, GrantsIssued
<1>5. GrantsIssued'
  BY <1>1, <1>2, <1>3 DEF HIInv, GrantsIssued
<1>6. LeasesGranted'
  BY <1>1, <1>2 DEF HIInv, LeasesGranted, GrantOf
<1>7. JobsApart'
  <2>1. \A a, b \in DOMAIN jobs' : jobs'[a].seq = jobs'[b].seq => a = b
    BY <1>1, <1>2 DEF HIInv, JobsApart
  <2>2. \A x \in DOMAIN jobs', c \in done' : c.seq # jobs'[x].seq
    BY <1>1, <1>3, <1>4 DEF HIInv, JobsApart
  <2> QED BY <2>1, <2>2 DEF JobsApart
<1>8. (CompletedOnce /\ LastHolderCompletes)'
  BY <1>1 DEF HIInv, CompletedOnce, LastHolderCompletes
<1>9. AttemptsAreGrants'
  <2>1. GrantsOf(n) = {}
    BY <1>2, <1>3 DEF GrantsOf
  <2>2. jobs'[id].attempts = Cardinality({g \in grants' : g.seq = jobs'[id].seq})
    BY <1>1, <2>1, FS_EmptySet DEF GrantsOf
  <2>3. ASSUME NEW x \in DOMAIN jobs
        PROVE  jobs'[x].attempts = Cardinality({g \in grants' : g.seq = jobs'[x].seq})
    <3>1. jobs[x].attempts = Cardinality({g \in grants : g.seq = jobs[x].seq})
      BY DEF HIInv, AttemptsAreGrants
    <3>2. jobs'[x] = jobs[x] /\ grants' = grants
      BY <1>1
    <3> QED BY <3>1, <3>2
  <2> QED BY <1>1, <2>2, <2>3 DEF AttemptsAreGrants
<1>10. NothingLost'
  <2> SUFFICES ASSUME NEW s \in 1 .. n
               PROVE  (\E x \in DOMAIN jobs' : jobs'[x].seq = s) <=> ~ \E c \in done' : c.seq = s
    BY <1>1, <1>2 DEF NothingLost
  <2>1. CASE s = n
    BY <2>1, <1>1, <1>2, <1>3, <1>4
  <2>2. CASE s \in 1 .. n - 1
    <3>1. s # n
      BY <2>2, <1>2
    <3> QED BY <3>1, <2>2, <1>1 DEF HIInv, NothingLost
  <2> QED BY <2>1, <2>2, <1>2
<1> QED BY <1>5, <1>6, <1>7, <1>8, <1>9, <1>10 DEF HIInv

\* A lease hands out a token that no grant carries, larger than all of them, to
\* a job that is not done.
LEMMA HLeaseHIInv ==
  ASSUME HIInv, IInv', NEW w \in WorkerId, NEW d \in LeaseDur, HLease(w, d)
  PROVE  HIInv'
<1> DEFINE id == Head(ready)
           t  == next_lease_token
           s  == jobs[id].seq
           g  == [id |-> id, seq |-> s, worker |-> w, token |-> t]
<1>1. id \in DOMAIN jobs /\ id \notin DOMAIN leased /\ id \in JobId
  <2>1. id \in Range(ready)
    BY TailOfQueue DEF HIInv, IInv, HLease, Lease, TypeOK, Partition
  <2> QED BY <2>1 DEF HIInv, IInv, TypeOK, Partition
<1>2. /\ DOMAIN jobs' = DOMAIN jobs /\ \A x \in DOMAIN jobs : jobs'[x].seq = jobs[x].seq
      /\ \A x \in DOMAIN jobs \ {id} : jobs'[x] = jobs[x]
      /\ jobs'[id].attempts = jobs[id].attempts + 1
      /\ DOMAIN leased' = DOMAIN leased \cup {id}
      /\ \A x \in DOMAIN leased : leased'[x] = leased[x]
      /\ leased'[id].worker = w /\ leased'[id].token = t
      /\ next_lease_token' = t + 1 /\ t <= MaxToken
      /\ UNCHANGED <<next_enqueue_seq, done>>
  <2>1. jobs' = [jobs EXCEPT ![id].attempts = @ + 1]
    BY <1>1 DEF HLease, Lease
  <2>2. leased' = Emplace(leased, id, [worker |-> w, expiry |-> clock + d, token |-> t])
    BY <1>1 DEF HLease, Lease
  <2>3. \A x \in DOMAIN jobs : jobs[x] \in [seq : Nat, attempts : Nat]
    BY DEF HIInv, IInv, TypeOK, JobRec
  <2> QED BY <1>1, <2>1, <2>2, <2>3 DEF HLease, Lease, Emplace, TokenAfter
<1>3. grants' = grants \cup {g}
  <2>1. {Head(ready)} \cap DOMAIN jobs = {id}
    BY <1>1
  <2> QED BY <2>1 DEF HLease
<1>4. /\ t \in Nat /\ t >= 1 /\ s \in Nat /\ s < next_enqueue_seq /\ next_enqueue_seq \in Nat
      /\ MaxToken \in Nat
      /\ \A x \in grants : x.token \in Nat /\ x.token < t
      /\ \A x \in DOMAIN leased : leased[x].token \in Nat /\ leased[x].token < t
      /\ DOMAIN leased \subseteq DOMAIN jobs
  BY <1>1, BoundAssumption
     DEF HIInv, IInv, GrantsIssued, Grant, TypeOK, JobRec, LeaseRec, JobsCounted, TokensFenced, Partition
<1>5. g \in Grant
  BY <1>1, <1>4 DEF Grant
<1>6. GrantsIssued'
  <2>1. IsFiniteSet(grants') /\ grants' \subseteq Grant /\ done' \subseteq grants'
    BY <1>2, <1>3, <1>5, FS_AddElement DEF HIInv, GrantsIssued
  <2>2. \A x \in grants' :
          x.token \in 1 .. MaxToken /\ x.token < t + 1 /\ x.seq < next_enqueue_seq
    BY <1>2, <1>3, <1>4 DEF HIInv, GrantsIssued
  <2>3. \A x, y \in grants' : x.token = y.token => x = y
    BY <1>3, <1>4 DEF HIInv, GrantsIssued
  <2> QED BY <1>2, <1>4, <2>1, <2>2, <2>3 DEF HIInv, GrantsIssued
<1>7. LeasesGranted'
  <2>1. \A x \in DOMAIN leased' : x = id => (GrantOf(x))' = g
    BY <1>1, <1>2 DEF GrantOf
  <2>2. \A x \in DOMAIN leased : (GrantOf(x))' = GrantOf(x)
    BY <1>2, <1>4 DEF GrantOf
  <2>3. ASSUME NEW x \in DOMAIN leased PROVE s # jobs[x].seq
    BY <2>3, <1>1, <1>4 DEF HIInv, JobsApart
  <2>4. ASSUME NEW x \in DOMAIN leased', NEW h \in grants', h.seq = jobs'[x].seq
        PROVE  h.token <= leased'[x].token
    <3>1. CASE x = id
      BY <3>1, <1>2, <1>3, <1>4
    <3>2. CASE x \in DOMAIN leased
      BY <3>2, <2>3, <2>4, <1>2, <1>3, <1>4 DEF HIInv, LeasesGranted
    <3> QED BY <3>1, <3>2, <1>2
  <2>5. \A x \in DOMAIN leased' : (GrantOf(x))' \in grants'
    BY <2>1, <2>2, <1>2, <1>3 DEF HIInv, LeasesGranted
  <2> QED BY <2>4, <2>5 DEF LeasesGranted, GrantOf
<1>8. JobsApart'
  BY <1>2 DEF HIInv, JobsApart
<1>9. CompletedOnce'
  BY <1>2 DEF HIInv, CompletedOnce
<1>10. LastHolderCompletes'
  BY <1>1, <1>2, <1>3 DEF HIInv, LastHolderCompletes, JobsApart
<1>11. AttemptsAreGrants'
  <2>1. {h \in grants' : h.seq = s} = GrantsOf(s) \cup {g} /\ g \notin GrantsOf(s)
    BY <1>3, <1>4 DEF GrantsOf
  <2>2. IsFiniteSet(GrantsOf(s))
    BY FS_Subset DEF HIInv, GrantsIssued, GrantsOf
  <2>3. Cardinality(GrantsOf(s) \cup {g}) = Cardinality(GrantsOf(s)) + 1
    BY <2>1, <2>2, FS_AddElement
  <2>4. jobs[id].attempts = Cardinality(GrantsOf(s))
    BY <1>1 DEF HIInv, AttemptsAreGrants, GrantsOf
  <2>5. ASSUME NEW x \in DOMAIN jobs \ {id}
        PROVE  {h \in grants' : h.seq = jobs'[x].seq} = {h \in grants : h.seq = jobs[x].seq}
    BY <1>1, <1>2, <1>3 DEF HIInv, JobsApart
  <2>6. jobs'[id].attempts = Cardinality({h \in grants' : h.seq = jobs'[id].seq})
    <3>1. jobs'[id].seq = s
      BY <1>1, <1>2
    <3>2. {h \in grants' : h.seq = jobs'[id].seq} = {h \in grants' : h.seq = s}
      BY <3>1
    <3> QED BY <3>2, <1>2, <2>1, <2>3, <2>4
  <2>7. ASSUME NEW x \in DOMAIN jobs \ {id}
        PROVE  jobs'[x].attempts = Cardinality({h \in grants' : h.seq = jobs'[x].seq})
    BY <1>2, <2>5 DEF HIInv, AttemptsAreGrants
  <2> QED BY <1>2, <2>6, <2>7 DEF AttemptsAreGrants
<1>12. NothingLost'
  BY <1>2 DEF HIInv, NothingLost
<1> QED BY <1>6, <1>7, <1>8, <1>9, <1>10, <1>11, <1>12 DEF HIInv

\* A completion that succeeds is that of the lease in force, which is the latest
\* grant of its job; the job is gone with it.
LEMMA HCompleteHIInv ==
  ASSUME HIInv, IInv', NEW g \in grants, HComplete(g)
  PROVE  HIInv'
<1> DEFINE id == g.id
<1>1. /\ id \in DOMAIN leased /\ leased[id].worker = g.worker /\ leased[id].token = g.token
      /\ leased' = Erase(leased, {id}) /\ jobs' = Erase(jobs, {id})
      /\ done' = done \cup {g}
      /\ UNCHANGED <<next_enqueue_seq, next_lease_token, grants>>
  BY DEF HComplete, Complete, Matches
<1>2. /\ DOMAIN leased' = DOMAIN leased \ {id} /\ \A x \in DOMAIN leased' : leased'[x] = leased[x]
      /\ DOMAIN jobs' = DOMAIN jobs \ {id} /\ \A x \in DOMAIN jobs' : jobs'[x] = jobs[x]
  BY <1>1 DEF Erase, Restrict
<1>3. DOMAIN leased \subseteq DOMAIN jobs /\ id \in DOMAIN jobs
  BY <1>1 DEF HIInv, IInv, Partition
<1>4. GrantOf(id) \in grants /\ \A h \in grants : h.seq = jobs[id].seq => h.token <= g.token
  BY <1>1 DEF HIInv, LeasesGranted
<1>5. g.seq = jobs[id].seq
  <2>1. GrantOf(id).token = g.token
    BY <1>1 DEF GrantOf
  <2>2. GrantOf(id) = g
    BY <2>1, <1>4 DEF HIInv, GrantsIssued
  <2> QED BY <2>2 DEF GrantOf
<1>6. \A c \in done : c.seq # g.seq
  BY <1>3, <1>5 DEF HIInv, JobsApart
<1>7. GrantsIssued'
  BY <1>1 DEF HIInv, GrantsIssued
<1>8. LeasesGranted'
  <2>1. \A x \in DOMAIN leased' : (GrantOf(x))' = GrantOf(x)
    BY <1>2, <1>3 DEF GrantOf
  <2>2. ASSUME NEW x \in DOMAIN leased'
        PROVE  /\ GrantOf(x)' \in grants'
               /\ \A h \in grants' : h.seq = jobs'[x].seq => h.token <= leased'[x].token
    <3>1. x \in DOMAIN leased /\ leased'[x] = leased[x] /\ jobs'[x] = jobs[x] /\ grants' = grants
      BY <1>1, <1>2, <1>3
    <3>2. GrantOf(x) \in grants /\ \A h \in grants : h.seq = jobs[x].seq => h.token <= leased[x].token
      BY <3>1 DEF HIInv, LeasesGranted
    <3> QED BY <2>1, <3>1, <3>2
  <2> QED BY <2>2 DEF LeasesGranted
<1>9. JobsApart'
  <2>1. \A x \in DOMAIN jobs' : x \in DOMAIN jobs /\ jobs'[x] = jobs[x] /\ jobs[x].seq # g.seq
    BY <1>2, <1>3, <1>5 DEF HIInv, JobsApart
  <2>2. ASSUME NEW x \in DOMAIN jobs', NEW c \in done' PROVE c.seq # jobs'[x].seq
    <3>1. jobs'[x].seq = jobs[x].seq /\ x \in DOMAIN jobs /\ jobs[x].seq # g.seq
      BY <2>1
    <3>2. CASE c \in done
      BY <3>1, <3>2 DEF HIInv, JobsApart
    <3>3. CASE c = g
      BY <3>1, <3>3
    <3> QED BY <3>2, <3>3, <1>1
  <2> QED BY <2>1, <2>2 DEF HIInv, JobsApart
<1>10. CompletedOnce'
  BY <1>1, <1>6 DEF HIInv, CompletedOnce
<1>11. LastHolderCompletes'
  BY <1>1, <1>4, <1>5 DEF HIInv, LastHolderCompletes
<1>12. AttemptsAreGrants'
  <2>1. \A x \in DOMAIN jobs' : x \in DOMAIN jobs /\ jobs'[x] = jobs[x]
    BY <1>2
  <2>2. \A x \in DOMAIN jobs :
          jobs[x].attempts = Cardinality({h \in grants : h.seq = jobs[x].seq})
    BY DEF HIInv, AttemptsAreGrants
  <2>3. ASSUME NEW x \in DOMAIN jobs'
        PROVE  jobs'[x].attempts = Cardinality({h \in grants' : h.seq = jobs'[x].seq})
    <3>1. {h \in grants' : h.seq = jobs'[x].seq} = {h \in grants : h.seq = jobs[x].seq}
      BY <2>1, <1>1
    <3> QED BY <2>1, <2>2, <3>1
  <2> QED BY <2>3 DEF AttemptsAreGrants
<1>13. NothingLost'
  <2> SUFFICES ASSUME NEW s \in 1 .. next_enqueue_seq - 1
               PROVE  (\E x \in DOMAIN jobs' : jobs'[x].seq = s) <=> ~ \E c \in done' : c.seq = s
    BY <1>1 DEF NothingLost
  <2>1. CASE s = g.seq
    BY <2>1, <1>1, <1>2, <1>3, <1>5 DEF HIInv, JobsApart
  <2>2. CASE s # g.seq
    <3>1. (\E c \in done' : c.seq = s) <=> \E c \in done : c.seq = s
      BY <2>2, <1>1
    <3>2. (\E x \in DOMAIN jobs' : jobs'[x].seq = s) <=> \E x \in DOMAIN jobs : jobs[x].seq = s
      BY <2>2, <1>2, <1>5
    <3> QED BY <3>1, <3>2 DEF HIInv, NothingLost
  <2> QED BY <2>1, <2>2
<1> QED BY <1>7, <1>8, <1>9, <1>10, <1>11, <1>12, <1>13 DEF HIInv

-----------------------------------------------------------------------------
\* Every step of the history is a step of the queue.
LEMMA HNextIsNext == GrantsIssued /\ [HNext]_hvars => [Next]_vars
<1> SUFFICES ASSUME GrantsIssued, [HNext]_hvars PROVE [Next]_vars
  OBVIOUS
<1>1. \A g \in grants : g.id \in JobId /\ g.worker \in WorkerId /\ g.token \in 1 .. MaxToken
  BY DEF GrantsIssued, Grant
<1>2. CASE UNCHANGED hvars
  BY <1>2 DEF hvars
<1>3. ASSUME NEW id \in JobId, HEnqueue(id) PROVE Next
  BY <1>3 DEF HEnqueue, Next
<1>4. ASSUME NEW w \in WorkerId, NEW d \in LeaseDur, HLease(w, d) PROVE Next
  BY <1>4 DEF HLease, Next
<1>5. ASSUME NEW g \in grants, NEW extra \in ExtraDur, HExtend(g, extra) PROVE Next
  BY <1>1, <1>5 DEF HExtend, Next
<1>6. ASSUME NEW g \in grants, HComplete(g) PROVE Next
  BY <1>1, <1>6 DEF HComplete, Next
<1>7. CASE HReap \/ HTick
  BY <1>7 DEF HReap, HTick, Next
<1> QED BY <1>2, <1>3, <1>4, <1>5, <1>6, <1>7 DEF HNext

LEMMA HNextHIInv == HIInv /\ [HNext]_hvars => HIInv'
<1> SUFFICES ASSUME HIInv, [HNext]_hvars PROVE HIInv'
  OBVIOUS
<1>1. IInv'
  <2>1. IInv /\ GrantsIssued
    BY DEF HIInv
  <2> QED BY <2>1, HNextIsNext, NextIInv
<1>2. CASE UNCHANGED hvars
  BY <1>1, <1>2, QuietHIInv DEF hvars, vars
<1>3. ASSUME NEW id \in JobId, HEnqueue(id) PROVE HIInv'
  BY <1>1, <1>3, HEnqueueHIInv
<1>4. ASSUME NEW w \in WorkerId, NEW d \in LeaseDur, HLease(w, d) PROVE HIInv'
  BY <1>1, <1>4, HLeaseHIInv
<1>5. ASSUME NEW g \in grants, HComplete(g) PROVE HIInv'
  BY <1>1, <1>5, HCompleteHIInv
<1>6. ASSUME NEW g \in grants, NEW extra \in ExtraDur, HExtend(g, extra) PROVE HIInv'
  <2>1. /\ leased' = [leased EXCEPT ![g.id].expiry = ExtendedExpiry(g.id, extra)]
        /\ UNCHANGED <<jobs, next_enqueue_seq, next_lease_token, grants, done>>
    BY <1>6 DEF HExtend, Extend
  <2>2. leased \in [DOMAIN leased -> LeaseRec]
    BY DEF HIInv, IInv, TypeOK
  <2>3. /\ DOMAIN leased' = DOMAIN leased
        /\ \A id \in DOMAIN leased' :
             leased'[id].worker = leased[id].worker /\ leased'[id].token = leased[id].token
    BY <2>1, <2>2 DEF LeaseRec
  <2> QED BY <1>1, <2>1, <2>3, QuietHIInv
<1>7. CASE HReap
  <2>1. /\ leased' = Erase(leased, Expired)
        /\ UNCHANGED <<jobs, next_enqueue_seq, next_lease_token, grants, done>>
    BY <1>7 DEF HReap, Reap
  <2>2. /\ DOMAIN leased' \subseteq DOMAIN leased
        /\ \A id \in DOMAIN leased' : leased'[id] = leased[id]
    BY <2>1 DEF Erase, Restrict
  <2> QED BY <1>1, <2>1, <2>2, QuietHIInv
<1>8. CASE HTick
  BY <1>1, <1>8, QuietHIInv DEF HTick, Tick
<1> QED BY <1>2, <1>3, <1>4, <1>5, <1>6, <1>7, <1>8 DEF HNext

LEMMA HSpecHIInv == HSpec => []HIInv
<1> QED BY HInitHIInv, HNextHIInv, PTL DEF HSpec

-----------------------------------------------------------------------------
\* The queue and its history keep their types, and only what was granted to a
\* worker is ever completed.
THEOREM HTypeCorrect == HSpec => []HTypeOK
<1>1. HIInv => HTypeOK
  BY DEF HIInv, IInv, GrantsIssued, HTypeOK
<1> QED BY <1>1, HSpecHIInv, PTL

\* An enqueued job is completed at most once, whoever comes back and when.
THEOREM JobsCompletedOnce == HSpec => []CompletedOnce
<1>1. HIInv => CompletedOnce
  BY DEF HIInv
<1> QED BY <1>1, HSpecHIInv, PTL

\* The completion that counts is that of the last worker the job was leased to.
THEOREM CompletedByLastHolder == HSpec => []LastHolderCompletes
<1>1. HIInv => LastHolderCompletes
  BY DEF HIInv
<1> QED BY <1>1, HSpecHIInv, PTL

\* A job's attempts are the leases it was given since it was enqueued.
THEOREM AttemptsCountGrants == HSpec => []AttemptsAreGrants
<1>1. HIInv => AttemptsAreGrants
  BY DEF HIInv
<1> QED BY <1>1, HSpecHIInv, PTL

\* Every job that was enqueued is unfinished or was completed, and not both.
THEOREM NoJobLost == HSpec => []NothingLost
<1>1. HIInv => NothingLost
  BY DEF HIInv
<1> QED BY <1>1, HSpecHIInv, PTL

\* With all its history, the queue still implements the visibility queue.
THEOREM HistoryImplements == HSpec => ImplementsVisibilityQueue
<1>1. HInit => VQ!Init
  BY DEF HInit, Init, VQ!Init
<1>2. HIInv /\ [HNext]_hvars => [VQ!Next]_(VQ!vqvars)
  <2> SUFFICES ASSUME HIInv, [HNext]_hvars PROVE [VQ!Next]_(VQ!vqvars)
    OBVIOUS
  <2>1. IInv /\ GrantsIssued
    BY DEF HIInv
  <2> QED BY <2>1, HNextIsNext, StepRefines
<1> QED BY <1>1, <1>2, HSpecHIInv, PTL DEF HSpec, ImplementsVisibilityQueue, VQ!Spec

-----------------------------------------------------------------------------
(* LeaseWorkers: the inductive invariant *)

\* A worker between its lease and its record holds one grant, of a token that
\* was given out.
GrantsHeld ==
  /\ next_lease_token >= 1
  /\ \A w \in WorkerId : \A g \in grant[w] : g.token \in 1 .. MaxToken
  /\ \A w \in WorkerId :
       pc[w] \in {"extend", "complete", "record"} => \E g \in grant[w] : grant[w] = {g}

\* complete returned true to w, which has not recorded it yet.
Recording(w) == pc[w] = "record"

\* Nothing is recorded before the threads start, and they start when every job is
\* enqueued.  From then on a job leaves the queue only into the hands of a worker
\* that is about to record it.
JobsAccounted ==
  /\ main = "enqueue" => completed = {} /\ \A w \in WorkerId : pc[w] = "test"
  /\ main # "enqueue" =>
       \A id \in JobId : \/ id \in DOMAIN jobs
                         \/ id \in completed
                         \/ \E w \in WorkerId : Recording(w) /\ \E g \in grant[w] : g.id = id

\* What a worker is about to record is gone from the queue too.
RecordingNeverAhead ==
  \A w \in WorkerId : Recording(w) => \A g \in grant[w] : g.id \notin DOMAIN jobs

\* The worker that holds the lease of id and completes it in its next step.
Completing(w, id) ==
  pc[w] = "complete" /\ \E g \in grant[w] : g.id = id /\ Matches(id, w, g.token)

\* A lease ends within a drain's time, unless it was extended: then its worker
\* still runs, and completes it before it can exit.
LeaseEnds(id) ==
  \/ leased[id].expiry <= clock + DrainRounds
  \/ \E w \in WorkerId : Completing(w, id)

\* The rounds that are left are enough for the leases that are left.
DrainOnTime ==
  /\ main \in {"enqueue", "wait", "join"} => round = 0
  /\ main \in {"drain", "sleep", "check"} => AllJoined
  /\ \A id \in DOMAIN leased :
       /\ LeaseEnds(id)
       /\ main = "drain" => leased[id].expiry <= clock + (DrainRounds - round)
       /\ main = "sleep" => leased[id].expiry <= wake + (DrainRounds - round)
       /\ main # "check"

WIInv ==
  /\ IInv
  /\ WTypeOK
  /\ GrantsHeld
  /\ JobsAccounted
  /\ RecordNeverAhead
  /\ RecordingNeverAhead
  /\ DrainOnTime

LEMMA InitWIInv == WInit => WIInv
<1> SUFFICES ASSUME WInit PROVE WIInv
  OBVIOUS
<1>1. IInv /\ TypeOK
  BY InitIInv DEF WInit, IInv
<1>2. WTypeOK
  <2>1. 0 \in 0 .. DrainRounds
    BY HarnessAssumption
  <2>2. /\ pc \in [WorkerId -> {"test", "lease", "extend", "complete", "record", "exited"}]
        /\ grant \in [WorkerId -> SUBSET [id : JobId, token : Nat]]
    BY DEF WInit
  <2> QED BY <1>1, <2>1, <2>2 DEF WInit, WTypeOK
<1>3. DOMAIN jobs = {} /\ DOMAIN leased = {} /\ next_lease_token = 1
  BY DEF WInit, Init
<1>4. GrantsHeld /\ JobsAccounted /\ RecordNeverAhead /\ RecordingNeverAhead
  BY <1>3 DEF WInit, GrantsHeld, JobsAccounted, RecordNeverAhead, RecordingNeverAhead, Recording
<1>5. DrainOnTime
  BY <1>3 DEF WInit, DrainOnTime
<1> QED BY <1>1, <1>2, <1>4, <1>5 DEF WIInv

-----------------------------------------------------------------------------
(* The threads use the queue through its operations only *)

\* Whatever thread moves, the queue takes a step of its own specification.
LEMMA StepsOfQueue == WIInv /\ [WNext]_wvars => [Next]_vars
<1> SUFFICES ASSUME WIInv, [WNext]_wvars PROVE [Next]_vars
  OBVIOUS
<1>1. \A w \in WorkerId : \A g \in grant[w] : g.id \in JobId /\ g.token \in 1 .. MaxToken
  BY DEF WIInv, WTypeOK, GrantsHeld
<1>2. ASSUME NEW id \in JobId, EnqueueJob(id) PROVE Next
  BY <1>2 DEF EnqueueJob, Next
<1>3. ASSUME Main PROVE [Next]_vars
  BY <1>3 DEF Main, StartThreads, StopThreads, JoinThreads, DrainReap, DrainWake, Next
<1>4. ASSUME Cleaner PROVE [Next]_vars
  BY <1>4 DEF Cleaner, CleanerTest, CleanerReap, Next
<1>5. ASSUME NEW w \in WorkerId, Worker(w) PROVE [Next]_vars
  <2>1. CASE WorkerLease(w)
    BY <2>1 DEF WorkerLease, Next
  <2>2. CASE WorkerExtend(w)
    BY <2>2, <1>1 DEF WorkerExtend, Next
  <2>3. CASE WorkerComplete(w)
    BY <2>3, <1>1 DEF WorkerComplete, Next
  <2>4. CASE WorkerTest(w) \/ WorkerIdle(w) \/ WorkerRecord(w) \/ WorkerExit(w)
    BY <2>4 DEF WorkerTest, WorkerIdle, WorkerRecord, WorkerExit
  <2> QED BY <1>5, <2>1, <2>2, <2>3, <2>4 DEF Worker
<1>6. ASSUME TimePasses PROVE Next
  BY <1>6 DEF TimePasses, Next
<1>7. ASSUME Finished \/ UNCHANGED wvars PROVE UNCHANGED vars
  BY <1>7 DEF Finished, wvars
<1> QED BY <1>2, <1>3, <1>4, <1>5, <1>6, <1>7 DEF WNext

-----------------------------------------------------------------------------
(* The main thread, the cleaner and the clock keep the invariant *)

\* What the queue's own theorems give of a step, and what bounds a lease.
LEMMA Numbers ==
  ASSUME WIInv
  PROVE  /\ clock \in Int /\ round \in Int /\ wake \in Int /\ DrainRounds \in Int
         /\ \A id \in DOMAIN leased : leased[id].expiry \in Int
         /\ DOMAIN leased \subseteq DOMAIN jobs /\ DOMAIN jobs \subseteq JobId
BY HarnessAssumption DEF WIInv, WTypeOK, IInv, TypeOK, LeaseRec, Partition

\* The main thread enqueues: no thread runs yet.
LEMMA EnqueueJobWIInv ==
  ASSUME WIInv, IInv', NEW id \in JobId, EnqueueJob(id)
  PROVE  WIInv'
<1>1. /\ main = "enqueue" /\ id \notin DOMAIN jobs
      /\ DOMAIN jobs' = DOMAIN jobs \cup {id}
      /\ UNCHANGED <<clock, leased, next_lease_token, threads>>
  BY DEF EnqueueJob, Enqueue, Known, Emplace
<1>2. WTypeOK'
  BY <1>1 DEF WIInv, WTypeOK, IInv, threads
<1>3. (GrantsHeld /\ JobsAccounted /\ RecordNeverAhead /\ RecordingNeverAhead)'
  BY <1>1 DEF WIInv, GrantsHeld, JobsAccounted, RecordNeverAhead, RecordingNeverAhead,
              Recording, threads
<1>4. DrainOnTime'
  BY <1>1 DEF WIInv, DrainOnTime, LeaseEnds, Completing, Matches, AllJoined, threads
<1> QED BY <1>2, <1>3, <1>4 DEF WIInv

\* The main thread moves on without touching the queue.
LEMMA MainMovesWIInv ==
  ASSUME WIInv, IInv', StartThreads \/ StopThreads \/ JoinThreads \/ DrainWake
  PROVE  WIInv'
<1>1. UNCHANGED <<vars, round, wake, cleaner, pc, grant, completed>>
      /\ stop' \in {stop, TRUE}
  BY DEF StartThreads, StopThreads, JoinThreads, DrainWake
<1>2. \/ main = "enqueue" /\ main' = "wait" /\ DOMAIN jobs = JobId
      \/ main = "wait" /\ main' = "join"
      \/ main = "join" /\ main' = "drain" /\ AllJoined
      \/ main = "sleep" /\ main' = "drain" /\ clock >= wake
  BY DEF StartThreads, StopThreads, JoinThreads, DrainWake
<1>3. WTypeOK'
  BY <1>1, <1>2 DEF WIInv, WTypeOK, IInv
<1>4. (GrantsHeld /\ JobsAccounted /\ RecordNeverAhead /\ RecordingNeverAhead)'
  BY <1>1, <1>2 DEF WIInv, GrantsHeld, JobsAccounted, RecordNeverAhead, RecordingNeverAhead,
                    Recording, vars
<1>5. DrainOnTime'
  <2>1. /\ UNCHANGED <<clock, leased>>
        /\ AllJoined' = AllJoined
        /\ \A id \in DOMAIN leased : LeaseEnds(id)' = LeaseEnds(id)
    BY <1>1 DEF LeaseEnds, Completing, Matches, AllJoined, vars
  <2>2. main' \in {"wait", "join"} => round = 0
    BY <1>2 DEF WIInv, DrainOnTime
  <2>3. main' = "drain" => AllJoined
    BY <1>2 DEF WIInv, DrainOnTime
  <2>4. ASSUME NEW id \in DOMAIN leased, main' = "drain"
        PROVE  leased[id].expiry <= clock + (DrainRounds - round)
    <3>1. CASE main = "join"
      <4>1. round = 0 /\ LeaseEnds(id)
        BY <3>1 DEF WIInv, DrainOnTime
      <4>2. leased[id].expiry <= clock + DrainRounds
        BY <4>1, <3>1, <1>2 DEF LeaseEnds, Completing, AllJoined
      <4> QED BY <4>1, <4>2, Numbers
    <3>2. CASE main = "sleep"
      <4>1. leased[id].expiry <= wake + (DrainRounds - round) /\ clock >= wake
        BY <3>2, <1>2 DEF WIInv, DrainOnTime
      <4> QED BY <4>1, Numbers
    <3> QED BY <2>4, <1>2, <3>1, <3>2
  <2>5. main' \in {"wait", "join", "drain"}
    BY <1>2
  <2>6. \A id \in DOMAIN leased : LeaseEnds(id)
    BY DEF WIInv, DrainOnTime
  <2> QED BY <1>1, <2>1, <2>2, <2>3, <2>4, <2>5, <2>6 DEF DrainOnTime
<1> QED BY <1>3, <1>4, <1>5 DEF WIInv

\* A reap only takes leases away, those that are due.
LEMMA ReapLeases ==
  ASSUME WIInv, Reap
  PROVE  /\ UNCHANGED <<clock, jobs, next_lease_token>>
         /\ DOMAIN leased' \subseteq DOMAIN leased
         /\ \A id \in DOMAIN leased' : leased'[id] = leased[id] /\ leased[id].expiry > clock
<1>1. /\ UNCHANGED <<clock, jobs, next_lease_token>> /\ leased' = Erase(leased, Expired)
  BY DEF Reap
<1>2. Expired = {id \in DOMAIN leased : leased[id].expiry <= clock}
  BY ExpiredByHeap DEF WIInv
<1>3. /\ DOMAIN leased' = DOMAIN leased \ Expired
      /\ \A id \in DOMAIN leased \ Expired : leased'[id] = leased[id]
  BY <1>1 DEF Erase, Restrict
<1>4. \A id \in DOMAIN leased \ Expired : leased[id].expiry > clock
  BY <1>2, Numbers
<1> QED BY <1>1, <1>3, <1>4

\* The drain reaps: what is left was not due, and one tick of sleep pays for the
\* round that was used.
LEMMA DrainReapWIInv ==
  ASSUME WIInv, IInv', DrainReap
  PROVE  WIInv'
<1>1. /\ main = "drain" /\ Reap /\ main' = AfterDrainReap /\ round' = RoundAfter
      /\ wake' = clock + 1 /\ UNCHANGED <<stop, cleaner, pc, grant, completed>>
  BY DEF DrainReap
<1>2. /\ UNCHANGED <<clock, jobs, next_lease_token>>
      /\ DOMAIN leased' \subseteq DOMAIN leased
      /\ \A id \in DOMAIN leased' : leased'[id] = leased[id] /\ leased[id].expiry > clock
  BY <1>1, ReapLeases
<1>3. WTypeOK'
  <2>1. round' \in 0 .. DrainRounds
    BY <1>1, HarnessAssumption DEF WIInv, WTypeOK, RoundAfter
  <2>2. TypeOK' /\ wake' \in Nat
    BY <1>1 DEF WIInv, IInv, TypeOK
  <2>3. main' \in {"sleep", "check"}
    BY <1>1 DEF AfterDrainReap
  <2> QED BY <1>1, <2>1, <2>2, <2>3 DEF WIInv, WTypeOK
<1>4. (GrantsHeld /\ JobsAccounted /\ RecordNeverAhead /\ RecordingNeverAhead)'
  BY <1>1, <1>2 DEF WIInv, GrantsHeld, JobsAccounted, RecordNeverAhead, RecordingNeverAhead,
                    Recording, AfterDrainReap
<1>5. DrainOnTime'
  <2>1. AllJoined' /\ main' \in {"sleep", "check"}
    BY <1>1 DEF WIInv, DrainOnTime, AllJoined, AfterDrainReap
  <2> SUFFICES ASSUME NEW id \in DOMAIN leased'
               PROVE  /\ LeaseEnds(id)' /\ main' # "check"
                      /\ leased'[id].expiry <= wake' + (DrainRounds - round')
    BY <2>1 DEF DrainOnTime
  <2>2. /\ id \in DOMAIN leased /\ leased'[id] = leased[id] /\ leased[id].expiry > clock
        /\ leased[id].expiry <= clock + (DrainRounds - round)
    BY <1>1, <1>2 DEF WIInv, DrainOnTime
  <2>3. round < DrainRounds /\ round' = round + 1 /\ main' = "sleep" /\ round \in Nat
    BY <1>1, <2>2, Numbers DEF AfterDrainReap, RoundAfter, WIInv, WTypeOK
  <2>4. leased'[id].expiry <= wake' + (DrainRounds - round')
    BY <1>1, <2>2, <2>3, Numbers
  <2>5. leased'[id].expiry <= clock' + DrainRounds
    BY <1>2, <2>2, <2>3, Numbers
  <2> QED BY <2>3, <2>4, <2>5 DEF LeaseEnds
<1> QED BY <1>3, <1>4, <1>5 DEF WIInv

\* The cleaner reaps like anybody else.
LEMMA CleanerWIInv ==
  ASSUME WIInv, IInv', Cleaner
  PROVE  WIInv'
<1>1. /\ UNCHANGED <<stop, main, round, wake, pc, grant, completed>>
      /\ cleaner' \in {"test", "reap", "exited"} /\ cleaner # "exited"
      /\ Reap \/ UNCHANGED vars
  BY DEF Cleaner, CleanerTest, CleanerReap
<1>2. /\ UNCHANGED <<clock, jobs, next_lease_token>>
      /\ DOMAIN leased' \subseteq DOMAIN leased
      /\ \A id \in DOMAIN leased' : leased'[id] = leased[id]
  BY <1>1, ReapLeases DEF vars
<1>3. WTypeOK'
  BY <1>1 DEF WIInv, WTypeOK, IInv
<1>4. (GrantsHeld /\ JobsAccounted /\ RecordNeverAhead /\ RecordingNeverAhead)'
  BY <1>1, <1>2 DEF WIInv, GrantsHeld, JobsAccounted, RecordNeverAhead, RecordingNeverAhead,
                    Recording
<1>5. DrainOnTime'
  <2>1. main \in {"enqueue", "wait", "join"}
    BY <1>1 DEF WIInv, DrainOnTime, AllJoined, WTypeOK
  <2>2. \A id \in DOMAIN leased' : LeaseEnds(id)'
    BY <1>1, <1>2 DEF WIInv, DrainOnTime, LeaseEnds, Completing, Matches
  <2> QED BY <1>1, <2>1, <2>2 DEF WIInv, DrainOnTime
<1> QED BY <1>3, <1>4, <1>5 DEF WIInv

\* Time passes: every deadline comes closer.
LEMMA TimePassesWIInv ==
  ASSUME WIInv, IInv', TimePasses
  PROVE  WIInv'
<1>1. /\ UNCHANGED <<jobs, leased, next_lease_token, threads>>
      /\ clock' = clock + 1 /\ main # "drain"
  BY DEF TimePasses, Tick
<1>2. WTypeOK'
  BY <1>1 DEF WIInv, WTypeOK, IInv, threads
<1>3. (GrantsHeld /\ JobsAccounted /\ RecordNeverAhead /\ RecordingNeverAhead)'
  BY <1>1 DEF WIInv, GrantsHeld, JobsAccounted, RecordNeverAhead, RecordingNeverAhead,
              Recording, threads
<1>4. DrainOnTime'
  <2>1. \A id \in DOMAIN leased : LeaseEnds(id)'
    BY <1>1, Numbers DEF WIInv, DrainOnTime, LeaseEnds, Completing, Matches, threads
  <2> QED BY <1>1, <2>1 DEF WIInv, DrainOnTime, AllJoined, threads
<1> QED BY <1>2, <1>3, <1>4 DEF WIInv

-----------------------------------------------------------------------------
(* The workers keep the invariant *)

\* A worker that only looks at the flag or at an empty queue changes nothing but
\* its place, and what it still has of an earlier lease.
LEMMA WorkerLooksWIInv ==
  ASSUME WIInv, IInv', NEW w \in WorkerId,
         WorkerTest(w) \/ WorkerIdle(w) \/ WorkerExit(w)
  PROVE  WIInv'
<1>1. /\ UNCHANGED <<vars, stop, main, round, wake, cleaner, completed>>
      /\ pc[w] \in {"test", "lease"} /\ (main # "enqueue" \/ pc[w] = "lease")
      /\ \E p \in {"test", "lease", "exited"} : pc' = [pc EXCEPT ![w] = p]
      /\ grant' \in {grant, [grant EXCEPT ![w] = {}]}
  BY DEF WorkerTest, WorkerIdle, WorkerExit
<1>2. /\ pc' \in [WorkerId -> {"test", "lease", "extend", "complete", "record", "exited"}]
      /\ pc'[w] \in {"test", "lease", "exited"}
      /\ \A x \in WorkerId \ {w} : pc'[x] = pc[x] /\ grant'[x] = grant[x]
      /\ grant'[w] \in {grant[w], {}}
      /\ grant' \in [WorkerId -> SUBSET [id : JobId, token : Nat]]
  BY <1>1 DEF WIInv, WTypeOK
<1>3. WTypeOK'
  BY <1>1, <1>2 DEF WIInv, WTypeOK, IInv
<1>4. (GrantsHeld /\ JobsAccounted /\ RecordNeverAhead /\ RecordingNeverAhead)'
  BY <1>1, <1>2 DEF WIInv, GrantsHeld, JobsAccounted, RecordNeverAhead, RecordingNeverAhead,
                    Recording, vars
<1>5. DrainOnTime'
  <2>1. main \in {"drain", "sleep", "check"} => AllJoined'
    BY <1>1, <1>2 DEF WIInv, DrainOnTime, AllJoined
  <2>2. \A id \in DOMAIN leased' : LeaseEnds(id)'
    BY <1>1, <1>2 DEF WIInv, DrainOnTime, LeaseEnds, Completing, Matches, vars
  <2> QED BY <1>1, <2>1, <2>2 DEF WIInv, DrainOnTime, vars
<1> QED BY <1>3, <1>4, <1>5 DEF WIInv

\* A worker that has not exited keeps the main thread from draining.
LEMMA NotJoined ==
  ASSUME WIInv, NEW w \in WorkerId, pc[w] # "exited"
  PROVE  main \in {"enqueue", "wait", "join"}
BY DEF WIInv, DrainOnTime, AllJoined, WTypeOK

\* A new lease takes its job from the queue, not from another worker, and lasts
\* no longer than a drain.
LEMMA WorkerLeaseWIInv ==
  ASSUME WIInv, IInv', NEW w \in WorkerId, WorkerLease(w)
  PROVE  WIInv'
<1> DEFINE id == Head(ready)
           g  == [id |-> id, token |-> next_lease_token]
<1>1. PICK d \in LeaseDur : Lease(w, d)
  BY DEF WorkerLease
<1>2. /\ UNCHANGED <<stop, main, round, wake, cleaner, completed>>
      /\ pc[w] = "lease" /\ grant' = [grant EXCEPT ![w] = {g}]
      /\ \E p \in {"test", "extend", "complete"} : pc' = [pc EXCEPT ![w] = p]
  BY DEF WorkerLease
<1>3. id \in DOMAIN jobs /\ id \notin DOMAIN leased /\ id \in JobId
  <2>1. id \in Range(ready)
    BY <1>1, TailOfQueue DEF WIInv, IInv, Lease, TypeOK, Partition
  <2> QED BY <2>1 DEF WIInv, IInv, TypeOK, Partition
<1>4. /\ clock' = clock /\ next_lease_token <= MaxToken
      /\ next_lease_token' = next_lease_token + 1
      /\ DOMAIN jobs' = DOMAIN jobs
      /\ DOMAIN leased' = DOMAIN leased \cup {id}
      /\ \A x \in DOMAIN leased : leased'[x] = leased[x]
      /\ leased'[id].expiry = clock + d
  BY <1>1, <1>3 DEF Lease, Emplace, TokenAfter
<1>5. next_lease_token \in Nat /\ next_lease_token >= 1 /\ MaxToken \in Nat
  BY BoundAssumption DEF WIInv, IInv, TypeOK, GrantsHeld
<1>6. /\ pc' \in [WorkerId -> {"test", "lease", "extend", "complete", "record", "exited"}]
      /\ pc'[w] \in {"test", "extend", "complete"}
      /\ \A x \in WorkerId \ {w} : pc'[x] = pc[x] /\ grant'[x] = grant[x]
      /\ grant'[w] = {g}
      /\ grant' \in [WorkerId -> SUBSET [id : JobId, token : Nat]]
  <2>1. g \in [id : JobId, token : Nat]
    BY <1>3, <1>5
  <2> QED BY <1>2, <2>1 DEF WIInv, WTypeOK
<1>7. WTypeOK'
  BY <1>2, <1>6 DEF WIInv, WTypeOK, IInv
<1>8. GrantsHeld'
  <2>1. next_lease_token \in 1 .. MaxToken
    BY <1>4, <1>5
  <2>2. \A x \in WorkerId : \A y \in grant'[x] : y.token \in 1 .. MaxToken
    BY <2>1, <1>6 DEF WIInv, GrantsHeld
  <2>3. \A x \in WorkerId :
          pc'[x] \in {"extend", "complete", "record"} => \E y \in grant'[x] : grant'[x] = {y}
    BY <1>6 DEF WIInv, GrantsHeld
  <2>4. next_lease_token' >= 1
    BY <1>4, <1>5
  <2> QED BY <2>2, <2>3, <2>4 DEF GrantsHeld
<1>9. (JobsAccounted /\ RecordNeverAhead /\ RecordingNeverAhead)'
  BY <1>2, <1>4, <1>6 DEF WIInv, JobsAccounted, RecordNeverAhead, RecordingNeverAhead, Recording
<1>10. DrainOnTime'
  <2>1. main \in {"enqueue", "wait", "join"}
    BY <1>2, NotJoined
  <2>2. leased'[id].expiry <= clock' + DrainRounds
    <3>1. d <= DrainRounds /\ d \in Int
      BY DrainAssumption, DurationAssumption
    <3> QED BY <3>1, <1>4, Numbers
  <2>3. ASSUME NEW x \in DOMAIN leased PROVE LeaseEnds(x)'
    <3>1. \A v \in WorkerId : Completing(v, x) => v # w
      BY <1>2 DEF Completing
    <3> QED BY <3>1, <1>4, <1>6 DEF WIInv, DrainOnTime, LeaseEnds, Completing, Matches
  <2> QED BY <1>2, <1>4, <2>1, <2>2, <2>3 DEF WIInv, DrainOnTime, LeaseEnds
<1> QED BY <1>7, <1>8, <1>9, <1>10 DEF WIInv

\* An extended lease may outlast the drain, and its worker goes on to complete it.
LEMMA WorkerExtendWIInv ==
  ASSUME WIInv, IInv', NEW w \in WorkerId, WorkerExtend(w)
  PROVE  WIInv'
<1>1. /\ UNCHANGED <<stop, main, round, wake, cleaner, completed, grant>>
      /\ pc[w] = "extend" /\ pc' = [pc EXCEPT ![w] = "complete"]
  BY DEF WorkerExtend
<1>2. PICK g \in grant[w] :
        IF Matches(g.id, w, g.token)
          THEN \E extra \in ExtraDur : Extend(g.id, w, g.token, extra)
          ELSE UNCHANGED vars
  BY DEF WorkerExtend
<1>3. /\ pc' \in [WorkerId -> {"test", "lease", "extend", "complete", "record", "exited"}]
      /\ pc'[w] = "complete"
      /\ \A x \in WorkerId \ {w} : pc'[x] = pc[x]
  BY <1>1 DEF WIInv, WTypeOK
<1>4. /\ UNCHANGED <<clock, jobs, next_lease_token>>
      /\ DOMAIN leased' = DOMAIN leased
      /\ \A x \in DOMAIN leased : /\ leased'[x].worker = leased[x].worker
                                  /\ leased'[x].token = leased[x].token
                                  /\ leased'[x] = leased[x] \/ (x = g.id /\ Matches(x, w, g.token))
  <2>1. CASE ~Matches(g.id, w, g.token)
    <3>1. UNCHANGED vars
      BY <2>1, <1>2
    <3> QED BY <3>1 DEF vars
  <2>2. CASE Matches(g.id, w, g.token)
    <3>1. PICK extra \in ExtraDur : Extend(g.id, w, g.token, extra)
      BY <2>2, <1>2
    <3>2. \A x \in DOMAIN leased : leased[x] \in LeaseRec
      BY DEF WIInv, IInv, TypeOK
    <3>3. /\ leased' = [leased EXCEPT ![g.id].expiry = ExtendedExpiry(g.id, extra)]
          /\ UNCHANGED <<clock, jobs, next_lease_token>>
      BY <3>1 DEF Extend
    <3>4. \A x \in DOMAIN leased : /\ leased'[x].worker = leased[x].worker
                                  /\ leased'[x].token = leased[x].token
                                  /\ x # g.id => leased'[x] = leased[x]
      BY <3>2, <3>3 DEF LeaseRec
    <3>5. DOMAIN leased' = DOMAIN leased
      BY <3>3
    <3> QED BY <2>2, <3>3, <3>4, <3>5
  <2> QED BY <2>1, <2>2
<1>5. WTypeOK'
  BY <1>1, <1>3 DEF WIInv, WTypeOK, IInv
<1>6. (GrantsHeld /\ JobsAccounted /\ RecordNeverAhead /\ RecordingNeverAhead)'
  BY <1>1, <1>3, <1>4 DEF WIInv, GrantsHeld, JobsAccounted, RecordNeverAhead,
                          RecordingNeverAhead, Recording
<1>7. DrainOnTime'
  <2>1. main \in {"enqueue", "wait", "join"}
    BY <1>1, NotJoined
  <2>2. ASSUME NEW x \in DOMAIN leased PROVE LeaseEnds(x)'
    <3>1. CASE leased'[x] = leased[x]
      BY <3>1, <1>1, <1>3, <1>4 DEF WIInv, DrainOnTime, LeaseEnds, Completing, Matches
    <3>2. CASE x = g.id /\ Matches(x, w, g.token)
      BY <3>2, <1>1, <1>3, <1>4 DEF LeaseEnds, Completing, Matches
    <3> QED BY <1>4, <3>1, <3>2
  <2> QED BY <1>1, <1>4, <2>1, <2>2 DEF WIInv, DrainOnTime
<1> QED BY <1>5, <1>6, <1>7 DEF WIInv

\* A completion that succeeds takes the job out of the queue and leaves it to its
\* worker to record; one that is refused leaves the job where it is.
LEMMA WorkerCompleteWIInv ==
  ASSUME WIInv, IInv', NEW w \in WorkerId, WorkerComplete(w)
  PROVE  WIInv'
<1>1. /\ UNCHANGED <<stop, main, round, wake, cleaner, completed, grant>>
      /\ pc[w] = "complete" /\ pc' = [pc EXCEPT ![w] = AfterComplete(w)]
  BY DEF WorkerComplete
<1>2. PICK g \in grant[w] :
        IF Matches(g.id, w, g.token) THEN Complete(g.id, w, g.token) ELSE UNCHANGED vars
  BY DEF WorkerComplete
<1>3. grant[w] = {g}
  BY <1>1 DEF WIInv, GrantsHeld
<1>4. /\ pc' \in [WorkerId -> {"test", "lease", "extend", "complete", "record", "exited"}]
      /\ pc'[w] = IF Matches(g.id, w, g.token) THEN "record" ELSE "test"
      /\ \A x \in WorkerId \ {w} : pc'[x] = pc[x]
  BY <1>1, <1>3 DEF WIInv, WTypeOK, AfterComplete
<1>5. /\ UNCHANGED <<clock, next_lease_token>>
      /\ DOMAIN leased' \subseteq DOMAIN leased
      /\ \A x \in DOMAIN leased' : leased'[x] = leased[x]
      /\ Matches(g.id, w, g.token) =>
           DOMAIN jobs' = DOMAIN jobs \ {g.id} /\ g.id \notin DOMAIN leased'
      /\ ~Matches(g.id, w, g.token) => DOMAIN jobs' = DOMAIN jobs
  <2>1. CASE ~Matches(g.id, w, g.token)
    BY <2>1, <1>2 DEF vars
  <2>2. CASE Matches(g.id, w, g.token)
    BY <2>2, <1>2 DEF Complete, Erase, Restrict
  <2> QED BY <2>1, <2>2
<1>6. WTypeOK'
  BY <1>1, <1>4 DEF WIInv, WTypeOK, IInv
<1>7. GrantsHeld'
  BY <1>1, <1>3, <1>4, <1>5 DEF WIInv, GrantsHeld
<1>8. JobsAccounted'
  <2>1. main # "enqueue"
    BY <1>1 DEF WIInv, JobsAccounted
  <2> SUFFICES ASSUME NEW id \in JobId
               PROVE  \/ id \in DOMAIN jobs'
                      \/ id \in completed
                      \/ \E x \in WorkerId : pc'[x] = "record" /\ \E y \in grant[x] : y.id = id
    BY <1>1, <2>1 DEF JobsAccounted, Recording
  <2>2. CASE Matches(g.id, w, g.token) /\ id = g.id
    BY <2>2, <1>3, <1>4
  <2>3. CASE id \in DOMAIN jobs /\ ~(Matches(g.id, w, g.token) /\ id = g.id)
    BY <2>3, <1>5
  <2>4. CASE id \in completed
    BY <2>4
  <2>5. ASSUME NEW x \in WorkerId, Recording(x), \E y \in grant[x] : y.id = id
        PROVE  pc'[x] = "record" /\ \E y \in grant[x] : y.id = id
    BY <2>5, <1>1, <1>4 DEF Recording
  <2> QED BY <2>1, <2>2, <2>3, <2>4, <2>5 DEF WIInv, JobsAccounted
<1>9. (RecordNeverAhead /\ RecordingNeverAhead)'
  BY <1>1, <1>3, <1>4, <1>5 DEF WIInv, RecordNeverAhead, RecordingNeverAhead, Recording
<1>10. DrainOnTime'
  <2>1. main \in {"enqueue", "wait", "join"}
    BY <1>1, NotJoined
  <2>2. ASSUME NEW x \in DOMAIN leased' PROVE LeaseEnds(x)'
    <3>1. LeaseEnds(x) /\ x \in DOMAIN leased
      BY <1>5 DEF WIInv, DrainOnTime
    <3>2. ~Completing(w, x)
      BY <1>3, <1>5 DEF Completing
    <3>3. ASSUME NEW v \in WorkerId, Completing(v, x) PROVE Completing(v, x)'
      BY <3>2, <3>3, <1>1, <1>4, <1>5 DEF Completing, Matches
    <3> QED BY <3>1, <3>3, <1>5 DEF LeaseEnds
  <2> QED BY <1>1, <2>1, <2>2 DEF WIInv, DrainOnTime
<1> QED BY <1>6, <1>7, <1>8, <1>9, <1>10 DEF WIInv

\* The record catches up with the queue.
LEMMA WorkerRecordWIInv ==
  ASSUME WIInv, IInv', NEW w \in WorkerId, WorkerRecord(w)
  PROVE  WIInv'
<1>1. /\ UNCHANGED <<vars, stop, main, round, wake, cleaner, grant>>
      /\ pc[w] = "record" /\ pc' = [pc EXCEPT ![w] = "test"]
      /\ completed' = completed \cup {g.id : g \in grant[w]}
  BY DEF WorkerRecord
<1>2. /\ pc' \in [WorkerId -> {"test", "lease", "extend", "complete", "record", "exited"}]
      /\ pc'[w] = "test"
      /\ \A x \in WorkerId \ {w} : pc'[x] = pc[x]
  BY <1>1 DEF WIInv, WTypeOK
<1>3. WTypeOK'
  <2>1. completed' \subseteq JobId
    BY <1>1 DEF WIInv, WTypeOK
  <2> QED BY <1>1, <1>2, <2>1 DEF WIInv, WTypeOK, IInv
<1>4. GrantsHeld' /\ RecordingNeverAhead'
  BY <1>1, <1>2 DEF WIInv, GrantsHeld, RecordingNeverAhead, Recording, vars
<1>5. RecordNeverAhead'
  BY <1>1 DEF WIInv, RecordNeverAhead, RecordingNeverAhead, Recording, vars
<1>6. JobsAccounted'
  <2>1. main # "enqueue"
    BY <1>1 DEF WIInv, JobsAccounted, Recording
  <2> SUFFICES ASSUME NEW id \in JobId
               PROVE  \/ id \in DOMAIN jobs
                      \/ id \in completed'
                      \/ \E x \in WorkerId : pc'[x] = "record" /\ \E y \in grant[x] : y.id = id
    BY <1>1, <2>1 DEF JobsAccounted, Recording, vars
  <2> QED BY <1>1, <1>2, <2>1 DEF WIInv, JobsAccounted, Recording
<1>7. DrainOnTime'
  <2>1. main \in {"enqueue", "wait", "join"}
    BY <1>1, NotJoined
  <2>2. \A id \in DOMAIN leased' : LeaseEnds(id)'
    BY <1>1, <1>2 DEF WIInv, DrainOnTime, LeaseEnds, Completing, Matches, vars
  <2> QED BY <1>1, <2>1, <2>2 DEF WIInv, DrainOnTime
<1> QED BY <1>3, <1>4, <1>5, <1>6, <1>7 DEF WIInv

-----------------------------------------------------------------------------
\* Every step of the program keeps the invariant.
LEMMA NextWIInv == WIInv /\ [WNext]_wvars => WIInv'
<1> SUFFICES ASSUME WIInv, [WNext]_wvars PROVE WIInv'
  OBVIOUS
<1>1. IInv'
  BY StepsOfQueue, NextIInv DEF WIInv
<1>2. ASSUME NEW id \in JobId, EnqueueJob(id) PROVE WIInv'
  BY <1>1, <1>2, EnqueueJobWIInv
<1>3. CASE Main
  BY <1>1, <1>3, MainMovesWIInv, DrainReapWIInv DEF Main
<1>4. CASE Cleaner
  BY <1>1, <1>4, CleanerWIInv
<1>5. ASSUME NEW w \in WorkerId, Worker(w) PROVE WIInv'
  BY <1>1, <1>5, WorkerLooksWIInv, WorkerLeaseWIInv, WorkerExtendWIInv, WorkerCompleteWIInv,
     WorkerRecordWIInv DEF Worker
<1>6. CASE TimePasses
  BY <1>1, <1>6, TimePassesWIInv
<1>7. CASE Finished \/ UNCHANGED wvars
  <2>1. UNCHANGED <<vars, threads>>
    BY <1>7 DEF Finished, wvars
  <2>2. (WTypeOK /\ GrantsHeld /\ JobsAccounted /\ RecordNeverAhead /\ RecordingNeverAhead)'
    BY <1>1, <2>1 DEF WIInv, WTypeOK, GrantsHeld, JobsAccounted, RecordNeverAhead,
                      RecordingNeverAhead, Recording, IInv, vars, threads
  <2>3. DrainOnTime'
    BY <2>1 DEF WIInv, DrainOnTime, LeaseEnds, Completing, Matches, AllJoined, vars, threads
  <2> QED BY <1>1, <2>2, <2>3 DEF WIInv
<1> QED BY <1>2, <1>3, <1>4, <1>5, <1>6, <1>7 DEF WNext

LEMMA WSpecWIInv == WSpec => []WIInv
BY InitWIInv, NextWIInv, PTL DEF WSpec

-----------------------------------------------------------------------------
(* The theorems *)

\* The threads and the queue keep their types, and no worker uses a LeaseResult that
\* lease did not return (test_lease_queue_concurrency.cpp:141).
THEOREM HarnessTypeCorrect == WSpec => []WTypeOK
<1>1. WIInv => WTypeOK
  BY DEF WIInv
<1> QED BY <1>1, WSpecWIInv, PTL

\* However the threads interleave, the queue sees a behaviour of its own
\* specification: every theorem about the queue holds of the whole program.
THEOREM HarnessUsesQueue == WSpec => Spec
<1>1. WInit => Init
  BY DEF WInit
<1> QED BY <1>1, StepsOfQueue, WSpecWIInv, PTL DEF WSpec, Spec

\* "No stuck leases after drain", for any mix of crashes, stalls and extensions.
THEOREM NoLeaseStuck == WSpec => []NoStuckLease
<1>1. WIInv => NoStuckLease
  <2> SUFFICES ASSUME WIInv, main = "check" PROVE leased = << >>
    BY DEF NoStuckLease
  <2>1. DOMAIN leased = {}
    BY DEF WIInv, DrainOnTime
  <2>2. leased = [x \in {} |-> leased[x]]
    BY <2>1 DEF WIInv, IInv, TypeOK
  <2> QED BY <2>2
<1> QED BY <1>1, WSpecWIInv, PTL

\* "Nothing lost": at the end every job is completed or ready, and none is both.
THEOREM JobsAccountedFor == WSpec => []EachJobCompletedOrReady
<1>1. WIInv => EachJobCompletedOrReady
  <2> SUFFICES ASSUME WIInv, main = "check"
               PROVE  completed \cup Range(ready) = JobId /\ completed \cap Range(ready) = {}
    BY DEF EachJobCompletedOrReady
  <2>1. DOMAIN leased = {} /\ AllJoined
    BY DEF WIInv, DrainOnTime
  <2>2. Range(ready) = DOMAIN jobs
    BY <2>1 DEF WIInv, IInv, Partition
  <2>3. \A id \in JobId : id \in DOMAIN jobs \/ id \in completed
    BY <2>1 DEF WIInv, JobsAccounted, Recording, AllJoined
  <2>4. completed \subseteq JobId /\ DOMAIN jobs \subseteq JobId
    BY DEF WIInv, WTypeOK, IInv, TypeOK
  <2> QED BY <2>2, <2>3, <2>4 DEF WIInv, RecordNeverAhead
<1> QED BY <1>1, WSpecWIInv, PTL

\* The record of completed jobs never runs ahead of the queue.
THEOREM RecordLags == WSpec => []RecordNeverAhead
<1>1. WIInv => RecordNeverAhead
  BY DEF WIInv
<1> QED BY <1>1, WSpecWIInv, PTL

==============================================================================
