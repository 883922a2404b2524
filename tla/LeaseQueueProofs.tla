-------------------------- MODULE LeaseQueueProofs --------------------------
(***************************************************************************)
(* Theorems about LeaseQueue, for any jobs, workers, durations and bounds. *)
(***************************************************************************)
EXTENDS LeaseQueue, DataLemmas

-----------------------------------------------------------------------------
(* The inductive invariant *)

\* A sequence number given out is below the counter, and a job in a lease was
\* attempted.
JobsCounted ==
  /\ \A id \in DOMAIN jobs : jobs[id].seq < next_enqueue_seq
  /\ \A id \in DOMAIN leased : jobs[id].attempts > 0

\* Partition says the jobs of the leases and of the queue are apart, which keeps
\* Emplace from meeting an old lease; TokensFenced keeps items of old leases from
\* covering a new one; a requeued job was attempted, so it does not disturb the
\* order of those that were not (JobsCounted); and only finitely many jobs can be put in order.
IInv ==
  /\ TypeOK
  /\ IsFiniteSet(DOMAIN leased)
  /\ Partition
  /\ LeaseCovered
  /\ TokensFenced
  /\ JobsCounted
  /\ FirstAttemptFIFO

\* Nothing is queued and nothing is leased when the queue is created.
LEMMA InitIInv == Init => IInv
<1> SUFFICES ASSUME Init PROVE IInv
  OBVIOUS
<1>1. /\ DOMAIN jobs = {} /\ DOMAIN leased = {} /\ DOMAIN ready = {}
      /\ expiries = {} /\ clock = 0 /\ next_enqueue_seq = 1 /\ next_lease_token = 1
  BY DEF Init
<1>2. Range(ready) = {}
  BY <1>1 DEF Range
<1>3. TypeOK
  <2>1. jobs \in [DOMAIN jobs -> JobRec] /\ leased \in [DOMAIN leased -> LeaseRec]
    BY DEF Init
  <2>2. ready \in Seq(JobId)
    BY DEF Init
  <2> QED BY <2>1, <2>2, <1>1 DEF TypeOK
<1>4. IsFiniteSet(DOMAIN leased)
  BY <1>1, FS_EmptySet
<1>5. Partition /\ LeaseCovered /\ TokensFenced
  BY <1>1, <1>2 DEF Partition, LeaseCovered, TokensFenced, IsInjective
<1>6. JobsCounted /\ FirstAttemptFIFO
  BY <1>1 DEF JobsCounted, FirstAttemptFIFO
<1> QED BY <1>3, <1>4, <1>5, <1>6 DEF IInv

\* enqueue puts a job that is nowhere at the end of the queue, with a sequence
\* number above all others.
LEMMA EnqueueIInv ==
  ASSUME IInv, NEW id \in JobId, Enqueue(id)
  PROVE  IInv'
<1> DEFINE rec == [seq |-> next_enqueue_seq, attempts |-> 0]
<1>1. /\ id \notin DOMAIN jobs
      /\ jobs' = Emplace(jobs, id, rec)
      /\ ready' = Append(ready, id)
      /\ next_enqueue_seq' = next_enqueue_seq + 1
      /\ UNCHANGED <<clock, leased, expiries, next_lease_token>>
  BY DEF Enqueue, Known, AddToReady
<1>2. /\ TypeOK /\ IsFiniteSet(DOMAIN leased) /\ Partition /\ LeaseCovered
      /\ TokensFenced /\ JobsCounted /\ FirstAttemptFIFO
  BY DEF IInv
<1>3. /\ DOMAIN jobs' = DOMAIN jobs \cup {id}
      /\ \A x \in DOMAIN jobs : jobs'[x] = jobs[x]
      /\ jobs'[id] = rec
      /\ jobs' \in [DOMAIN jobs' -> JobRec]
  BY <1>1, <1>2 DEF Emplace, TypeOK, JobRec
<1>4. /\ ready' \in Seq(JobId)
      /\ Range(ready') = Range(ready) \cup {id}
      /\ IsInjective(ready')
  <2>1. ready \in Seq(JobId) /\ IsInjective(ready) /\ id \notin Range(ready)
    BY <1>1, <1>2 DEF TypeOK, Partition
  <2> QED BY <1>1, <2>1, AppendNew
<1>5. TypeOK'
  BY <1>1, <1>2, <1>3, <1>4 DEF TypeOK
<1>6. Partition'
  BY <1>1, <1>2, <1>3, <1>4 DEF Partition
<1>7. IsFiniteSet(DOMAIN leased)' /\ LeaseCovered' /\ TokensFenced'
  BY <1>1, <1>2 DEF LeaseCovered, TokensFenced
<1>8. JobsCounted'
  <2>1. \A x \in DOMAIN jobs' : jobs'[x].seq < next_enqueue_seq'
    <3>1. next_enqueue_seq \in Nat /\ \A x \in DOMAIN jobs : jobs[x].seq \in Nat
      BY <1>2 DEF TypeOK, JobRec
    <3>2. \A x \in DOMAIN jobs : jobs[x].seq < next_enqueue_seq
      BY <1>2 DEF JobsCounted
    <3> QED BY <3>1, <3>2, <1>1, <1>3
  <2>2. \A x \in DOMAIN leased' : jobs'[x].attempts > 0
    BY <1>1, <1>2, <1>3 DEF JobsCounted, Partition
  <2> QED BY <2>1, <2>2 DEF JobsCounted
<1>9. FirstAttemptFIFO'
  <2>1. /\ DOMAIN ready = 1 .. Len(ready) /\ DOMAIN ready' = 1 .. Len(ready) + 1
        /\ Len(ready) \in Nat
        /\ \A i \in 1 .. Len(ready) : ready'[i] = ready[i]
        /\ ready'[Len(ready) + 1] = id
    BY <1>1, <1>2 DEF TypeOK
  <2>2. \A i \in 1 .. Len(ready) : ready[i] \in DOMAIN jobs
    BY <1>2, <2>1 DEF Partition, Range
  <2> SUFFICES ASSUME NEW i \in DOMAIN ready', NEW k \in DOMAIN ready', i < k,
                      jobs'[ready'[i]].attempts = 0, jobs'[ready'[k]].attempts = 0
               PROVE  jobs'[ready'[i]].seq < jobs'[ready'[k]].seq
    BY DEF FirstAttemptFIFO
  <2>3. i \in 1 .. Len(ready) /\ jobs'[ready'[i]] = jobs[ready[i]]
    BY <2>1, <2>2, <1>3
  <2>4. CASE k \in 1 .. Len(ready)
    BY <2>1, <2>2, <2>3, <2>4, <1>2, <1>3 DEF FirstAttemptFIFO
  <2>5. CASE k = Len(ready) + 1
    <3>1. jobs'[ready'[k]].seq = next_enqueue_seq
      BY <2>1, <2>5, <1>3
    <3> QED BY <3>1, <2>2, <2>3, <1>2 DEF JobsCounted
  <2> QED BY <2>1, <2>4, <2>5
<1> QED BY <1>5, <1>6, <1>7, <1>8, <1>9 DEF IInv

\* lease moves the first queued job to a lease under a token of its own, and
\* pushes the item that covers it.
LEMMA LeaseIInv ==
  ASSUME IInv, NEW w \in WorkerId, NEW d \in LeaseDur, Lease(w, d)
  PROVE  IInv'
<1> DEFINE id    == Head(ready)
           rec   == [worker |-> w, expiry |-> clock + d, token |-> next_lease_token]
           item  == [expiry |-> clock + d, id |-> id, token |-> next_lease_token]
<1>1. /\ TypeOK /\ IsFiniteSet(DOMAIN leased) /\ Partition /\ LeaseCovered
      /\ TokensFenced /\ JobsCounted /\ FirstAttemptFIFO
  BY DEF IInv
<1>2. /\ id \in Range(ready) /\ ready' \in Seq(JobId)
      /\ Range(ready') = Range(ready) \ {id}
      /\ IsInjective(ready')
      /\ ready # << >> /\ ready' = Tail(ready)
  <2>1. ready \in Seq(JobId) /\ ready # << >> /\ IsInjective(ready) /\ ready' = Tail(ready)
    BY <1>1 DEF Lease, TypeOK, Partition
  <2> QED BY <2>1, TailOfQueue
<1>3. id \in DOMAIN jobs /\ id \notin DOMAIN leased /\ id \in JobId
  BY <1>1, <1>2 DEF Partition, TypeOK
<1>4. /\ jobs' = [jobs EXCEPT ![id].attempts = @ + 1]
      /\ leased' = Emplace(leased, id, rec)
      /\ expiries' = expiries \cup {item}
      /\ next_lease_token' = next_lease_token + 1
      /\ UNCHANGED <<clock, next_enqueue_seq>>
  BY <1>3 DEF Lease, PushExpiry, TokenAfter
<1>5. /\ DOMAIN leased' = DOMAIN leased \cup {id}
      /\ \A x \in DOMAIN leased : leased'[x] = leased[x]
      /\ leased'[id] = rec
  BY <1>3, <1>4 DEF Emplace
<1>6. /\ DOMAIN jobs' = DOMAIN jobs
      /\ \A x \in DOMAIN jobs \ {id} : jobs'[x] = jobs[x]
      /\ jobs'[id].seq = jobs[id].seq /\ jobs'[id].attempts = jobs[id].attempts + 1
      /\ jobs' \in [DOMAIN jobs -> JobRec]
  BY <1>1, <1>3, <1>4 DEF TypeOK, JobRec
<1>7. clock + d \in Int
  BY <1>1, DurationAssumption DEF TypeOK
<1>8. TypeOK'
  <2>1. leased' \in [DOMAIN leased' -> LeaseRec]
    <3>1. rec \in LeaseRec
      BY <1>1, <1>7 DEF TypeOK, LeaseRec
    <3> QED BY <3>1, <1>1, <1>4 DEF Emplace, TypeOK
  <2>2. expiries' \subseteq ExpiryItem
    BY <1>1, <1>3, <1>4, <1>7 DEF TypeOK, ExpiryItem
  <2> QED BY <2>1, <2>2, <1>1, <1>2, <1>3, <1>4, <1>5, <1>6 DEF TypeOK
<1>9. IsFiniteSet(DOMAIN leased')
  BY <1>1, <1>5, FS_AddElement
<1>10. Partition'
  BY <1>1, <1>2, <1>3, <1>5, <1>6 DEF Partition
<1>11. LeaseCovered'
  BY <1>1, <1>3, <1>4, <1>5 DEF LeaseCovered
<1>12. TokensFenced'
  <2>1. /\ next_lease_token \in Nat
        /\ \A x \in DOMAIN leased : leased[x].token \in Nat
        /\ \A e \in expiries : e.token \in Nat
    BY <1>1 DEF TypeOK, LeaseRec, ExpiryItem
  <2>2. /\ \A x \in DOMAIN leased : leased[x].token < next_lease_token
        /\ \A e \in expiries : e.token < next_lease_token
    BY <1>1 DEF TokensFenced
  <2>3. leased'[id].token = next_lease_token /\ item.token = next_lease_token /\ item.id = id
    BY <1>5
  <2>4. \A x \in DOMAIN leased' : leased'[x].token < next_lease_token'
    BY <1>4, <1>5, <2>1, <2>2, <2>3
  <2>5. \A e \in expiries' : e.token < next_lease_token'
    BY <1>4, <2>1, <2>2, <2>3
  <2>6. \A a, b \in DOMAIN leased' : leased'[a].token = leased'[b].token => a = b
    BY <1>1, <1>5, <2>1, <2>2, <2>3 DEF TokensFenced
  <2>7. \A e \in expiries', x \in DOMAIN leased' : leased'[x].token = e.token => x = e.id
    BY <1>1, <1>4, <1>5, <2>1, <2>2, <2>3 DEF TokensFenced
  <2> QED BY <2>4, <2>5, <2>6, <2>7 DEF TokensFenced
<1>13. JobsCounted'
  <2>1. \A x \in DOMAIN jobs' : jobs'[x].seq < next_enqueue_seq'
    BY <1>1, <1>3, <1>4, <1>6 DEF JobsCounted
  <2>2. \A x \in DOMAIN leased : jobs'[x].attempts > 0
    BY <1>1, <1>3, <1>6 DEF JobsCounted, Partition
  <2>3. jobs'[id].attempts > 0
    BY <1>1, <1>3, <1>6 DEF TypeOK, JobRec
  <2> QED BY <2>1, <2>2, <2>3, <1>5 DEF JobsCounted
<1>14. FirstAttemptFIFO'
  <2>1. /\ Len(ready) \in Nat \ {0} /\ DOMAIN ready = 1 .. Len(ready)
        /\ DOMAIN ready' = 1 .. Len(ready) - 1
        /\ \A i \in 1 .. Len(ready) - 1 : ready'[i] = ready[i + 1]
    BY <1>1, <1>2 DEF TypeOK
  <2>2. \A i \in DOMAIN ready' : ready'[i] \in DOMAIN jobs \ {id}
    BY <1>1, <1>2 DEF Partition, Range
  <2> SUFFICES ASSUME NEW i \in DOMAIN ready', NEW k \in DOMAIN ready', i < k,
                      jobs'[ready'[i]].attempts = 0, jobs'[ready'[k]].attempts = 0
               PROVE  jobs'[ready'[i]].seq < jobs'[ready'[k]].seq
    BY DEF FirstAttemptFIFO
  <2>3. i + 1 \in DOMAIN ready /\ k + 1 \in DOMAIN ready /\ i + 1 < k + 1
    BY <2>1
  <2>4. /\ jobs'[ready'[i]] = jobs[ready[i + 1]]
        /\ jobs'[ready'[k]] = jobs[ready[k + 1]]
    BY <2>1, <2>2, <1>6
  <2> QED BY <2>3, <2>4, <1>1 DEF FirstAttemptFIFO
<1> QED BY <1>8, <1>9, <1>10, <1>11, <1>12, <1>13, <1>14 DEF IInv

\* extend changes one expiry and pushes the item that covers the new one.
LEMMA ExtendIInv ==
  ASSUME IInv, NEW id \in JobId, NEW w \in WorkerId, NEW t \in 1 .. MaxToken,
         NEW extra \in ExtraDur, Extend(id, w, t, extra)
  PROVE  IInv'
<1> DEFINE expiry == ExtendedExpiry(id, extra)
<1>1. /\ TypeOK /\ IsFiniteSet(DOMAIN leased) /\ Partition /\ LeaseCovered
      /\ TokensFenced /\ JobsCounted /\ FirstAttemptFIFO
  BY DEF IInv
<1>2. /\ id \in DOMAIN leased /\ leased[id].worker = w /\ leased[id].token = t
      /\ leased' = [leased EXCEPT ![id].expiry = expiry]
      /\ expiries' = expiries \cup {[expiry |-> expiry, id |-> id, token |-> t]}
      /\ UNCHANGED <<clock, jobs, ready, next_enqueue_seq, next_lease_token>>
  BY DEF Extend, Matches, PushExpiry
<1>3. expiry \in Int
  BY <1>1, <1>2, DurationAssumption DEF ExtendedExpiry, TypeOK, LeaseRec
<1> HIDE DEF expiry
<1>4. /\ DOMAIN leased' = DOMAIN leased
      /\ \A x \in DOMAIN leased \ {id} : leased'[x] = leased[x]
      /\ leased'[id].expiry = expiry /\ leased'[id].token = t
      /\ leased' \in [DOMAIN leased -> LeaseRec]
  BY <1>1, <1>2, <1>3 DEF TypeOK, LeaseRec
<1>5. TypeOK'
  <2>1. t \in Nat
    BY <1>1, <1>2 DEF TypeOK, LeaseRec
  <2>2. expiries' \subseteq ExpiryItem
    BY <1>1, <1>2, <1>3, <2>1 DEF TypeOK, ExpiryItem
  <2> QED BY <2>2, <1>1, <1>2, <1>4 DEF TypeOK
<1>6. IsFiniteSet(DOMAIN leased') /\ Partition'
  BY <1>1, <1>2, <1>4 DEF Partition
<1>7. LeaseCovered'
  BY <1>1, <1>2, <1>4 DEF LeaseCovered
<1>8. TokensFenced'
  <2>1. \A x \in DOMAIN leased : leased'[x].token = leased[x].token
    BY <1>2, <1>4
  <2> QED BY <1>1, <1>2, <1>4, <2>1 DEF TokensFenced
<1>9. JobsCounted' /\ FirstAttemptFIFO'
  BY <1>1, <1>2, <1>4 DEF JobsCounted, FirstAttemptFIFO
<1> QED BY <1>5, <1>6, <1>7, <1>8, <1>9 DEF IInv

\* complete takes a leased job out of both maps; its items stay and are stale.
LEMMA CompleteIInv ==
  ASSUME IInv, NEW id \in JobId, NEW w \in WorkerId, NEW t \in 1 .. MaxToken,
         Complete(id, w, t)
  PROVE  IInv'
<1>1. /\ TypeOK /\ IsFiniteSet(DOMAIN leased) /\ Partition /\ LeaseCovered
      /\ TokensFenced /\ JobsCounted /\ FirstAttemptFIFO
  BY DEF IInv
<1>2. /\ id \in DOMAIN leased
      /\ leased' = Erase(leased, {id}) /\ jobs' = Erase(jobs, {id})
      /\ UNCHANGED <<clock, ready, expiries, next_enqueue_seq, next_lease_token>>
  BY DEF Complete, Matches
<1>3. /\ DOMAIN leased' = DOMAIN leased \ {id}
      /\ \A x \in DOMAIN leased' : leased'[x] = leased[x]
      /\ DOMAIN jobs' = DOMAIN jobs \ {id}
      /\ \A x \in DOMAIN jobs' : jobs'[x] = jobs[x]
  BY <1>2 DEF Erase, Restrict
<1>4. TypeOK'
  BY <1>1, <1>2, <1>3 DEF TypeOK, Erase, Restrict
<1>5. IsFiniteSet(DOMAIN leased')
  BY <1>1, <1>3, FS_Subset
<1>6. Partition'
  BY <1>1, <1>2, <1>3 DEF Partition
<1>7. LeaseCovered'
  BY <1>1, <1>2, <1>3 DEF LeaseCovered
<1>10. TokensFenced'
  <2>1. /\ expiries' = expiries /\ next_lease_token' = next_lease_token
        /\ DOMAIN leased' \subseteq DOMAIN leased
        /\ \A x \in DOMAIN leased' : leased'[x].token = leased[x].token
    BY <1>2, <1>3
  <2> QED BY <2>1, <1>1 DEF TokensFenced
<1>8. JobsCounted'
  BY <1>1, <1>2, <1>3 DEF JobsCounted, Partition
<1>9. FirstAttemptFIFO'
  <2>1. \A i \in DOMAIN ready : ready[i] \in DOMAIN jobs'
    BY <1>1, <1>2, <1>3 DEF Partition, Range
  <2>2. \A i \in DOMAIN ready : jobs'[ready'[i]] = jobs[ready[i]]
    BY <2>1, <1>2, <1>3
  <2>3. DOMAIN ready' = DOMAIN ready
    BY <1>2
  <2> QED BY <2>2, <2>3, <1>1 DEF FirstAttemptFIFO
<1> QED BY <1>4, <1>5, <1>6, <1>7, <1>8, <1>9, <1>10 DEF IInv


\* The ids that a reap puts back: each of them once, and no other.
LEMMA RequeuedOnce ==
  ASSUME IsFiniteSet(DOMAIN leased), TypeOK, NEW order \in RequeueOrders
  PROVE  order \in Seq(JobId) /\ Range(order) = Expired /\ IsInjective(order)
<1> DEFINE n == Cardinality(Expired)
<1>1. Expired \subseteq DOMAIN leased /\ Expired \subseteq JobId
  BY DEF Expired, TypeOK
<1>2. n \in Nat
  BY <1>1, FS_Subset, FS_CardinalityType
<1>3. /\ order \in [1 .. n -> Expired] /\ IsInjective(order)
      /\ \A x \in Expired : \E i \in 1 .. n : order[i] = x
  BY DEF RequeueOrders, Bijection, Injection, Surjection
<1>4. order \in Seq(JobId)
  BY <1>1, <1>2, <1>3, SeqDef
<1>5. Range(order) = Expired
  BY <1>3 DEF Range
<1> QED BY <1>3, <1>4, <1>5

\* The heap finds exactly the leases that have expired.
LEMMA ExpiredByHeap ==
  ASSUME IInv
  PROVE  Expired = {id \in DOMAIN leased : leased[id].expiry <= clock}
<1>1. ASSUME NEW id \in Expired PROVE leased[id].expiry <= clock
  BY <1>1 DEF Expired, DueItems, Actionable
<1>2. ASSUME NEW id \in DOMAIN leased, leased[id].expiry <= clock PROVE id \in Expired
  <2> DEFINE item == [expiry |-> leased[id].expiry, id |-> id, token |-> leased[id].token]
  <2>1. item \in expiries
    BY DEF IInv, LeaseCovered
  <2>2. item \in DueItems(id)
    BY <2>1, <1>2 DEF DueItems, Due, Actionable
  <2> QED BY <2>2 DEF Expired
<1> QED BY <1>1, <1>2 DEF Expired

\* reap_expired moves the expired leases to the queue; every lease it leaves
\* behind expires later, so the item covering that lease is not popped.
LEMMA ReapIInv ==
  ASSUME IInv, Reap
  PROVE  IInv'
<1>1. /\ TypeOK /\ IsFiniteSet(DOMAIN leased) /\ Partition /\ LeaseCovered
      /\ TokensFenced /\ JobsCounted /\ FirstAttemptFIFO
  BY DEF IInv
<1>2. PICK order \in RequeueOrders :
        /\ leased' = Erase(leased, Expired)
        /\ ready' = ready \o order
        /\ expiries' = expiries \ Due
        /\ UNCHANGED <<clock, jobs, next_enqueue_seq, next_lease_token>>
  BY DEF Reap
<1>3. order \in Seq(JobId) /\ Range(order) = Expired /\ IsInjective(order)
  BY <1>1, RequeuedOnce
<1>4. /\ DOMAIN leased' = DOMAIN leased \ Expired
      /\ \A x \in DOMAIN leased' : leased'[x] = leased[x]
      /\ Expired \subseteq DOMAIN leased
  BY <1>2 DEF Erase, Restrict, Expired
<1>5. /\ ready' \in Seq(JobId) /\ IsInjective(ready')
      /\ Range(ready') = Range(ready) \cup Expired
  <2>1. ready \in Seq(JobId) /\ IsInjective(ready) /\ Range(ready) \cap Range(order) = {}
    BY <1>1, <1>3, <1>4 DEF TypeOK, Partition
  <2> QED BY <1>2, <1>3, <2>1, JoinQueues
<1>6. TypeOK'
  BY <1>1, <1>2, <1>4, <1>5 DEF TypeOK, Erase, Restrict
<1>7. IsFiniteSet(DOMAIN leased')
  BY <1>1, <1>4, FS_Subset
<1>8. Partition'
  BY <1>1, <1>2, <1>4, <1>5 DEF Partition
<1>9. LeaseCovered'
  <2> SUFFICES ASSUME NEW x \in DOMAIN leased'
               PROVE  [expiry |-> leased'[x].expiry, id |-> x, token |-> leased'[x].token]
                        \in expiries'
    BY DEF LeaseCovered
  <2> DEFINE item == [expiry |-> leased[x].expiry, id |-> x, token |-> leased[x].token]
  <2>1. x \in DOMAIN leased /\ leased'[x] = leased[x] /\ item \in expiries
    BY <1>1, <1>4 DEF LeaseCovered
  <2>2. ~(leased[x].expiry <= clock)
    BY <1>4, ExpiredByHeap
  <2>3. item \notin Due
    BY <2>2 DEF Due
  <2> QED BY <2>1, <2>3, <1>2
<1>10. TokensFenced'
  <2>1. /\ expiries' \subseteq expiries /\ next_lease_token' = next_lease_token
        /\ DOMAIN leased' \subseteq DOMAIN leased
        /\ \A x \in DOMAIN leased' : leased'[x].token = leased[x].token
    BY <1>2, <1>4
  <2> QED BY <2>1, <1>1 DEF TokensFenced
<1>11. JobsCounted'
  BY <1>1, <1>2, <1>4 DEF JobsCounted
<1>12. FirstAttemptFIFO'
  <2>1. /\ Len(ready) \in Nat /\ Len(order) \in Nat
        /\ DOMAIN ready = 1 .. Len(ready)
        /\ DOMAIN ready' = 1 .. Len(ready) + Len(order)
        /\ \A i \in DOMAIN ready' :
             ready'[i] = IF i <= Len(ready) THEN ready[i] ELSE order[i - Len(ready)]
    BY <1>1, <1>2, <1>3 DEF TypeOK
  <2>2. \A i \in DOMAIN ready' : jobs[ready'[i]].attempts = 0 => i <= Len(ready)
    <3> SUFFICES ASSUME NEW i \in DOMAIN ready', i > Len(ready)
                 PROVE  jobs[ready'[i]].attempts # 0
      BY <2>1
    <3>1. i - Len(ready) \in 1 .. Len(order) /\ ready'[i] = order[i - Len(ready)]
      BY <2>1
    <3>2. order[i - Len(ready)] \in Range(order)
      BY <1>3, <3>1, RangeEquality
    <3>3. ready'[i] \in DOMAIN leased
      BY <3>1, <3>2, <1>3, <1>4
    <3> QED BY <3>3, <1>1 DEF JobsCounted
  <2> SUFFICES ASSUME NEW i \in DOMAIN ready', NEW k \in DOMAIN ready', i < k,
                      jobs[ready'[i]].attempts = 0, jobs[ready'[k]].attempts = 0
               PROVE  jobs[ready'[i]].seq < jobs[ready'[k]].seq
    BY <1>2 DEF FirstAttemptFIFO
  <2>3. /\ i \in DOMAIN ready /\ ready'[i] = ready[i]
        /\ k \in DOMAIN ready /\ ready'[k] = ready[k]
    BY <2>1, <2>2
  <2> QED BY <2>3, <1>1 DEF FirstAttemptFIFO
<1> QED BY <1>6, <1>7, <1>8, <1>9, <1>10, <1>11, <1>12 DEF IInv


\* Time passes without the queue noticing.
LEMMA TickIInv ==
  ASSUME IInv, Tick
  PROVE  IInv'
BY DEF IInv, Tick, TypeOK, Partition, LeaseCovered, TokensFenced, JobsCounted,
       FirstAttemptFIFO

\* Every step of the queue keeps the inductive invariant.
LEMMA NextIInv == IInv /\ [Next]_vars => IInv'
<1> SUFFICES ASSUME IInv, [Next]_vars PROVE IInv'
  OBVIOUS
<1>1. ASSUME NEW id \in JobId, Enqueue(id) PROVE IInv'
  BY <1>1, EnqueueIInv
<1>2. ASSUME NEW w \in WorkerId, NEW d \in LeaseDur, Lease(w, d) PROVE IInv'
  BY <1>2, LeaseIInv
<1>3. ASSUME NEW id \in JobId, NEW w \in WorkerId, NEW t \in 1 .. MaxToken,
             NEW extra \in ExtraDur, Extend(id, w, t, extra)
      PROVE  IInv'
  BY <1>3, ExtendIInv
<1>4. ASSUME NEW id \in JobId, NEW w \in WorkerId, NEW t \in 1 .. MaxToken,
             Complete(id, w, t)
      PROVE  IInv'
  BY <1>4, CompleteIInv
<1>5. CASE Reap
  BY <1>5, ReapIInv
<1>6. CASE Tick
  BY <1>6, TickIInv
<1>7. CASE UNCHANGED vars
  BY <1>7 DEF vars, IInv, TypeOK, Partition, LeaseCovered, TokensFenced, JobsCounted,
              FirstAttemptFIFO
<1> QED BY <1>1, <1>2, <1>3, <1>4, <1>5, <1>6, <1>7 DEF Next

LEMMA SpecIInv == Spec => []IInv
BY InitIInv, NextIInv, PTL DEF Spec

-----------------------------------------------------------------------------
(* The theorems *)

\* The state keeps its types: the model never leaves what TLC's runs explore.
THEOREM TypeCorrect == Spec => []TypeOK
<1>1. IInv => TypeOK
  BY DEF IInv
<1> QED BY <1>1, SpecIInv, PTL

\* docs/invariants.md 1-3, for any number of jobs and workers: an unfinished job
\* is queued once or leased, never both, never neither.
THEOREM PartitionHolds == Spec => []Partition
<1>1. IInv => Partition
  BY DEF IInv
<1> QED BY <1>1, SpecIInv, PTL

\* No lease ever escapes the expiry heap, for any durations, negative included.
THEOREM LeasesStayCovered == Spec => []LeaseCovered
<1>1. IInv => LeaseCovered
  BY DEF IInv
<1> QED BY <1>1, SpecIInv, PTL

\* Tokens fence: one token, one lease, one job, for ever.
THEOREM TokensFence == Spec => []TokensFenced
<1>1. IInv => TokensFenced
  BY DEF IInv
<1> QED BY <1>1, SpecIInv, PTL

\* Jobs that were never leased are served in the order they were enqueued.
THEOREM FirstAttemptsInOrder == Spec => []FirstAttemptFIFO
<1>1. IInv => FirstAttemptFIFO
  BY DEF IInv
<1> QED BY <1>1, SpecIInv, PTL


\* A lease turns into a place in the queue only by reap_expired, and only when
\* the lease has expired.
LEMMA OnlyReapRequeues ==
  ASSUME IInv, [Next]_vars, NEW id \in DOMAIN leased, id \in Range(ready')
  PROVE  Reap /\ id \in Expired
<1>1. TypeOK /\ Partition /\ IsFiniteSet(DOMAIN leased)
  BY DEF IInv
<1>2. id \notin Range(ready) /\ id \in DOMAIN jobs
  BY <1>1 DEF Partition
<1>3. ASSUME NEW x \in JobId, Enqueue(x) PROVE FALSE
  <2>1. x \notin Range(ready) /\ x # id /\ ready' = Append(ready, x)
    BY <1>1, <1>2, <1>3 DEF Enqueue, Known, AddToReady, Partition
  <2>2. Range(ready') = Range(ready) \cup {x}
    BY <2>1, <1>1, AppendNew DEF TypeOK, Partition
  <2> QED BY <2>1, <2>2, <1>2
<1>4. ASSUME NEW w \in WorkerId, NEW d \in LeaseDur, Lease(w, d) PROVE FALSE
  <2>1. ready # << >> /\ ready' = Tail(ready)
    BY <1>4 DEF Lease
  <2>2. Range(ready') \subseteq Range(ready)
    BY <2>1, <1>1, TailOfQueue DEF TypeOK, Partition
  <2> QED BY <2>2, <1>2
<1>5. ASSUME NEW x \in JobId, NEW w \in WorkerId, NEW t \in 1 .. MaxToken,
             NEW extra \in ExtraDur, Extend(x, w, t, extra)
      PROVE  FALSE
  BY <1>5, <1>2 DEF Extend
<1>6. ASSUME NEW x \in JobId, NEW w \in WorkerId, NEW t \in 1 .. MaxToken,
             Complete(x, w, t)
      PROVE  FALSE
  BY <1>6, <1>2 DEF Complete
<1>7. ASSUME Tick PROVE FALSE
  BY <1>7, <1>2 DEF Tick
<1>8. ASSUME UNCHANGED vars PROVE FALSE
  BY <1>8, <1>2 DEF vars
<1>9. Reap
  BY <1>3, <1>4, <1>5, <1>6, <1>7, <1>8 DEF Next
<1>10. PICK order \in RequeueOrders : ready' = ready \o order
  BY <1>9 DEF Reap
<1>11. order \in Seq(JobId) /\ Range(order) = Expired
  BY <1>1, RequeuedOnce
<1>12. Range(ready') = Range(ready) \cup Expired
  BY <1>1, <1>10, <1>11, RangeConcatenation DEF TypeOK
<1> QED BY <1>2, <1>9, <1>12

\* docs/invariants.md 6: no worker loses a lease before it expires, whatever is
\* left in the heap of earlier leases and extensions.
THEOREM NoEarlyRequeue == Spec => RequeueOnlyExpired
<1>1. IInv /\ [Next]_vars =>
        [\A id \in DOMAIN leased : id \in Range(ready') => leased[id].expiry <= clock]_vars
  BY OnlyReapRequeues, ExpiredByHeap
<1> QED BY <1>1, SpecIInv, PTL DEF Spec, RequeueOnlyExpired

\* One call of reap_expired is enough: when it requeues anything it requeues
\* everything that has expired.
THEOREM ReapIsThorough == Spec => ReapTakesAllExpired
<1>1. IInv /\ [Next]_vars =>
        [(\E id \in DOMAIN leased : id \in Range(ready'))
           => \A id \in DOMAIN leased' : leased'[id].expiry > clock]_vars
  <2> SUFFICES ASSUME IInv, [Next]_vars, NEW x \in DOMAIN leased, x \in Range(ready'),
                      NEW id \in DOMAIN leased'
               PROVE  leased'[id].expiry > clock
    OBVIOUS
  <2>1. leased' = Erase(leased, Expired)
    BY OnlyReapRequeues DEF Reap
  <2>2. id \in DOMAIN leased \ Expired /\ leased'[id] = leased[id]
    BY <2>1 DEF Erase, Restrict
  <2>3. leased[id].expiry \in Int /\ clock \in Int
    BY <2>2 DEF IInv, TypeOK, LeaseRec
  <2> QED BY <2>2, <2>3, ExpiredByHeap
<1> QED BY <1>1, SpecIInv, PTL DEF Spec, ReapTakesAllExpired

\* The heap keeps nothing overdue beyond a reap, stale items included: only
\* reap_expired pops, and it pops everything that is due.
THEOREM HeapEmptied == Spec => ReapEmptiesHeap
<1>1. IInv /\ [Next]_vars =>
        [expiries \ expiries' # {} => \A e \in expiries' : e.expiry > clock]_vars
  <2> SUFFICES ASSUME IInv, [Next]_vars, NEW x \in expiries \ expiries', NEW e \in expiries'
               PROVE  e.expiry > clock
    OBVIOUS
  <2>1. ASSUME NEW id \in JobId, Enqueue(id) PROVE FALSE
    BY <2>1 DEF Enqueue
  <2>2. ASSUME NEW w \in WorkerId, NEW d \in LeaseDur, Lease(w, d) PROVE FALSE
    BY <2>2 DEF Lease, PushExpiry
  <2>3. ASSUME NEW id \in JobId, NEW w \in WorkerId, NEW t \in 1 .. MaxToken,
               NEW extra \in ExtraDur, Extend(id, w, t, extra)
        PROVE  FALSE
    BY <2>3 DEF Extend, PushExpiry
  <2>4. ASSUME NEW id \in JobId, NEW w \in WorkerId, NEW t \in 1 .. MaxToken,
               Complete(id, w, t)
        PROVE  FALSE
    BY <2>4 DEF Complete
  <2>5. ASSUME Tick \/ UNCHANGED vars PROVE FALSE
    BY <2>5 DEF Tick, vars
  <2>6. expiries' = expiries \ Due
    BY <2>1, <2>2, <2>3, <2>4, <2>5 DEF Next, Reap
  <2>7. e \in expiries /\ ~(e.expiry <= clock)
    BY <2>6 DEF Due
  <2>8. e.expiry \in Int /\ clock \in Int
    BY <2>7 DEF IInv, TypeOK, ExpiryItem
  <2> QED BY <2>7, <2>8
<1> QED BY <1>1, SpecIInv, PTL DEF Spec, ReapEmptiesHeap

-----------------------------------------------------------------------------
(* The queue implements the visibility queue *)

\* Every step of the queue is the step of the heapless queue it stands for.
LEMMA StepRefines == IInv /\ [Next]_vars => [VQ!Next]_(VQ!vqvars)
<1> SUFFICES ASSUME IInv, [Next]_vars PROVE [VQ!Next]_(VQ!vqvars)
  OBVIOUS
<1>1. TypeOK /\ Partition /\ IsFiniteSet(DOMAIN leased)
  BY DEF IInv
<1>2. ASSUME NEW id \in JobId, Enqueue(id) PROVE VQ!Submit(id)
  <2>1. /\ id \notin DOMAIN jobs /\ ready' = Append(ready, id)
        /\ UNCHANGED <<clock, leased, next_lease_token>>
    BY <1>2 DEF Enqueue, Known, AddToReady
  <2>2. id \notin VQ!Live
    BY <2>1, <1>1 DEF VQ!Live, VQ!Range, Range, Partition
  <2> QED BY <2>1, <2>2 DEF VQ!Submit
<1>3. ASSUME NEW w \in WorkerId, NEW d \in LeaseDur, Lease(w, d) PROVE VQ!Claim(w, d)
  <2> DEFINE id == Head(ready)
  <2>1. id \in Range(ready)
    BY <1>1, <1>3, TailOfQueue DEF Lease, TypeOK, Partition
  <2>2. id \in DOMAIN jobs /\ id \notin DOMAIN leased
    BY <2>1, <1>1 DEF Partition
  <2>3. /\ ready # << >> /\ ready' = Tail(ready) /\ clock' = clock
        /\ next_lease_token' = next_lease_token + 1
        /\ leased' = Emplace(leased, id, [worker |-> w, expiry |-> clock + d,
                                          token |-> next_lease_token])
    BY <2>2, <1>3 DEF Lease, TokenAfter
  <2>4. next_lease_token' - 1 = (next_lease_token - 1) + 1
        /\ next_lease_token' - 1 = next_lease_token
    BY <2>3, <1>1 DEF TypeOK
  <2>5. /\ DOMAIN leased' = DOMAIN leased \cup {id}
        /\ \A x \in DOMAIN leased : leased'[x] = leased[x]
        /\ leased'[id] = [worker |-> w, expiry |-> clock + d, token |-> next_lease_token]
    BY <2>2, <2>3 DEF Emplace
  <2> QED BY <2>2, <2>3, <2>4, <2>5 DEF VQ!Claim
<1>4. ASSUME NEW id \in JobId, NEW w \in WorkerId, NEW t \in 1 .. MaxToken,
             NEW extra \in ExtraDur, Extend(id, w, t, extra)
      PROVE  VQ!Renew(id, extra)
  <2>1. /\ id \in DOMAIN leased
        /\ leased' = [leased EXCEPT ![id].expiry = ExtendedExpiry(id, extra)]
        /\ UNCHANGED <<clock, ready, next_lease_token>>
    BY <1>4 DEF Extend, Matches
  <2>2. leased[id].expiry \in Int /\ clock \in Int
    BY <2>1, <1>1 DEF TypeOK, LeaseRec
  <2>3. PICK base \in {clock, leased[id].expiry} :
          base >= clock /\ base >= leased[id].expiry /\ ExtendedExpiry(id, extra) = base + extra
    BY <2>2 DEF ExtendedExpiry
  <2>4. /\ DOMAIN leased' = DOMAIN leased
        /\ \A x \in DOMAIN leased \ {id} : leased'[x] = leased[x]
        /\ leased'[id].worker = leased[id].worker /\ leased'[id].token = leased[id].token
        /\ leased'[id].expiry = base + extra
    BY <2>1, <2>3, <1>1 DEF TypeOK, LeaseRec
  <2> DEFINE held(l) == [x \in DOMAIN l |-> [worker |-> l[x].worker, until |-> l[x].expiry,
                                             token |-> l[x].token]]
  <2>5. held(leased)[id].until = leased[id].expiry /\ id \in DOMAIN held(leased)
    BY <2>1
  <2>6. held(leased') = [held(leased) EXCEPT ![id].until = base + extra]
    BY <2>1, <2>4
  <2> QED BY <2>1, <2>3, <2>5, <2>6 DEF VQ!Renew
<1>5. ASSUME NEW id \in JobId, NEW w \in WorkerId, NEW t \in 1 .. MaxToken,
             Complete(id, w, t)
      PROVE  VQ!Finish(id)
  <2>1. /\ id \in DOMAIN leased /\ leased' = Erase(leased, {id})
        /\ UNCHANGED <<clock, ready, next_lease_token>>
    BY <1>5 DEF Complete, Matches
  <2> QED BY <2>1 DEF VQ!Finish, VQ!Restrict, Erase, Restrict
<1>6. ASSUME Reap PROVE VQ!Requeue
  <2>1. PICK order \in RequeueOrders :
          /\ leased' = Erase(leased, Expired) /\ ready' = ready \o order
          /\ UNCHANGED <<clock, next_lease_token>>
    BY <1>6 DEF Reap
  <2>2. VQ!Overdue = Expired
    BY ExpiredByHeap DEF VQ!Overdue
  <2>3. order \in Bijection(1 .. Cardinality(VQ!Overdue), VQ!Overdue)
    BY <2>2 DEF RequeueOrders
  <2>4. VQ!Cardinality(VQ!Overdue) = Cardinality(VQ!Overdue)
    BY DEF Cardinality, VQ!Cardinality, IsFiniteSet, VQ!IsFiniteSet
  <2>5. order \in VQ!Bijection(1 .. Cardinality(VQ!Overdue), VQ!Overdue)
    BY <2>3 DEF Bijection, Injection, Surjection, IsInjective,
                VQ!Bijection, VQ!Injection, VQ!Surjection, VQ!IsInjective
  <2> QED BY <2>1, <2>2, <2>4, <2>5 DEF VQ!Requeue, VQ!Restrict, Erase, Restrict
<1>7. ASSUME Tick PROVE VQ!Pass
  BY <1>7 DEF Tick, VQ!Pass
<1>8. ASSUME UNCHANGED vars PROVE UNCHANGED VQ!vqvars
  BY <1>8 DEF vars, VQ!vqvars
<1> QED BY <1>2, <1>3, <1>4, <1>5, <1>6, <1>7, <1>8 DEF Next, VQ!Next

\* The queue with its heap, its lazily discarded items, its job map and its
\* counters is, to its users, a queue whose claimed jobs come back at a deadline.
THEOREM Implements == Spec => ImplementsVisibilityQueue
<1>1. Init => VQ!Init
  BY DEF Init, VQ!Init
<1> QED BY <1>1, StepRefines, SpecIInv, PTL DEF Spec, ImplementsVisibilityQueue, VQ!Spec

=============================================================================
