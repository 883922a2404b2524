----------------------------- MODULE LeaseQueue -----------------------------
(***************************************************************************)
(* The in-memory lease queue of job_queue/src/LeaseQueue.h: producers      *)
(* enqueue jobs, workers lease, extend and complete them, and a cleaner    *)
(* returns the jobs whose lease ran out to the ready queue.                *)
(*                                                                         *)
(* Every public operation of the class holds mu_ from its first line to    *)
(* its last, so one operation is one action.  Calls that return false or   *)
(* nullopt change nothing and are stuttering steps.  The clock is the      *)
(* injected IClock: it never goes back, and each operation reads it once,  *)
(* under the lock.  Payloads are left out: no operation looks at them.     *)
(***************************************************************************)
EXTENDS Integers, Sequences, FiniteSets, Functions

CONSTANTS JobId,     \* the job ids producers use
          WorkerId,  \* the worker ids that call lease, extend and complete
          LeaseDur,  \* the durations passed to lease
          ExtraDur,  \* the durations passed to extend (signed: may be negative)
          \* Bounds, for model checking only.
          MaxClock,  \* the clock stops here
          MaxSeq,    \* at most this many jobs are ever enqueued
          MaxToken,  \* at most this many leases are ever granted
          Horizon    \* extend is not asked to go past this time

ASSUME DurationAssumption == LeaseDur \subseteq Int /\ ExtraDur \subseteq Int

ASSUME BoundAssumption ==
  MaxClock \in Nat /\ MaxSeq \in Nat /\ MaxToken \in Nat /\ Horizon \in Int

VARIABLES clock,            \* IClock::now(), in ticks
          jobs,             \* id :> [seq, attempts]: every unfinished job
          ready,            \* FIFO queue of job ids
          leased,           \* id :> [worker, expiry, token]: in-flight leases
          expiries,         \* the expiry heap, as the set of its items
          next_enqueue_seq,
          next_lease_token

vars == <<clock, jobs, ready, leased, expiries, next_enqueue_seq, next_lease_token>>

JobRec     == [seq : Nat, attempts : Nat]
LeaseRec   == [worker : WorkerId, expiry : Int, token : Nat]
ExpiryItem == [expiry : Int, id : JobId, token : Nat]

TypeOK ==
  /\ clock \in Nat
  /\ jobs \in [DOMAIN jobs -> JobRec] /\ DOMAIN jobs \subseteq JobId
  /\ ready \in Seq(JobId)
  /\ leased \in [DOMAIN leased -> LeaseRec] /\ DOMAIN leased \subseteq JobId
  /\ expiries \subseteq ExpiryItem
  /\ next_enqueue_seq \in Nat /\ next_lease_token \in Nat

-----------------------------------------------------------------------------
(* The containers and counters.  A definition directly above another with  *)
(* the same parameters, here and below, is a slip the code avoids: the     *)
(* properties are known to detect it (PROJECT.json, "mutants").            *)

\* unordered_map::emplace: an entry that is already there stays as it is.
Emplace(map, key, value) ==
  [k \in DOMAIN map \cup {key} |-> IF k \in DOMAIN map THEN map[k] ELSE value]

\* unordered_map::erase.
Erase(map, keys) == Restrict(map, DOMAIN map \ keys)

\* deque::push_back, of the copy made before the id is moved into the map.
AddMovedFromId(id) == Append(ready, "")
AddToReadyAtFront(id) == <<id>> \o ready
AddToReady(id) == Append(ready, id)

\* next_lease_token++ (a counter that is never set back).
TokenReused == next_lease_token
TokenAfter == next_lease_token + 1

\* push_expiry_.  Items are never removed when a lease ends: they go stale.
PushOnlyFirstExpiry(id, expiry, token) ==
  IF id \in DOMAIN leased THEN expiries
                          ELSE expiries \cup {[expiry |-> expiry, id |-> id, token |-> token]}
PushExpiry(id, expiry, token) ==
  expiries \cup {[expiry |-> expiry, id |-> id, token |-> token]}

-----------------------------------------------------------------------------
(* What the operations decide on *)

\* The check extend and complete start with: the caller holds the current lease.
MatchesWithoutToken(id, w, t) == id \in DOMAIN leased /\ leased[id].worker = w
Matches(id, w, t) ==
  id \in DOMAIN leased /\ leased[id].worker = w /\ leased[id].token = t

\* enqueue refuses the id of an unfinished job, leased ones included.
KnownIfReady(id) == id \in Range(ready)
Known(id) == id \in DOMAIN jobs

\* extend: a late extension counts from now, a timely one from the expiry.
ExtendedFromNow(id, extra) == clock + extra
ExtendedExpiry(id, extra) ==
  (IF leased[id].expiry > clock THEN leased[id].expiry ELSE clock) + extra

\* A popped item is acted on only if it belongs to the current lease of its
\* job and that lease has itself expired.
ActionableByToken(e) == e.id \in DOMAIN leased /\ leased[e.id].token = e.token
Actionable(e) ==
  /\ e.id \in DOMAIN leased
  /\ leased[e.id].token = e.token
  /\ leased[e.id].expiry <= clock

\* The heap items reap_expired pops: all that are due, those of finished leases
\* and of leases extended since included.
DueBeforeNow == {e \in expiries : e.expiry < clock}
DueAndActionable == {e \in expiries : e.expiry <= clock /\ Actionable(e)}
Due == {e \in expiries : e.expiry <= clock}

DueItems(id) == {e \in Due : e.id = id /\ Actionable(e)}

Expired == {id \in DOMAIN leased : DueItems(id) # {}}

\* Jobs go back in the order in which their first actionable item is popped;
\* the heap leaves the order of equal expiries open.
PoppedBefore(a, b) == \E e \in DueItems(a) : \A f \in DueItems(b) : e.expiry <= f.expiry

RequeueOrders ==
  {s \in Bijection(1 .. Cardinality(Expired), Expired) :
     \A i, k \in 1 .. Cardinality(Expired) : i < k => PoppedBefore(s[i], s[k])}

-----------------------------------------------------------------------------
Init ==
  /\ clock = 0
  /\ jobs = << >> /\ ready = << >> /\ leased = << >>
  /\ expiries = {}
  /\ next_enqueue_seq = 1 /\ next_lease_token = 1

Enqueue(id) ==
  /\ ~Known(id)
  /\ next_enqueue_seq <= MaxSeq
  /\ jobs' = Emplace(jobs, id, [seq |-> next_enqueue_seq, attempts |-> 0])
  /\ ready' = AddToReady(id)
  /\ next_enqueue_seq' = next_enqueue_seq + 1
  /\ UNCHANGED <<clock, leased, expiries, next_lease_token>>

\* A ready id without a job is popped and dropped.
Lease(w, d) ==
  /\ ready # << >>
  /\ next_lease_token <= MaxToken
  /\ ready' = Tail(ready)
  /\ LET id     == Head(ready)
         expiry == clock + d
     IN  IF id \in DOMAIN jobs
           THEN /\ jobs' = [jobs EXCEPT ![id].attempts = @ + 1]
                /\ leased' = Emplace(leased, id, [worker |-> w, expiry |-> expiry,
                                                  token |-> next_lease_token])
                /\ expiries' = PushExpiry(id, expiry, next_lease_token)
                /\ next_lease_token' = TokenAfter
           ELSE UNCHANGED <<jobs, leased, expiries, next_lease_token>>
  /\ UNCHANGED <<clock, next_enqueue_seq>>

Extend(id, w, t, extra) ==
  /\ Matches(id, w, t)
  /\ ExtendedExpiry(id, extra) <= Horizon
  /\ leased' = [leased EXCEPT ![id].expiry = ExtendedExpiry(id, extra)]
  /\ expiries' = PushExpiry(id, ExtendedExpiry(id, extra), t)
  /\ UNCHANGED <<clock, jobs, ready, next_enqueue_seq, next_lease_token>>

CompleteKeepingJob(id, w, t) ==
  /\ Matches(id, w, t)
  /\ leased' = Erase(leased, {id})
  /\ UNCHANGED <<clock, jobs, ready, expiries, next_enqueue_seq, next_lease_token>>

Complete(id, w, t) ==
  /\ Matches(id, w, t)
  /\ leased' = Erase(leased, {id})
  /\ jobs' = Erase(jobs, {id})
  /\ UNCHANGED <<clock, ready, expiries, next_enqueue_seq, next_lease_token>>

ReapCountingAttempt ==
  \E order \in RequeueOrders :
    /\ leased' = Erase(leased, Expired)
    /\ ready' = ready \o order
    /\ expiries' = expiries \ Due
    /\ jobs' = [id \in DOMAIN jobs |-> IF id \in Expired
                                         THEN [jobs[id] EXCEPT !.attempts = @ + 1] ELSE jobs[id]]
    /\ UNCHANGED <<clock, next_enqueue_seq, next_lease_token>>

\* One call of reap_expired: `now` is read once, every item due at `now` is
\* popped, and the expired jobs go to the back of the ready queue.
Reap ==
  \E order \in RequeueOrders :
    /\ leased' = Erase(leased, Expired)
    /\ ready' = ready \o order
    /\ expiries' = expiries \ Due
    /\ UNCHANGED <<clock, jobs, next_enqueue_seq, next_lease_token>>

Tick ==
  /\ clock < MaxClock
  /\ clock' = clock + 1
  /\ UNCHANGED <<jobs, ready, leased, expiries, next_enqueue_seq, next_lease_token>>

Next ==
  \/ \E id \in JobId : Enqueue(id)
  \/ \E w \in WorkerId, d \in LeaseDur : Lease(w, d)
  \/ \E id \in JobId, w \in WorkerId, t \in 1 .. MaxToken, extra \in ExtraDur :
       Extend(id, w, t, extra)
  \/ \E id \in JobId, w \in WorkerId, t \in 1 .. MaxToken : Complete(id, w, t)
  \/ Reap
  \/ Tick

Spec == Init /\ [][Next]_vars

-----------------------------------------------------------------------------
(* Safety *)

\* docs/invariants.md 1-3: every unfinished job is in exactly one place, the
\* ready queue (once) or a lease, and nothing else is in either.
Partition ==
  /\ Range(ready) \cup DOMAIN leased = DOMAIN jobs
  /\ Range(ready) \cap DOMAIN leased = {}
  /\ IsInjective(ready)

\* reap_expired only looks at leases through the heap, so a lease the heap has
\* no current item for would never be returned: extend must push, and nothing
\* may pop an item whose lease goes on.
LeaseCovered ==
  \A id \in DOMAIN leased :
    [expiry |-> leased[id].expiry, id |-> id, token |-> leased[id].token] \in expiries

\* A token names one lease for ever: what a former holder still has, or what is
\* left in the heap, can never be mistaken for the lease of another grant.
TokensFenced ==
  /\ \A id \in DOMAIN leased : leased[id].token < next_lease_token
  /\ \A e \in expiries : e.token < next_lease_token
  /\ \A a, b \in DOMAIN leased : leased[a].token = leased[b].token => a = b
  /\ \A e \in expiries, id \in DOMAIN leased :
       leased[id].token = e.token => id = e.id

\* Jobs that were never leased wait in the order they were enqueued in, however
\* many requeued jobs stand between them.
FirstAttemptFIFO ==
  \A i, k \in DOMAIN ready :
    i < k /\ jobs[ready[i]].attempts = 0 /\ jobs[ready[k]].attempts = 0
      => jobs[ready[i]].seq < jobs[ready[k]].seq

\* docs/invariants.md 6: a lease that has not expired is never taken from its
\* worker, whatever stale items of earlier leases or extensions are popped.
RequeueOnlyExpired ==
  [][\A id \in DOMAIN leased : id \in Range(ready') => leased[id].expiry <= clock]_vars

\* A reap that requeues anything leaves no expired lease behind: one call is
\* enough, whatever the order of the heap items.
ReapTakesAllExpired ==
  [][(\E id \in DOMAIN leased : id \in Range(ready'))
       => \A id \in DOMAIN leased' : leased'[id].expiry > clock]_vars

\* Items of finished and of extended leases are popped lazily.  None outlives
\* the first reap at which it is due, so what the heap holds of the past is
\* bounded by what was pushed since: a reap that stopped early, or skipped the
\* items it has no use for, would let the heap grow for ever.
ReapEmptiesHeap ==
  [][expiries \ expiries' # {} => \A e \in expiries' : e.expiry > clock]_vars

-----------------------------------------------------------------------------
(* The abstract queue it implements *)

VQ == INSTANCE VisibilityQueue WITH
        Job <- JobId, Worker <- WorkerId, ClaimTime <- LeaseDur, RenewTime <- ExtraDur,
        now <- clock, pending <- ready, granted <- next_lease_token - 1,
        held <- [id \in DOMAIN leased |->
                  [worker |-> leased[id].worker, until |-> leased[id].expiry,
                   token |-> leased[id].token]]

\* The queue is a visibility queue: the heap with its stale items, the job map
\* and the counters never show.
ImplementsVisibilityQueue == VQ!Spec

-----------------------------------------------------------------------------
(* Liveness *)

ExpiredLease(id, t) ==
  id \in DOMAIN leased /\ leased[id].token = t /\ leased[id].expiry <= clock

\* Visibility timeout: a lease that ran out does not stay that way.  Its job is
\* requeued unless the worker completes or extends it first.  Who keeps calling
\* reap_expired is up to the program around the queue (LeaseWorkers).
ExpiredLeaseResolved ==
  \A id \in JobId, t \in 1 .. MaxToken : ExpiredLease(id, t) ~> ~ExpiredLease(id, t)

=============================================================================
