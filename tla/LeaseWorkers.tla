---------------------------- MODULE LeaseWorkers ----------------------------
(***************************************************************************)
(* The lease queue at work, as job_queue/test drives it: a main thread     *)
(* enqueues the jobs, worker threads lease them and then crash, stall,     *)
(* extend or complete, a cleaner thread reaps, and after a time budget the *)
(* main thread stops everybody, joins them and drains the expired leases.  *)
(* What the test asserts at its end is stated here as invariants of that   *)
(* moment, over every interleaving instead of the one a run happens on.    *)
(*                                                                         *)
(* sleep_for only ever delays a thread: between two steps of a thread any  *)
(* time may pass, and any other thread may move.                           *)
(***************************************************************************)
EXTENDS LeaseQueue

CONSTANTS Budget,      \* time_budget: the main thread stops waiting after it
          DrainRounds, \* how often the main thread reaps and sleeps at the end
          RunTime      \* bound: the clock stops here until the drain begins

ASSUME HarnessAssumption ==
  /\ Budget \in Nat /\ DrainRounds \in Nat
  /\ RunTime \in Nat /\ RunTime > Budget /\ MaxClock >= RunTime + DrainRounds

\* The drain outlasts every lease: 50 sleeps of 2 ms against leases of at most 25.
ASSUME DrainAssumption == \A d \in LeaseDur : d <= DrainRounds

VARIABLES stop,       \* the flag worker and cleaner loops test
          main,       \* where the main thread is
          round, wake, \* drain iterations done, and the end of the current sleep
          cleaner,    \* where the cleaner thread is
          pc,         \* where each worker thread is
          grant,      \* lr of each worker: what its last lease returned, {} for nullopt
          completed   \* completed_concurrent: the ids workers recorded as done

threads == <<stop, main, round, wake, cleaner, pc, grant, completed>>
wvars == <<vars, threads>>

\* No worker reads the id and token of a LeaseResult that lease did not return.
WTypeOK ==
  /\ TypeOK
  /\ stop \in BOOLEAN
  /\ main \in {"enqueue", "wait", "join", "drain", "sleep", "check"}
  /\ round \in 0 .. DrainRounds /\ wake \in Nat
  /\ cleaner \in {"test", "reap", "exited"}
  /\ pc \in [WorkerId -> {"test", "lease", "extend", "complete", "record", "exited"}]
  /\ grant \in [WorkerId -> SUBSET [id : JobId, token : Nat]]
  /\ \A w \in WorkerId : pc[w] \in {"extend", "complete", "record"} => grant[w] # {}
  /\ completed \subseteq JobId

WInit ==
  /\ Init
  /\ stop = FALSE /\ main = "enqueue" /\ round = 0 /\ wake = 0
  /\ cleaner = "test"
  /\ pc = [w \in WorkerId |-> "test"]
  /\ grant = [w \in WorkerId |-> {}]
  /\ completed = {}

-----------------------------------------------------------------------------
(* The main thread *)

EnqueueJob(id) ==
  /\ main = "enqueue"
  /\ Enqueue(id)
  /\ UNCHANGED threads

StartThreads ==
  /\ main = "enqueue" /\ DOMAIN jobs = JobId
  /\ main' = "wait"
  /\ UNCHANGED <<vars, stop, round, wake, cleaner, pc, grant, completed>>

StopThreads ==
  /\ main = "wait"
  /\ completed = JobId \/ clock > Budget
  /\ stop' = TRUE /\ main' = "join"
  /\ UNCHANGED <<vars, round, wake, cleaner, pc, grant, completed>>

JoinCleanerOnly == cleaner = "exited"

\* for (auto& th : workers) th.join(); cleaner.join();
AllJoined == cleaner = "exited" /\ \A w \in WorkerId : pc[w] = "exited"

JoinThreads ==
  /\ main = "join" /\ AllJoined
  /\ main' = "drain"
  /\ UNCHANGED <<vars, stop, round, wake, cleaner, pc, grant, completed>>

\* After the last sleep there is one more reap, then the checks.
AfterOneReapLess == IF round + 1 < DrainRounds THEN "sleep" ELSE "check"
AfterDrainReap == IF round < DrainRounds THEN "sleep" ELSE "check"

RoundAfter == IF round < DrainRounds THEN round + 1 ELSE round

DrainReap ==
  /\ main = "drain"
  /\ Reap
  /\ main' = AfterDrainReap
  /\ round' = RoundAfter
  /\ wake' = clock + 1
  /\ UNCHANGED <<stop, cleaner, pc, grant, completed>>

DrainWake ==
  /\ main = "sleep" /\ clock >= wake
  /\ main' = "drain"
  /\ UNCHANGED <<vars, stop, round, wake, cleaner, pc, grant, completed>>

Main == StartThreads \/ StopThreads \/ JoinThreads \/ DrainReap \/ DrainWake

-----------------------------------------------------------------------------
(* The cleaner thread: while (!stop) { sleep; reap_expired; } *)

CleanerTest ==
  /\ main # "enqueue" /\ cleaner = "test"
  /\ cleaner' = IF stop THEN "exited" ELSE "reap"
  /\ UNCHANGED <<vars, stop, main, round, wake, pc, grant, completed>>

CleanerReap ==
  /\ cleaner = "reap"
  /\ Reap
  /\ cleaner' = "test"
  /\ UNCHANGED <<stop, main, round, wake, pc, grant, completed>>

Cleaner == CleanerTest \/ CleanerReap

-----------------------------------------------------------------------------
(* The worker threads *)

\* while (!stop): the flag may be raised between this test and the lease.
WorkerTest(w) ==
  /\ main # "enqueue" /\ pc[w] = "test" /\ ~stop
  /\ pc' = [pc EXCEPT ![w] = "lease"]
  /\ UNCHANGED <<vars, stop, main, round, wake, cleaner, grant, completed>>

\* A worker that gets a job crashes (forgets it and loops), goes on to extend
\* its lease, or goes on to complete the job, late or in time.
WorkerLease(w) ==
  /\ pc[w] = "lease"
  /\ \E d \in LeaseDur : Lease(w, d)
  /\ grant' = [grant EXCEPT ![w] = {[id |-> Head(ready), token |-> next_lease_token]}]
  /\ \E plan \in {"test", "extend", "complete"} : pc' = [pc EXCEPT ![w] = plan]
  /\ UNCHANGED <<stop, main, round, wake, cleaner, completed>>

WorkerIdleGoesOn(w) ==
  /\ pc[w] = "lease"
  /\ ready = << >> \/ next_lease_token > MaxToken
  /\ grant' = [grant EXCEPT ![w] = {}]
  /\ pc' = [pc EXCEPT ![w] = "complete"]
  /\ UNCHANGED <<vars, stop, main, round, wake, cleaner, completed>>

\* No job: sleep and test again (MaxToken stands in for an empty queue).
WorkerIdle(w) ==
  /\ pc[w] = "lease"
  /\ ready = << >> \/ next_lease_token > MaxToken
  /\ grant' = [grant EXCEPT ![w] = {}]
  /\ pc' = [pc EXCEPT ![w] = "test"]
  /\ UNCHANGED <<vars, stop, main, round, wake, cleaner, completed>>

WorkerExtend(w) ==
  /\ pc[w] = "extend"
  /\ \E g \in grant[w] :
       IF Matches(g.id, w, g.token)
         THEN \E extra \in ExtraDur : Extend(g.id, w, g.token, extra)
         ELSE UNCHANGED vars
  /\ pc' = [pc EXCEPT ![w] = "complete"]
  /\ UNCHANGED <<stop, main, round, wake, cleaner, grant, completed>>

AfterAnyComplete(w) == "record"

\* A refused completion is not recorded: the job went back to the queue.
AfterComplete(w) ==
  IF \E g \in grant[w] : Matches(g.id, w, g.token) THEN "record" ELSE "test"

WorkerComplete(w) ==
  /\ pc[w] = "complete"
  /\ \E g \in grant[w] :
       IF Matches(g.id, w, g.token) THEN Complete(g.id, w, g.token) ELSE UNCHANGED vars
  /\ pc' = [pc EXCEPT ![w] = AfterComplete(w)]
  /\ UNCHANGED <<stop, main, round, wake, cleaner, grant, completed>>

\* completed_concurrent.insert(job), under comp_mu, after complete() returned.
WorkerRecord(w) ==
  /\ pc[w] = "record"
  /\ completed' = completed \cup {g.id : g \in grant[w]}
  /\ pc' = [pc EXCEPT ![w] = "test"]
  /\ UNCHANGED <<vars, stop, main, round, wake, cleaner, grant>>

WorkerExitOnJob(w) ==
  /\ main # "enqueue" /\ pc[w] = "test" /\ stop /\ ready # << >>
  /\ pc' = [pc EXCEPT ![w] = "exited"]
  /\ UNCHANGED <<vars, stop, main, round, wake, cleaner, completed, grant>>

WorkerExit(w) ==
  /\ main # "enqueue" /\ pc[w] = "test" /\ stop
  /\ pc' = [pc EXCEPT ![w] = "exited"]
  /\ UNCHANGED <<vars, stop, main, round, wake, cleaner, grant, completed>>

Worker(w) ==
  \/ WorkerTest(w) \/ WorkerLease(w) \/ WorkerIdle(w)
  \/ WorkerExtend(w) \/ WorkerComplete(w) \/ WorkerRecord(w)
  \/ WorkerExit(w)

-----------------------------------------------------------------------------
\* In the drain only the sleeps take time, the least the loop can take.
TimePasses ==
  /\ IF main = "sleep" THEN clock < wake ELSE main # "drain" /\ clock < RunTime
  /\ Tick
  /\ UNCHANGED threads

Finished == main = "check" /\ UNCHANGED wvars

WNext ==
  \/ \E id \in JobId : EnqueueJob(id)
  \/ Main
  \/ Cleaner
  \/ \E w \in WorkerId : Worker(w)
  \/ TimePasses
  \/ Finished

WSpec == WInit /\ [][WNext]_wvars

\* Every started thread is scheduled, and time passes.
WFairSpec ==
  /\ WSpec
  /\ WF_wvars(\E id \in JobId : EnqueueJob(id))
  /\ WF_wvars(Main) /\ WF_wvars(Cleaner)
  /\ \A w \in WorkerId : WF_wvars(Worker(w))
  /\ WF_wvars(TimePasses)

-----------------------------------------------------------------------------
\* "No stuck leases after drain": with at least as many rounds as a lease can
\* last, no crashed or stalled worker leaves a lease behind.
NoStuckLease == main = "check" => leased = << >>

\* "Nothing lost; everything is either completed or ready", and nothing is both.
EachJobCompletedOrReady ==
  main = "check" =>
    /\ completed \cup Range(ready) = JobId
    /\ completed \cap Range(ready) = {}

\* While the workers run, the shared record may lag behind the queue, but it
\* never runs ahead: a job recorded as completed is gone from the queue.
RecordNeverAhead == completed \cap DOMAIN jobs = {}

\* The harness ends: every thread sees the flag and the drain runs its rounds.
Ends == <>(main = "check")

=============================================================================
