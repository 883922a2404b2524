--------------------------- MODULE VisibilityQueue ---------------------------
(***************************************************************************)
(* What a lease queue promises its users, without saying how: jobs wait in *)
(* line, a claimed job is invisible to other workers until a deadline, and *)
(* a job whose deadline has passed may be put back in line.  There is no   *)
(* expiry heap here and no second record of which jobs exist: requeueing   *)
(* is decided by the deadlines themselves.                                 *)
(***************************************************************************)
EXTENDS Integers, Sequences, FiniteSets, Functions

CONSTANTS Job, Worker, ClaimTime, RenewTime

VARIABLES now,     \* the time
          pending, \* the jobs in line
          held,    \* job :> [worker, until, token]: the claimed jobs
          granted  \* how many claims were ever granted

vqvars == <<now, pending, held, granted>>

Live == Range(pending) \cup DOMAIN held

Overdue == {j \in DOMAIN held : held[j].until <= now}

Init == now = 0 /\ pending = << >> /\ held = << >> /\ granted = 0

Submit(j) ==
  /\ j \notin Live
  /\ pending' = Append(pending, j)
  /\ UNCHANGED <<now, held, granted>>

\* Each claim gets a token of its own, larger than all before.
Claim(w, d) ==
  /\ pending # << >>
  /\ pending' = Tail(pending)
  /\ granted' = granted + 1
  /\ held' = [j \in DOMAIN held \cup {Head(pending)} |->
               IF j = Head(pending)
                 THEN [worker |-> w, until |-> now + d, token |-> granted']
                 ELSE held[j]]
  /\ UNCHANGED now

\* A renewal adds to the deadline, or to the present when that is later.
Renew(j, d) ==
  /\ j \in DOMAIN held
  /\ \E base \in {now, held[j].until} :
       /\ base >= now /\ base >= held[j].until
       /\ held' = [held EXCEPT ![j].until = base + d]
  /\ UNCHANGED <<now, pending, granted>>

Finish(j) ==
  /\ j \in DOMAIN held
  /\ held' = Restrict(held, DOMAIN held \ {j})
  /\ UNCHANGED <<now, pending, granted>>

\* All the overdue jobs, and no other, go to the back of the line.
Requeue ==
  /\ \E order \in Bijection(1 .. Cardinality(Overdue), Overdue) :
       pending' = pending \o order
  /\ held' = Restrict(held, DOMAIN held \ Overdue)
  /\ UNCHANGED <<now, granted>>

Pass == now' = now + 1 /\ UNCHANGED <<pending, held, granted>>

Next ==
  \/ \E j \in Job : Submit(j) \/ Finish(j) \/ \E d \in RenewTime : Renew(j, d)
  \/ \E w \in Worker, d \in ClaimTime : Claim(w, d)
  \/ Requeue
  \/ Pass

Spec == Init /\ [][Next]_vqvars

=============================================================================
