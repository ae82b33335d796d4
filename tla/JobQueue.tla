------------------------------ MODULE JobQueue ------------------------------
(***************************************************************************)
(* The notification queues in Redis and the workers that drain them: per   *)
(* kind of job a normal and a ":high" list, workers that look at the high  *)
(* list first, and, for e-mails, retries by a timer that enqueues again.   *)
(***************************************************************************)
EXTENDS Naturals, Sequences, FiniteSets, Functions

CONSTANTS
  Email, Push, InApp,                    \* jobs, by kind
  High,                                  \* the jobs of high priority
  NoJob,
  EmailWorker, PushWorker, DBWorker,     \* worker goroutines, two of a kind
  MaxRetries,   \* Job.MaxRetries, three unless the producer sets it
  MaxFaults,    \* bound: calls to Redis that fail
  MaxCrashes    \* bound: restarts of the server

Job == Email \cup Push \cup InApp
Worker == EmailWorker \cup PushWorker \cup DBWorker

ASSUME JobAssumption ==
  /\ Email \cap Push = {} /\ Email \cap InApp = {} /\ Push \cap InApp = {}
  /\ High \subseteq Job /\ NoJob \notin Job
  /\ EmailWorker \cap PushWorker = {} /\ EmailWorker \cap DBWorker = {}
  /\ PushWorker \cap DBWorker = {} /\ IsFiniteSet(Worker)

ASSUME NumberAssumption ==
  MaxRetries \in Nat \ {0} /\ MaxFaults \in Nat /\ MaxCrashes \in Nat

Queue == {"email", "push", "in_app"}
QueueOf(j) == IF j \in Email THEN "email"
              ELSE IF j \in Push THEN "push" ELSE "in_app"
Drains(w) == IF w \in EmailWorker THEN "email"
             ELSE IF w \in PushWorker THEN "push" ELSE "in_app"

VARIABLES
  high, normal,     \* the lists, next job first
  retries,          \* Job.Retries, carried in the payload
  timers,           \* time.AfterFunc pending: job and delay in seconds
  pc, job,          \* the workers
  outcome,          \* how a job ended: DeliveryStatus
  accepted,         \* jobs a producer has enqueued
  faults, crashes,
  overtaken         \* history: normal jobs taken while a high one waits

listVars == <<high, normal>>
workerVars == <<pc, job>>
boundVars == <<faults, crashes>>
vars == <<listVars, retries, timers, workerVars, outcome, accepted,
          boundVars, overtaken>>

TypeOK ==
  /\ high \in [Queue -> Seq(High)]
  /\ normal \in [Queue -> Seq(Job \ High)]
  /\ retries \in [Job -> 0 .. MaxRetries]
  /\ timers \subseteq Email \X Nat
  /\ pc \in [Worker -> {"idle", "normal", "work"}]
  /\ job \in [Worker -> Job \cup {NoJob}]
  /\ outcome \in [Job -> {"pending", "delivered", "failed"}]
  /\ accepted \subseteq Job
  /\ faults \in 0 .. MaxFaults
  /\ crashes \in 0 .. MaxCrashes
  /\ overtaken \in [Job -> Nat]

Init ==
  /\ high = [q \in Queue |-> <<>>]
  /\ normal = [q \in Queue |-> <<>>]
  /\ retries = [j \in Job |-> 0]
  /\ timers = {}
  /\ pc = [w \in Worker |-> "idle"]
  /\ job = [w \in Worker |-> NoJob]
  /\ outcome = [j \in Job |-> "pending"]
  /\ accepted = {}
  /\ faults = 0
  /\ crashes = 0
  /\ overtaken = [j \in Job |-> 0]

Fault == faults < MaxFaults /\ faults' = faults + 1

(* Mutant of LPush: priority is ignored. *)
LPushNormal(j) ==
  /\ overtaken' = [overtaken EXCEPT ![j] = 0]
  /\ normal' = [normal EXCEPT ![QueueOf(j)] = Append(@, j)]
  /\ UNCHANGED high

(* LPUSH on the list of the job's kind and priority.                       *)
LPush(j) ==
  LET q == QueueOf(j) IN
  /\ overtaken' = [overtaken EXCEPT ![j] = 0]
  /\ IF j \in High
     THEN high' = [high EXCEPT ![q] = Append(@, j)] /\ UNCHANGED normal
     ELSE normal' = [normal EXCEPT ![q] = Append(@, j)] /\ UNCHANGED high

(* A producer's Enqueue; when it fails the producer drops the job.         *)
Enqueue(j) ==
  /\ j \notin accepted
  /\ accepted' = accepted \cup {j}
  /\ LPush(j)
  /\ UNCHANGED <<retries, timers, workerVars, outcome, boundVars>>

(* Mutant: the high list is looked at when the normal one is empty.        *)
DequeueHighLast(w) ==
  LET q == Drains(w) IN
  /\ pc[w] = "idle"
  /\ IF high[q] # <<>> /\ normal[q] = <<>>
     THEN /\ high' = [high EXCEPT ![q] = Tail(@)]
          /\ job' = [job EXCEPT ![w] = Head(high[q])]
          /\ pc' = [pc EXCEPT ![w] = "work"]
     ELSE /\ pc' = [pc EXCEPT ![w] = "normal"]
          /\ UNCHANGED <<high, job>>
  /\ UNCHANGED <<normal, retries, timers, outcome, accepted, boundVars,
                 overtaken>>

(* DequeueWithPriority looks at the high list once, then waits for at most *)
(* five seconds on the normal list alone; also when the look failed.       *)
DequeueHigh(w) ==
  LET q == Drains(w) IN
  /\ pc[w] = "idle"
  /\ \/ /\ high[q] # <<>>
        /\ high' = [high EXCEPT ![q] = Tail(@)]
        /\ job' = [job EXCEPT ![w] = Head(high[q])]
        /\ pc' = [pc EXCEPT ![w] = "work"]
        /\ UNCHANGED faults
     \/ /\ (high[q] = <<>> /\ UNCHANGED faults) \/ Fault
        /\ pc' = [pc EXCEPT ![w] = "normal"]
        /\ UNCHANGED <<high, job>>
  /\ UNCHANGED <<normal, retries, timers, outcome, accepted, crashes,
                 overtaken>>

Dequeue(w) ==
  LET q == Drains(w) IN
  /\ pc[w] = "normal"
  /\ IF normal[q] # <<>>
     THEN /\ normal' = [normal EXCEPT ![q] = Tail(@)]
          /\ job' = [job EXCEPT ![w] = Head(normal[q])]
          /\ pc' = [pc EXCEPT ![w] = "work"]
          /\ overtaken' = [j \in Job |-> IF j \in Range(high[q])
                                         THEN overtaken[j] + 1 ELSE overtaken[j]]
     ELSE pc' = [pc EXCEPT ![w] = "idle"] /\ UNCHANGED <<normal, job, overtaken>>
  /\ UNCHANGED <<high, retries, timers, outcome, accepted, boundVars>>

End(w, x) ==
  /\ outcome' = [outcome EXCEPT ![job[w]] = x]
  /\ pc' = [pc EXCEPT ![w] = "idle"]
  /\ job' = [job EXCEPT ![w] = NoJob]

Backoff(n) == 2 ^ n * 2

(* What retryJob does with a job it may retry, n times tried so far.       *)
Retry(w, n) ==
  /\ retries' = [retries EXCEPT ![job[w]] = n]
  /\ timers' = timers \cup {<<job[w], Backoff(n)>>}
  /\ pc' = [pc EXCEPT ![w] = "idle"]
  /\ job' = [job EXCEPT ![w] = NoJob]
  /\ UNCHANGED outcome

(* Mutants of retryJob: a job that failed is retried all the same; one     *)
(* retry too many; the count is not kept.                                  *)
SendEmailNoReturn(w) ==
  LET j == job[w] IN
  /\ w \in EmailWorker /\ pc[w] = "work"
  /\ \/ End(w, "delivered") /\ UNCHANGED <<retries, timers>>
     \/ /\ retries[j] >= MaxRetries
        /\ timers' = timers \cup {<<j, Backoff(retries[j])>>}
        /\ End(w, "failed") /\ UNCHANGED retries
     \/ retries[j] < MaxRetries /\ Retry(w, retries[j] + 1)
  /\ UNCHANGED <<listVars, accepted, boundVars, overtaken>>

SendEmailOnceMore(w) ==
  LET j == job[w] IN
  /\ w \in EmailWorker /\ pc[w] = "work"
  /\ \/ End(w, "delivered") /\ UNCHANGED <<retries, timers>>
     \/ retries[j] > MaxRetries /\ End(w, "failed") /\ UNCHANGED <<retries, timers>>
     \/ retries[j] <= MaxRetries /\ Retry(w, retries[j] + 1)
  /\ UNCHANGED <<listVars, accepted, boundVars, overtaken>>

SendEmailForgets(w) ==
  LET j == job[w] IN
  /\ w \in EmailWorker /\ pc[w] = "work"
  /\ \/ End(w, "delivered") /\ UNCHANGED <<retries, timers>>
     \/ retries[j] >= MaxRetries /\ End(w, "failed") /\ UNCHANGED <<retries, timers>>
     \/ retries[j] < MaxRetries /\ Retry(w, retries[j])
  /\ UNCHANGED <<listVars, accepted, boundVars, overtaken>>

(* The e-mail worker: an error of the mail service is retried until the    *)
(* job has used up its retries (retryJob).                                 *)
SendEmail(w) ==
  LET j == job[w] IN
  /\ w \in EmailWorker /\ pc[w] = "work"
  /\ \/ End(w, "delivered") /\ UNCHANGED <<retries, timers>>
     \/ retries[j] >= MaxRetries /\ End(w, "failed") /\ UNCHANGED <<retries, timers>>
     \/ retries[j] < MaxRetries /\ Retry(w, retries[j] + 1)
  /\ UNCHANGED <<listVars, accepted, boundVars, overtaken>>

(* The push worker and the DB writer try once.                             *)
SendOnce(w) ==
  /\ w \in PushWorker \cup DBWorker /\ pc[w] = "work"
  /\ \E x \in {"delivered", "failed"} : End(w, x)
  /\ UNCHANGED <<listVars, retries, timers, accepted, boundVars, overtaken>>

(* The timer's Enqueue; its error is ignored.                              *)
RetryFires(t) ==
  /\ t \in timers
  /\ timers' = timers \ {t}
  /\ \/ LPush(t[1]) /\ UNCHANGED faults
     \/ Fault /\ UNCHANGED <<listVars, overtaken>>
  /\ UNCHANGED <<retries, workerVars, outcome, accepted, crashes>>

(* The server restarts: jobs held by a worker or a timer are gone, what is *)
(* in Redis stays.                                                         *)
Crash ==
  /\ crashes < MaxCrashes
  /\ crashes' = crashes + 1
  /\ timers' = {}
  /\ pc' = [w \in Worker |-> "idle"]
  /\ job' = [w \in Worker |-> NoJob]
  /\ UNCHANGED <<listVars, retries, outcome, accepted, faults, overtaken>>

Work(w) == DequeueHigh(w) \/ Dequeue(w) \/ SendEmail(w) \/ SendOnce(w)

Next ==
  \/ \E j \in Job : Enqueue(j)
  \/ \E w \in Worker : Work(w)
  \/ \E t \in timers : RetryFires(t)
  \/ Crash

Spec == Init /\ [][Next]_vars

(* Workers loop for ever; a timer fires.                                   *)
Fairness ==
  /\ \A w \in Worker : WF_vars(Work(w))
  /\ WF_vars(\E t \in timers : RetryFires(t))

FairSpec == Spec /\ Fairness

-----------------------------------------------------------------------------
(* Properties.                                                             *)

InLists(j) == j \in Range(high[QueueOf(j)]) \/ j \in Range(normal[QueueOf(j)])
InWorker(j) == \E w \in Worker : job[w] = j
InTimer(j) == \E t \in timers : t[1] = j

(* Where j stands in a list.                                               *)
At(list, j) == {i \in DOMAIN list : list[i] = j}

(* A job is never in two places nor twice in one, and nowhere once it has  *)
(* ended: no e-mail is sent by two workers, or again after it was          *)
(* delivered (DequeueWithPriority, retryJob).                              *)
OnePlace ==
  \A j \in Job :
    LET places ==
      (UNION {{<<"high", q, i>> : i \in At(high[q], j)} : q \in Queue})
        \cup (UNION {{<<"normal", q, i>> : i \in At(normal[q], j)} : q \in Queue})
        \cup {<<"worker", w>> : w \in {v \in Worker : job[v] = j}}
        \cup {<<"timer", t[2]>> : t \in {u \in timers : u[1] = j}}
    IN Cardinality(places) <= IF outcome[j] = "pending" THEN 1 ELSE 0

(* While a high job waits, each worker of its queue takes at most one      *)
(* normal job, the one it was already waiting for, and one more for each   *)
(* look at the high list that failed (DequeueWithPriority).                *)
WorkersOf(q) == {w \in Worker : Drains(w) = q}
OvertakingBounded ==
  \A j \in High :
    InLists(j) => overtaken[j] <= Cardinality(WorkersOf(QueueOf(j))) + faults

(* What a producer sees of the queue in terms of module Delivery.          *)
state ==
  [j \in Job |->
    IF j \notin accepted THEN "none"
    ELSE IF outcome[j] # "pending" THEN outcome[j]
    ELSE IF InLists(j) \/ InWorker(j) \/ InTimer(j) THEN "pending" ELSE "lost"]
tries ==
  [j \in Job |-> IF outcome[j] = "pending" THEN retries[j] ELSE retries[j] + 1]

D == INSTANCE Delivery WITH state <- state, tries <- tries

(* The queue keeps the promise of module Delivery: no job is tried too     *)
(* often, given up too early, tried again after it ended, or found again   *)
(* after it was lost.                                                      *)
Delivers == D!Spec

(* Every accepted job ends, unless the server restarts or Redis fails: no  *)
(* worker, list or timer keeps a job for ever.                             *)
EveryJobEnds ==
  \A j \in Job :
    j \in accepted ~> outcome[j] # "pending" \/ faults > 0 \/ crashes > 0

=============================================================================
