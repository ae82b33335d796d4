--------------------------- MODULE JobQueue_proofs ---------------------------
(***************************************************************************)
(* Proofs about JobQueue, for all sets of jobs and workers and all bounds: *)
(* types, a job in one place, bounded overtaking, and that the queue       *)
(* implements Delivery.                                                    *)
(***************************************************************************)
EXTENDS JobQueue, FiniteSetTheorems, TLAPS

-----------------------------------------------------------------------------
(* The invariant: a list holds a job once, and only jobs of its kind; a    *)
(* job that is somewhere has been accepted and has not ended; it is in a   *)
(* list, with one worker of its kind or with one timer.                    *)

Once(list) == \A i, k \in DOMAIN list : list[i] = list[k] => i = k

ListOK ==
  \A q \in Queue :
    /\ Once(high[q]) /\ Once(normal[q])
    /\ \A j \in Range(high[q]) \cup Range(normal[q]) : QueueOf(j) = q

WorkerOK ==
  \A w \in Worker :
    /\ pc[w] = "work" <=> job[w] # NoJob
    /\ job[w] # NoJob =>
         /\ QueueOf(job[w]) = Drains(w)
         /\ \A v \in Worker : job[v] = job[w] => v = w

TimerOK == \A t, u \in timers : t[1] = u[1] => t = u

PlaceOK ==
  \A j \in Job :
    /\ InLists(j) \/ InWorker(j) \/ InTimer(j) =>
         j \in accepted /\ outcome[j] = "pending"
    /\ InLists(j) => ~InWorker(j) /\ ~InTimer(j)
    /\ InWorker(j) => ~InTimer(j)

CountOK ==
  \A j \in Job :
    /\ j \notin Email => retries[j] = 0
    /\ j \notin accepted => retries[j] = 0 /\ outcome[j] = "pending"

Shape == TypeOK /\ ListOK /\ WorkerOK /\ TimerOK /\ PlaceOK /\ CountOK

-----------------------------------------------------------------------------
(* The workers that have looked at the high list and now wait on the       *)
(* normal one are those that may still overtake a job that waits.          *)
Waiting(q) == {w \in WorkersOf(q) : pc[w] = "normal"}

OvertakeInv ==
  \A j \in High :
    InLists(j) =>
      overtaken[j] + Cardinality(Waiting(QueueOf(j)))
        <= Cardinality(WorkersOf(QueueOf(j))) + faults

-----------------------------------------------------------------------------
(* What LPUSH and BRPOP do to a list.                                      *)

LEMMA AppendList ==
  ASSUME NEW S, NEW list \in Seq(S), NEW j \in S
  PROVE  /\ Append(list, j) \in Seq(S)
         /\ Range(Append(list, j)) = Range(list) \cup {j}
         /\ Once(list) /\ j \notin Range(list) => Once(Append(list, j))
<1>1. /\ Append(list, j) \in Seq(S)
      /\ DOMAIN list = 1 .. Len(list) /\ Len(list) \in Nat
      /\ DOMAIN Append(list, j) = 1 .. Len(list) + 1
      /\ Append(list, j)[Len(list) + 1] = j
      /\ \A i \in 1 .. Len(list) : Append(list, j)[i] = list[i]
  OBVIOUS
<1>2. Range(Append(list, j)) = Range(list) \cup {j}
  BY <1>1 DEF Range
<1>3. Once(list) /\ j \notin Range(list) => Once(Append(list, j))
  BY <1>1 DEF Once, Range
<1>. QED
  BY <1>1, <1>2, <1>3

LEMMA TailList ==
  ASSUME NEW S, NEW list \in Seq(S), list # <<>>
  PROVE  /\ Tail(list) \in Seq(S)
         /\ Head(list) \in S /\ Head(list) \in Range(list)
         /\ Range(Tail(list)) \subseteq Range(list)
         /\ Once(list) => /\ Once(Tail(list))
                          /\ Range(Tail(list)) = Range(list) \ {Head(list)}
<1>1. /\ Tail(list) \in Seq(S) /\ Head(list) \in S /\ Head(list) = list[1]
      /\ DOMAIN list = 1 .. Len(list) /\ Len(list) \in Nat \ {0}
      /\ DOMAIN Tail(list) = 1 .. Len(list) - 1
      /\ \A i \in 1 .. Len(list) - 1 : Tail(list)[i] = list[i + 1]
  OBVIOUS
<1>2. Head(list) \in Range(list) /\ Range(Tail(list)) \subseteq Range(list)
  BY <1>1 DEF Range
<1>3. Once(list) => Once(Tail(list))
  BY <1>1 DEF Once
<1>4. Once(list) => Head(list) \notin Range(Tail(list))
  BY <1>1 DEF Once, Range
<1>5. Range(list) \subseteq Range(Tail(list)) \cup {Head(list)}
  <2>. SUFFICES ASSUME NEW i \in DOMAIN list, i # 1
                PROVE  list[i] \in Range(Tail(list))
    BY <1>1 DEF Range
  <2>1. i - 1 \in 1 .. Len(list) - 1 /\ Tail(list)[i - 1] = list[i]
    BY <1>1
  <2>. QED
    BY <1>1, <2>1 DEF Range
<1>. QED
  BY <1>1, <1>2, <1>3, <1>4, <1>5

LEMMA EmptyList == Range(<<>>) = {} /\ Once(<<>>)
BY DEF Range, Once

LEMMA TwoPower ==
  ASSUME NEW n \in Nat
  PROVE  Backoff(n) \in Nat
<1>1. IsFiniteSet(1 .. n) /\ Cardinality(1 .. n) = n
  BY FS_Interval
<1>2. IsFiniteSet(SUBSET (1 .. n)) /\ Cardinality(SUBSET (1 .. n)) = 2 ^ n
  BY <1>1, FS_SUBSET
<1>3. 2 ^ n \in Nat
  BY <1>2, FS_CardinalityType
<1>. QED
  BY <1>3 DEF Backoff

LEMMA QueueType ==
  /\ \A j \in Job : QueueOf(j) \in Queue
  /\ \A w \in Worker : Drains(w) \in Queue
  /\ \A j \in Job : QueueOf(j) = "email" <=> j \in Email
  /\ \A w \in Worker : Drains(w) = "email" <=> w \in EmailWorker
BY JobAssumption DEF Queue, QueueOf, Drains

-----------------------------------------------------------------------------
(* What a step does to the lists, in terms of the jobs in them.            *)

ListTypes ==
  /\ high \in [Queue -> Seq(High)]
  /\ normal \in [Queue -> Seq(Job \ High)]

LEMMA PushList ==
  ASSUME Shape, NEW j \in Job, ~InLists(j), LPush(j)
  PROVE  /\ ListTypes' /\ ListOK'
         /\ overtaken' \in [Job -> Nat]
         /\ \A k \in Job : InLists(k)' <=> InLists(k) \/ k = j
<1>. DEFINE q == QueueOf(j)
<1>1. q \in Queue
  BY QueueType
<1>2. CASE j \in High
  <2>1. /\ high[q] \in Seq(High) /\ j \notin Range(high[q])
        /\ high' = [high EXCEPT ![q] = Append(high[q], j)] /\ normal' = normal
    BY <1>1, <1>2 DEF Shape, TypeOK, LPush, InLists
  <2>2. /\ high'[q] \in Seq(High) /\ Once(high'[q])
        /\ Range(high'[q]) = Range(high[q]) \cup {j}
    BY <1>1, <1>2, <2>1, AppendList DEF Shape, TypeOK, ListOK
  <2>3. \A r \in Queue \ {q} : high'[r] = high[r]
    BY <2>1 DEF Shape, TypeOK
  <2>. HIDE DEF q
  <2>4. ListTypes' /\ ListOK'
    BY <1>1, <2>1, <2>2, <2>3 DEF q, Shape, TypeOK, ListTypes, ListOK
  <2>5. \A k \in Job : InLists(k)' <=> InLists(k) \/ k = j
    BY <1>1, <2>1, <2>2, <2>3, QueueType DEF q, InLists
  <2>. QED
    BY <2>4, <2>5 DEF LPush, Shape, TypeOK
<1>3. CASE j \notin High
  <2>1. /\ normal[q] \in Seq(Job \ High) /\ j \notin Range(normal[q])
        /\ normal' = [normal EXCEPT ![q] = Append(normal[q], j)]
        /\ high' = high /\ j \in Job \ High
    BY <1>1, <1>3 DEF Shape, TypeOK, LPush, InLists
  <2>2. /\ normal'[q] \in Seq(Job \ High) /\ Once(normal'[q])
        /\ Range(normal'[q]) = Range(normal[q]) \cup {j}
    BY <1>1, <2>1, AppendList DEF Shape, TypeOK, ListOK
  <2>3. \A r \in Queue \ {q} : normal'[r] = normal[r]
    BY <2>1 DEF Shape, TypeOK
  <2>. HIDE DEF q
  <2>4. ListTypes' /\ ListOK'
    BY <1>1, <2>1, <2>2, <2>3 DEF q, Shape, TypeOK, ListTypes, ListOK
  <2>5. \A k \in Job : InLists(k)' <=> InLists(k) \/ k = j
    BY <1>1, <2>1, <2>2, <2>3, QueueType DEF q, InLists
  <2>. QED
    BY <2>4, <2>5 DEF LPush, Shape, TypeOK
<1>. QED
  BY <1>2, <1>3

LEMMA TakeHigh ==
  ASSUME Shape, NEW q \in Queue, high[q] # <<>>,
         high' = [high EXCEPT ![q] = Tail(@)], normal' = normal
  PROVE  /\ Head(high[q]) \in High /\ QueueOf(Head(high[q])) = q
         /\ InLists(Head(high[q]))
         /\ ListTypes' /\ ListOK'
         /\ \A k \in Job : InLists(k)' <=> InLists(k) /\ k # Head(high[q])
<1>. DEFINE j == Head(high[q])
<1>1. /\ j \in High /\ j \in Range(high[q]) /\ Once(high'[q])
      /\ high'[q] \in Seq(High) /\ Range(high'[q]) = Range(high[q]) \ {j}
  BY TailList DEF Shape, TypeOK, ListOK
<1>2. QueueOf(j) = q /\ j \in Job
  BY <1>1, JobAssumption DEF Shape, ListOK
<1>3. \A r \in Queue \ {q} : high'[r] = high[r]
  BY DEF Shape, TypeOK
<1>4. \A r \in Queue : j \notin Range(normal[r])
  BY <1>1, JobAssumption DEF Shape, TypeOK, Range
<1>. HIDE DEF j
<1>5. ListTypes' /\ ListOK'
  BY <1>1, <1>3 DEF Shape, TypeOK, ListTypes, ListOK
<1>6. \A k \in Job : InLists(k)' <=> InLists(k) /\ k # j
  BY <1>1, <1>2, <1>3, <1>4, QueueType DEF InLists
<1>. QED
  BY <1>1, <1>2, <1>5, <1>6 DEF j, InLists

LEMMA TakeNormal ==
  ASSUME Shape, NEW q \in Queue, normal[q] # <<>>,
         normal' = [normal EXCEPT ![q] = Tail(@)], high' = high
  PROVE  /\ Head(normal[q]) \in Job \ High /\ QueueOf(Head(normal[q])) = q
         /\ InLists(Head(normal[q]))
         /\ ListTypes' /\ ListOK'
         /\ \A k \in Job : InLists(k)' <=> InLists(k) /\ k # Head(normal[q])
<1>. DEFINE j == Head(normal[q])
<1>1. /\ j \in Job \ High /\ j \in Range(normal[q]) /\ Once(normal'[q])
      /\ normal'[q] \in Seq(Job \ High)
      /\ Range(normal'[q]) = Range(normal[q]) \ {j}
  BY TailList DEF Shape, TypeOK, ListOK
<1>2. QueueOf(j) = q
  BY <1>1 DEF Shape, ListOK
<1>3. \A r \in Queue \ {q} : normal'[r] = normal[r]
  BY DEF Shape, TypeOK
<1>4. \A r \in Queue : j \notin Range(high[r])
  BY <1>1, JobAssumption DEF Shape, TypeOK, Range
<1>. HIDE DEF j
<1>5. ListTypes' /\ ListOK'
  BY <1>1, <1>3 DEF Shape, TypeOK, ListTypes, ListOK
<1>6. \A k \in Job : InLists(k)' <=> InLists(k) /\ k # j
  BY <1>1, <1>2, <1>3, <1>4, QueueType DEF InLists
<1>. QED
  BY <1>1, <1>2, <1>5, <1>6 DEF j, InLists

-----------------------------------------------------------------------------
(* The steps keep the invariant.                                           *)

LEMMA InitShape == Init => Shape
<1>. SUFFICES ASSUME Init PROVE Shape
  OBVIOUS
<1>1. TypeOK
  BY NumberAssumption DEF Init, TypeOK
<1>2. ListOK /\ \A j \in Job : ~InLists(j)
  BY EmptyList, QueueType DEF Init, ListOK, InLists
<1>. QED
  BY <1>1, <1>2, JobAssumption
  DEF Init, Shape, WorkerOK, TimerOK, PlaceOK, CountOK, InWorker, InTimer

LEMMA EnqueueShape ==
  ASSUME Shape, NEW j \in Job, Enqueue(j)
  PROVE  Shape'
<1>. USE DEF Enqueue, listVars, workerVars, boundVars
<1>1. ~InLists(j) /\ ~InWorker(j) /\ ~InTimer(j)
  BY DEF Shape, PlaceOK
<1>2. /\ ListTypes' /\ ListOK' /\ overtaken' \in [Job -> Nat]
      /\ \A k \in Job : InLists(k)' <=> InLists(k) \/ k = j
  BY <1>1, PushList
<1>3. TypeOK'
  BY <1>2 DEF Shape, TypeOK, ListTypes
<1>4. WorkerOK' /\ TimerOK' /\ CountOK'
  BY DEF Shape, WorkerOK, TimerOK, CountOK
<1>5. PlaceOK'
  BY <1>1, <1>2 DEF Shape, PlaceOK, CountOK, InLists, InWorker, InTimer
<1>. QED
  BY <1>2, <1>3, <1>4, <1>5 DEF Shape

(* A worker takes the job j of its queue.                                  *)
LEMMA TakeShape ==
  ASSUME Shape, NEW w \in Worker, NEW j \in Job,
         pc[w] # "work", QueueOf(j) = Drains(w), InLists(j),
         ListTypes', ListOK',
         \A k \in Job : InLists(k)' <=> InLists(k) /\ k # j,
         job' = [job EXCEPT ![w] = j], pc' = [pc EXCEPT ![w] = "work"],
         faults' \in 0 .. MaxFaults, crashes' = crashes,
         overtaken' \in [Job -> Nat],
         UNCHANGED <<retries, timers, outcome, accepted>>
  PROVE  Shape'
<1>1. ~InWorker(j) /\ ~InTimer(j) /\ j \in accepted /\ outcome[j] = "pending"
  BY DEF Shape, PlaceOK
<1>2. job[w] = NoJob /\ j # NoJob
  BY JobAssumption DEF Shape, WorkerOK
<1>3. TypeOK'
  BY DEF Shape, TypeOK, ListTypes
<1>4. WorkerOK'
  BY <1>1, <1>2 DEF Shape, TypeOK, WorkerOK, InWorker
<1>5. TimerOK' /\ CountOK'
  BY DEF Shape, TimerOK, CountOK
<1>6. \A k \in Job : InWorker(k)' <=> InWorker(k) \/ k = j
  BY <1>2, JobAssumption DEF Shape, TypeOK, InWorker
<1>7. PlaceOK'
  BY <1>1, <1>6 DEF Shape, PlaceOK, InLists, InWorker, InTimer
<1>. QED
  BY <1>3, <1>4, <1>5, <1>7 DEF Shape

(* A worker that goes from the high list to the normal one and back.       *)
LEMMA LookShape ==
  ASSUME Shape, NEW w \in Worker, pc[w] # "work",
         NEW l \in {"idle", "normal"}, pc' = [pc EXCEPT ![w] = l],
         faults' \in 0 .. MaxFaults, crashes' = crashes,
         UNCHANGED <<high, normal, job, retries, timers, outcome, accepted,
                     overtaken>>
  PROVE  Shape'
<1>1. TypeOK'
  BY DEF Shape, TypeOK
<1>2. ListOK' /\ TimerOK' /\ CountOK'
  BY DEF Shape, ListOK, TimerOK, CountOK
<1>3. WorkerOK'
  BY DEF Shape, TypeOK, WorkerOK
<1>4. PlaceOK'
  BY DEF Shape, PlaceOK, InLists, InWorker, InTimer
<1>. QED
  BY <1>1, <1>2, <1>3, <1>4 DEF Shape

LEMMA DequeueHighShape ==
  ASSUME Shape, NEW w \in Worker, DequeueHigh(w)
  PROVE  Shape'
<1>. USE DEF DequeueHigh
<1>1. faults' \in 0 .. MaxFaults
  BY NumberAssumption DEF Fault, Shape, TypeOK
<1>2. CASE job' = job
  <2>1. pc' = [pc EXCEPT ![w] = "normal"] /\ UNCHANGED high
    <3>. SUFFICES ASSUME high[Drains(w)] # <<>>,
                         job' = [job EXCEPT ![w] = Head(high[Drains(w)])]
                  PROVE  FALSE
      BY <1>2
    <3>1. Head(high[Drains(w)]) \in Job
      BY QueueType, TailList, JobAssumption DEF Shape, TypeOK
    <3>2. job[w] = NoJob
      BY DEF Shape, WorkerOK
    <3>3. job'[w] = Head(high[Drains(w)])
      BY DEF Shape, TypeOK
    <3>. QED
      BY <1>2, <3>1, <3>2, <3>3, JobAssumption
  <2>. QED
    BY <1>1, <1>2, <2>1, LookShape
<1>3. CASE job' # job
  <2>1. high[Drains(w)] # <<>> /\ Drains(w) \in Queue
    BY <1>3, QueueType
  <2>. DEFINE j == Head(high[Drains(w)])
  <2>2. /\ j \in High /\ QueueOf(j) = Drains(w) /\ InLists(j)
        /\ ListTypes' /\ ListOK'
        /\ \A k \in Job : InLists(k)' <=> InLists(k) /\ k # j
    BY <1>3, <2>1, TakeHigh
  <2>3. /\ job' = [job EXCEPT ![w] = j] /\ pc' = [pc EXCEPT ![w] = "work"]
        /\ pc[w] # "work" /\ overtaken' \in [Job -> Nat]
    BY <1>3 DEF Shape, TypeOK
  <2>. HIDE DEF j
  <2>. QED
    BY <1>1, <2>2, <2>3, JobAssumption, TakeShape
<1>. QED
  BY <1>2, <1>3

LEMMA DequeueShape ==
  ASSUME Shape, NEW w \in Worker, Dequeue(w)
  PROVE  Shape'
<1>. USE DEF Dequeue, boundVars
<1>1. faults' \in 0 .. MaxFaults
  BY DEF Shape, TypeOK
<1>2. CASE normal[Drains(w)] = <<>>
  BY <1>1, <1>2, LookShape
<1>3. CASE normal[Drains(w)] # <<>>
  <2>1. Drains(w) \in Queue
    BY QueueType
  <2>. DEFINE j == Head(normal[Drains(w)])
  <2>2. /\ j \in Job \ High /\ QueueOf(j) = Drains(w) /\ InLists(j)
        /\ ListTypes' /\ ListOK'
        /\ \A k \in Job : InLists(k)' <=> InLists(k) /\ k # j
    BY <1>3, <2>1, TakeNormal
  <2>3. /\ job' = [job EXCEPT ![w] = j] /\ pc' = [pc EXCEPT ![w] = "work"]
        /\ pc[w] # "work"
    BY <1>3
  <2>4. overtaken' \in [Job -> Nat]
    BY <1>3 DEF Shape, TypeOK
  <2>. HIDE DEF j
  <2>. QED
    BY <1>1, <2>2, <2>3, <2>4, JobAssumption, TakeShape
<1>. QED
  BY <1>2, <1>3

(* A worker is done with its job.                                          *)
LEMMA EndShape ==
  ASSUME Shape, NEW w \in Worker, pc[w] = "work",
         NEW x \in {"delivered", "failed"}, End(w, x),
         UNCHANGED <<listVars, retries, timers, accepted, boundVars, overtaken>>
  PROVE  Shape'
<1>. DEFINE j == job[w]
<1>. USE DEF End, listVars, boundVars
<1>1. /\ j \in Job /\ j \in accepted /\ ~InLists(j) /\ ~InTimer(j)
      /\ \A v \in Worker : job[v] = j => v = w
  BY DEF Shape, TypeOK, WorkerOK, PlaceOK, InWorker
<1>2. TypeOK'
  BY <1>1 DEF Shape, TypeOK
<1>3. ListOK' /\ TimerOK'
  BY DEF Shape, ListOK, TimerOK
<1>4. WorkerOK'
  BY <1>1 DEF Shape, TypeOK, WorkerOK
<1>5. CountOK'
  BY <1>1 DEF Shape, TypeOK, CountOK
<1>6. \A k \in Job : InWorker(k)' => InWorker(k) /\ k # j
  BY <1>1, JobAssumption DEF Shape, TypeOK, InWorker
<1>7. \A k \in Job : k # j => outcome'[k] = outcome[k]
  BY DEF Shape, TypeOK
<1>8. PlaceOK'
  BY <1>1, <1>6, <1>7 DEF Shape, PlaceOK, InLists, InWorker, InTimer
<1>. QED
  BY <1>2, <1>3, <1>4, <1>5, <1>8 DEF Shape

LEMMA RetryShape ==
  ASSUME Shape, NEW w \in EmailWorker, pc[w] = "work",
         retries[job[w]] < MaxRetries, Retry(w, retries[job[w]] + 1),
         UNCHANGED <<listVars, accepted, boundVars, overtaken>>
  PROVE  Shape'
<1>. DEFINE j == job[w]
<1>. USE DEF Retry, listVars, boundVars
<1>1. w \in Worker /\ Drains(w) = "email"
  BY QueueType DEF Worker
<1>2. /\ j \in Email /\ j \in Job /\ j \in accepted
      /\ ~InLists(j) /\ ~InTimer(j) /\ outcome[j] = "pending"
      /\ \A v \in Worker : job[v] = j => v = w
  BY <1>1, QueueType DEF Shape, TypeOK, WorkerOK, PlaceOK, InWorker
<1>3. /\ retries[j] + 1 \in 0 .. MaxRetries
      /\ Backoff(retries[j] + 1) \in Nat
  <2>1. retries[j] + 1 \in Nat /\ retries[j] + 1 \in 0 .. MaxRetries
    BY <1>2, NumberAssumption DEF Shape, TypeOK
  <2>. QED
    BY <2>1, TwoPower
<1>4. /\ retries' \in [Job -> 0 .. MaxRetries]
      /\ timers' \subseteq Email \X Nat
      /\ \A k \in Job : k # j => retries'[k] = retries[k]
  BY <1>2, <1>3 DEF Shape, TypeOK
<1>5. TypeOK'
  BY <1>1, <1>4 DEF Shape, TypeOK
<1>6. ListOK' /\ CountOK'
  BY <1>2, <1>4 DEF Shape, ListOK, CountOK
<1>7. WorkerOK'
  BY <1>1, <1>2 DEF Shape, TypeOK, WorkerOK
<1>8. \A t \in timers' : t \in timers \/ t[1] = j
  OBVIOUS
<1>9. TimerOK'
  <2>. SUFFICES ASSUME NEW t \in timers', NEW u \in timers', t[1] = u[1]
                PROVE  t = u
    BY DEF TimerOK
  <2>1. CASE t \in timers /\ u \in timers
    BY <2>1 DEF Shape, TimerOK
  <2>2. CASE t[1] = j
    <3>1. \A v \in timers : v[1] # j
      BY <1>2 DEF InTimer
    <3>. QED
      BY <2>2, <3>1
  <2>. QED
    BY <1>8, <2>1, <2>2
<1>10. \A k \in Job : InWorker(k)' => InWorker(k) /\ k # j
  BY <1>1, <1>2, JobAssumption DEF Shape, TypeOK, InWorker
<1>11. \A k \in Job : InTimer(k)' => InTimer(k) \/ k = j
  BY <1>8 DEF InTimer
<1>12. PlaceOK'
  BY <1>2, <1>10, <1>11 DEF Shape, PlaceOK, InLists, InWorker, InTimer
<1>. QED
  BY <1>5, <1>6, <1>7, <1>9, <1>12 DEF Shape

LEMMA SendEmailShape ==
  ASSUME Shape, NEW w \in Worker, SendEmail(w)
  PROVE  Shape'
BY EndShape, RetryShape DEF SendEmail

LEMMA SendOnceShape ==
  ASSUME Shape, NEW w \in Worker, SendOnce(w)
  PROVE  Shape'
BY EndShape DEF SendOnce

LEMMA RetryFiresShape ==
  ASSUME Shape, NEW t \in timers, RetryFires(t)
  PROVE  Shape'
<1>. DEFINE j == t[1]
<1>. USE DEF RetryFires, workerVars, listVars
<1>1. /\ j \in Email /\ j \in Job
      /\ InTimer(j) /\ ~InLists(j) /\ ~InWorker(j)
      /\ j \in accepted /\ outcome[j] = "pending"
  BY DEF Shape, TypeOK, PlaceOK, InTimer, Job
<1>2. \A u \in timers' : u \in timers /\ u[1] # j
  BY DEF Shape, TimerOK
<1>3. faults' \in 0 .. MaxFaults
  BY NumberAssumption DEF Fault, Shape, TypeOK
<1>4. /\ ListTypes' /\ ListOK' /\ overtaken' \in [Job -> Nat]
      /\ \A k \in Job : InLists(k)' => InLists(k) \/ k = j
  <2>1. CASE LPush(j)
    BY <1>1, <2>1, PushList
  <2>2. CASE UNCHANGED <<listVars, overtaken>>
    BY <2>2 DEF Shape, TypeOK, ListTypes, ListOK, InLists
  <2>. QED
    BY <2>1, <2>2
<1>5. TypeOK'
  BY <1>3, <1>4 DEF Shape, TypeOK, ListTypes
<1>6. WorkerOK' /\ TimerOK' /\ CountOK'
  BY <1>2 DEF Shape, WorkerOK, TimerOK, CountOK
<1>7. PlaceOK'
  BY <1>1, <1>2, <1>4 DEF Shape, PlaceOK, InLists, InWorker, InTimer
<1>. QED
  BY <1>4, <1>5, <1>6, <1>7 DEF Shape

LEMMA CrashShape ==
  ASSUME Shape, Crash
  PROVE  Shape'
<1>. USE DEF Crash, listVars
<1>1. TypeOK'
  BY NumberAssumption DEF Shape, TypeOK
<1>2. ListOK' /\ WorkerOK' /\ TimerOK' /\ CountOK'
  BY DEF Shape, ListOK, WorkerOK, TimerOK, CountOK
<1>3. \A k \in Job : ~InWorker(k)' /\ ~InTimer(k)'
  BY JobAssumption DEF InWorker, InTimer
<1>4. PlaceOK'
  BY <1>3 DEF Shape, PlaceOK, InLists, InWorker, InTimer
<1>. QED
  BY <1>1, <1>2, <1>4 DEF Shape

LEMMA NextShape ==
  ASSUME Shape, [Next]_vars
  PROVE  Shape'
<1>1. CASE UNCHANGED vars
  BY <1>1
  DEF vars, listVars, workerVars, boundVars, Shape, TypeOK, ListOK, WorkerOK,
      TimerOK, PlaceOK, CountOK, InLists, InWorker, InTimer
<1>. QED
  BY <1>1, EnqueueShape, DequeueHighShape, DequeueShape, SendEmailShape,
     SendOnceShape, RetryFiresShape, CrashShape DEF Next, Work

(* Every variable keeps its type, for all sets and all bounds.             *)
THEOREM TypeCorrect == Spec => []TypeOK
<1>1. Init => Shape
  BY InitShape
<1>2. Shape /\ [Next]_vars => Shape'
  BY NextShape
<1>3. Shape => TypeOK
  BY DEF Shape
<1>. QED
  BY <1>1, <1>2, <1>3, PTL DEF Spec

LEMMA AtMostOne ==
  ASSUME NEW S, \A x, y \in S : x = y
  PROVE  Cardinality(S) <= 1 /\ (S = {} => Cardinality(S) = 0)
<1>1. CASE S = {}
  BY <1>1, FS_EmptySet
<1>2. CASE S # {}
  <2>1. PICK x \in S : TRUE
    BY <1>2
  <2>2. S = {x}
    BY <2>1
  <2>. QED
    BY <1>2, <2>2, FS_Singleton
<1>. QED
  BY <1>1, <1>2

(* A job is never in two places nor twice in one, and nowhere once it has  *)
(* ended.                                                                  *)
THEOREM JobsAreInOnePlace == Spec => []OnePlace
<1>1. Shape => OnePlace
  <2>. SUFFICES ASSUME Shape, NEW j \in Job
                PROVE
         LET places ==
           (UNION {{<<"high", q, i>> : i \in At(high[q], j)} : q \in Queue})
             \cup (UNION {{<<"normal", q, i>> : i \in At(normal[q], j)}
                             : q \in Queue})
             \cup {<<"worker", w>> : w \in {v \in Worker : job[v] = j}}
             \cup {<<"timer", t[2]>> : t \in {u \in timers : u[1] = j}}
         IN Cardinality(places) <= IF outcome[j] = "pending" THEN 1 ELSE 0
    BY DEF OnePlace
  <2>. DEFINE hs == UNION {{<<"high", q, i>> : i \in At(high[q], j)}
                             : q \in Queue}
              ns == UNION {{<<"normal", q, i>> : i \in At(normal[q], j)}
                             : q \in Queue}
              ws == {<<"worker", w>> : w \in {v \in Worker : job[v] = j}}
              ts == {<<"timer", t[2]>> : t \in {u \in timers : u[1] = j}}
  <2>1. \A x \in hs : \E i \in At(high[QueueOf(j)], j) :
          x = <<"high", QueueOf(j), i>>
    <3>. SUFFICES ASSUME NEW q \in Queue, NEW i \in At(high[q], j)
                  PROVE  q = QueueOf(j)
      OBVIOUS
    <3>. QED
      BY DEF At, Range, Shape, ListOK
  <2>2. \A x \in ns : \E i \in At(normal[QueueOf(j)], j) :
          x = <<"normal", QueueOf(j), i>>
    <3>. SUFFICES ASSUME NEW q \in Queue, NEW i \in At(normal[q], j)
                  PROVE  q = QueueOf(j)
      OBVIOUS
    <3>. QED
      BY DEF At, Range, Shape, ListOK
  <2>3. \A x, y \in hs : x = y
    BY <2>1, QueueType DEF At, Once, Shape, ListOK
  <2>4. \A x, y \in ns : x = y
    BY <2>2, QueueType DEF At, Once, Shape, ListOK
  <2>5. \A x, y \in ws : x = y
    BY JobAssumption DEF Shape, WorkerOK
  <2>6. \A x, y \in ts : x = y
    BY DEF Shape, TimerOK
  <2>7. hs # {} => InLists(j) /\ j \in High
    BY <2>1, QueueType DEF At, InLists, Range, Shape, TypeOK
  <2>8. ns # {} => InLists(j) /\ j \notin High
    BY <2>2, QueueType DEF At, InLists, Range, Shape, TypeOK
  <2>9. ws # {} => InWorker(j)
    BY DEF InWorker
  <2>10. ts # {} => InTimer(j)
    BY DEF InTimer
  <2>. HIDE DEF hs, ns, ws, ts
  <2>. DEFINE all == hs \cup ns \cup ws \cup ts
  <2>11. /\ \A x, y \in all : x = y
         /\ outcome[j] # "pending" => all = {}
    BY <2>3, <2>4, <2>5, <2>6, <2>7, <2>8, <2>9, <2>10 DEF Shape, PlaceOK
  <2>12. Cardinality(all) <= IF outcome[j] = "pending" THEN 1 ELSE 0
    <3>. HIDE DEF all
    <3>. QED
      BY <2>11, AtMostOne
  <2>. QED
    BY <2>12 DEF hs, ns, ws, ts
<1>2. Init => Shape
  BY InitShape
<1>3. Shape /\ [Next]_vars => Shape'
  BY NextShape
<1>. QED
  BY <1>1, <1>2, <1>3, PTL DEF Spec

-----------------------------------------------------------------------------
(* Overtaking.                                                             *)

LEMMA WaitingCount ==
  ASSUME NEW q
  PROVE  /\ IsFiniteSet(WorkersOf(q)) /\ Cardinality(WorkersOf(q)) \in Nat
         /\ IsFiniteSet(Waiting(q)) /\ Cardinality(Waiting(q)) \in Nat
         /\ Cardinality(Waiting(q)) <= Cardinality(WorkersOf(q))
<1>1. WorkersOf(q) \subseteq Worker /\ Waiting(q) \subseteq WorkersOf(q)
  BY DEF WorkersOf, Waiting
<1>. QED
  BY <1>1, JobAssumption, FS_Subset, FS_CardinalityType

(* What a step may do to the count of one job: nothing, fewer waiting      *)
(* workers, or one more waiting worker and a fault; or a job that waits    *)
(* now did not before.                                                     *)
Steady(j) ==
  /\ overtaken'[j] = overtaken[j] /\ faults' >= faults
  /\ InLists(j)
  /\ Waiting(QueueOf(j))' \subseteq Waiting(QueueOf(j))

LEMMA SteadyCount ==
  ASSUME Shape, Shape', NEW j \in High, OvertakeInv, Steady(j)
  PROVE  overtaken'[j] + Cardinality(Waiting(QueueOf(j))')
           <= Cardinality(WorkersOf(QueueOf(j))) + faults'
<1>. DEFINE q == QueueOf(j)
<1>1. /\ Cardinality(Waiting(q)') <= Cardinality(Waiting(q))
      /\ Cardinality(Waiting(q)') \in Nat
  BY WaitingCount, FS_Subset, FS_CardinalityType DEF Steady
<1>2. overtaken[j] + Cardinality(Waiting(q)) <= Cardinality(WorkersOf(q)) + faults
  BY DEF Steady, OvertakeInv
<1>3. overtaken[j] \in Nat /\ faults \in Nat /\ faults' \in Nat
  BY JobAssumption, NumberAssumption DEF Shape, TypeOK
<1>. HIDE DEF q
<1>4. overtaken'[j] + Cardinality(Waiting(q)') <= Cardinality(WorkersOf(q)) + faults'
  BY <1>1, <1>2, <1>3, WaitingCount DEF Steady
<1>. QED
  BY <1>4 DEF q

LEMMA NextOvertake ==
  ASSUME Shape, Shape', OvertakeInv, [Next]_vars
  PROVE  OvertakeInv'
<1>. SUFFICES ASSUME NEW j \in High, InLists(j)'
              PROVE  overtaken'[j] + Cardinality(Waiting(QueueOf(j))')
                       <= Cardinality(WorkersOf(QueueOf(j))) + faults'
  BY DEF OvertakeInv, WorkersOf
<1>. DEFINE q == QueueOf(j)
<1>1. /\ overtaken[j] \in Nat /\ faults \in Nat /\ overtaken'[j] \in Nat
      /\ faults' \in Nat /\ j \in Job /\ q \in Queue
  BY JobAssumption, NumberAssumption, QueueType DEF Shape, TypeOK
<1>2. Waiting(q)' \subseteq WorkersOf(q)
  BY DEF Waiting, WorkersOf
<1>3. /\ Cardinality(Waiting(q)') <= Cardinality(WorkersOf(q))
      /\ Cardinality(Waiting(q)') \in Nat
  BY <1>2, WaitingCount, FS_Subset, FS_CardinalityType
<1>4. overtaken'[j] = 0 =>
        overtaken'[j] + Cardinality(Waiting(QueueOf(j))')
          <= Cardinality(WorkersOf(QueueOf(j))) + faults'
  BY <1>1, <1>3, WaitingCount
<1>5. ASSUME NEW k \in Job, k \notin accepted, Enqueue(k)
      PROVE  overtaken'[j] = 0 \/ Steady(j)
  <2>1. ~InLists(k)
    BY <1>5 DEF Shape, PlaceOK
  <2>2. InLists(j) \/ j = k
    BY <1>1, <1>5, <2>1, PushList DEF Enqueue
  <2>. QED
    BY <1>1, <1>5, <2>2
    DEF Enqueue, LPush, Steady, Waiting, WorkersOf, workerVars, boundVars,
        Shape, TypeOK
<1>6. ASSUME NEW w \in Worker, DequeueHigh(w)
      PROVE  overtaken'[j] + Cardinality(Waiting(QueueOf(j))')
               <= Cardinality(WorkersOf(QueueOf(j))) + faults'
  <2>. USE DEF DequeueHigh
  <2>1. CASE pc' = [pc EXCEPT ![w] = "work"] /\ high[Drains(w)] # <<>>
             /\ high' = [high EXCEPT ![Drains(w)] = Tail(@)]
             /\ UNCHANGED faults
    <3>1. InLists(j)
      BY <1>1, <1>6, <2>1, TakeHigh, QueueType
    <3>2. Steady(j)
      BY <1>1, <1>6, <2>1, <3>1 DEF Steady, Waiting, WorkersOf, Shape, TypeOK
    <3>. QED
      BY <3>2, SteadyCount
  <2>2. CASE pc' = [pc EXCEPT ![w] = "normal"] /\ UNCHANGED <<high, faults>>
             /\ high[Drains(w)] = <<>>
    <3>1. InLists(j) /\ Drains(w) # q
      BY <1>1, <1>6, <2>2, JobAssumption, EmptyList
      DEF InLists, Shape, TypeOK, Range
    <3>2. Steady(j)
      BY <1>1, <1>6, <2>2, <3>1 DEF Steady, Waiting, WorkersOf, Shape, TypeOK
    <3>. QED
      BY <3>2, SteadyCount
  <2>3. CASE pc' = [pc EXCEPT ![w] = "normal"] /\ UNCHANGED high /\ Fault
    <3>1. /\ InLists(j) /\ faults' = faults + 1
          /\ overtaken'[j] = overtaken[j]
      BY <1>6, <2>3 DEF InLists, Fault
    <3>2. Waiting(q)' \subseteq Waiting(q) \cup {w}
      BY <1>6, <2>3 DEF Waiting, WorkersOf, Shape, TypeOK
    <3>3. Cardinality(Waiting(q)') <= Cardinality(Waiting(q)) + 1
      <4>1. /\ IsFiniteSet(Waiting(q) \cup {w})
            /\ Cardinality(Waiting(q) \cup {w}) <= Cardinality(Waiting(q)) + 1
            /\ Cardinality(Waiting(q) \cup {w}) \in Nat
        <5>1. IsFiniteSet(Waiting(q)) /\ Cardinality(Waiting(q)) \in Nat
          BY WaitingCount
        <5>2. /\ IsFiniteSet(Waiting(q) \cup {w})
              /\ \/ Cardinality(Waiting(q) \cup {w}) = Cardinality(Waiting(q))
                 \/ Cardinality(Waiting(q) \cup {w}) = Cardinality(Waiting(q)) + 1
          BY <5>1, FS_AddElement
        <5>. QED
          BY <5>1, <5>2
      <4>2. Cardinality(Waiting(q)') <= Cardinality(Waiting(q) \cup {w})
        BY <3>2, <4>1, FS_Subset
      <4>. QED
        BY <1>3, <4>1, <4>2, WaitingCount
    <3>4. overtaken[j] + Cardinality(Waiting(q))
            <= Cardinality(WorkersOf(q)) + faults
      BY <3>1 DEF OvertakeInv
    <3>. HIDE DEF q
    <3>5. overtaken'[j] + Cardinality(Waiting(q)')
            <= Cardinality(WorkersOf(q)) + faults'
      BY <1>1, <1>3, <3>1, <3>3, <3>4, WaitingCount
    <3>. QED
      BY <3>5 DEF q
  <2>. QED
    BY <1>6, <2>1, <2>2, <2>3
<1>7. ASSUME NEW w \in Worker, Dequeue(w)
      PROVE  overtaken'[j] + Cardinality(Waiting(QueueOf(j))')
               <= Cardinality(WorkersOf(QueueOf(j))) + faults'
  <2>. USE DEF Dequeue, boundVars
  <2>1. InLists(j) /\ faults' = faults
    <3>1. j \in Range(high[q])
      <4>1. normal'[q] \in Seq(Job \ High)
        BY <1>1 DEF Shape, TypeOK
      <4>2. j \notin Range(normal'[q])
        BY <4>1 DEF Range
      <4>. QED
        BY <1>7, <4>2 DEF InLists
    <3>. QED
      BY <1>7, <3>1 DEF InLists
  <2>2. Waiting(q)' \subseteq Waiting(q)
    BY <1>7 DEF Waiting, WorkersOf, Shape, TypeOK
  <2>3. CASE overtaken'[j] = overtaken[j]
    <3>1. Steady(j)
      BY <1>1, <2>1, <2>2, <2>3 DEF Steady
    <3>. QED
      BY <3>1, SteadyCount
  <2>4. CASE overtaken'[j] # overtaken[j]
    <3>1. overtaken'[j] = overtaken[j] + 1 /\ j \in Range(high[Drains(w)])
      BY <1>1, <1>7, <2>4
    <3>2. Drains(w) = q
      BY <3>1, QueueType DEF Shape, ListOK
    <3>3. w \in Waiting(q) /\ Waiting(q)' \subseteq Waiting(q) \ {w}
      BY <1>7, <2>2, <2>4, <3>2 DEF Waiting, WorkersOf, Shape, TypeOK
    <3>4. /\ IsFiniteSet(Waiting(q) \ {w})
          /\ Cardinality(Waiting(q) \ {w}) = Cardinality(Waiting(q)) - 1
      BY <3>3, WaitingCount, FS_RemoveElement
    <3>5. Cardinality(Waiting(q)') <= Cardinality(Waiting(q) \ {w})
      BY <3>3, <3>4, FS_Subset
    <3>6. overtaken[j] + Cardinality(Waiting(q))
            <= Cardinality(WorkersOf(q)) + faults
      BY <2>1 DEF OvertakeInv
    <3>. HIDE DEF q
    <3>7. overtaken'[j] + Cardinality(Waiting(q)')
            <= Cardinality(WorkersOf(q)) + faults'
      BY <1>1, <1>3, <2>1, <3>1, <3>4, <3>5, <3>6, WaitingCount
    <3>. QED
      BY <3>7 DEF q
  <2>. QED
    BY <2>3, <2>4
<1>8. ASSUME NEW w \in Worker, SendEmail(w) \/ SendOnce(w)
      PROVE  Steady(j)
  BY <1>1, <1>8
  DEF SendEmail, SendOnce, End, Retry, Steady, InLists, Waiting, WorkersOf,
      listVars, boundVars, Shape, TypeOK
<1>9. ASSUME NEW t \in timers, RetryFires(t)
      PROVE  overtaken'[j] = 0 \/ Steady(j)
  <2>1. t[1] \in Job /\ ~InLists(t[1])
    BY DEF Shape, TypeOK, PlaceOK, InTimer, Job
  <2>2. /\ InLists(j) \/ (j = t[1] /\ LPush(t[1]))
        /\ faults' >= faults
    <3>1. CASE LPush(t[1])
      BY <1>1, <1>9, <2>1, <3>1, PushList DEF RetryFires, Fault
    <3>2. CASE UNCHANGED <<listVars, overtaken>> /\ Fault
      BY <1>1, <3>2 DEF Fault, InLists, listVars
    <3>. QED
      BY <1>9, <3>1, <3>2 DEF RetryFires
  <2>. QED
    BY <1>1, <1>9, <2>1, <2>2
    DEF RetryFires, LPush, Steady, Waiting, WorkersOf, workerVars, Shape,
        TypeOK
<1>10. ASSUME Crash
       PROVE  Steady(j)
  BY <1>1, <1>10
  DEF Crash, Steady, InLists, Waiting, WorkersOf, listVars
<1>11. CASE UNCHANGED vars
  <2>1. Steady(j)
    BY <1>1, <1>11
    DEF vars, listVars, workerVars, boundVars, Steady, InLists, Waiting,
        WorkersOf
  <2>. QED
    BY <2>1, SteadyCount
<1>. HIDE DEF q
<1>. QED
  BY <1>4, <1>5, <1>6, <1>7, <1>8, <1>9, <1>10, <1>11, SteadyCount
  DEF Next, Work, Enqueue

(* While a high job waits, normal jobs of its queue are taken at most once *)
(* for each worker and each look at the list that failed.                  *)
THEOREM OvertakingIsBounded == Spec => []OvertakingBounded
<1>1. Init => OvertakeInv
  BY EmptyList, QueueType, JobAssumption DEF Init, OvertakeInv, InLists
<1>2. Init => Shape
  BY InitShape
<1>3. Shape /\ OvertakeInv /\ [Next]_vars => Shape' /\ OvertakeInv'
  BY NextShape, NextOvertake
<1>4. Shape /\ OvertakeInv => OvertakingBounded
  <2>. SUFFICES ASSUME Shape, OvertakeInv, NEW j \in High, InLists(j)
                PROVE  overtaken[j] <= Cardinality(WorkersOf(QueueOf(j))) + faults
    BY DEF OvertakingBounded
  <2>1. overtaken[j] \in Nat /\ faults \in Nat
    BY JobAssumption, NumberAssumption DEF Shape, TypeOK
  <2>. QED
    BY <2>1, WaitingCount DEF OvertakeInv
<1>. QED
  BY <1>1, <1>2, <1>3, <1>4, PTL DEF Spec

-----------------------------------------------------------------------------
(* The queue implements Delivery.                                          *)

Somewhere(j) == InLists(j) \/ InWorker(j) \/ InTimer(j)

LEMMA SameState ==
  ASSUME UNCHANGED <<accepted, outcome, retries>>,
         \A k \in Job : Somewhere(k)' <=> Somewhere(k)
  PROVE  UNCHANGED <<state, tries>>
BY DEF state, tries, Somewhere, InLists, InWorker, InTimer

LEMMA EnqueueDelivers ==
  ASSUME Shape, NEW j \in Job, Enqueue(j)
  PROVE  D!Accept(j)
<1>. USE DEF Enqueue, workerVars, boundVars
<1>1. outcome[j] = "pending" /\ ~InLists(j)
  BY DEF Shape, CountOK, PlaceOK
<1>2. \A k \in Job : InLists(k)' <=> InLists(k) \/ k = j
  BY <1>1, PushList
<1>3. state[j] = "none" /\ tries' = tries
  BY DEF state, tries
<1>4. state'[j] = "pending"
  BY <1>1, <1>2 DEF state, InLists
<1>5. \A k \in Job \ {j} : state'[k] = state[k]
  BY <1>2 DEF state, InLists, InWorker, InTimer
<1>6. state' = [state EXCEPT ![j] = "pending"]
  BY <1>4, <1>5 DEF state
<1>. QED
  BY <1>3, <1>6 DEF D!Accept

LEMMA TakeDelivers ==
  ASSUME Shape, NEW w \in Worker, NEW j \in Job, pc[w] # "work", InLists(j),
         \A k \in Job : InLists(k)' <=> InLists(k) /\ k # j,
         job' = [job EXCEPT ![w] = j],
         UNCHANGED <<retries, timers, outcome, accepted>>
  PROVE  UNCHANGED <<state, tries>>
<1>1. job[w] = NoJob
  BY DEF Shape, WorkerOK
<1>2. \A k \in Job : InWorker(k)' <=> InWorker(k) \/ k = j
  BY <1>1, JobAssumption DEF Shape, TypeOK, InWorker
<1>3. \A k \in Job : Somewhere(k)' <=> Somewhere(k)
  BY <1>2 DEF Somewhere, InLists, InWorker, InTimer
<1>. QED
  BY <1>3, SameState

LEMMA DequeueHighDelivers ==
  ASSUME Shape, NEW w \in Worker, DequeueHigh(w)
  PROVE  UNCHANGED <<state, tries>>
<1>. USE DEF DequeueHigh
<1>1. CASE high[Drains(w)] # <<>> /\ UNCHANGED faults
           /\ high' = [high EXCEPT ![Drains(w)] = Tail(@)]
           /\ job' = [job EXCEPT ![w] = Head(high[Drains(w)])]
  <2>. DEFINE j == Head(high[Drains(w)])
  <2>1. /\ j \in High /\ InLists(j) /\ pc[w] # "work"
        /\ \A k \in Job : InLists(k)' <=> InLists(k) /\ k # j
    BY <1>1, QueueType, TakeHigh
  <2>2. job' = [job EXCEPT ![w] = j]
    BY <1>1
  <2>. HIDE DEF j
  <2>. QED
    BY <2>1, <2>2, JobAssumption, TakeDelivers
<1>2. CASE UNCHANGED <<high, job>>
  <2>1. \A k \in Job : Somewhere(k)' <=> Somewhere(k)
    BY <1>2 DEF Somewhere, InLists, InWorker, InTimer
  <2>. QED
    BY <2>1, SameState
<1>. QED
  BY <1>1, <1>2

LEMMA DequeueDelivers ==
  ASSUME Shape, NEW w \in Worker, Dequeue(w)
  PROVE  UNCHANGED <<state, tries>>
<1>. USE DEF Dequeue
<1>1. CASE normal[Drains(w)] # <<>>
  <2>. DEFINE j == Head(normal[Drains(w)])
  <2>1. /\ j \in Job /\ InLists(j) /\ pc[w] # "work"
        /\ \A k \in Job : InLists(k)' <=> InLists(k) /\ k # j
    BY <1>1, QueueType, TakeNormal
  <2>2. job' = [job EXCEPT ![w] = j]
    BY <1>1
  <2>. HIDE DEF j
  <2>. QED
    BY <2>1, <2>2, TakeDelivers
<1>2. CASE normal[Drains(w)] = <<>>
  <2>1. \A k \in Job : Somewhere(k)' <=> Somewhere(k)
    BY <1>2 DEF Somewhere, InLists, InWorker, InTimer
  <2>. QED
    BY <2>1, SameState
<1>. QED
  BY <1>1, <1>2

(* The worker's job before it ends or is retried.                          *)
LEMMA HeldJob ==
  ASSUME Shape, NEW w \in Worker, pc[w] = "work"
  PROVE  /\ job[w] \in Job /\ InWorker(job[w])
         /\ state[job[w]] = "pending" /\ tries[job[w]] = retries[job[w]]
         /\ retries[job[w]] \in 0 .. MaxRetries
         /\ job[w] \in Email <=> w \in EmailWorker
         /\ \A v \in Worker : job[v] = job[w] => v = w
<1>1. /\ job[w] \in Job /\ InWorker(job[w])
      /\ \A v \in Worker : job[v] = job[w] => v = w
      /\ QueueOf(job[w]) = Drains(w)
  BY DEF Shape, TypeOK, WorkerOK, InWorker
<1>2. job[w] \in accepted /\ outcome[job[w]] = "pending"
  BY <1>1 DEF Shape, PlaceOK
<1>. QED
  BY <1>1, <1>2, QueueType DEF state, tries, Shape, TypeOK

LEMMA EndDelivers ==
  ASSUME Shape, NEW w \in Worker, pc[w] = "work",
         NEW x \in {"delivered", "failed"}, End(w, x),
         x = "failed" => retries[job[w]] + 1 = D!Tries(job[w]),
         UNCHANGED <<high, normal, retries, timers, accepted>>
  PROVE  D!Try(job[w])
<1>. DEFINE j == job[w]
<1>1. /\ j \in Job /\ state[j] = "pending" /\ tries[j] = retries[j]
      /\ \A v \in Worker : job[v] = j => v = w
      /\ j \in accepted
  BY HeldJob DEF state
<1>2. /\ outcome'[j] = x
      /\ \A k \in Job \ {j} : /\ outcome'[k] = outcome[k]
                              /\ InWorker(k)' <=> InWorker(k)
  BY <1>1, JobAssumption DEF End, Shape, TypeOK, InWorker
<1>3. state'[j] = x
  BY <1>1, <1>2 DEF state
<1>4. \A k \in Job \ {j} : state'[k] = state[k]
  BY <1>2 DEF state, InLists, InTimer, InWorker
<1>5. state' = [state EXCEPT ![j] = x]
  BY <1>1, <1>3, <1>4 DEF state
<1>6. /\ tries'[j] = retries[j] + 1
      /\ \A k \in Job \ {j} : tries'[k] = tries[k]
  BY <1>1, <1>2 DEF tries
<1>7. tries' = [tries EXCEPT ![j] = @ + 1]
  BY <1>1, <1>6 DEF tries
<1>. QED
  BY <1>1, <1>5, <1>7 DEF D!Try

LEMMA RetryDelivers ==
  ASSUME Shape, NEW w \in EmailWorker, pc[w] = "work",
         retries[job[w]] < MaxRetries, Retry(w, retries[job[w]] + 1),
         UNCHANGED <<high, normal, accepted>>
  PROVE  D!Try(job[w])
<1>. DEFINE j == job[w]
<1>1. w \in Worker
  BY DEF Worker
<1>2. /\ j \in Job /\ j \in Email
      /\ state[j] = "pending" /\ tries[j] = retries[j]
      /\ retries[j] \in 0 .. MaxRetries
      /\ \A v \in Worker : job[v] = j => v = w
  BY <1>1, HeldJob
<1>3. j \in accepted /\ outcome[j] = "pending"
  BY <1>1, <1>2 DEF Shape, TypeOK, PlaceOK, InWorker
<1>4. \E t \in timers' : t[1] = j
  <2>. DEFINE t == <<j, Backoff(retries[j] + 1)>>
  <2>1. t \in timers' /\ t[1] = j
    BY DEF Retry
  <2>. HIDE DEF t, j
  <2>. QED
    BY <2>1
<1>5. \A k \in Job \ {j} : /\ InWorker(k)' <=> InWorker(k)
                           /\ InTimer(k)' <=> InTimer(k)
  BY <1>1, <1>2, JobAssumption DEF Retry, Shape, TypeOK, InWorker, InTimer
<1>6. state'[j] = "pending"
  <2>1. accepted' = accepted /\ outcome' = outcome
    BY DEF Retry
  <2>. HIDE DEF j
  <2>. QED
    BY <1>2, <1>3, <1>4, <2>1 DEF state, InTimer
<1>7. \A k \in Job \ {j} : state'[k] = state[k]
  BY <1>5 DEF Retry, state, InLists, InTimer, InWorker
<1>8. state' = state
  BY <1>2, <1>6, <1>7 DEF state
<1>9. /\ tries'[j] = retries[j] + 1
      /\ \A k \in Job \ {j} : tries'[k] = tries[k]
  BY <1>2, <1>3 DEF Retry, tries, Shape, TypeOK
<1>10. tries' = [tries EXCEPT ![j] = @ + 1]
  BY <1>2, <1>9 DEF tries
<1>. QED
  BY <1>2, <1>8, <1>10, NumberAssumption DEF D!Try, D!Tries

LEMMA SendEmailDelivers ==
  ASSUME Shape, NEW w \in Worker, SendEmail(w)
  PROVE  D!Try(job[w])
<1>. USE DEF SendEmail, listVars
<1>1. retries[job[w]] >= MaxRetries =>
        retries[job[w]] + 1 = D!Tries(job[w])
  BY HeldJob, NumberAssumption DEF D!Tries
<1>. QED
  BY <1>1, EndDelivers, RetryDelivers

LEMMA SendOnceDelivers ==
  ASSUME Shape, NEW w \in Worker, SendOnce(w)
  PROVE  D!Try(job[w])
<1>. USE DEF SendOnce, listVars
<1>1. retries[job[w]] + 1 = D!Tries(job[w])
  <2>1. w \notin EmailWorker
    BY JobAssumption
  <2>2. job[w] \in Job /\ job[w] \notin Email
    BY <2>1, HeldJob
  <2>. QED
    BY <2>2 DEF Shape, CountOK, D!Tries
<1>. QED
  BY <1>1, EndDelivers

LEMMA RetryFiresDelivers ==
  ASSUME Shape, NEW t \in timers, RetryFires(t)
  PROVE  D!Lose \/ UNCHANGED <<state, tries>>
<1>. DEFINE j == t[1]
<1>. USE DEF RetryFires, workerVars, listVars
<1>1. /\ j \in Job /\ InTimer(j) /\ ~InLists(j) /\ ~InWorker(j)
      /\ j \in accepted /\ outcome[j] = "pending"
  BY DEF Shape, TypeOK, PlaceOK, InTimer, Job
<1>2. \A k \in Job : InTimer(k)' <=> InTimer(k) /\ k # j
  BY DEF Shape, TimerOK, InTimer
<1>3. CASE LPush(j)
  <2>1. \A k \in Job : InLists(k)' <=> InLists(k) \/ k = j
    BY <1>1, <1>3, PushList
  <2>2. \A k \in Job : Somewhere(k)' <=> Somewhere(k)
    BY <1>1, <1>2, <2>1 DEF Somewhere, InLists, InWorker, InTimer
  <2>. QED
    BY <2>2, SameState
<1>4. CASE UNCHANGED listVars
  <2>1. state[j] = "pending" /\ state'[j] = "lost"
    BY <1>1, <1>2, <1>4 DEF state, InLists, InWorker, InTimer
  <2>2. \A k \in Job \ {j} : state'[k] = state[k]
    BY <1>2, <1>4 DEF state, InLists, InWorker, InTimer
  <2>3. state' = [k \in Job |-> IF k \in {j} THEN "lost" ELSE state[k]]
    BY <2>1, <2>2 DEF state
  <2>4. tries' = tries
    BY DEF tries
  <2>5. {j} \in SUBSET {k \in Job : state[k] = "pending"}
    BY <1>1, <2>1
  <2>. QED
    BY <2>3, <2>4, <2>5 DEF D!Lose
<1>. QED
  BY <1>3, <1>4

LEMMA CrashDelivers ==
  ASSUME Shape, Crash
  PROVE  D!Lose \/ UNCHANGED <<state, tries>>
<1>. DEFINE L == {j \in Job : state[j] = "pending" /\ ~InLists(j)}
<1>. USE DEF Crash, listVars
<1>1. \A k \in Job : ~InWorker(k)' /\ ~InTimer(k)'
  BY JobAssumption DEF InWorker, InTimer
<1>2. tries' = tries
  BY DEF tries
<1>3. \A k \in Job : state'[k] = IF k \in L THEN "lost" ELSE state[k]
  BY <1>1 DEF state, InLists, InWorker, InTimer, Shape, TypeOK
<1>4. state' = [k \in Job |-> IF k \in L THEN "lost" ELSE state[k]]
  BY <1>3 DEF state
<1>5. CASE L = {}
  BY <1>2, <1>4, <1>5 DEF state
<1>6. CASE L # {}
  <2>1. L \in SUBSET {j \in Job : state[j] = "pending"}
    OBVIOUS
  <2>. HIDE DEF L
  <2>. QED
    BY <1>2, <1>4, <1>6, <2>1 DEF D!Lose
<1>. QED
  BY <1>5, <1>6

(* Seen through the mapping of JobQueue, the queue does nothing but what   *)
(* Delivery allows.                                                        *)
THEOREM QueueDelivers == Spec => Delivers
<1>1. Init => D!Init
  BY DEF Init, D!Init, state, tries
<1>2. Init => Shape
  BY InitShape
<1>3. Shape /\ [Next]_vars => Shape'
  BY NextShape
<1>4. Shape /\ [Next]_vars => [D!Next]_<<state, tries>>
  <2>. SUFFICES ASSUME Shape, [Next]_vars
                PROVE  [D!Next]_<<state, tries>>
    OBVIOUS
  <2>1. ASSUME NEW j \in Job, Enqueue(j)
        PROVE  D!Next
    BY <2>1, EnqueueDelivers DEF D!Next
  <2>2. ASSUME NEW w \in Worker, DequeueHigh(w) \/ Dequeue(w)
        PROVE  UNCHANGED <<state, tries>>
    BY <2>2, DequeueHighDelivers, DequeueDelivers
  <2>3. ASSUME NEW w \in Worker, SendEmail(w) \/ SendOnce(w)
        PROVE  D!Next
    <3>1. job[w] \in Job
      BY <2>3, HeldJob DEF SendEmail, SendOnce
    <3>. QED
      BY <2>3, <3>1, SendEmailDelivers, SendOnceDelivers DEF D!Next
  <2>4. ASSUME NEW t \in timers, RetryFires(t)
        PROVE  D!Next \/ UNCHANGED <<state, tries>>
    BY <2>4, RetryFiresDelivers DEF D!Next
  <2>5. ASSUME Crash
        PROVE  D!Next \/ UNCHANGED <<state, tries>>
    BY <2>5, CrashDelivers DEF D!Next
  <2>6. CASE UNCHANGED vars
    BY <2>6
    DEF vars, listVars, workerVars, state, tries, InLists, InWorker, InTimer
  <2>. QED
    BY <2>1, <2>2, <2>3, <2>4, <2>5, <2>6 DEF Next, Work
<1>. QED
  BY <1>1, <1>2, <1>3, <1>4, PTL DEF Spec, Delivers, D!Spec

=============================================================================
