---------------------------- MODULE Subscription ----------------------------
(***************************************************************************)
(* The subscriptions of one user: the rows, the user's storage limits, the *)
(* receipts, the handlers of the API and of the payment provider's         *)
(* webhooks, the hourly scheduler, and the provider (Razorpay) as far as   *)
(* the code sees it.                                                       *)
(*                                                                         *)
(* A handler reads the row once, decides, and makes a fixed sequence of    *)
(* calls: todo[p] is what is left of it.  Packages are tiers ordered by    *)
(* price and limits, 0 is the free one.  Time is whether a billing period  *)
(* is over; a handler or a scheduler pass does not outlast a period.       *)
(***************************************************************************)
EXTENDS Naturals, Sequences, FiniteSets, Functions

CONSTANTS
  Sub,          \* subscriptions: a row and, unless the admin assigned it,
                \* the provider's record have the same id here
  NoSub,
  NoEvent,
  NoTier,
  Proc,         \* goroutines serving API requests and webhooks
  MaxTier,      \* the most expensive package
  Requests,     \* the kinds of requests made in an instance
  Turns,        \* the turns a provider's record takes of itself in it
  MaxPays,      \* bound: payments of a subscription
  MaxInbox,     \* bound: webhooks under way at a time
  MaxRequests,  \* bound: requests of the user and the admin
  MaxFaults     \* bound: calls that fail, handlers cut short

ASSUME NameAssumption ==
  /\ NoSub \notin Sub /\ NoTier \notin Nat
  /\ IsFiniteSet(Sub) /\ IsFiniteSet(Proc) /\ Proc # {}

ASSUME RequestAssumption ==
  Requests \subseteq {"Subscribe", "Verify", "Upgrade", "Downgrade", "Cancel",
                     "CancelPendingDowngrade", "AdminCancel", "AdminAssign"}

ASSUME TurnAssumption ==
  Turns \subseteq {"pending", "halted", "expired", "cancelled"}

ASSUME NumberAssumption ==
  /\ MaxTier \in Nat \ {0} /\ MaxPays \in Nat \ {0}
  /\ MaxInbox \in Nat /\ MaxRequests \in Nat /\ MaxFaults \in Nat

Tier == 0 .. MaxTier
Period == {"null", "future", "past"}

(* "expired" stands for "completed" too, the code treats them alike; and    *)
(* nothing in the code pauses a subscription.                              *)
Current == {"active", "authenticated", "pending", "created"}
Open == Current \cup {"halted"}
Status == Open \cup {"none", "cancelled", "expired"}

Kind == {"authenticated", "activated", "charged", "pending", "halted",
         "expired", "cancelled", "updated", "fetched"}
Event == [kind : Kind, sub : Sub, plan : Tier, status : Status,
          period : Period, pay : 0 .. MaxPays]

ASSUME EventAssumption == NoEvent \notin Event

Call == {"order", "insert", "cancelNow", "cancelRow", "fetch", "apply",
         "grant", "revert", "receipt", "insertReceipt", "planNow",
         "planLater", "stopLater", "stopRow", "unstop", "pend", "unpend",
         "assign", "setPackage", "record"}

VARIABLES
  status, package, pending, cancelEnd, period,     \* the rows
  limits,     \* the tier whose limits the user has
  receipts,   \* transactions per payment
  rstatus, rplan, rnext, rperiod, rpays,           \* the provider's records:
              \* rnext is the plan of the next cycle, 0 when it is to stop
  inbox,      \* webhooks the provider has yet to see acknowledged
  todo, sub, tier, event,                          \* the handlers
  sched,      \* the scheduler's pass: [at, batch, tier]
  requests, faults,
  paid        \* history: the highest tier the user has paid for

rowVars == <<status, package, pending, cancelEnd, period>>
providerVars == <<rstatus, rplan, rnext, rperiod, rpays, paid>>
procVars == <<todo, sub, tier, event>>
vars == <<rowVars, limits, receipts, providerVars, inbox, procVars, sched,
          requests, faults>>

(* Between two passes: the last one has dealt with all it found.           *)
Idle == [at |-> "expire", batch |-> {}, tier |-> NoTier]

TypeOK ==
  /\ status \in [Sub -> Status]
  /\ package \in [Sub -> Tier]
  /\ pending \in [Sub -> Tier \cup {NoTier}]
  /\ cancelEnd \in [Sub -> BOOLEAN]
  /\ period \in [Sub -> Period]
  /\ limits \in Tier
  /\ receipts \in [Sub -> [1 .. MaxPays -> Nat]]
  /\ rstatus \in [Sub -> Status]
  /\ rplan \in [Sub -> Tier]
  /\ rnext \in [Sub -> Tier \cup {NoTier}]
  /\ rperiod \in [Sub -> Period]
  /\ rpays \in [Sub -> 0 .. MaxPays]
  /\ inbox \subseteq Event
  /\ todo \in [Proc -> Seq(Call)]
  /\ sub \in [Proc -> Sub \cup {NoSub}]
  /\ tier \in [Proc -> Tier \cup {NoTier}]
  /\ event \in [Proc -> Event \cup {NoEvent}]
  /\ sched \in [at : {"downgrade", "downgradeLimits", "expire", "expireLimits"},
                batch : SUBSET (Sub \X (Tier \cup {NoTier})),
                tier : Tier \cup {NoTier}]
  /\ requests \in 0 .. MaxRequests
  /\ faults \in 0 .. MaxFaults
  /\ paid \in Tier

(* The user is new, or has a paid subscription that has run for a while.   *)
Init ==
  /\ \E o \in Sub, k \in Tier :
       LET Started(s, x, y) == IF k > 0 /\ s = o THEN x ELSE y IN
       /\ status = [s \in Sub |-> Started(s, "active", "none")]
       /\ package = [s \in Sub |-> Started(s, k, 0)]
       /\ period = [s \in Sub |-> Started(s, "future", "null")]
       /\ receipts = [s \in Sub |-> [i \in 1 .. MaxPays |->
                                      IF i = 1 THEN Started(s, 1, 0) ELSE 0]]
       /\ rpays = [s \in Sub |-> Started(s, 1, 0)]
       /\ limits = k /\ paid = k
  /\ rstatus = status /\ rplan = package /\ rperiod = period
  /\ pending = [s \in Sub |-> NoTier]
  /\ cancelEnd = [s \in Sub |-> FALSE]
  /\ rnext = [s \in Sub |-> NoTier]
  /\ inbox = {}
  /\ todo = [p \in Proc |-> <<>>]
  /\ sub = [p \in Proc |-> NoSub]
  /\ tier = [p \in Proc |-> NoTier]
  /\ event = [p \in Proc |-> NoEvent]
  /\ sched = Idle
  /\ requests = 0
  /\ faults = 0

Fault == faults < MaxFaults /\ faults' = faults + 1

Exists(s) == status[s] # "none"
Billed(s) == rstatus[s] # "none"      \* it has a Razorpay id
Fresh(s) == ~Exists(s) /\ ~Billed(s)
NoCurrent == \A s \in Sub : status[s] \notin Current

(* The unique index on the user's current rows lets the statement through. *)
Allowed(s, x) ==
  x \in Current => \A t \in Sub \ {s} : status[t] \notin Current

Larger(a, b) == IF a > b THEN a ELSE b

(* The handlers' control.                                                  *)
Begin(p, s, k, e, calls) ==
  /\ todo[p] = <<>>
  /\ todo' = [todo EXCEPT ![p] = calls]
  /\ sub' = [sub EXCEPT ![p] = s]
  /\ tier' = [tier EXCEPT ![p] = k]
  /\ event' = [event EXCEPT ![p] = e]

(* Go on with "calls"; an error is to go on with none.                     *)
Proceed(p, calls) ==
  /\ todo' = [todo EXCEPT ![p] = calls]
  /\ sub' = [sub EXCEPT ![p] = IF calls = <<>> THEN NoSub ELSE @]
  /\ tier' = [tier EXCEPT ![p] = IF calls = <<>> THEN NoTier ELSE @]
  /\ event' = [event EXCEPT ![p] = IF calls = <<>> THEN NoEvent ELSE @]

Rest(p) == Tail(todo[p])
At(p, call) == todo[p] # <<>> /\ Head(todo[p]) = call

-----------------------------------------------------------------------------
(* The provider: what it records, and the webhooks it sends until they are *)
(* acknowledged or it gives up.                                            *)

Webhook(k, s) ==
  [kind |-> k, sub |-> s, plan |-> rplan'[s], status |-> rstatus'[s],
   period |-> rperiod'[s], pay |-> IF k = "charged" THEN rpays'[s] ELSE 0]

Emit(E) ==
  inbox' = IF Cardinality(inbox \cup E) <= MaxInbox THEN inbox \cup E ELSE inbox

Pay(s) ==
  /\ rpays[s] < MaxPays
  /\ rpays' = [rpays EXCEPT ![s] = @ + 1]

(* The user pays in the checkout of a subscription it was given.           *)
Checkout(s) ==
  /\ rstatus[s] = "created" /\ Exists(s)
  /\ rstatus' = [rstatus EXCEPT ![s] = "authenticated"]
  /\ Pay(s)
  /\ paid' = Larger(paid, rplan[s])
  /\ UNCHANGED <<rplan, rnext, rperiod>>
  /\ Emit({Webhook("authenticated", s)})

Activate(s) ==
  /\ rstatus[s] = "authenticated"
  /\ rstatus' = [rstatus EXCEPT ![s] = "active"]
  /\ rperiod' = [rperiod EXCEPT ![s] = "future"]
  /\ UNCHANGED <<rplan, rnext, rpays, paid>>
  /\ Emit({Webhook("activated", s), Webhook("charged", s)})

(* The next period is charged, for the plan that was to follow.            *)
Renew(s) ==
  /\ rstatus[s] \in {"active", "pending", "halted"} /\ rperiod[s] = "past"
  /\ rnext[s] # 0
  /\ Pay(s)
  /\ rstatus' = [rstatus EXCEPT ![s] = "active"]
  /\ rperiod' = [rperiod EXCEPT ![s] = "future"]
  /\ rplan' = [rplan EXCEPT ![s] = IF rnext[s] = NoTier THEN @ ELSE rnext[s]]
  /\ rnext' = [rnext EXCEPT ![s] = NoTier]
  /\ UNCHANGED paid
  /\ Emit({Webhook("charged", s)} \cup
          (IF rnext[s] = NoTier THEN {} ELSE {Webhook("updated", s)}))

(* Its other moves: from a status to the next, announced as "kind".        *)
Moves == {<<"active", "pending", "pending">>, <<"pending", "halted", "halted">>,
          <<"created", "expired", "expired">>,
          <<"halted", "cancelled", "cancelled">>,
          <<"active", "cancelled", "cancelled">>,
          <<"active", "expired", "expired">>}

Move(s, m) ==
  /\ m[3] \in Turns /\ rstatus[s] = m[1]
  /\ m[1] = "active" => rperiod[s] = "past"
  /\ m[1] = "active" /\ m[2] = "cancelled" => rnext[s] = 0
  /\ rstatus' = [rstatus EXCEPT ![s] = m[2]]
  /\ UNCHANGED <<rplan, rnext, rperiod, rpays, paid>>
  /\ Emit({Webhook(m[3], s)})

GiveUp(e) ==
  /\ inbox' = inbox \ {e}
  /\ UNCHANGED <<providerVars>>

Provider ==
  /\ \/ \E s \in Sub : \/ Checkout(s) \/ Activate(s) \/ Renew(s)
                       \/ \E m \in Moves : Move(s, m)
     \/ \E e \in inbox : GiveUp(e)
  /\ UNCHANGED <<rowVars, limits, receipts, procVars, sched, requests, faults>>

(* A billing period ends, for the rows and the provider; the provider has  *)
(* given up a webhook of the period before long ago.                       *)
Ended(x) == IF x = "future" THEN "past" ELSE x
Tick ==
  /\ \A p \in Proc : todo[p] = <<>>
  /\ sched = Idle /\ inbox = {}
  /\ \E s \in Sub : "future" \in {period[s], rperiod[s]}
  /\ period' = [s \in Sub |-> Ended(period[s])]
  /\ rperiod' = [s \in Sub |-> Ended(rperiod[s])]
  /\ UNCHANGED <<status, package, pending, cancelEnd, limits, receipts,
                 rstatus, rplan, rnext, rpays, paid, inbox, procVars, sched,
                 requests, faults>>

-----------------------------------------------------------------------------
(* The handlers: what they read and decide.                                *)

CancelCalls == <<"cancelNow", "cancelRow">>
OrderCalls == <<"order", "insert">>

(* An unpaid order gives way to the new one, or to the free package.       *)
Subscribe(p, k) ==
  /\ "Subscribe" \in Requests
  /\ \/ k > 0 /\ NoCurrent /\ Begin(p, NoSub, k, NoEvent, OrderCalls)
     \/ \E s \in Sub :
          /\ status[s] = "created"
          /\ Begin(p, s, k, NoEvent,
                   CancelCalls \o (IF k = 0 THEN <<>> ELSE OrderCalls))

(* Mutant of Verify: the signature is not checked.                         *)
VerifyUnsigned(p, s) ==
  /\ "Verify" \in Requests /\ Exists(s)
  /\ Begin(p, s, package[s], NoEvent, <<"fetch", "apply", "grant", "receipt">>)

(* The signature of a payment shows that it was made.                      *)
Verify(p, s) ==
  /\ "Verify" \in Requests
  /\ Exists(s) /\ rpays[s] > 0
  /\ IF status[s] = "active"
     THEN package[s] > 0 /\ Begin(p, s, package[s], NoEvent, <<"receipt">>)
     ELSE Begin(p, s, package[s], NoEvent,
                <<"fetch", "apply", "grant", "receipt">>)

Changeable(s) == status[s] = "active" /\ pending[s] = NoTier /\ ~cancelEnd[s]

Upgrade(p, s, k) ==
  /\ "Upgrade" \in Requests
  /\ Changeable(s) /\ k > package[s]
  /\ Begin(p, s, k, NoEvent, (IF Billed(s) THEN <<"planNow">> ELSE <<>>)
                             \o <<"setPackage", "grant">>)

Downgrade(p, s, k) ==
  /\ "Downgrade" \in Requests
  /\ Changeable(s) /\ k < package[s]
  /\ Begin(p, s, k, NoEvent,
       (IF ~Billed(s) THEN <<>>
        ELSE IF k = 0 THEN <<"stopLater">> ELSE <<"planLater">>)
       \o (IF k = 0 THEN <<"stopRow", "pend">> ELSE <<"pend">>))

Cancel(p, s) ==
  /\ "Cancel" \in Requests
  /\ status[s] = "active"
  /\ Begin(p, s, NoTier, NoEvent,
       (IF Billed(s) THEN <<"stopLater">> ELSE <<>>) \o <<"stopRow">>)

CancelPendingDowngrade(p, s) ==
  /\ "CancelPendingDowngrade" \in Requests
  /\ status[s] = "active" /\ pending[s] # NoTier
  /\ Begin(p, s, NoTier, NoEvent,
       IF cancelEnd[s] THEN <<"unpend", "unstop">> ELSE <<"unpend">>)

AdminCancel(p, s) ==
  /\ "AdminCancel" \in Requests
  /\ Exists(s)
  /\ Begin(p, s, NoTier, NoEvent, CancelCalls \o <<"revert">>)

AdminAssign(p, k) ==
  /\ "AdminAssign" \in Requests
  /\ \/ NoCurrent /\ Begin(p, NoSub, k, NoEvent, <<"assign", "grant">>)
     \/ \E s \in Sub :
          /\ status[s] \in Current
          /\ Begin(p, s, k, NoEvent,
                   CancelCalls \o <<"revert", "assign", "grant">>)

(* processEvent, by the kind of webhook.                                   *)
Process(e) ==
  CASE e.kind = "activated" -> <<"apply", "grant">>
    [] e.kind = "charged" -> <<"apply", "receipt">>
    [] e.kind = "expired" -> <<"apply", "revert">>
    [] e.kind = "cancelled" ->
         IF e.period = "future" THEN <<"apply", "unstop">>
                                ELSE <<"apply", "unstop", "revert">>
    [] e.kind = "updated" -> <<"setPackage", "grant", "apply">>
    [] OTHER -> <<"apply">>

(* A webhook not yet acknowledged, perhaps already being processed, is     *)
(* processed and then recorded; also when its row is not found, for        *)
(* whatever reason.                                                        *)
HandleRazorpayWebhook(p, e) ==
  \/ /\ Exists(e.sub) /\ UNCHANGED faults
     /\ Begin(p, e.sub, IF e.kind = "updated" THEN e.plan ELSE package[e.sub],
              e, Process(e) \o <<"record">>)
  \/ /\ (~Exists(e.sub) /\ UNCHANGED faults) \/ Fault
     /\ Begin(p, e.sub, NoTier, e, <<"record">>)

Request(p) ==
  /\ requests < MaxRequests /\ requests' = requests + 1
  /\ \/ \E k \in Tier : Subscribe(p, k) \/ AdminAssign(p, k)
     \/ \E s \in Sub : \/ Verify(p, s) \/ Cancel(p, s)
                       \/ CancelPendingDowngrade(p, s) \/ AdminCancel(p, s)
                       \/ \E k \in Tier : Upgrade(p, s, k) \/ Downgrade(p, s, k)
  /\ UNCHANGED <<rowVars, limits, receipts, providerVars, inbox, sched, faults>>

Webhooks(p) ==
  /\ \E e \in inbox : HandleRazorpayWebhook(p, e)
  /\ UNCHANGED <<rowVars, limits, receipts, providerVars, inbox, sched,
                 requests>>

-----------------------------------------------------------------------------
(* The handlers: their calls of the provider.                              *)

(* CreateSubscription; the record's id is the provider's.                  *)
Order(p) ==
  /\ At(p, "order")
  /\ \/ \E s \in Sub :
          /\ Fresh(s) /\ \A q \in Proc : sub[q] # s
          /\ rstatus' = [rstatus EXCEPT ![s] = "created"]
          /\ rplan' = [rplan EXCEPT ![s] = tier[p]]
          /\ sub' = [sub EXCEPT ![p] = s]
          /\ todo' = [todo EXCEPT ![p] = Tail(@)]
          /\ UNCHANGED <<tier, event, faults>>
     \/ Fault /\ Proceed(p, <<>>) /\ UNCHANGED <<rstatus, rplan>>
  /\ UNCHANGED <<rnext, rperiod, rpays, paid, inbox>>

(* CancelSubscription at once; its error is only logged.                   *)
CancelNow(p) ==
  LET s == sub[p] IN
  /\ At(p, "cancelNow")
  /\ IF rstatus[s] \in Open
     THEN \/ /\ rstatus' = [rstatus EXCEPT ![s] = "cancelled"]
             /\ UNCHANGED <<rplan, rnext, rperiod, rpays, paid, faults>>
             /\ Emit({Webhook("cancelled", s)})
          \/ Fault /\ UNCHANGED <<providerVars, inbox>>
     ELSE UNCHANGED <<providerVars, inbox, faults>>
  /\ Proceed(p, Rest(p))

Updatable(s) == rstatus[s] \in {"authenticated", "active"}

(* Mutant of PlanNow: its error is only logged.                            *)
PlanNowLogged(p) ==
  LET s == sub[p] IN
  /\ At(p, "planNow")
  /\ \/ /\ Updatable(s)
        /\ rplan' = [rplan EXCEPT ![s] = tier[p]]
        /\ paid' = Larger(paid, tier[p])
        /\ UNCHANGED <<rstatus, rnext, rperiod, rpays, faults>>
        /\ Emit({Webhook("updated", s)})
     \/ /\ (~Updatable(s) /\ UNCHANGED faults) \/ Fault
        /\ UNCHANGED <<providerVars, inbox>>
  /\ Proceed(p, Rest(p))

(* UpdateSubscription "now"; an error ends the handler.                    *)
PlanNow(p) ==
  LET s == sub[p] IN
  /\ At(p, "planNow")
  /\ \/ /\ Updatable(s)
        /\ rplan' = [rplan EXCEPT ![s] = tier[p]]
        /\ paid' = Larger(paid, tier[p])
        /\ UNCHANGED <<rstatus, rnext, rperiod, rpays, faults>>
        /\ Emit({Webhook("updated", s)})
        /\ Proceed(p, Rest(p))
     \/ /\ (~Updatable(s) /\ UNCHANGED faults) \/ Fault
        /\ Proceed(p, <<>>)
        /\ UNCHANGED <<providerVars, inbox>>

(* UpdateSubscription "cycle_end"; an error ends the handler.              *)
PlanLater(p) ==
  LET s == sub[p] IN
  /\ At(p, "planLater")
  /\ \/ /\ Updatable(s)
        /\ rnext' = [rnext EXCEPT ![s] = tier[p]]
        /\ UNCHANGED faults
        /\ Proceed(p, Rest(p))
     \/ /\ (~Updatable(s) /\ UNCHANGED faults) \/ Fault
        /\ Proceed(p, <<>>)
        /\ UNCHANGED rnext
  /\ UNCHANGED <<rstatus, rplan, rperiod, rpays, paid, inbox>>

(* CancelSubscription at the end of the cycle; its error is only logged.   *)
StopLater(p) ==
  LET s == sub[p] IN
  /\ At(p, "stopLater")
  /\ \/ /\ rnext' = IF rstatus[s] \in Open THEN [rnext EXCEPT ![s] = 0] ELSE rnext
        /\ UNCHANGED faults
     \/ Fault /\ UNCHANGED rnext
  /\ Proceed(p, Rest(p))
  /\ UNCHANGED <<rstatus, rplan, rperiod, rpays, paid, inbox>>

(* FetchSubscription; without an answer "active" and a month are assumed.  *)
Fetch(p) ==
  LET s == sub[p]
      Found(x, t) == [kind |-> "fetched", sub |-> s, plan |-> rplan[s],
                      status |-> x, period |-> t, pay |-> 0] IN
  /\ At(p, "fetch")
  /\ \/ /\ event' = [event EXCEPT ![p] =
             Found(IF rstatus[s] = "created" THEN "active" ELSE rstatus[s],
                   IF rperiod[s] = "null" THEN "future" ELSE rperiod[s])]
        /\ UNCHANGED faults
     \/ event' = [event EXCEPT ![p] = Found("active", "future")] /\ Fault
  /\ todo' = [todo EXCEPT ![p] = Tail(@)]
  /\ UNCHANGED <<sub, tier, providerVars, inbox>>

ProviderCall(p) ==
  /\ \/ Order(p) \/ CancelNow(p) \/ PlanNow(p) \/ PlanLater(p) \/ StopLater(p)
     \/ Fetch(p)
  /\ UNCHANGED <<rowVars, limits, receipts, sched, requests>>

-----------------------------------------------------------------------------
(* The handlers: their statements about the row.                           *)

(* Mutant of Insert: nothing is compensated.                               *)
InsertOnly(p) ==
  LET s == sub[p] IN
  /\ At(p, "insert")
  /\ IF NoCurrent
     THEN /\ status' = [status EXCEPT ![s] = "created"]
          /\ package' = [package EXCEPT ![s] = tier[p]]
     ELSE UNCHANGED <<status, package>>
  /\ Proceed(p, <<>>)
  /\ UNCHANGED <<pending, cancelEnd, period, faults>>

(* Create of a subscription that awaits its payment; when the statement    *)
(* fails the provider's record is cancelled.                               *)
Insert(p) ==
  LET s == sub[p] IN
  /\ At(p, "insert")
  /\ \/ /\ NoCurrent
        /\ status' = [status EXCEPT ![s] = "created"]
        /\ package' = [package EXCEPT ![s] = tier[p]]
        /\ UNCHANGED faults
        /\ Proceed(p, <<>>)
     \/ /\ (~NoCurrent /\ UNCHANGED faults) \/ Fault
        /\ UNCHANGED <<status, package>>
        /\ Proceed(p, <<"cancelNow">>)
  /\ UNCHANGED <<pending, cancelEnd, period>>

(* Create of the admin's subscription: active, without the provider.       *)
Assign(p) ==
  /\ At(p, "assign")
  /\ \/ \E s \in Sub :
          /\ NoCurrent /\ Fresh(s) /\ \A q \in Proc : sub[q] # s
          /\ status' = [status EXCEPT ![s] = "active"]
          /\ package' = [package EXCEPT ![s] = tier[p]]
          /\ period' = [period EXCEPT ![s] = "future"]
          /\ Proceed(p, Rest(p))
     \/ /\ ~NoCurrent
        /\ UNCHANGED <<status, package, period>>
        /\ Proceed(p, <<>>)
  /\ UNCHANGED <<pending, cancelEnd, faults>>

(* Mutant of StatusOf: the event's name is the row's status.               *)
StatusOfName(e) == e.kind

StatusOf(e) ==
  CASE e.kind \in {"activated", "charged"} -> "active"
    [] e.kind \in {"updated", "fetched"} -> e.status
    [] OTHER -> e.kind

(* UpdateStatus: whatever the status was; a period that is not known stays.*)
Apply(p) ==
  LET s == sub[p]
      e == event[p] IN
  /\ At(p, "apply")
  /\ IF Allowed(s, StatusOf(e))
     THEN /\ status' = [status EXCEPT ![s] = StatusOf(e)]
          /\ period' = [period EXCEPT ![s] = IF e.period = "null" THEN @
                                             ELSE e.period]
          /\ Proceed(p, Rest(p))
     ELSE UNCHANGED <<status, period>> /\ Proceed(p, <<>>)
  /\ UNCHANGED <<package, pending, cancelEnd, faults>>

(* UpdateStatus and SetCancellation; Subscribe ignores their errors.       *)
CancelRow(p) ==
  LET s == sub[p] IN
  /\ At(p, "cancelRow")
  /\ \/ /\ status' = [status EXCEPT ![s] = "cancelled"]
        /\ cancelEnd' = [cancelEnd EXCEPT ![s] = FALSE]
        /\ UNCHANGED faults
     \/ "revert" \notin Range(todo[p]) /\ Fault /\ UNCHANGED <<status, cancelEnd>>
  /\ Proceed(p, Rest(p))
  /\ UNCHANGED <<package, pending, period>>

SetCancellation(p) ==
  /\ At(p, "stopRow") \/ At(p, "unstop")
  /\ cancelEnd' = [cancelEnd EXCEPT ![sub[p]] = At(p, "stopRow")]
  /\ Proceed(p, Rest(p))
  /\ UNCHANGED <<status, package, pending, period, faults>>

SetPendingDowngrade(p) ==
  /\ At(p, "pend") \/ At(p, "unpend")
  /\ pending' = [pending EXCEPT ![sub[p]] = IF At(p, "pend") THEN tier[p] ELSE NoTier]
  /\ Proceed(p, Rest(p))
  /\ UNCHANGED <<status, package, cancelEnd, period, faults>>

UpdatePackageID(p) ==
  LET s == sub[p] IN
  /\ At(p, "setPackage")
  /\ package' = [package EXCEPT ![s] = tier[p]]
  /\ pending' = [pending EXCEPT ![s] = NoTier]
  /\ Proceed(p, Rest(p))
  /\ UNCHANGED <<status, cancelEnd, period, faults>>

RowCall(p) ==
  /\ \/ Insert(p) \/ Assign(p) \/ Apply(p) \/ CancelRow(p)
     \/ SetCancellation(p) \/ SetPendingDowngrade(p) \/ UpdatePackageID(p)
  /\ UNCHANGED <<limits, receipts, providerVars, inbox, sched, requests>>

-----------------------------------------------------------------------------
(* The handlers: limits, receipts, acknowledgement.                        *)

(* UpdateStorageLimits; an error is only logged, but AdminCancel ends.     *)
UpdateStorageLimits(p) ==
  /\ At(p, "grant") \/ At(p, "revert")
  /\ \/ limits' = (IF At(p, "grant") THEN tier[p] ELSE 0) /\ UNCHANGED faults
     \/ event[p] # NoEvent /\ Fault /\ UNCHANGED limits
  /\ Proceed(p, Rest(p))
  /\ UNCHANGED <<receipts, inbox>>

PaymentOf(p) == IF event[p] # NoEvent /\ event[p].kind = "charged"
                THEN event[p].pay ELSE 1

(* RecordCharge looks for the payment; Verify's handler first looks at the *)
(* package it read again.                                                  *)
RecordCharge(p) ==
  LET s == sub[p] IN
  /\ At(p, "receipt")
  /\ Proceed(p, IF \/ receipts[s][PaymentOf(p)] > 0
                   \/ event[p] # NoEvent /\ event[p].kind = "fetched" /\ package[s] = 0
                THEN Rest(p) ELSE <<"insertReceipt">> \o Rest(p))
  /\ UNCHANGED <<limits, receipts, inbox, faults>>

(* Its insert; nothing in the table keeps a payment unique.                *)
InsertReceipt(p) ==
  /\ At(p, "insertReceipt")
  /\ receipts' = [receipts EXCEPT ![sub[p]][PaymentOf(p)] = @ + 1]
  /\ Proceed(p, Rest(p))
  /\ UNCHANGED <<limits, inbox, faults>>

(* Record: the webhook is acknowledged, and skipped if it comes again.     *)
Record(p) ==
  /\ At(p, "record")
  /\ inbox' = inbox \ {event[p]}
  /\ Proceed(p, Rest(p))
  /\ UNCHANGED <<limits, receipts, faults>>

OtherCall(p) ==
  /\ \/ UpdateStorageLimits(p) \/ RecordCharge(p) \/ InsertReceipt(p) \/ Record(p)
  /\ UNCHANGED <<rowVars, providerVars, sched, requests>>

(* A database error that is not ignored, or a restart, ends a handler; a   *)
(* webhook will come again.                                                *)
Abandon(p) ==
  /\ todo[p] # <<>> /\ Fault
  /\ Proceed(p, <<>>)
  /\ UNCHANGED <<rowVars, limits, receipts, providerVars, inbox, sched, requests>>

Step(p) == ProviderCall(p) \/ RowCall(p) \/ OtherCall(p)

-----------------------------------------------------------------------------
(* ProcessScheduledDowngrades, every hour.                                 *)

ListPendingDowngrades ==
  /\ sched = Idle
  /\ sched' = [Idle EXCEPT !.at = "downgrade",
       !.batch = {<<s, pending[s]>> : s \in {t \in Sub :
                    pending[t] # NoTier /\ period[t] = "past"}}]
  /\ UNCHANGED <<rowVars, limits, faults>>

(* The target package is applied to the row, whatever its status ...       *)
ApplyDowngrade(x) ==
  /\ sched.at = "downgrade"
  /\ \/ /\ package' = [package EXCEPT ![x[1]] = x[2]]
        /\ pending' = [pending EXCEPT ![x[1]] = NoTier]
        /\ sched' = [at |-> "downgradeLimits", batch |-> sched.batch \ {x},
                     tier |-> x[2]]
        /\ UNCHANGED faults
     \/ /\ Fault
        /\ sched' = [sched EXCEPT !.batch = @ \ {x}]
        /\ UNCHANGED <<package, pending>>
  /\ UNCHANGED <<status, cancelEnd, period, limits>>

(* ... and then to the user's limits.                                      *)
DowngradeLimits ==
  /\ sched.at = "downgradeLimits"
  /\ \/ limits' = sched.tier /\ UNCHANGED faults
     \/ Fault /\ UNCHANGED limits
  /\ sched' = [sched EXCEPT !.at = "downgrade", !.tier = NoTier]
  /\ UNCHANGED rowVars

(* Mutant of ListExpiringOrExpired: of cancelled subscriptions only.       *)
ListCancelled ==
  /\ sched.at = "downgrade" /\ sched.batch = {}
  /\ sched' = [Idle EXCEPT !.batch = {<<s, NoTier>> : s \in {t \in Sub :
        status[t] = "active" /\ period[t] = "past" /\ cancelEnd[t]}}]
  /\ UNCHANGED <<rowVars, limits, faults>>

ListExpiringOrExpired ==
  /\ sched.at = "downgrade" /\ sched.batch = {}
  /\ sched' = [Idle EXCEPT !.batch = {<<s, NoTier>> : s \in {t \in Sub :
                                        status[t] = "active" /\ period[t] = "past"}}]
  /\ UNCHANGED <<rowVars, limits, faults>>

(* The error of either statement is ignored.                               *)
Expire(x) ==
  /\ sched.at = "expire"
  /\ \/ status' = [status EXCEPT ![x[1]] = "expired"] /\ UNCHANGED faults
     \/ Fault /\ UNCHANGED status
  /\ sched' = [sched EXCEPT !.at = "expireLimits", !.batch = @ \ {x}]
  /\ UNCHANGED <<package, pending, cancelEnd, period, limits>>

ExpireLimits ==
  /\ sched.at = "expireLimits"
  /\ \/ limits' = 0 /\ UNCHANGED faults
     \/ Fault /\ UNCHANGED limits
  /\ sched' = [sched EXCEPT !.at = "expire"]
  /\ UNCHANGED rowVars

ProcessScheduledDowngrades ==
  /\ \/ ListPendingDowngrades \/ DowngradeLimits
     \/ ListExpiringOrExpired \/ ExpireLimits
     \/ \E x \in sched.batch : ApplyDowngrade(x) \/ Expire(x)
  /\ UNCHANGED <<receipts, providerVars, inbox, procVars, requests>>

-----------------------------------------------------------------------------
Next ==
  \/ Provider \/ Tick
  \/ \E p \in Proc : Request(p) \/ Webhooks(p) \/ Step(p) \/ Abandon(p)
  \/ ProcessScheduledDowngrades

Spec == Init /\ [][Next]_vars

(* The ticker fires, and a handler that has begun goes on.  Users and the  *)
(* admin need do nothing, and the provider may never be heard of again.    *)
Fairness ==
  /\ WF_vars(ProcessScheduledDowngrades)
  /\ \A p \in Proc : WF_vars(Step(p))

FairSpec == Spec /\ Fairness

-----------------------------------------------------------------------------
(* Properties.                                                             *)

(* Nobody is billed for a subscription ByteVault does not know, or has     *)
(* cancelled itself: unless a call failed, such a record of the provider   *)
(* is ended or about to be (Subscribe's compensation, AdminCancel).        *)
NoUntrackedBilling ==
  faults = 0 =>
    \A s \in Sub :
      (status[s] \in {"none", "cancelled"} /\ rstatus[s] \in Open) =>
        \E p \in Proc : sub[p] = s /\ (At(p, "insert") \/ At(p, "cancelNow"))

(* A payment has at most as many receipts as handlers can find it missing  *)
(* at the same time (RecordCharge).                                        *)
ReceiptsBounded ==
  \A s \in Sub, i \in 1 .. MaxPays : receipts[s][i] <= Cardinality(Proc)

(* What the provider bills is known here, and recorded.                    *)
BillingIsTracked == NoUntrackedBilling /\ ReceiptsBounded

(* A user without a subscription given by the admin never has the limits   *)
(* of a tier above the highest paid for, in whatever order webhooks,       *)
(* handlers and the scheduler come, and whatever fails.                    *)
NoUnpaidLimits ==
  (\A s \in Sub : Exists(s) => Billed(s)) => limits <= paid

(* An active subscription whose period is over does not stay so: it is     *)
(* renewed, or the scheduler ends it although statements may fail.         *)
LapsedEnds ==
  \A s \in Sub :
    (status[s] = "active" /\ period[s] = "past")
      ~> (status[s] # "active" \/ period[s] # "past")

(* A downgrade that is due is applied or revoked, or the period renewed.   *)
DueDowngradeEnds ==
  \A s \in Sub :
    (pending[s] # NoTier /\ period[s] = "past")
      ~> (pending[s] = NoTier \/ period[s] # "past")

(* Both: the end of a period has its consequence (ProcessScheduledDown-    *)
(* grades, although the errors of its statements are ignored).             *)
PeriodsEnd == LapsedEnds /\ DueDowngradeEnds

=============================================================================
