-------------------------- MODULE Subscription_proofs --------------------------
(***************************************************************************)
(* Proofs about Subscription, for any subscriptions, packages, numbers of  *)
(* handlers, requests and faults.                                          *)
(***************************************************************************)
EXTENDS Subscription, FiniteSetTheorems, TLAPS

-----------------------------------------------------------------------------
(* What a handler has left to do says what it knows.                       *)

Left(p)   == Range(todo[p])
Has(p, c) == c \in Left(p)

(* The calls that need a row or the provider's record, those that need a   *)
(* package.                                                                *)
OfRow  == Call \ {"order", "insert", "assign", "grant", "revert", "record"}
OfTier == {"order", "insert", "grant", "planNow", "planLater", "pend", "assign", "setPackage"}

(* Nothing follows the insert of an order, and an order is followed by its *)
(* insert; a receipt is inserted at once after it was looked for, and what *)
(* a handler fetches, cancels or changes with the provider it does first.  *)
First == {"insertReceipt", "fetch", "cancelNow", "planNow"}

Follows(c, d) ==      \* d may come after c
  /\ c # "insert" /\ d \notin First
  /\ c = "order" => d = "insert"
  /\ c = "grant" => d # "assign"

Ordered(t) == \A i, j \in DOMAIN t : i < j => Follows(t[i], t[j])

(* The provider has been paid for it once.                                 *)
Paying == {"authenticated", "active", "pending", "halted"}

(* What a webhook or an answer of the provider says was so, and what it    *)
(* says of payments and cancellation stays so.                             *)
EventOK(e) ==
  /\ e \in Event /\ StatusOf(e) # "none"
  /\ e.kind = "charged" => e.pay > 0
  /\ e.kind = "updated" => e.status \in Paying
  /\ StatusOf(e) \in Paying => rpays[e.sub] > 0
  /\ StatusOf(e) = "cancelled" => rstatus[e.sub] = "cancelled"

CallOK(p) ==
  /\ todo[p] \in Seq(Call) /\ Ordered(todo[p])
  /\ sub[p] \in Sub \cup {NoSub} /\ tier[p] \in Tier \cup {NoTier}
  /\ Left(p) \cap OfRow # {} => sub[p] \in Sub
  /\ Has(p, "insert") /\ ~Has(p, "order") => sub[p] \in Sub
  /\ Left(p) \cap OfTier # {} => tier[p] \in Tier
  /\ event[p] # NoEvent => EventOK(event[p]) /\ event[p].sub = sub[p]
  /\ Has(p, "record") => event[p] # NoEvent
  /\ Has(p, "apply") /\ ~Has(p, "fetch") => event[p] # NoEvent
  /\ Has(p, "order") => Has(p, "insert") /\ event[p] = NoEvent /\ ~Has(p, "fetch")
  /\ Has(p, "fetch") => rpays[sub[p]] > 0

RecordOK(s) ==
  /\ rstatus[s] \in Paying => rpays[s] > 0
  /\ rstatus[s] = "none" => rpays[s] = 0 /\ rplan[s] = 0

SchedOK ==
  /\ sched.at \in {"downgrade", "downgradeLimits"} => sched.batch \subseteq Sub \X Tier
  /\ sched.at = "downgradeLimits" <=> sched.tier # NoTier

Shape ==
  /\ TypeOK
  /\ \A s \in Sub : RecordOK(s)
  /\ \A e \in inbox : EventOK(e)
  /\ \A p \in Proc : CallOK(p)
  /\ SchedOK

(* What the provider cancels before the row does is cancelled for good.    *)
TrackedInv ==
  /\ NoUntrackedBilling
  /\ faults = 0 =>
       \A p \in Proc :
         Has(p, "cancelRow") /\ ~Has(p, "cancelNow") => rstatus[sub[p]] \notin Open

(* Handlers that found no receipt of a payment and are about to insert one.*)
Waiting(s, i) == {p \in Proc : At(p, "insertReceipt") /\ sub[p] = s /\ PaymentOf(p) = i}

ReceiptInv ==
  \A s \in Sub, i \in 1 .. MaxPays :
    receipts[s][i] + Cardinality(Waiting(s, i)) <= Cardinality(Proc)

(* A package fits a subscription if it has been paid for, or will be by    *)
(* its first payment.                                                      *)
Fits(s, k) == IF rpays[s] > 0 THEN k <= paid ELSE k <= rplan[s]

PaidCall(p) ==
  /\ Has(p, "planLater") \/ Has(p, "pend") => rpays[sub[p]] > 0 /\ tier[p] <= paid
  /\ Has(p, "setPackage") => rpays[sub[p]] > 0 /\ ~Has(p, "assign")
  /\ (Has(p, "setPackage") \/ Has(p, "grant")) /\ ~Has(p, "planNow") /\ ~Has(p, "assign")
       => tier[p] <= paid
  /\ Has(p, "insert") /\ ~Has(p, "order") => Fits(sub[p], tier[p])
  /\ event[p] # NoEvent /\ event[p].kind = "updated" => event[p].plan <= paid

AllBilled == \A s \in Sub : Exists(s) => Billed(s)

RowPaid(s) ==
  /\ Fits(s, package[s])
  /\ status[s] = "active" => rpays[s] > 0
  /\ pending[s] # NoTier => pending[s] <= paid /\ rpays[s] > 0

RecordPaid(s) ==
  /\ rpays[s] > 0 => rplan[s] <= paid
  /\ rnext[s] # NoTier => rnext[s] <= paid

EventsPaid == \A e \in inbox : e.kind = "updated" => e.plan <= paid

BatchPaid ==
  /\ \A x \in sched.batch : x[2] # NoTier => x[2] <= paid /\ rpays[x[1]] > 0
  /\ sched.tier # NoTier => sched.tier <= paid

Paid ==
  /\ limits <= paid
  /\ \A s \in Sub : RowPaid(s) /\ RecordPaid(s)
  /\ EventsPaid /\ BatchPaid
  /\ \A p \in Proc : PaidCall(p)

PaidInv == AllBilled => Paid

-----------------------------------------------------------------------------
(* Sequences of calls.                                                     *)

LEMMA RangeTail ==
  ASSUME NEW S, NEW t \in Seq(S), t # <<>>
  PROVE  /\ Tail(t) \in Seq(S) /\ Head(t) \in S
         /\ Range(t) = {Head(t)} \cup Range(Tail(t))
<1>1. /\ Tail(t) \in Seq(S) /\ Head(t) \in S
      /\ DOMAIN t = 1 .. Len(t) /\ Len(t) \in Nat \ {0} /\ DOMAIN Tail(t) = 1 .. (Len(t) - 1)
      /\ \A i \in 1 .. (Len(t) - 1) : Tail(t)[i] = t[i + 1]
      /\ Head(t) = t[1]
  OBVIOUS
<1>2. PICK u : u = Tail(t)
  OBVIOUS
<1>3. \A i \in DOMAIN u : i + 1 \in DOMAIN t /\ u[i] = t[i + 1]
  BY <1>1, <1>2
<1>4. \A i \in DOMAIN t : i = 1 \/ (i - 1 \in DOMAIN u /\ u[i - 1] = t[i])
  BY <1>1, <1>2
<1>5. 1 \in DOMAIN t
  BY <1>1
<1>6. Range(t) = {t[1]} \cup Range(u)
  BY <1>3, <1>4, <1>5 DEF Range
<1>. QED
  BY <1>1, <1>2, <1>6

LEMMA OrderedTail ==
  ASSUME NEW S, NEW t \in Seq(S), t # <<>>, Ordered(t)
  PROVE  /\ Ordered(Tail(t))
         /\ First \cap Range(Tail(t)) = {}
         /\ Head(t) = "order" => Range(Tail(t)) \subseteq {"insert"}
         /\ Head(t) = "insert" => Range(Tail(t)) = {}
         /\ Head(t) = "grant" => "assign" \notin Range(Tail(t))
<1>1. /\ DOMAIN t = 1 .. Len(t) /\ Len(t) \in Nat \ {0} /\ DOMAIN Tail(t) = 1 .. (Len(t) - 1)
      /\ \A i \in 1 .. (Len(t) - 1) : Tail(t)[i] = t[i + 1]
      /\ Head(t) = t[1]
  OBVIOUS
<1>2. PICK u : u = Tail(t)
  OBVIOUS
<1>3. \A i \in DOMAIN u : i + 1 \in DOMAIN t /\ u[i] = t[i + 1] /\ 1 < i + 1 /\ 1 \in DOMAIN t
  BY <1>1, <1>2
<1>4. \A i, j \in DOMAIN u : i < j => i + 1 < j + 1
  BY <1>1, <1>2
<1>5. Ordered(u)
  BY <1>3, <1>4 DEF Ordered
<1>6. /\ First \cap Range(u) = {}
      /\ t[1] = "order" => Range(u) \subseteq {"insert"}
      /\ t[1] = "insert" => Range(u) = {}
      /\ t[1] = "grant" => "assign" \notin Range(u)
  BY <1>3 DEF Ordered, Follows, Range
<1>. QED
  BY <1>1, <1>2, <1>5, <1>6

LEMMA EmptyRange ==
  Range(<<>>) = {} /\ Ordered(<<>>) /\ \A S : <<>> \in Seq(S)
BY DEF Range, Ordered

(* A receipt is to be inserted before the rest.                            *)
LEMMA RangeCons ==
  ASSUME NEW S, NEW c \in S, NEW t \in Seq(S)
  PROVE  LET u == <<c>> \o t
         IN  u \in Seq(S) /\ u # <<>> /\ Head(u) = c /\ Tail(u) = t /\ Range(u) = {c} \cup Range(t)
<1>. DEFINE u == <<c>> \o t
<1>1. u \in Seq(S) /\ u # <<>> /\ Head(u) = c /\ Tail(u) = t
  OBVIOUS
<1>2. Range(u) = {c} \cup Range(t)
  <2>. HIDE DEF u
  <2>. QED
    BY <1>1, RangeTail
<1>. QED
  BY <1>1, <1>2

LEMMA OrderedCons ==
  ASSUME NEW S, NEW t \in Seq(S), Ordered(t),
         First \cap Range(t) = {}
  PROVE  Ordered(<<"insertReceipt">> \o t)
<1>1. PICK u : u = <<"insertReceipt">> \o t
  OBVIOUS
<1>2. /\ DOMAIN u = 1 .. (Len(t) + 1) /\ u[1] = "insertReceipt" /\ DOMAIN t = 1 .. Len(t)
      /\ Len(t) \in Nat
      /\ \A i \in 1 .. Len(t) : u[i + 1] = t[i]
  BY <1>1
<1>3. ASSUME NEW i \in DOMAIN u, NEW j \in DOMAIN u, i < j
      PROVE  Follows(u[i], u[j])
  <2>1. j - 1 \in DOMAIN t /\ u[j] = t[j - 1]
    BY <1>2, <1>3
  <2>2. CASE i = 1
    BY <1>2, <2>1, <2>2 DEF Range, Follows
  <2>3. CASE i # 1
    <3>1. i - 1 \in DOMAIN t /\ u[i] = t[i - 1] /\ i - 1 < j - 1
      BY <1>2, <1>3, <2>3
    <3>. QED
      BY <2>1, <3>1 DEF Ordered
  <2>. QED
    BY <2>2, <2>3
<1>4. Ordered(u)
  BY <1>3 DEF Ordered
<1>. QED
  BY <1>1, <1>4

LEMMA CallTails ==
  ASSUME NEW p, todo[p] \in Seq(Call), todo[p] # <<>>
  PROVE  /\ Rest(p) \in Seq(Call) /\ Head(todo[p]) \in Call
         /\ Left(p) = {Head(todo[p])} \cup Range(Rest(p))
BY RangeTail DEF Rest, Left

-----------------------------------------------------------------------------
(* Shape in parts.                                                         *)

Rows ==
  /\ status \in [Sub -> Status] /\ package \in [Sub -> Tier]
  /\ pending \in [Sub -> Tier \cup {NoTier}] /\ cancelEnd \in [Sub -> BOOLEAN]
  /\ period \in [Sub -> Period]

Records ==
  /\ rstatus \in [Sub -> Status] /\ rplan \in [Sub -> Tier]
  /\ rnext \in [Sub -> Tier \cup {NoTier}] /\ rperiod \in [Sub -> Period]
  /\ rpays \in [Sub -> 0 .. MaxPays] /\ paid \in Tier
  /\ \A s \in Sub : RecordOK(s)

Others ==
  /\ limits \in Tier /\ receipts \in [Sub -> [1 .. MaxPays -> Nat]]
  /\ requests \in 0 .. MaxRequests /\ faults \in 0 .. MaxFaults

InboxOK == \A e \in inbox : EventOK(e)

ProcTypes ==
  /\ todo \in [Proc -> Seq(Call)] /\ sub \in [Proc -> Sub \cup {NoSub}]
  /\ tier \in [Proc -> Tier \cup {NoTier}] /\ event \in [Proc -> Event \cup {NoEvent}]

Procs == ProcTypes /\ \A p \in Proc : CallOK(p)

SchedType ==
  sched \in [at : {"downgrade", "downgradeLimits", "expire", "expireLimits"},
             batch : SUBSET (Sub \X (Tier \cup {NoTier})),
             tier : Tier \cup {NoTier}]

Scheds == SchedType /\ SchedOK

LEMMA Parts ==
  ASSUME Shape
  PROVE  Rows /\ Records /\ Others /\ InboxOK /\ Procs /\ Scheds
BY DEF Shape, TypeOK, Rows, Records, Others, InboxOK, Procs, ProcTypes, Scheds, SchedType

LEMMA PartsNext ==
  ASSUME Rows', Records', Others', InboxOK', Procs', Scheds'
  PROVE  Shape'
<1>1. inbox' \subseteq Event
  BY DEF InboxOK, EventOK
<1>. QED
  BY <1>1 DEF Shape, TypeOK, Rows, Records, Others, InboxOK, Procs, ProcTypes, Scheds, SchedType

(* The parts that a step leaves alone.                                     *)
LEMMA SameRows ==
  ASSUME Shape, UNCHANGED rowVars
  PROVE  Rows'
BY Parts DEF Rows, rowVars

LEMMA SameScheds ==
  ASSUME Shape, UNCHANGED sched
  PROVE  Scheds'
BY Parts DEF Scheds, SchedType, SchedOK

LEMMA SameRecords ==
  ASSUME Shape, UNCHANGED providerVars
  PROVE  Records'
BY Parts DEF Records, RecordOK, providerVars

LEMMA SameOthers ==
  ASSUME Shape, UNCHANGED <<limits, receipts>>, requests' \in 0 .. MaxRequests,
         faults' = faults \/ Fault
  PROVE  Others'
BY Parts, NumberAssumption DEF Others, Fault

(* What the provider was paid and what it has cancelled, stays.            *)
Keeps ==
  \A s \in Sub : /\ rpays[s] > 0 => rpays'[s] > 0
                 /\ rstatus[s] = "cancelled" => rstatus'[s] = "cancelled"

LEMMA SameKeeps ==
  ASSUME UNCHANGED providerVars
  PROVE  Keeps
BY DEF Keeps, providerVars

LEMMA EventStays ==
  ASSUME Keeps, NEW e, EventOK(e)
  PROVE  EventOK(e)'
<1>1. e.sub \in Sub
  BY DEF EventOK, Event
<1>. QED
  BY <1>1 DEF EventOK, Keeps, StatusOf

LEMMA InboxStays ==
  ASSUME Shape, Keeps, inbox' \subseteq inbox
  PROVE  InboxOK'
BY Parts, EventStays DEF InboxOK

-----------------------------------------------------------------------------
(* How handlers go on.                                                     *)

Stays(q) == todo'[q] = todo[q] /\ sub'[q] = sub[q] /\ tier'[q] = tier[q] /\ event'[q] = event[q]

Ends(p) == todo'[p] = <<>> /\ sub'[p] = NoSub /\ tier'[p] = NoTier /\ event'[p] = NoEvent

Continues(p, t) == todo'[p] = t /\ sub'[p] = sub[p] /\ tier'[p] = tier[p] /\ event'[p] = event[p]

LEMMA ProceedsTo ==
  ASSUME Shape, NEW p \in Proc, NEW t \in Seq(Call), Proceed(p, t)
  PROVE  /\ ProcTypes' /\ \A q \in Proc \ {p} : Stays(q)
         /\ t = <<>> => Ends(p)
         /\ t # <<>> => Continues(p, t)
<1>1. ProcTypes
  BY Parts DEF Procs
<1>2. ProcTypes'
  BY <1>1 DEF ProcTypes, Proceed
<1>3. \A q \in Proc \ {p} : Stays(q)
  BY <1>1 DEF ProcTypes, Proceed, Stays
<1>4. t = <<>> => Ends(p)
  BY <1>1 DEF ProcTypes, Proceed, Ends
<1>5. t # <<>> => Continues(p, t)
  BY <1>1 DEF ProcTypes, Proceed, Continues
<1>. QED
  BY <1>2, <1>3, <1>4, <1>5

LEMMA CallStays ==
  ASSUME Keeps, NEW q, CallOK(q), Stays(q)
  PROVE  CallOK(q)'
<1>1. PICK e : e = event[q]
  OBVIOUS
<1>2. e # NoEvent => EventOK(e) /\ EventOK(e)' /\ e.sub = sub[q]
  BY <1>1, EventStays DEF CallOK
<1>3. Left(q)' = Left(q) /\ (Has(q, "fetch") => sub[q] \in Sub)
  BY DEF Stays, Left, CallOK, OfRow, Call, Has
<1>4. Has(q, "fetch") => rpays'[sub[q]] > 0
  BY <1>3 DEF CallOK, Keeps
<1>5. event'[q] # NoEvent => EventOK(event[q])' /\ event'[q].sub = sub'[q]
  BY <1>1, <1>2 DEF Stays
<1>. QED
  BY <1>3, <1>4, <1>5 DEF Stays, CallOK, Has

LEMMA CallEnds ==
  ASSUME NEW p, Ends(p)
  PROVE  CallOK(p)' /\ Left(p)' = {}
BY EmptyRange DEF Ends, CallOK, Left, Has

LEMMA CallContinues ==
  ASSUME Keeps, NEW p, CallOK(p), todo[p] # <<>>, Continues(p, Rest(p)),
         Head(todo[p]) \notin {"order", "fetch"}
  PROVE  /\ CallOK(p)' /\ Left(p)' \subseteq Left(p)
         /\ \A c : Has(p, c) /\ ~Has(p, c)' => c = Head(todo[p])
<1>1. todo[p] \in Seq(Call) /\ Ordered(todo[p])
  BY DEF CallOK
<1>2. /\ Rest(p) \in Seq(Call) /\ Ordered(Rest(p)) /\ Left(p)' = Range(Rest(p))
      /\ Left(p) = {Head(todo[p])} \cup Range(Rest(p))
  BY <1>1, CallTails, OrderedTail DEF Continues, Left, Rest
<1>3. PICK e : e = event[p]
  OBVIOUS
<1>4. e # NoEvent => EventOK(e)' /\ e.sub = sub[p]
  BY <1>3, EventStays DEF CallOK
<1>5. event'[p] # NoEvent => EventOK(event[p])' /\ event'[p].sub = sub'[p]
  BY <1>3, <1>4 DEF Continues
<1>6. Has(p, "fetch") => sub[p] \in Sub /\ rpays'[sub[p]] > 0
  <2>1. Has(p, "fetch") => sub[p] \in Sub
    BY DEF CallOK, OfRow, Call, Has
  <2>. QED
    BY <2>1 DEF CallOK, Keeps
<1>7. Left(p)' \subseteq Left(p) /\ \A c : Has(p, c) /\ ~Has(p, c)' => c = Head(todo[p])
  BY <1>2 DEF Has
<1>8. Has(p, "order")' => Has(p, "insert")'
  <2>1. Head(todo[p]) = "insert" => Range(Rest(p)) = {}
    BY <1>1, OrderedTail DEF Rest
  <2>. QED
    BY <1>2, <1>7, <2>1 DEF CallOK, Has
<1>9. CallOK(p)'
  BY <1>2, <1>5, <1>6, <1>7, <1>8 DEF Continues, CallOK, Has
<1>. QED
  BY <1>7, <1>9

LEMMA ProcsGo ==
  ASSUME Shape, Keeps, NEW p \in Proc, ProcTypes', \A q \in Proc \ {p} : Stays(q), CallOK(p)'
  PROVE  Procs'
<1>1. \A q \in Proc \ {p} : CallOK(q)'
  BY Parts, CallStays DEF Procs
<1>. QED
  BY <1>1 DEF Procs

LEMMA SameProcs ==
  ASSUME Shape, Keeps, UNCHANGED procVars
  PROVE  Procs' /\ \A q \in Proc : Stays(q)
<1>1. \A q \in Proc : Stays(q)
  BY DEF procVars, Stays
<1>2. ProcTypes'
  BY Parts DEF procVars, Procs, ProcTypes
<1>. QED
  BY <1>1, <1>2, Parts, CallStays DEF Procs

(* What p has left is what it had, but for the call it made.               *)
Went(p) ==
  /\ \A q \in Proc \ {p} : Stays(q)
  /\ \/ Ends(p)
     \/ /\ Continues(p, Rest(p)) /\ Left(p)' \subseteq Left(p)
        /\ \A c : Has(p, c) /\ ~Has(p, c)' => c = Head(todo[p])

LEMMA Advances ==
  ASSUME Shape, Keeps, NEW p \in Proc, todo[p] # <<>>, Proceed(p, Rest(p)),
         Head(todo[p]) \notin {"order", "fetch"}
  PROVE  Procs' /\ Went(p)
<1>1. CallOK(p) /\ todo[p] \in Seq(Call)
  BY Parts DEF Procs, CallOK
<1>2. PICK t \in Seq(Call) : t = Rest(p)
  BY <1>1, CallTails
<1>3. /\ ProcTypes' /\ \A q \in Proc \ {p} : Stays(q)
      /\ t = <<>> => Ends(p)
      /\ t # <<>> => Continues(p, t)
  BY <1>2, ProceedsTo
<1>4. CASE t = <<>>
  BY <1>3, <1>4, CallEnds, ProcsGo DEF Went
<1>5. CASE t # <<>>
  BY <1>1, <1>2, <1>3, <1>5, CallContinues, ProcsGo DEF Went
<1>. QED
  BY <1>4, <1>5

LEMMA Fails ==
  ASSUME Shape, Keeps, NEW p \in Proc, Proceed(p, <<>>)
  PROVE  Procs' /\ Went(p) /\ Ends(p)
<1>1. /\ ProcTypes' /\ Ends(p)
      /\ \A q \in Proc \ {p} : Stays(q)
  BY ProceedsTo, EmptyRange
<1>. QED
  BY <1>1, CallEnds, ProcsGo DEF Went

LEMMA Calling ==
  ASSUME Shape, NEW p \in Proc, NEW c, At(p, c)
  PROVE  /\ todo[p] # <<>> /\ Head(todo[p]) = c /\ Has(p, c) /\ CallOK(p)
         /\ c \in OfRow => sub[p] \in Sub
         /\ c \in OfTier => tier[p] \in Tier
<1>1. CallOK(p) /\ todo[p] # <<>> /\ Head(todo[p]) = c /\ todo[p] \in Seq(Call)
  BY Parts DEF Procs, CallOK, At
<1>2. Has(p, c)
  BY <1>1, CallTails DEF Has
<1>. QED
  BY <1>1, <1>2 DEF CallOK, Has

(* A handler begins.                                                       *)
LEMMA Begins ==
  ASSUME Shape, Keeps, NEW p \in Proc, NEW s \in Sub \cup {NoSub}, NEW k \in Tier \cup {NoTier},
         NEW e \in Event \cup {NoEvent}, NEW t \in Seq(Call), Begin(p, s, k, e, t), Ordered(t),
         Range(t) \cap OfRow # {} => s \in Sub,
         "insert" \in Range(t) => "order" \in Range(t) \/ s \in Sub,
         Range(t) \cap OfTier # {} => k \in Tier,
         e # NoEvent => EventOK(e) /\ e.sub = s,
         "record" \in Range(t) => e # NoEvent,
         "apply" \in Range(t) => "fetch" \in Range(t) \/ e # NoEvent,
         "order" \in Range(t) => "insert" \in Range(t) /\ e = NoEvent /\ "fetch" \notin Range(t),
         "fetch" \in Range(t) => rpays[s] > 0
  PROVE  /\ Procs' /\ \A q \in Proc \ {p} : Stays(q)
         /\ todo'[p] = t /\ sub'[p] = s /\ tier'[p] = k /\ event'[p] = e /\ Left(p)' = Range(t)
<1>1. ProcTypes
  BY Parts DEF Procs
<1>2. /\ ProcTypes' /\ \A q \in Proc \ {p} : Stays(q)
      /\ todo'[p] = t /\ sub'[p] = s /\ tier'[p] = k /\ event'[p] = e
  BY <1>1 DEF ProcTypes, Begin, Stays
<1>3. Left(p)' = Range(t)
  BY <1>2 DEF Left
<1>4. e # NoEvent => EventOK(e)'
  BY EventStays
<1>5. "fetch" \in Range(t) => s \in Sub /\ rpays'[s] > 0
  BY DEF OfRow, Call, Keeps
<1>6. CallOK(p)'
  BY <1>2, <1>3, <1>4, <1>5 DEF CallOK, Has
<1>. QED
  BY <1>2, <1>3, <1>6, ProcsGo

-----------------------------------------------------------------------------
(* The provider.                                                           *)

LEMMA HookOK ==
  ASSUME Records', NEW s \in Sub, NEW k \in Kind \ {"fetched"}, NEW e, e = Webhook(k, s),
         k \in {"activated", "charged", "updated"} => rstatus'[s] \in Paying,
         k \in Paying => rpays'[s] > 0,
         k = "cancelled" => rstatus'[s] = "cancelled"
  PROVE  EventOK(e)' /\ e.sub = s /\ e.kind = k /\ e.plan = rplan'[s]
<1>1. /\ rstatus'[s] \in Status /\ rplan'[s] \in Tier /\ rperiod'[s] \in Period
      /\ rpays'[s] \in 0 .. MaxPays
  BY DEF Records
<1>2. /\ e.kind = k /\ e.sub = s /\ e.plan = rplan'[s] /\ e.status = rstatus'[s]
      /\ e.period = rperiod'[s] /\ e.pay = IF k = "charged" THEN rpays'[s] ELSE 0
  BY DEF Webhook
<1>3. e \in Event
  BY <1>1, NumberAssumption DEF Webhook, Event
<1>4. rstatus'[s] \in Paying => rpays'[s] > 0
  BY DEF Records, RecordOK
<1>5. StatusOf(e) = IF k \in {"activated", "charged"} THEN "active"
                    ELSE IF k = "updated" THEN rstatus'[s] ELSE k
  BY <1>2 DEF StatusOf
<1>6. StatusOf(e) # "none"
  BY <1>5 DEF Paying, Kind
<1>7. StatusOf(e) \in Paying => rpays'[s] > 0
  BY <1>4, <1>5 DEF Paying
<1>8. StatusOf(e) = "cancelled" => rstatus'[s] = "cancelled"
  BY <1>5 DEF Paying
<1>. QED
  BY <1>2, <1>3, <1>4, <1>6, <1>7, <1>8 DEF EventOK, StatusOf

LEMMA Emits ==
  ASSUME Shape, Keeps, NEW E, Emit(E), \A e \in E : EventOK(e)'
  PROVE  InboxOK' /\ inbox' \subseteq inbox \cup E
<1>1. inbox' \subseteq inbox \cup E
  BY DEF Emit
<1>. QED
  BY <1>1, Parts, EventStays DEF InboxOK

(* A record changes.                                                       *)
LEMMA RecordTypes ==
  ASSUME Shape, NEW s \in Sub
  PROVE  /\ rstatus[s] \in Status /\ rplan[s] \in Tier /\ rnext[s] \in Tier \cup {NoTier}
         /\ rpays[s] \in 0 .. MaxPays /\ paid \in Tier /\ RecordOK(s)
         /\ MaxTier \in Nat /\ MaxPays \in Nat /\ Tier = 0 .. MaxTier
         /\ status[s] \in Status /\ package[s] \in Tier /\ pending[s] \in Tier \cup {NoTier}
BY Parts, NumberAssumption DEF Records, Rows, Tier

(* What a step may do to the provider's record of s.                       *)
Changes(s) ==
  /\ \A t \in Sub \ {s} : rstatus'[t] = rstatus[t] /\ rplan'[t] = rplan[t] /\ rpays'[t] = rpays[t]
  /\ rstatus' \in [Sub -> Status] /\ rplan' \in [Sub -> Tier]
  /\ rnext' \in [Sub -> Tier \cup {NoTier}] /\ rperiod' \in [Sub -> Period]
  /\ rpays' \in [Sub -> 0 .. MaxPays] /\ paid' \in Tier
  /\ RecordOK(s)'
  /\ rpays[s] > 0 => rpays'[s] > 0
  /\ rstatus[s] = "cancelled" => rstatus'[s] = "cancelled"

LEMMA ChangesRecords ==
  ASSUME Shape, NEW s \in Sub, Changes(s)
  PROVE  Records' /\ Keeps
<1>1. \A t \in Sub : RecordOK(t)'
  <2>1. \A t \in Sub \ {s} : RecordOK(t)'
    BY Parts DEF Records, RecordOK, Changes
  <2>. QED
    BY <2>1 DEF Changes
<1>. QED
  BY <1>1 DEF Records, Keeps, Changes

LEMMA CheckoutChanges ==
  ASSUME Shape, NEW s \in Sub, Checkout(s)
  PROVE  /\ Changes(s) /\ InboxOK' /\ rstatus[s] = "created"
         /\ rstatus'[s] = "authenticated" /\ rpays'[s] > 0
         /\ UNCHANGED rplan /\ UNCHANGED rnext /\ paid <= paid' /\ rplan[s] <= paid'
         /\ \A e \in inbox' : e \in inbox \/ e.kind = "authenticated"
<1>1. /\ rstatus' \in [Sub -> Status] /\ rpays' \in [Sub -> 0 .. MaxPays]
      /\ rstatus'[s] = "authenticated" /\ rpays'[s] = rpays[s] + 1
      /\ \A t \in Sub \ {s} : rstatus'[t] = rstatus[t] /\ rpays'[t] = rpays[t]
      /\ rstatus[s] = "created"
  BY Parts, RecordTypes DEF Checkout, Pay, Records, Status, Open, Current
<1>2. paid' \in Tier /\ paid <= paid' /\ rplan[s] <= paid'
  BY RecordTypes DEF Checkout, Larger
<1>3. Changes(s)
  BY <1>1, <1>2, Parts, RecordTypes DEF Changes, Checkout, RecordOK, Records
<1>4. PICK e : e = Webhook("authenticated", s)
  OBVIOUS
<1>5. EventOK(e)' /\ e.kind = "authenticated"
  BY <1>1, <1>3, <1>4, RecordTypes, ChangesRecords, HookOK DEF Kind, Paying
<1>6. Emit({e})
  BY <1>4 DEF Checkout
<1>7. InboxOK' /\ inbox' \subseteq inbox \cup {e}
  BY <1>3, <1>5, <1>6, ChangesRecords, Emits
<1>. QED
  BY <1>1, <1>2, <1>3, <1>5, <1>7, RecordTypes DEF Checkout

LEMMA ActivateChanges ==
  ASSUME Shape, NEW s \in Sub, Activate(s)
  PROVE  /\ Changes(s) /\ InboxOK' /\ rstatus[s] = "authenticated" /\ rstatus'[s] = "active"
         /\ UNCHANGED <<rplan, rnext, rpays, paid>>
         /\ \A e \in inbox' : e \in inbox \/ e.kind # "updated"
<1>1. /\ rstatus' \in [Sub -> Status] /\ rperiod' \in [Sub -> Period] /\ rstatus'[s] = "active"
      /\ \A t \in Sub \ {s} : rstatus'[t] = rstatus[t]
      /\ rstatus[s] = "authenticated"
  BY Parts DEF Activate, Records, Status, Open, Current, Period
<1>2. rpays[s] > 0
  BY <1>1, RecordTypes DEF RecordOK, Paying
<1>3. Changes(s)
  BY <1>1, <1>2, Parts, RecordTypes DEF Changes, Activate, RecordOK, Records
<1>4. PICK e, f : e = Webhook("activated", s) /\ f = Webhook("charged", s)
  OBVIOUS
<1>5. EventOK(e)' /\ e.kind = "activated"
  BY <1>1, <1>3, <1>4, ChangesRecords, HookOK DEF Kind, Paying
<1>6. EventOK(f)' /\ f.kind = "charged"
  BY <1>1, <1>3, <1>4, ChangesRecords, HookOK DEF Kind, Paying
<1>7. Emit({e, f})
  BY <1>4 DEF Activate
<1>8. InboxOK' /\ inbox' \subseteq inbox \cup {e, f}
  BY <1>3, <1>5, <1>6, <1>7, ChangesRecords, Emits
<1>. QED
  BY <1>1, <1>3, <1>5, <1>6, <1>8 DEF Activate

LEMMA RenewChanges ==
  ASSUME Shape, NEW s \in Sub, Renew(s)
  PROVE  /\ Changes(s) /\ InboxOK' /\ rstatus[s] \in Paying /\ rpays[s] > 0
         /\ rstatus'[s] = "active"
         /\ rplan'[s] = (IF rnext[s] = NoTier THEN rplan[s] ELSE rnext[s])
         /\ rnext' = [rnext EXCEPT ![s] = NoTier] /\ UNCHANGED paid
         /\ \A e \in inbox' : e \in inbox \/ e.kind # "updated" \/ e.plan = rplan'[s]
<1>1. /\ rstatus' \in [Sub -> Status] /\ rperiod' \in [Sub -> Period] /\ rstatus'[s] = "active"
      /\ rpays' \in [Sub -> 0 .. MaxPays] /\ rpays'[s] = rpays[s] + 1
      /\ \A t \in Sub \ {s} : rstatus'[t] = rstatus[t] /\ rpays'[t] = rpays[t]
      /\ rstatus[s] \in {"active", "pending", "halted"}
  BY Parts, RecordTypes DEF Renew, Pay, Records, Status, Open, Current, Period
<1>2. /\ rplan' \in [Sub -> Tier] /\ rnext' \in [Sub -> Tier \cup {NoTier}]
      /\ \A t \in Sub \ {s} : rplan'[t] = rplan[t]
      /\ rplan'[s] = (IF rnext[s] = NoTier THEN rplan[s] ELSE rnext[s])
  BY Parts, RecordTypes DEF Renew, Records
<1>3. rpays[s] > 0
  BY <1>1, RecordTypes DEF RecordOK, Paying
<1>4. Changes(s)
  BY <1>1, <1>2, <1>3, Parts, RecordTypes DEF Changes, Renew, RecordOK, Records
<1>5. PICK e, f : e = Webhook("charged", s) /\ f = Webhook("updated", s)
  OBVIOUS
<1>6. EventOK(e)' /\ e.kind = "charged"
  BY <1>1, <1>4, <1>5, ChangesRecords, HookOK DEF Kind, Paying
<1>7. EventOK(f)' /\ f.plan = rplan'[s]
  BY <1>1, <1>4, <1>5, ChangesRecords, HookOK DEF Kind, Paying
<1>8. PICK E \in SUBSET {e, f} : Emit(E)
  BY <1>5 DEF Renew
<1>9. InboxOK' /\ inbox' \subseteq inbox \cup {e, f}
  BY <1>4, <1>6, <1>7, <1>8, ChangesRecords, Emits
<1>. QED
  BY <1>1, <1>2, <1>3, <1>4, <1>6, <1>7, <1>9 DEF Renew, Paying

LEMMA MoveChanges ==
  ASSUME Shape, NEW s \in Sub, NEW m \in Moves, Move(s, m)
  PROVE  /\ Changes(s) /\ InboxOK' /\ rstatus[s] \in Open
         /\ UNCHANGED <<rplan, rnext, rpays, paid>> /\ rstatus'[s] # "none"
         /\ \A e \in inbox' : e \in inbox \/ e.kind # "updated"
<1>1. PICK a, b, k : m[1] = a /\ m[2] = b /\ m[3] = k
  OBVIOUS
<1>2. /\ rstatus[s] = a /\ rstatus' = [rstatus EXCEPT ![s] = b]
      /\ UNCHANGED <<rplan, rnext, rperiod, rpays, paid>>
      /\ Emit({Webhook(k, s)})
  BY <1>1 DEF Move
<1>3. /\ k \in {"pending", "halted", "expired", "cancelled"} /\ b = k
      /\ k \in {"pending", "halted"} => a \in {"active", "pending"}
      /\ a \in {"active", "pending", "created", "halted"}
  BY <1>1 DEF Moves
<1>4. /\ rstatus' \in [Sub -> Status] /\ rstatus'[s] = b
      /\ \A t \in Sub \ {s} : rstatus'[t] = rstatus[t]
  BY <1>2, <1>3, Parts DEF Records, Status, Open, Current
<1>5. k \in {"pending", "halted"} => rpays[s] > 0
  BY <1>2, <1>3, RecordTypes DEF RecordOK, Paying
<1>6. Changes(s)
  BY <1>2, <1>3, <1>4, <1>5, Parts, RecordTypes DEF Changes, RecordOK, Records, Paying
<1>7. PICK e : e = Webhook(k, s)
  OBVIOUS
<1>8. EventOK(e)' /\ e.kind = k
  BY <1>2, <1>3, <1>4, <1>5, <1>6, <1>7, ChangesRecords, HookOK DEF Kind, Paying
<1>9. InboxOK' /\ inbox' \subseteq inbox \cup {e}
  BY <1>2, <1>6, <1>7, <1>8, ChangesRecords, Emits
<1>. QED
  BY <1>2, <1>3, <1>4, <1>6, <1>8, <1>9 DEF Open, Current

LEMMA ProviderMoves ==
  ASSUME Shape, Provider
  PROVE  Records' /\ Keeps /\ InboxOK'
<1>1. CASE \E s \in Sub : Checkout(s) \/ Activate(s) \/ Renew(s) \/ \E m \in Moves : Move(s, m)
  <2>1. PICK s \in Sub : Changes(s) /\ InboxOK'
    BY <1>1, CheckoutChanges, ActivateChanges, RenewChanges, MoveChanges
  <2>. QED
    BY <2>1, ChangesRecords
<1>2. CASE \E e \in inbox : GiveUp(e)
  <2>1. UNCHANGED providerVars /\ inbox' \subseteq inbox
    BY <1>2 DEF GiveUp
  <2>. QED
    BY <2>1, SameRecords, SameKeeps, InboxStays
<1>. QED
  BY <1>1, <1>2 DEF Provider

LEMMA ProviderShape ==
  ASSUME Shape, Provider
  PROVE  Shape'
<1>1. UNCHANGED <<rowVars, limits, receipts, procVars, sched, requests, faults>>
  BY DEF Provider
<1>2. requests' \in 0 .. MaxRequests
  BY <1>1, Parts DEF Others
<1>. QED
  BY <1>1, <1>2, ProviderMoves, SameRows, SameOthers, SameProcs, SameScheds, PartsNext

LEMMA TickKeeps ==
  ASSUME Shape, Tick
  PROVE  Rows' /\ Records' /\ Keeps
<1>1. /\ UNCHANGED <<status, package, pending, cancelEnd, rstatus, rplan, rnext, rpays, paid>>
      /\ period' = [s \in Sub |-> Ended(period[s])]
      /\ rperiod' = [s \in Sub |-> Ended(rperiod[s])]
  BY DEF Tick
<1>2. \A s \in Sub : Ended(period[s]) \in Period /\ Ended(rperiod[s]) \in Period
  BY Parts DEF Rows, Records, Ended, Period
<1>3. Rows'
  BY <1>1, <1>2, Parts DEF Rows
<1>4. Records'
  BY <1>1, <1>2, Parts DEF Records, RecordOK
<1>. QED
  BY <1>1, <1>3, <1>4 DEF Keeps

LEMMA TickShape ==
  ASSUME Shape, Tick
  PROVE  Shape'
<1>1. UNCHANGED <<limits, receipts, inbox, procVars, sched, requests, faults>>
  BY DEF Tick
<1>2. requests' \in 0 .. MaxRequests /\ inbox' \subseteq inbox
  BY <1>1, Parts DEF Others
<1>. QED
  BY <1>1, <1>2, TickKeeps, SameOthers, InboxStays, SameProcs, SameScheds, PartsNext

-----------------------------------------------------------------------------
(* The programs of the handlers.                                           *)

Good(t, C) == t \in Seq(Call) /\ Ordered(t) /\ Range(t) = C

LEMMA Programs1 ==
  /\ Good(<<"receipt">>, {"receipt"}) /\ Good(<<"pend">>, {"pend"})
  /\ Good(<<"stopRow">>, {"stopRow"}) /\ Good(<<"unpend">>, {"unpend"})
  /\ Good(<<"record">>, {"record"}) /\ Good(<<"cancelNow">>, {"cancelNow"})
BY DEF Good, Range, Ordered, Follows, First, Call

LEMMA Programs2 ==
  /\ Good(<<"order", "insert">>, {"order", "insert"})
  /\ Good(<<"cancelNow", "cancelRow">>, {"cancelNow", "cancelRow"})
  /\ Good(<<"setPackage", "grant">>, {"setPackage", "grant"})
  /\ Good(<<"planLater", "pend">>, {"planLater", "pend"})
  /\ Good(<<"stopRow", "pend">>, {"stopRow", "pend"})
  /\ Good(<<"stopLater", "stopRow">>, {"stopLater", "stopRow"})
  /\ Good(<<"unpend", "unstop">>, {"unpend", "unstop"})
  /\ Good(<<"assign", "grant">>, {"assign", "grant"})
  /\ Good(<<"apply", "record">>, {"apply", "record"})
BY DEF Good, Range, Ordered, Follows, First, Call

LEMMA Programs4 ==
  /\ Good(<<"cancelNow", "cancelRow", "order", "insert">>,
          {"cancelNow", "cancelRow", "order", "insert"})
  /\ Good(<<"fetch", "apply", "grant", "receipt">>, {"fetch", "apply", "grant", "receipt"})
  /\ Good(<<"apply", "unstop", "revert", "record">>, {"apply", "unstop", "revert", "record"})
  /\ Good(<<"setPackage", "grant", "apply", "record">>,
          {"setPackage", "grant", "apply", "record"})
BY DEF Good, Range, Ordered, Follows, First, Call

LEMMA GoodCat ==
  ASSUME NEW t, NEW u, NEW C, NEW D, Good(t, C), Good(u, D),
         \A c \in C : \A d \in D : Follows(c, d)
  PROVE  Good(t \o u, C \cup D)
<1>1. t \in Seq(Call) /\ u \in Seq(Call)
  BY DEF Good
<1>2. PICK v : v = t \o u
  OBVIOUS
<1>3. /\ v \in Seq(Call) /\ DOMAIN v = 1 .. (Len(t) + Len(u)) /\ Len(t) \in Nat /\ Len(u) \in Nat
      /\ DOMAIN t = 1 .. Len(t) /\ DOMAIN u = 1 .. Len(u)
      /\ \A i \in 1 .. Len(t) : v[i] = t[i]
      /\ \A i \in (Len(t) + 1) .. (Len(t) + Len(u)) : v[i] = u[i - Len(t)]
  BY <1>1, <1>2
<1>4. \A i \in DOMAIN t : i \in DOMAIN v /\ v[i] = t[i] /\ t[i] \in C
  BY <1>3 DEF Good, Range
<1>5. \A i \in DOMAIN u : i + Len(t) \in DOMAIN v /\ v[i + Len(t)] = u[i] /\ u[i] \in D
  BY <1>3 DEF Good, Range
<1>6. ASSUME NEW i \in DOMAIN v
      PROVE  \/ i \in DOMAIN t /\ v[i] = t[i] /\ v[i] \in C
             \/ i - Len(t) \in DOMAIN u /\ v[i] = u[i - Len(t)] /\ v[i] \in D /\ i > Len(t)
  <2>1. CASE i <= Len(t)
    BY <1>3, <1>4, <1>6, <2>1
  <2>2. CASE i > Len(t)
    <3>1. i - Len(t) \in DOMAIN u /\ v[i] = u[i - Len(t)]
      BY <1>3, <1>6, <2>2
    <3>. QED
      BY <2>2, <3>1, <1>5
  <2>. QED
    BY <1>3, <1>6, <2>1, <2>2
<1>7. Range(v) = C \cup D
  <2>1. Range(v) \subseteq C \cup D
    BY <1>6 DEF Range
  <2>2. C \subseteq Range(v)
    BY <1>4 DEF Good, Range
  <2>3. D \subseteq Range(v)
    BY <1>5 DEF Good, Range
  <2>. QED
    BY <2>1, <2>2, <2>3
<1>8. ASSUME NEW i \in DOMAIN v, NEW j \in DOMAIN v, i < j
      PROVE  Follows(v[i], v[j])
  <2>1. CASE i \in DOMAIN t /\ j \in DOMAIN t
    BY <1>4, <1>8, <2>1 DEF Good, Ordered
  <2>2. CASE i - Len(t) \in DOMAIN u /\ i > Len(t)
    <3>1. j > Len(t) /\ i - Len(t) < j - Len(t)
      BY <1>3, <1>8, <2>2
    <3>2. /\ j - Len(t) \in DOMAIN u /\ v[j] = u[j - Len(t)]
          /\ v[i] = u[i - Len(t)]
      <4>1. i \notin DOMAIN t /\ j \notin DOMAIN t
        BY <1>3, <2>2, <3>1
      <4>. QED
        BY <1>6, <1>8, <4>1
    <3>. QED
      BY <2>2, <3>1, <3>2 DEF Good, Ordered
  <2>3. CASE i \in DOMAIN t /\ j - Len(t) \in DOMAIN u /\ j > Len(t)
    <3>1. v[i] \in C /\ v[j] \in D
      BY <1>3, <1>4, <1>6, <1>8, <2>3
    <3>. QED
      BY <3>1
  <2>. QED
    BY <1>6, <1>8, <2>1, <2>2, <2>3
<1>9. Ordered(v)
  BY <1>8 DEF Ordered
<1>. QED
  BY <1>2, <1>3, <1>7, <1>9 DEF Good

LEMMA Joined ==
  /\ Good(CancelCalls \o <<>>, {"cancelNow", "cancelRow"})
  /\ Good(CancelCalls \o OrderCalls, {"cancelNow", "cancelRow", "order", "insert"})
  /\ Good(CancelCalls \o <<"revert">>, {"cancelNow", "cancelRow", "revert"})
  /\ Good(CancelCalls \o <<"revert", "assign", "grant">>,
          {"cancelNow", "cancelRow", "revert", "assign", "grant"})
<1>1. Good(<<>>, {}) /\ Good(CancelCalls, {"cancelNow", "cancelRow"})
  BY EmptyRange, Programs2 DEF Good, CancelCalls
<1>2. Good(CancelCalls \o <<>>, {"cancelNow", "cancelRow"} \cup {})
  BY <1>1, GoodCat DEF Follows, First
<1>3. Good(CancelCalls \o OrderCalls, {"cancelNow", "cancelRow"} \cup {"order", "insert"})
  BY <1>1, Programs2, GoodCat DEF OrderCalls, Follows, First
<1>4. Good(CancelCalls \o <<"revert">>, {"cancelNow", "cancelRow"} \cup {"revert"})
  <2>1. Good(<<"revert">>, {"revert"})
    BY DEF Good, Range, Ordered, Follows, First, Call
  <2>. QED
    BY <1>1, <2>1, GoodCat DEF Follows, First
<1>5. Good(CancelCalls \o <<"revert", "assign", "grant">>,
           {"cancelNow", "cancelRow"} \cup {"revert", "assign", "grant"})
  <2>1. Good(<<"revert", "assign", "grant">>, {"revert", "assign", "grant"})
    BY DEF Good, Range, Ordered, Follows, First, Call
  <2>. QED
    BY <1>1, <2>1, GoodCat DEF Follows, First
<1>6. /\ {"cancelNow", "cancelRow"} \cup {} = {"cancelNow", "cancelRow"}
      /\ {"cancelNow", "cancelRow"} \cup {"order", "insert"}
           = {"cancelNow", "cancelRow", "order", "insert"}
      /\ {"cancelNow", "cancelRow"} \cup {"revert"} = {"cancelNow", "cancelRow", "revert"}
      /\ {"cancelNow", "cancelRow"} \cup {"revert", "assign", "grant"}
           = {"cancelNow", "cancelRow", "revert", "assign", "grant"}
  OBVIOUS
<1>. QED
  BY <1>2, <1>3, <1>4, <1>5, <1>6

LEMMA JoinedAfter ==
  ASSUME NEW b \in BOOLEAN
  PROVE  /\ \E C \in SUBSET {"planNow", "setPackage", "grant"} :
              /\ Good((IF b THEN <<"planNow">> ELSE <<>>) \o <<"setPackage", "grant">>, C)
              /\ b => "planNow" \in C
         /\ \E C \in SUBSET {"stopLater", "stopRow"} :
              Good((IF b THEN <<"stopLater">> ELSE <<>>) \o <<"stopRow">>, C)
         /\ \A z \in BOOLEAN :
              \E C \in SUBSET {"stopLater", "stopRow", "planLater", "pend"} :
                Good((IF ~b THEN <<>> ELSE IF z THEN <<"stopLater">> ELSE <<"planLater">>)
                     \o (IF z THEN <<"stopRow", "pend">> ELSE <<"pend">>), C)
<1>1. Good(<<>>, {}) /\ Good(<<"planNow">>, {"planNow"}) /\ Good(<<"stopLater">>, {"stopLater"})
      /\ Good(<<"planLater">>, {"planLater"})
  BY DEF Good, Range, Ordered, Follows, First, Call
<1>2. /\ Good(<<"setPackage", "grant">>, {"setPackage", "grant"})
      /\ Good(<<"stopRow">>, {"stopRow"}) /\ Good(<<"pend">>, {"pend"})
      /\ Good(<<"stopRow", "pend">>, {"stopRow", "pend"})
  BY Programs1, Programs2
<1>3. \E C \in SUBSET {"planNow", "setPackage", "grant"} :
        /\ Good((IF b THEN <<"planNow">> ELSE <<>>) \o <<"setPackage", "grant">>, C)
        /\ b => "planNow" \in C
  <2>1. CASE b
    <3>1. Good(<<"planNow">> \o <<"setPackage", "grant">>, {"planNow"} \cup {"setPackage", "grant"})
      BY <1>1, <1>2, GoodCat DEF Follows, First
    <3>. QED
      BY <2>1, <3>1
  <2>2. CASE ~b
    <3>1. Good(<<>> \o <<"setPackage", "grant">>, {} \cup {"setPackage", "grant"})
      BY <1>1, <1>2, GoodCat DEF Follows, First
    <3>. QED
      BY <2>2, <3>1
  <2>. QED
    BY <2>1, <2>2
<1>4. \E C \in SUBSET {"stopLater", "stopRow"} :
        Good((IF b THEN <<"stopLater">> ELSE <<>>) \o <<"stopRow">>, C)
  <2>1. CASE b
    <3>1. Good(<<"stopLater">> \o <<"stopRow">>, {"stopLater"} \cup {"stopRow"})
      BY <1>1, <1>2, GoodCat DEF Follows, First
    <3>. QED
      BY <2>1, <3>1
  <2>2. CASE ~b
    <3>1. Good(<<>> \o <<"stopRow">>, {} \cup {"stopRow"})
      BY <1>1, <1>2, GoodCat DEF Follows, First
    <3>. QED
      BY <2>2, <3>1
  <2>. QED
    BY <2>1, <2>2
<1>5. ASSUME NEW z \in BOOLEAN
      PROVE  \E C \in SUBSET {"stopLater", "stopRow", "planLater", "pend"} :
               Good((IF ~b THEN <<>> ELSE IF z THEN <<"stopLater">> ELSE <<"planLater">>)
                    \o (IF z THEN <<"stopRow", "pend">> ELSE <<"pend">>), C)
  <2>1. PICK t, C : /\ t = IF ~b THEN <<>> ELSE IF z THEN <<"stopLater">> ELSE <<"planLater">>
                    /\ Good(t, C) /\ C \subseteq {"stopLater", "planLater"}
    BY <1>1
  <2>2. PICK u, D : /\ u = IF z THEN <<"stopRow", "pend">> ELSE <<"pend">>
                    /\ Good(u, D) /\ D \subseteq {"stopRow", "pend"}
    BY <1>2
  <2>3. Good(t \o u, C \cup D)
    BY <2>1, <2>2, GoodCat DEF Follows, First
  <2>4. C \cup D \in SUBSET {"stopLater", "stopRow", "planLater", "pend"}
    BY <2>1, <2>2
  <2>. QED
    BY <2>1, <2>2, <2>3, <2>4
<1>. QED
  BY <1>3, <1>4, <1>5

(* What a handler knows when it begins, of the row s, the package k and    *)
(* the event e, to make the calls C.                                       *)
KnowsRow(s, k, C) ==
  /\ C \cap OfRow # {} => s \in Sub
  /\ C \cap OfTier # {} => k \in Tier
  /\ "insert" \in C <=> "order" \in C
  /\ "fetch" \in C => rpays[s] > 0
  /\ "cancelRow" \in C => "cancelNow" \in C
  /\ "insertReceipt" \notin C

KnowsEvent(s, e, C) ==
  /\ e # NoEvent => EventOK(e) /\ e.sub = s /\ e \in inbox
  /\ "record" \in C => e # NoEvent
  /\ "apply" \in C => "fetch" \in C \/ e # NoEvent
  /\ "order" \in C => e = NoEvent /\ "fetch" \notin C

(* Whether the package is paid for.                                        *)
Announced(e, k) == e # NoEvent /\ e.kind = "updated" /\ k = e.plan /\ rpays[e.sub] > 0

KnowsPaid(s, k, e, C) ==
  /\ {"planLater", "pend"} \cap C # {} => status[s] = "active" /\ k < package[s]
  /\ "setPackage" \in C =>
       /\ Announced(e, k) \/ (status[s] = "active" /\ ("planNow" \in C \/ ~Billed(s)))
       /\ "assign" \notin C
  /\ "grant" \in C =>
       \/ Announced(e, k) \/ "assign" \in C \/ "planNow" \in C
       \/ s \in Sub /\ status[s] = "active" /\ ~Billed(s)
       \/ s \in Sub /\ rpays[s] > 0 /\ k = package[s]

Starts(p) ==
  \E s \in Sub \cup {NoSub}, k \in Tier \cup {NoTier}, e \in Event \cup {NoEvent},
     t \in Seq(Call), C \in SUBSET Call :
    /\ Begin(p, s, k, e, t) /\ Good(t, C)
    /\ KnowsRow(s, k, C) /\ KnowsEvent(s, e, C) /\ KnowsPaid(s, k, e, C)

LEMMA StartsIf ==
  ASSUME NEW p, NEW s \in Sub \cup {NoSub}, NEW k \in Tier \cup {NoTier},
         NEW e \in Event \cup {NoEvent}, NEW t, NEW C, Begin(p, s, k, e, t), Good(t, C),
         KnowsRow(s, k, C), KnowsEvent(s, e, C), KnowsPaid(s, k, e, C)
  PROVE  Starts(p)
<1>1. t \in Seq(Call) /\ C \in SUBSET Call
  BY DEF Good, Range
<1>. QED
  BY <1>1 DEF Starts

(* A request of the API knows no event.                                    *)
LEMMA StartsRequest ==
  ASSUME NEW p, NEW s \in Sub \cup {NoSub}, NEW k \in Tier \cup {NoTier}, NEW t, NEW C,
         Begin(p, s, k, NoEvent, t), Good(t, C), "record" \notin C,
         "apply" \in C => "fetch" \in C, "fetch" \notin C \/ "order" \notin C,
         KnowsRow(s, k, C), KnowsPaid(s, k, NoEvent, C)
  PROVE  Starts(p)
<1>1. KnowsEvent(s, NoEvent, C)
  BY DEF KnowsEvent
<1>. QED
  BY <1>1, StartsIf

-----------------------------------------------------------------------------
(* The handlers begin.                                                     *)

LEMMA Assigned ==
  /\ Good(<<"assign", "grant">>, {"assign", "grant"})
  /\ NoSub \in Sub \cup {NoSub} /\ NoTier \in Tier \cup {NoTier}
BY Programs2

LEMMA SubscribeStarts ==
  ASSUME Shape, NEW p \in Proc, NEW k \in Tier, Subscribe(p, k)
  PROVE  Starts(p)
<1>1. CASE Begin(p, NoSub, k, NoEvent, OrderCalls)
  <2>1. Good(OrderCalls, {"order", "insert"})
    BY Programs2 DEF OrderCalls
  <2>2. KnowsRow(NoSub, k, {"order", "insert"}) /\ KnowsPaid(NoSub, k, NoEvent, {"order", "insert"})
    BY DEF KnowsRow, KnowsPaid, OfRow
  <2>. QED
    BY <1>1, <2>1, <2>2, StartsRequest, Assigned
<1>2. CASE \E s \in Sub :
             Begin(p, s, k, NoEvent, CancelCalls \o (IF k = 0 THEN <<>> ELSE OrderCalls))
  <2>1. PICK s \in Sub :
          Begin(p, s, k, NoEvent, CancelCalls \o (IF k = 0 THEN <<>> ELSE OrderCalls))
    BY <1>2
  <2>2. PICK C : /\ Good(CancelCalls \o (IF k = 0 THEN <<>> ELSE OrderCalls), C)
                 /\ C \in { {"cancelNow", "cancelRow"},
                            {"cancelNow", "cancelRow", "order", "insert"} }
    BY Joined
  <2>3. KnowsRow(s, k, C) /\ KnowsPaid(s, k, NoEvent, C) /\ "record" \notin C /\ "apply" \notin C
    BY <2>2 DEF KnowsRow, KnowsPaid, OfRow
  <2>. QED
    BY <2>1, <2>2, <2>3, StartsRequest
<1>. QED
  BY <1>1, <1>2 DEF Subscribe

LEMMA VerifyStarts ==
  ASSUME Shape, NEW p \in Proc, NEW s \in Sub, Verify(p, s)
  PROVE  Starts(p)
<1>1. package[s] \in Tier /\ rpays[s] > 0
  BY RecordTypes DEF Verify
<1>2. CASE Begin(p, s, package[s], NoEvent, <<"receipt">>)
  <2>1. /\ KnowsRow(s, package[s], {"receipt"})
        /\ KnowsPaid(s, package[s], NoEvent, {"receipt"})
    BY <1>1 DEF KnowsRow, KnowsPaid
  <2>. QED
    BY <1>1, <1>2, <2>1, Programs1, StartsRequest
<1>3. CASE Begin(p, s, package[s], NoEvent, <<"fetch", "apply", "grant", "receipt">>)
  <2>1. /\ KnowsRow(s, package[s], {"fetch", "apply", "grant", "receipt"})
        /\ KnowsPaid(s, package[s], NoEvent, {"fetch", "apply", "grant", "receipt"})
    BY <1>1 DEF KnowsRow, KnowsPaid
  <2>. QED
    BY <1>1, <1>3, <2>1, Programs4, StartsRequest
<1>. QED
  BY <1>2, <1>3 DEF Verify

LEMMA UpgradeStarts ==
  ASSUME Shape, NEW p \in Proc, NEW s \in Sub, NEW k \in Tier, Upgrade(p, s, k)
  PROVE  Starts(p)
<1>1. PICK t, C :
        /\ t = (IF Billed(s) THEN <<"planNow">> ELSE <<>>) \o <<"setPackage", "grant">>
        /\ Good(t, C) /\ C \subseteq {"planNow", "setPackage", "grant"}
        /\ Billed(s) => "planNow" \in C
  <2>1. Billed(s) \in BOOLEAN
    BY DEF Billed
  <2>. QED
    BY <2>1, JoinedAfter
<1>2. Begin(p, s, k, NoEvent, t) /\ status[s] = "active"
  BY <1>1 DEF Upgrade, Changeable
<1>3. KnowsRow(s, k, C) /\ KnowsPaid(s, k, NoEvent, C) /\ "record" \notin C /\ "apply" \notin C
  BY <1>1, <1>2 DEF KnowsRow, KnowsPaid
<1>. QED
  BY <1>1, <1>2, <1>3, StartsRequest

LEMMA DowngradeStarts ==
  ASSUME Shape, NEW p \in Proc, NEW s \in Sub, NEW k \in Tier, Downgrade(p, s, k)
  PROVE  Starts(p)
<1>1. PICK z \in BOOLEAN : z = (k = 0)
  OBVIOUS
<1>2. PICK t, C :
        /\ t = (IF ~Billed(s) THEN <<>> ELSE IF z THEN <<"stopLater">> ELSE <<"planLater">>)
               \o (IF z THEN <<"stopRow", "pend">> ELSE <<"pend">>)
        /\ Good(t, C) /\ C \subseteq {"stopLater", "stopRow", "planLater", "pend"}
  <2>1. Billed(s) \in BOOLEAN
    BY DEF Billed
  <2>. QED
    BY <2>1, JoinedAfter
<1>3. Begin(p, s, k, NoEvent, t) /\ status[s] = "active" /\ k < package[s]
  BY <1>1, <1>2 DEF Downgrade, Changeable
<1>4. KnowsRow(s, k, C) /\ KnowsPaid(s, k, NoEvent, C) /\ "record" \notin C /\ "apply" \notin C
  BY <1>2, <1>3 DEF KnowsRow, KnowsPaid
<1>. QED
  BY <1>2, <1>3, <1>4, StartsRequest

LEMMA CancelStarts ==
  ASSUME Shape, NEW p \in Proc, NEW s \in Sub, Cancel(p, s)
  PROVE  Starts(p)
<1>1. PICK t, C : /\ t = (IF Billed(s) THEN <<"stopLater">> ELSE <<>>) \o <<"stopRow">>
                  /\ Good(t, C) /\ C \subseteq {"stopLater", "stopRow"}
  <2>1. Billed(s) \in BOOLEAN
    BY DEF Billed
  <2>. QED
    BY <2>1, JoinedAfter
<1>2. Begin(p, s, NoTier, NoEvent, t)
  BY <1>1 DEF Cancel
<1>3. /\ KnowsRow(s, NoTier, C) /\ KnowsPaid(s, NoTier, NoEvent, C)
      /\ "record" \notin C /\ "apply" \notin C
  BY <1>1 DEF KnowsRow, KnowsPaid, OfTier
<1>. QED
  BY <1>1, <1>2, <1>3, StartsRequest, Assigned

LEMMA CancelPendingDowngradeStarts ==
  ASSUME Shape, NEW p \in Proc, NEW s \in Sub, CancelPendingDowngrade(p, s)
  PROVE  Starts(p)
<1>1. PICK t, C : /\ t = (IF cancelEnd[s] THEN <<"unpend", "unstop">> ELSE <<"unpend">>)
                  /\ Good(t, C) /\ C \subseteq {"unpend", "unstop"}
  BY Programs1, Programs2
<1>2. Begin(p, s, NoTier, NoEvent, t)
  BY <1>1 DEF CancelPendingDowngrade
<1>3. /\ KnowsRow(s, NoTier, C) /\ KnowsPaid(s, NoTier, NoEvent, C)
      /\ "record" \notin C /\ "apply" \notin C
  BY <1>1 DEF KnowsRow, KnowsPaid, OfTier
<1>. QED
  BY <1>1, <1>2, <1>3, StartsRequest, Assigned

LEMMA AdminCancelStarts ==
  ASSUME Shape, NEW p \in Proc, NEW s \in Sub, AdminCancel(p, s)
  PROVE  Starts(p)
<1>1. PICK t, C : /\ t = CancelCalls \o <<"revert">>
                  /\ Good(t, C) /\ C = {"cancelNow", "cancelRow", "revert"}
  BY Joined
<1>2. Begin(p, s, NoTier, NoEvent, t)
  BY <1>1 DEF AdminCancel
<1>3. /\ KnowsRow(s, NoTier, C) /\ KnowsPaid(s, NoTier, NoEvent, C)
      /\ "record" \notin C /\ "apply" \notin C
  BY <1>1 DEF KnowsRow, KnowsPaid, OfTier
<1>. QED
  BY <1>1, <1>2, <1>3, StartsRequest, Assigned

LEMMA AdminAssignStarts ==
  ASSUME Shape, NEW p \in Proc, NEW k \in Tier, AdminAssign(p, k)
  PROVE  Starts(p)
<1>1. CASE Begin(p, NoSub, k, NoEvent, <<"assign", "grant">>)
  <2>1. /\ KnowsRow(NoSub, k, {"assign", "grant"})
        /\ KnowsPaid(NoSub, k, NoEvent, {"assign", "grant"})
    BY DEF KnowsRow, KnowsPaid, OfRow
  <2>. QED
    BY <1>1, <2>1, Assigned, StartsRequest
<1>2. CASE \E s \in Sub :
             Begin(p, s, k, NoEvent, CancelCalls \o <<"revert", "assign", "grant">>)
  <2>1. PICK s \in Sub : Begin(p, s, k, NoEvent, CancelCalls \o <<"revert", "assign", "grant">>)
    BY <1>2
  <2>2. PICK t, C : /\ t = CancelCalls \o <<"revert", "assign", "grant">>
                    /\ Good(t, C) /\ C = {"cancelNow", "cancelRow", "revert", "assign", "grant"}
    BY Joined
  <2>3. KnowsRow(s, k, C) /\ KnowsPaid(s, k, NoEvent, C) /\ "record" \notin C /\ "apply" \notin C
    BY <2>2 DEF KnowsRow, KnowsPaid
  <2>. QED
    BY <2>1, <2>2, <2>3, StartsRequest
<1>. QED
  BY <1>1, <1>2 DEF AdminAssign

(* The calls a webhook leads to, and what it knows.                        *)
Hook(e, C) ==
  /\ C \subseteq {"apply", "grant", "receipt", "unstop", "revert", "setPackage", "record"}
  /\ {"setPackage", "grant"} \cap C # {} =>
       e.kind = "updated" \/ (e.kind = "activated" /\ "setPackage" \notin C)

LEMMA ProcessGood ==
  ASSUME NEW e
  PROVE  \E C : Good(Process(e) \o <<"record">>, C) /\ Hook(e, C)
<1>1. /\ Good(<<"apply">>, {"apply"}) /\ Good(<<"apply", "grant">>, {"apply", "grant"})
      /\ Good(<<"apply", "receipt">>, {"apply", "receipt"})
      /\ Good(<<"apply", "revert">>, {"apply", "revert"})
      /\ Good(<<"apply", "unstop">>, {"apply", "unstop"})
  BY DEF Good, Range, Ordered, Follows, First, Call
<1>2. /\ Good(<<"apply", "unstop", "revert">>, {"apply", "unstop", "revert"})
      /\ Good(<<"setPackage", "grant", "apply">>, {"setPackage", "grant", "apply"})
  BY DEF Good, Range, Ordered, Follows, First, Call
<1>3. PICK t, C : /\ t = Process(e) /\ Good(t, C)
                  /\ C \subseteq {"apply", "grant", "receipt", "unstop", "revert", "setPackage"}
                  /\ {"setPackage", "grant"} \cap C # {} =>
                       e.kind = "updated" \/ (e.kind = "activated" /\ "setPackage" \notin C)
  <2>1. \E C : /\ Good(Process(e), C)
               /\ C \subseteq {"apply", "grant", "receipt", "unstop", "revert", "setPackage"}
               /\ {"setPackage", "grant"} \cap C # {} =>
                    e.kind = "updated" \/ (e.kind = "activated" /\ "setPackage" \notin C)
    <3>1. CASE e.kind = "activated"
      <4>1. Process(e) = <<"apply", "grant">>
        BY <3>1 DEF Process
      <4>. QED
        BY <1>1, <3>1, <4>1
    <3>2. CASE e.kind = "charged"
      <4>1. Process(e) = <<"apply", "receipt">>
        BY <3>2 DEF Process
      <4>. QED
        BY <1>1, <3>2, <4>1
    <3>3. CASE e.kind = "expired"
      <4>1. Process(e) = <<"apply", "revert">>
        BY <3>3 DEF Process
      <4>. QED
        BY <1>1, <3>3, <4>1
    <3>4. CASE e.kind = "cancelled"
      <4>1. Process(e) = <<"apply", "unstop">> \/ Process(e) = <<"apply", "unstop", "revert">>
        BY <3>4 DEF Process
      <4>. QED
        BY <1>1, <1>2, <3>4, <4>1
    <3>5. CASE e.kind = "updated"
      <4>1. Process(e) = <<"setPackage", "grant", "apply">>
        BY <3>5 DEF Process
      <4>. QED
        BY <1>2, <3>5, <4>1
    <3>6. CASE e.kind \notin {"activated", "charged", "expired", "cancelled", "updated"}
      <4>1. Process(e) = <<"apply">>
        BY <3>6 DEF Process
      <4>. QED
        BY <1>1, <3>6, <4>1
    <3>. QED
      BY <3>1, <3>2, <3>3, <3>4, <3>5, <3>6
  <2>. QED
    BY <2>1
<1>4. Good(t \o <<"record">>, C \cup {"record"})
  <2>1. \A c \in C : Follows(c, "record")
    BY <1>3 DEF Follows, First
  <2>. QED
    BY <1>3, <2>1, Programs1, GoodCat
<1>. QED
  BY <1>3, <1>4 DEF Hook

LEMMA HookStarts ==
  ASSUME Shape, NEW p \in Proc, NEW e \in inbox, HandleRazorpayWebhook(p, e)
  PROVE  Starts(p)
<1>1. EventOK(e) /\ e \in Event /\ e.sub \in Sub /\ e.plan \in Tier
  BY Parts DEF InboxOK, EventOK, Event
<1>2. ASSUME NEW C, Hook(e, C) \/ C = {"record"}
      PROVE  KnowsEvent(e.sub, e, C)
  <2>1. "fetch" \notin C /\ "order" \notin C
    BY <1>2 DEF Hook
  <2>. QED
    BY <1>1, <2>1, EventAssumption DEF KnowsEvent
<1>3. CASE Begin(p, e.sub, NoTier, e, <<"record">>)
  <2>1. /\ KnowsRow(e.sub, NoTier, {"record"}) /\ KnowsPaid(e.sub, NoTier, e, {"record"})
        /\ KnowsEvent(e.sub, e, {"record"})
    BY <1>2 DEF KnowsRow, KnowsPaid, OfRow, OfTier
  <2>. QED
    BY <1>1, <1>3, <2>1, Programs1, StartsIf, Assigned
<1>4. CASE Begin(p, e.sub, IF e.kind = "updated" THEN e.plan ELSE package[e.sub], e,
                 Process(e) \o <<"record">>)
  <2>1. PICK t, C, k : /\ t = Process(e) \o <<"record">> /\ Good(t, C) /\ Hook(e, C)
                       /\ k = IF e.kind = "updated" THEN e.plan ELSE package[e.sub]
    BY ProcessGood
  <2>2. k \in Tier /\ Begin(p, e.sub, k, e, t)
    BY <1>1, <1>4, <2>1, RecordTypes
  <2>3. e.kind \in {"activated", "updated"} => rpays[e.sub] > 0
    BY <1>1 DEF EventOK, StatusOf, Paying
  <2>4. KnowsRow(e.sub, k, C)
    BY <1>1, <2>1, <2>2 DEF KnowsRow, Hook
  <2>5. e # NoEvent
    BY <1>1, EventAssumption
  <2>6. KnowsPaid(e.sub, k, e, C)
    BY <1>1, <2>1, <2>3, <2>5 DEF KnowsPaid, Hook, Announced
  <2>. QED
    BY <1>1, <1>2, <2>1, <2>2, <2>4, <2>6, StartsIf
<1>. QED
  BY <1>3, <1>4 DEF HandleRazorpayWebhook

LEMMA RequestStarts ==
  ASSUME Shape, NEW p \in Proc, Request(p) \/ Webhooks(p)
  PROVE  /\ Starts(p)
         /\ UNCHANGED <<rowVars, limits, receipts, providerVars, inbox, sched>>
         /\ requests' \in 0 .. MaxRequests /\ (faults' = faults \/ Fault)
<1>1. requests \in 0 .. MaxRequests
  BY Parts DEF Others
<1>2. CASE Request(p)
  <2>1. Starts(p)
    BY <1>2, SubscribeStarts, VerifyStarts, UpgradeStarts, DowngradeStarts, CancelStarts,
       CancelPendingDowngradeStarts, AdminCancelStarts, AdminAssignStarts DEF Request
  <2>. QED
    BY <1>1, <1>2, <2>1, NumberAssumption DEF Request
<1>3. CASE Webhooks(p)
  <2>1. PICK e \in inbox : HandleRazorpayWebhook(p, e)
    BY <1>3 DEF Webhooks
  <2>2. faults' = faults \/ Fault
    BY <2>1 DEF HandleRazorpayWebhook
  <2>. QED
    BY <1>1, <1>3, <2>1, <2>2, HookStarts DEF Webhooks
<1>. QED
  BY <1>2, <1>3

LEMMA StartsShape ==
  ASSUME Shape, NEW p \in Proc, Request(p) \/ Webhooks(p)
  PROVE  Shape' /\ Keeps
<1>1. Keeps
  BY RequestStarts, SameKeeps
<1>2. PICK s \in Sub \cup {NoSub}, k \in Tier \cup {NoTier}, e \in Event \cup {NoEvent},
              t \in Seq(Call), C \in SUBSET Call :
        /\ Begin(p, s, k, e, t) /\ Good(t, C)
        /\ KnowsRow(s, k, C) /\ KnowsEvent(s, e, C)
  BY RequestStarts DEF Starts
<1>3. Procs'
  BY <1>1, <1>2, Begins DEF Good, KnowsRow, KnowsEvent
<1>4. inbox' \subseteq inbox
  BY RequestStarts
<1>5. Rows' /\ Records' /\ Others' /\ InboxOK' /\ Scheds'
  BY <1>1, <1>4, RequestStarts, SameRows, SameRecords, SameOthers, InboxStays, SameScheds
<1>. QED
  BY <1>1, <1>3, <1>5, PartsNext

-----------------------------------------------------------------------------
(* The calls of the provider.                                              *)

LEMMA OrderShape ==
  ASSUME Shape, NEW p \in Proc, Order(p)
  PROVE  Records' /\ Keeps /\ InboxOK' /\ Procs' /\ (faults' = faults \/ Fault)
<1>1. /\ todo[p] # <<>> /\ Head(todo[p]) = "order" /\ Has(p, "order") /\ CallOK(p)
      /\ tier[p] \in Tier
  BY Calling DEF Order, OfTier
<1>2. CASE Fault /\ Proceed(p, <<>>) /\ UNCHANGED <<rstatus, rplan>>
  <2>1. UNCHANGED providerVars /\ inbox' \subseteq inbox
    BY <1>2 DEF Order, providerVars
  <2>. QED
    BY <1>2, <2>1, SameRecords, SameKeeps, InboxStays, Fails
<1>3. CASE \E s \in Sub :
             /\ Fresh(s) /\ \A q \in Proc : sub[q] # s
             /\ rstatus' = [rstatus EXCEPT ![s] = "created"]
             /\ rplan' = [rplan EXCEPT ![s] = tier[p]]
             /\ sub' = [sub EXCEPT ![p] = s]
             /\ todo' = [todo EXCEPT ![p] = Tail(@)]
             /\ UNCHANGED <<tier, event, faults>>
  <2>1. PICK s \in Sub :
             /\ Fresh(s)
             /\ rstatus' = [rstatus EXCEPT ![s] = "created"]
             /\ rplan' = [rplan EXCEPT ![s] = tier[p]]
             /\ sub' = [sub EXCEPT ![p] = s]
             /\ todo' = [todo EXCEPT ![p] = Tail(@)]
             /\ UNCHANGED <<tier, event, faults>>
    BY <1>3
  <2>2. UNCHANGED <<rnext, rperiod, rpays, paid, inbox>>
    BY DEF Order
  <2>3. /\ rstatus' \in [Sub -> Status] /\ rplan' \in [Sub -> Tier] /\ rstatus'[s] = "created"
        /\ \A t \in Sub \ {s} : rstatus'[t] = rstatus[t] /\ rplan'[t] = rplan[t]
        /\ rstatus[s] = "none"
    BY <1>1, <2>1, Parts DEF Records, Status, Open, Current, Fresh, Billed
  <2>4. Changes(s)
    BY <2>2, <2>3, Parts, RecordTypes DEF Changes, Records, RecordOK, Paying
  <2>5. Records' /\ Keeps /\ InboxOK'
    BY <2>2, <2>4, ChangesRecords, InboxStays
  <2>6. ProcTypes
    BY Parts DEF Procs
  <2>7. /\ ProcTypes' /\ \A q \in Proc \ {p} : Stays(q)
        /\ todo'[p] = Rest(p) /\ sub'[p] = s /\ tier'[p] = tier[p] /\ event'[p] = event[p]
    <3>1. todo[p] \in Seq(Call) /\ Tail(todo[p]) \in Seq(Call)
      BY <1>1, CallTails DEF CallOK, Rest
    <3>2. todo' \in [Proc -> Seq(Call)] /\ sub' \in [Proc -> Sub \cup {NoSub}]
      BY <2>1, <2>6, <3>1 DEF ProcTypes
    <3>. QED
      BY <2>1, <2>6, <3>2 DEF ProcTypes, Stays, Rest
  <2>8. /\ Rest(p) \in Seq(Call) /\ Ordered(Rest(p)) /\ Range(Rest(p)) \subseteq {"insert"}
        /\ event[p] = NoEvent
    BY <1>1, RangeTail, OrderedTail DEF CallOK, Rest
  <2>9. Left(p)' \subseteq {"insert"}
    BY <2>7, <2>8 DEF Left
  <2>10. CallOK(p)'
    BY <1>1, <2>7, <2>8, <2>9 DEF CallOK, Has, OfRow
  <2>. QED
    BY <2>1, <2>5, <2>7, <2>10, ProcsGo
<1>. QED
  BY <1>2, <1>3 DEF Order

LEMMA CancelNowShape ==
  ASSUME Shape, NEW p \in Proc, CancelNow(p)
  PROVE  /\ Records' /\ Keeps /\ InboxOK' /\ Procs' /\ (faults' = faults \/ Fault)
         /\ Went(p) /\ sub[p] \in Sub
         /\ \A t \in Sub : rstatus'[t] = rstatus[t]
              \/ (t = sub[p] /\ rstatus[t] \in Open /\ rstatus'[t] = "cancelled")
         /\ rstatus'[sub[p]] \notin Open \/ Fault
         /\ UNCHANGED <<rplan, rnext, rpays, paid>>
         /\ \A e \in inbox' : e \in inbox \/ e.kind # "updated"
<1>1. /\ todo[p] # <<>> /\ Head(todo[p]) = "cancelNow" /\ Has(p, "cancelNow") /\ CallOK(p)
      /\ sub[p] \in Sub /\ Proceed(p, Rest(p))
  BY Calling DEF CancelNow, OfRow, Call
<1>2. PICK s \in Sub : s = sub[p]
  BY <1>1
<1>3. CASE /\ UNCHANGED <<providerVars, inbox>>
           /\ (faults' = faults /\ rstatus[s] \notin Open) \/ Fault
  <2>1. Keeps /\ Records' /\ InboxOK'
    BY <1>3, SameKeeps, SameRecords, InboxStays
  <2>2. Procs' /\ Went(p)
    BY <1>1, <2>1, Advances
  <2>. QED
    BY <1>1, <1>2, <1>3, <2>1, <2>2 DEF providerVars
<1>4. CASE /\ rstatus' = [rstatus EXCEPT ![s] = "cancelled"] /\ rstatus[s] \in Open
           /\ UNCHANGED <<rplan, rnext, rperiod, rpays, paid, faults>>
           /\ Emit({Webhook("cancelled", s)})
  <2>1. /\ rstatus' \in [Sub -> Status] /\ rstatus'[s] = "cancelled"
        /\ \A t \in Sub \ {s} : rstatus'[t] = rstatus[t]
    BY <1>4, Parts DEF Records, Status
  <2>2. Changes(s)
    BY <1>4, <2>1, Parts, RecordTypes DEF Changes, Records, RecordOK, Paying, Open, Current
  <2>3. Records' /\ Keeps
    BY <2>2, ChangesRecords
  <2>4. PICK e : e = Webhook("cancelled", s)
    OBVIOUS
  <2>5. EventOK(e)' /\ e.kind = "cancelled"
    BY <2>1, <2>3, <2>4, HookOK DEF Kind, Paying
  <2>6. InboxOK' /\ inbox' \subseteq inbox \cup {e}
    BY <1>4, <2>3, <2>4, <2>5, Emits
  <2>7. Procs' /\ Went(p)
    BY <1>1, <2>3, Advances
  <2>8. "cancelled" \notin Open
    BY DEF Open, Current
  <2>. QED
    BY <1>1, <1>2, <1>4, <2>1, <2>3, <2>5, <2>6, <2>7, <2>8
<1>. QED
  BY <1>2, <1>3, <1>4 DEF CancelNow

LEMMA PlanNowShape ==
  ASSUME Shape, NEW p \in Proc, PlanNow(p)
  PROVE  /\ Records' /\ Keeps /\ InboxOK' /\ Procs' /\ (faults' = faults \/ Fault)
         /\ Went(p) /\ sub[p] \in Sub /\ tier[p] \in Tier
         /\ UNCHANGED <<rstatus, rnext, rpays>>
         /\ \/ UNCHANGED <<rplan, paid, inbox>> /\ Ends(p)
            \/ /\ rpays[sub[p]] > 0 /\ rplan' = [rplan EXCEPT ![sub[p]] = tier[p]]
               /\ paid' \in Tier /\ paid <= paid' /\ tier[p] <= paid'
               /\ \A e \in inbox' : e \in inbox \/ e.plan = tier[p]
<1>1. /\ todo[p] # <<>> /\ Head(todo[p]) = "planNow" /\ CallOK(p)
      /\ sub[p] \in Sub /\ tier[p] \in Tier
  BY Calling DEF PlanNow, OfRow, OfTier, Call
<1>2. PICK s \in Sub, k \in Tier : s = sub[p] /\ k = tier[p]
  BY <1>1
<1>3. CASE /\ (~Updatable(s) /\ UNCHANGED faults) \/ Fault
           /\ Proceed(p, <<>>)
           /\ UNCHANGED <<providerVars, inbox>>
  <2>1. Keeps /\ Records' /\ InboxOK'
    BY <1>3, SameKeeps, SameRecords, InboxStays
  <2>2. Procs' /\ Went(p) /\ Ends(p)
    BY <1>3, <2>1, Fails
  <2>. QED
    BY <1>1, <1>3, <2>1, <2>2 DEF providerVars
<1>4. CASE /\ Updatable(s)
           /\ rplan' = [rplan EXCEPT ![s] = k]
           /\ paid' = Larger(paid, k)
           /\ UNCHANGED <<rstatus, rnext, rperiod, rpays, faults>>
           /\ Emit({Webhook("updated", s)})
           /\ Proceed(p, Rest(p))
  <2>1. rstatus[s] \in Paying /\ rpays[s] > 0 /\ rstatus[s] # "none"
    BY <1>4, RecordTypes DEF Updatable, Paying, RecordOK
  <2>2. paid' \in Tier /\ paid <= paid' /\ k <= paid'
    BY <1>4, RecordTypes DEF Larger
  <2>3. rplan' \in [Sub -> Tier] /\ rplan'[s] = k /\ \A t \in Sub \ {s} : rplan'[t] = rplan[t]
    BY <1>4, Parts DEF Records
  <2>4. Changes(s)
    BY <1>4, <2>1, <2>2, <2>3, Parts, RecordTypes DEF Changes, Records, RecordOK
  <2>5. Records' /\ Keeps
    BY <2>4, ChangesRecords
  <2>6. PICK e : e = Webhook("updated", s)
    OBVIOUS
  <2>7. EventOK(e)' /\ e.plan = k
    BY <1>4, <2>1, <2>3, <2>5, <2>6, HookOK DEF Kind, Paying
  <2>8. InboxOK' /\ inbox' \subseteq inbox \cup {e}
    BY <1>4, <2>5, <2>6, <2>7, Emits
  <2>9. Procs' /\ Went(p)
    BY <1>1, <1>4, <2>5, Advances
  <2>. QED
    BY <1>1, <1>2, <1>4, <2>1, <2>2, <2>5, <2>7, <2>8, <2>9
<1>. QED
  BY <1>2, <1>3, <1>4 DEF PlanNow

LEMMA LaterShape ==
  ASSUME Shape, NEW p \in Proc, PlanLater(p) \/ StopLater(p)
  PROVE  /\ Records' /\ Keeps /\ InboxOK' /\ Procs' /\ (faults' = faults \/ Fault)
         /\ Went(p) /\ sub[p] \in Sub
         /\ UNCHANGED <<rstatus, rplan, rpays, paid, inbox>>
         /\ \/ UNCHANGED rnext
            \/ rnext' = [rnext EXCEPT ![sub[p]] = 0]
            \/ Has(p, "planLater") /\ rnext' = [rnext EXCEPT ![sub[p]] = tier[p]]
<1>1. /\ todo[p] # <<>> /\ Head(todo[p]) \in {"planLater", "stopLater"} /\ CallOK(p)
      /\ sub[p] \in Sub
  BY Calling DEF PlanLater, StopLater, OfRow, Call
<1>2. PlanLater(p) => Has(p, "planLater") /\ tier[p] \in Tier
  BY Calling DEF PlanLater, OfTier
<1>3. /\ Proceed(p, Rest(p)) \/ Proceed(p, <<>>)
      /\ UNCHANGED <<rstatus, rplan, rperiod, rpays, paid, inbox>>
      /\ \/ UNCHANGED rnext
         \/ rnext' = [rnext EXCEPT ![sub[p]] = 0]
         \/ Has(p, "planLater") /\ tier[p] \in Tier /\ rnext' = [rnext EXCEPT ![sub[p]] = tier[p]]
      /\ (faults' = faults \/ Fault)
  BY <1>2 DEF PlanLater, StopLater
<1>4. Keeps
  BY <1>3 DEF Keeps
<1>5. 0 \in Tier
  BY NumberAssumption DEF Tier
<1>6. rnext' \in [Sub -> Tier \cup {NoTier}]
  BY <1>3, <1>5, Parts DEF Records
<1>7. Records'
  BY <1>3, <1>6, Parts DEF Records, RecordOK
<1>8. InboxOK'
  BY <1>3, <1>4, InboxStays
<1>9. Procs' /\ Went(p)
  BY <1>1, <1>3, <1>4, Advances, Fails
<1>. QED
  BY <1>1, <1>3, <1>4, <1>7, <1>8, <1>9

LEMMA FetchShape ==
  ASSUME Shape, NEW p \in Proc, Fetch(p)
  PROVE  /\ Records' /\ Keeps /\ InboxOK' /\ Procs' /\ (faults' = faults \/ Fault)
         /\ \A q \in Proc \ {p} : Stays(q)
         /\ todo'[p] = Rest(p) /\ sub'[p] = sub[p] /\ tier'[p] = tier[p]
         /\ event'[p] # NoEvent /\ event'[p].kind = "fetched"
         /\ Left(p)' \subseteq Left(p) /\ \A c : Has(p, c) /\ ~Has(p, c)' => c = "fetch"
<1>1. /\ todo[p] # <<>> /\ Head(todo[p]) = "fetch" /\ Has(p, "fetch") /\ CallOK(p)
      /\ sub[p] \in Sub
  BY Calling DEF Fetch, OfRow, Call
<1>2. PICK s \in Sub : s = sub[p]
  BY <1>1
<1>3. rpays[s] > 0 /\ rstatus[s] # "none" /\ rperiod[s] \in Period
  BY <1>1, <1>2, RecordTypes, Parts DEF CallOK, RecordOK, Records
<1>4. UNCHANGED <<providerVars, inbox>>
  BY DEF Fetch
<1>5. Records' /\ Keeps /\ InboxOK'
  BY <1>4, SameRecords, SameKeeps, InboxStays
<1>6. PICK x \in Status \ {"none"}, t \in Period, e \in Event :
        /\ e = [kind |-> "fetched", sub |-> s, plan |-> rplan[s], status |-> x,
                period |-> t, pay |-> 0]
        /\ event' = [event EXCEPT ![p] = e]
        /\ x = "cancelled" => rstatus[s] = "cancelled"
  <2>0. ASSUME NEW x \in Status \ {"none"}, NEW t \in Period
        PROVE  [kind |-> "fetched", sub |-> s, plan |-> rplan[s], status |-> x,
                period |-> t, pay |-> 0] \in Event
    BY RecordTypes, NumberAssumption DEF Event, Kind
  <2>1. CASE event' = [event EXCEPT ![p] =
               [kind |-> "fetched", sub |-> s, plan |-> rplan[s],
                status |-> IF rstatus[s] = "created" THEN "active" ELSE rstatus[s],
                period |-> IF rperiod[s] = "null" THEN "future" ELSE rperiod[s], pay |-> 0]]
    <3>1. PICK x, t : /\ x = IF rstatus[s] = "created" THEN "active" ELSE rstatus[s]
                      /\ t = IF rperiod[s] = "null" THEN "future" ELSE rperiod[s]
      OBVIOUS
    <3>2. x \in Status \ {"none"} /\ t \in Period /\ (x = "cancelled" => rstatus[s] = "cancelled")
      BY <1>3, <3>1, RecordTypes DEF Status, Open, Current, Period
    <3>. QED
      BY <1>3, <2>1, <3>1, <3>2, <2>0
  <2>2. CASE event' = [event EXCEPT ![p] =
               [kind |-> "fetched", sub |-> s, plan |-> rplan[s], status |-> "active",
                period |-> "future", pay |-> 0]]
    <3>1. "active" \in Status \ {"none"} /\ "future" \in Period
      BY DEF Status, Open, Current, Period
    <3>. QED
      BY <1>3, <2>2, <3>1, <2>0
  <2>. QED
    BY <1>2, <2>1, <2>2 DEF Fetch
<1>7. /\ e.kind = "fetched" /\ e.sub = s /\ e.status = x /\ e \in Event
  BY <1>6
<1>8. rpays'[s] > 0 /\ (x = "cancelled" => rstatus'[s] = "cancelled")
  BY <1>3, <1>4, <1>6 DEF providerVars
<1>9. EventOK(e)' /\ e # NoEvent
  BY <1>7, <1>8, <1>6, EventAssumption DEF EventOK, StatusOf
<1>10. ProcTypes
  BY Parts DEF Procs
<1>11. todo[p] \in Seq(Call) /\ Rest(p) \in Seq(Call) /\ Left(p) = {"fetch"} \cup Range(Rest(p))
  BY <1>1, CallTails DEF CallOK
<1>12. /\ todo' = [todo EXCEPT ![p] = Rest(p)] /\ UNCHANGED <<sub, tier>>
       /\ event' = [event EXCEPT ![p] = e]
  BY <1>6 DEF Fetch, Rest
<1>13. /\ ProcTypes' /\ \A q \in Proc \ {p} : Stays(q)
       /\ todo'[p] = Rest(p) /\ sub'[p] = s /\ tier'[p] = tier[p] /\ event'[p] = e
  BY <1>2, <1>7, <1>10, <1>11, <1>12 DEF ProcTypes, Stays
<1>14. Left(p)' = Range(Rest(p)) /\ Ordered(Rest(p))
  BY <1>1, <1>11, <1>13, OrderedTail DEF Left, Rest, CallOK
<1>15. CallOK(p)'
  <2>1. ~Has(p, "order")
    BY <1>1 DEF CallOK
  <2>. QED
    BY <1>1, <1>2, <1>7, <1>8, <1>9, <1>11, <1>13, <1>14 DEF CallOK, Has
<1>. QED
  BY <1>2, <1>4, <1>5, <1>7, <1>9, <1>11, <1>13, <1>14, <1>15, ProcsGo DEF Fetch, Has

LEMMA ProviderCallShape ==
  ASSUME Shape, NEW p \in Proc, ProviderCall(p)
  PROVE  Shape' /\ Keeps
<1>1. /\ UNCHANGED <<rowVars, limits, receipts, sched, requests>>
      /\ Order(p) \/ CancelNow(p) \/ PlanNow(p) \/ (PlanLater(p) \/ StopLater(p)) \/ Fetch(p)
  BY DEF ProviderCall
<1>2. Records' /\ Keeps /\ InboxOK' /\ Procs' /\ (faults' = faults \/ Fault)
  BY <1>1, OrderShape, CancelNowShape, PlanNowShape, LaterShape, FetchShape
<1>3. requests' \in 0 .. MaxRequests
  BY <1>1, Parts DEF Others
<1>4. Rows' /\ Others' /\ Scheds'
  BY <1>1, <1>2, <1>3, SameRows, SameOthers, SameScheds
<1>. QED
  BY <1>2, <1>4, PartsNext

-----------------------------------------------------------------------------
(* The statements about the row.                                           *)

LEMMA InsertShape ==
  ASSUME Shape, UNCHANGED providerVars, NEW p \in Proc, Insert(p)
  PROVE  /\ Rows' /\ Procs' /\ (faults' = faults \/ Fault) /\ sub[p] \in Sub /\ tier[p] \in Tier
         /\ Has(p, "insert") /\ ~Has(p, "order") /\ UNCHANGED <<pending, cancelEnd, period>>
         /\ \A q \in Proc \ {p} : Stays(q)
         /\ \/ /\ Ends(p) /\ NoCurrent /\ package' = [package EXCEPT ![sub[p]] = tier[p]]
               /\ status' = [status EXCEPT ![sub[p]] = "created"]
            \/ /\ Continues(p, <<"cancelNow">>) /\ Left(p)' = {"cancelNow"} /\ At(p, "cancelNow")'
               /\ UNCHANGED <<status, package>>
<1>1. /\ todo[p] # <<>> /\ Head(todo[p]) = "insert" /\ Has(p, "insert") /\ CallOK(p)
      /\ tier[p] \in Tier
  BY Calling DEF Insert, OfTier
<1>2. Left(p) = {"insert"}
  <2>1. todo[p] \in Seq(Call) /\ Ordered(todo[p])
    BY <1>1 DEF CallOK
  <2>. QED
    BY <1>1, <2>1, CallTails, OrderedTail DEF Rest
<1>3. sub[p] \in Sub /\ ~Has(p, "order")
  BY <1>1, <1>2 DEF CallOK, Has
<1>4. Keeps /\ UNCHANGED <<pending, cancelEnd, period>>
  BY SameKeeps DEF Insert
<1>5. PICK s \in Sub, k \in Tier : s = sub[p] /\ k = tier[p]
  BY <1>1, <1>3
<1>6. CASE /\ NoCurrent
           /\ status' = [status EXCEPT ![s] = "created"]
           /\ package' = [package EXCEPT ![s] = k]
           /\ UNCHANGED faults
           /\ Proceed(p, <<>>)
  <2>1. Rows'
    BY <1>4, <1>6, Parts DEF Rows, Status, Open, Current
  <2>2. Procs' /\ Ends(p) /\ Went(p)
    BY <1>4, <1>6, Fails
  <2>. QED
    BY <1>1, <1>3, <1>4, <1>5, <1>6, <2>1, <2>2 DEF Went
<1>7. CASE /\ (faults' = faults \/ Fault)
           /\ UNCHANGED <<status, package>>
           /\ Proceed(p, <<"cancelNow">>)
  <2>1. Rows'
    BY <1>4, <1>7, SameRows DEF rowVars
  <2>2. PICK t : t = <<"cancelNow">>
    OBVIOUS
  <2>3. t \in Seq(Call) /\ t # <<>> /\ Head(t) = "cancelNow" /\ Ordered(t)
          /\ Range(t) = {"cancelNow"}
    BY <2>2, Programs1 DEF Good
  <2>4. ProcTypes' /\ Continues(p, t) /\ \A q \in Proc \ {p} : Stays(q)
    BY <1>7, <2>2, <2>3, ProceedsTo
  <2>5. Left(p)' = {"cancelNow"}
    BY <2>3, <2>4 DEF Left, Continues
  <2>6. PICK e : e = event[p]
    OBVIOUS
  <2>7. e # NoEvent => EventOK(e)' /\ e.sub = sub[p]
    BY <1>1, <1>4, <2>6, EventStays DEF CallOK
  <2>8. event'[p] # NoEvent => EventOK(event[p])' /\ event'[p].sub = sub'[p]
    BY <2>4, <2>6, <2>7 DEF Continues
  <2>9. CallOK(p)'
    BY <1>1, <1>3, <2>3, <2>4, <2>5, <2>8 DEF CallOK, Has, Continues, OfTier
  <2>10. At(p, "cancelNow")'
    BY <2>3, <2>4 DEF At, Continues
  <2>. QED
    BY <1>1, <1>3, <1>4, <1>7, <2>1, <2>2, <2>4, <2>5, <2>9, <2>10, ProcsGo
<1>. QED
  BY <1>5, <1>6, <1>7 DEF Insert

LEMMA AssignShape ==
  ASSUME Shape, UNCHANGED providerVars, NEW p \in Proc, Assign(p)
  PROVE  /\ Rows' /\ Procs' /\ (faults' = faults \/ Fault) /\ Went(p) /\ UNCHANGED pending
         /\ \/ UNCHANGED <<status, package, period>> /\ Ends(p)
            \/ \E s \in Sub : ~Exists(s) /\ ~Billed(s)
                 /\ status' = [status EXCEPT ![s] = "active"]
<1>1. /\ todo[p] # <<>> /\ Head(todo[p]) = "assign" /\ tier[p] \in Tier
  BY Calling DEF Assign, OfTier
<1>2. Keeps /\ UNCHANGED <<pending, cancelEnd, faults>>
  BY SameKeeps DEF Assign
<1>3. CASE UNCHANGED <<status, package, period>> /\ Proceed(p, <<>>)
  BY <1>2, <1>3, SameRows, Fails DEF rowVars
<1>4. CASE \E s \in Sub :
             /\ NoCurrent /\ Fresh(s) /\ \A q \in Proc : sub[q] # s
             /\ status' = [status EXCEPT ![s] = "active"]
             /\ package' = [package EXCEPT ![s] = tier[p]]
             /\ period' = [period EXCEPT ![s] = "future"]
             /\ Proceed(p, Rest(p))
  <2>1. PICK s \in Sub :
             /\ Fresh(s)
             /\ status' = [status EXCEPT ![s] = "active"]
             /\ package' = [package EXCEPT ![s] = tier[p]]
             /\ period' = [period EXCEPT ![s] = "future"]
             /\ Proceed(p, Rest(p))
    BY <1>4
  <2>2. Rows'
    BY <1>1, <1>2, <2>1, Parts DEF Rows, Status, Open, Current, Period
  <2>3. Procs' /\ Went(p)
    BY <1>1, <1>2, <2>1, Advances
  <2>. QED
    BY <1>2, <2>1, <2>2, <2>3 DEF Fresh
<1>. QED
  BY <1>3, <1>4 DEF Assign

LEMMA ApplyShape ==
  ASSUME Shape, UNCHANGED providerVars, NEW p \in Proc, Apply(p)
  PROVE  /\ Rows' /\ Procs' /\ (faults' = faults \/ Fault) /\ Went(p) /\ sub[p] \in Sub
         /\ UNCHANGED <<package, pending, cancelEnd>>
         /\ \/ UNCHANGED status
            \/ \E e \in Event : /\ EventOK(e) /\ e.sub = sub[p]
                                /\ status' = [status EXCEPT ![sub[p]] = StatusOf(e)]
<1>1. /\ todo[p] # <<>> /\ Head(todo[p]) = "apply" /\ Has(p, "apply") /\ CallOK(p)
      /\ sub[p] \in Sub
  BY Calling DEF Apply, OfRow, Call
<1>2. Keeps /\ UNCHANGED <<package, pending, cancelEnd, faults>>
  BY SameKeeps DEF Apply
<1>3. PICK s \in Sub : s = sub[p]
  BY <1>1
<1>4. CASE UNCHANGED <<status, period>> /\ Proceed(p, <<>>)
  BY <1>1, <1>2, <1>4, SameRows, Fails DEF rowVars
<1>5. CASE /\ status' = [status EXCEPT ![s] = StatusOf(event[p])]
           /\ period' = [period EXCEPT ![s] = IF event[p].period = "null" THEN @
                                              ELSE event[p].period]
           /\ Proceed(p, Rest(p))
  <2>1. event[p] # NoEvent
    <3>1. todo[p] \in Seq(Call) /\ Ordered(todo[p])
      BY <1>1 DEF CallOK
    <3>2. ~Has(p, "fetch")
      BY <1>1, <3>1, CallTails, OrderedTail DEF Has, Rest, First
    <3>. QED
      BY <1>1, <3>2 DEF CallOK
  <2>2. PICK e : e = event[p]
    OBVIOUS
  <2>3. EventOK(e) /\ e.sub = s /\ e \in Event
    BY <1>1, <1>3, <2>1, <2>2 DEF CallOK, EventOK
  <2>4. e.period \in Period /\ e.kind \in Kind /\ e.status \in Status
    BY <2>3 DEF Event
  <2>5. StatusOf(e) \in Status
    BY <2>3, <2>4 DEF StatusOf, Kind, Status, Open, Current
  <2>6. Rows'
    BY <1>2, <1>5, <2>2, <2>4, <2>5, Parts DEF Rows
  <2>7. Procs' /\ Went(p)
    BY <1>1, <1>2, <1>5, Advances
  <2>. QED
    BY <1>1, <1>2, <1>3, <1>5, <2>2, <2>3, <2>6, <2>7
<1>. QED
  BY <1>3, <1>4, <1>5 DEF Apply

LEMMA CancelRowShape ==
  ASSUME Shape, UNCHANGED providerVars, NEW p \in Proc, CancelRow(p)
  PROVE  /\ Rows' /\ Procs' /\ (faults' = faults \/ Fault) /\ Went(p) /\ sub[p] \in Sub
         /\ Head(todo[p]) = "cancelRow" /\ Has(p, "cancelRow") /\ UNCHANGED <<package, pending>>
         /\ \/ UNCHANGED status
            \/ status' = [status EXCEPT ![sub[p]] = "cancelled"]
<1>1. /\ todo[p] # <<>> /\ Head(todo[p]) = "cancelRow" /\ Has(p, "cancelRow") /\ sub[p] \in Sub
  BY Calling DEF CancelRow, OfRow, Call
<1>2. Keeps /\ UNCHANGED <<package, pending, period>> /\ Proceed(p, Rest(p))
  BY SameKeeps DEF CancelRow
<1>3. Procs' /\ Went(p)
  BY <1>1, <1>2, Advances
<1>4. PICK s \in Sub : s = sub[p]
  BY <1>1
<1>5. CASE UNCHANGED <<status, cancelEnd>>
  BY <1>1, <1>2, <1>3, <1>5, SameRows DEF rowVars, CancelRow
<1>6. CASE /\ status' = [status EXCEPT ![s] = "cancelled"]
           /\ cancelEnd' = [cancelEnd EXCEPT ![s] = FALSE]
           /\ UNCHANGED faults
  <2>1. Rows'
    BY <1>2, <1>6, Parts DEF Rows, Status
  <2>. QED
    BY <1>1, <1>2, <1>3, <1>4, <1>6, <2>1
<1>. QED
  BY <1>4, <1>5, <1>6 DEF CancelRow

LEMMA SetterShape ==
  ASSUME Shape, UNCHANGED providerVars, NEW p \in Proc,
         SetCancellation(p) \/ SetPendingDowngrade(p) \/ UpdatePackageID(p)
  PROVE  /\ Rows' /\ Procs' /\ (faults' = faults \/ Fault) /\ Went(p) /\ sub[p] \in Sub
         /\ UNCHANGED status
         /\ \/ UNCHANGED pending
            \/ pending' = [pending EXCEPT ![sub[p]] = NoTier]
            \/ Has(p, "pend") /\ pending' = [pending EXCEPT ![sub[p]] = tier[p]]
         /\ \/ UNCHANGED package
            \/ Has(p, "setPackage") /\ package' = [package EXCEPT ![sub[p]] = tier[p]]
<1>1. /\ todo[p] # <<>> /\ sub[p] \in Sub
      /\ Head(todo[p]) \in {"stopRow", "unstop", "pend", "unpend", "setPackage"}
  BY Calling DEF SetCancellation, SetPendingDowngrade, UpdatePackageID, OfRow, Call
<1>2. Keeps /\ UNCHANGED <<status, period, faults>> /\ Proceed(p, Rest(p))
  BY SameKeeps DEF SetCancellation, SetPendingDowngrade, UpdatePackageID
<1>3. Procs' /\ Went(p)
  BY <1>1, <1>2, Advances
<1>4. CASE SetCancellation(p)
  <2>1. PICK b \in BOOLEAN : b = At(p, "stopRow")
    BY DEF At
  <2>2. cancelEnd' = [cancelEnd EXCEPT ![sub[p]] = b] /\ UNCHANGED <<package, pending>>
    BY <1>4, <2>1 DEF SetCancellation
  <2>3. Rows'
    BY <1>1, <1>2, <2>2, Parts DEF Rows
  <2>. QED
    BY <1>1, <1>2, <1>3, <2>2, <2>3
<1>5. CASE SetPendingDowngrade(p)
  <2>1. PICK k \in Tier \cup {NoTier} :
          /\ pending' = [pending EXCEPT ![sub[p]] = k]
          /\ k = NoTier \/ (Has(p, "pend") /\ k = tier[p])
    <3>1. At(p, "pend") => Has(p, "pend") /\ tier[p] \in Tier
      BY Calling DEF OfTier
    <3>. QED
      BY <1>5, <3>1 DEF SetPendingDowngrade
  <2>2. UNCHANGED <<package, cancelEnd>>
    BY <1>5 DEF SetPendingDowngrade
  <2>3. Rows'
    BY <1>1, <1>2, <2>1, <2>2, Parts DEF Rows
  <2>. QED
    BY <1>1, <1>2, <1>3, <2>1, <2>2, <2>3
<1>6. CASE UpdatePackageID(p)
  <2>1. Has(p, "setPackage") /\ tier[p] \in Tier
    BY <1>6, Calling DEF UpdatePackageID, OfTier
  <2>2. /\ package' = [package EXCEPT ![sub[p]] = tier[p]]
        /\ pending' = [pending EXCEPT ![sub[p]] = NoTier]
        /\ UNCHANGED cancelEnd
    BY <1>6 DEF UpdatePackageID
  <2>3. Rows'
    BY <1>1, <1>2, <2>1, <2>2, Parts DEF Rows
  <2>. QED
    BY <1>1, <1>2, <1>3, <2>1, <2>2, <2>3
<1>. QED
  BY <1>4, <1>5, <1>6

LEMMA RowCallShape ==
  ASSUME Shape, NEW p \in Proc, RowCall(p)
  PROVE  Shape' /\ Keeps
<1>1. /\ UNCHANGED <<limits, receipts, inbox, sched, requests>> /\ UNCHANGED providerVars
      /\ Insert(p) \/ Assign(p) \/ Apply(p) \/ CancelRow(p)
         \/ (SetCancellation(p) \/ SetPendingDowngrade(p) \/ UpdatePackageID(p))
  BY DEF RowCall
<1>2. Rows' /\ Procs' /\ (faults' = faults \/ Fault)
  BY <1>1, InsertShape, AssignShape, ApplyShape, CancelRowShape, SetterShape
<1>3. requests' \in 0 .. MaxRequests
  BY <1>1, Parts DEF Others
<1>4. Keeps /\ Records' /\ InboxOK' /\ Others' /\ Scheds'
  BY <1>1, <1>2, <1>3, SameKeeps, SameRecords, InboxStays, SameOthers, SameScheds
<1>. QED
  BY <1>2, <1>4, PartsNext

-----------------------------------------------------------------------------
(* The limits, the receipts and the acknowledgement.                       *)

LEMMA LimitsShape ==
  ASSUME Shape, UNCHANGED providerVars, NEW p \in Proc, UpdateStorageLimits(p)
  PROVE  /\ Procs' /\ (faults' = faults \/ Fault) /\ Went(p) /\ UNCHANGED <<receipts, inbox>>
         /\ limits' \in Tier
         /\ \/ UNCHANGED limits \/ limits' = 0
            \/ Has(p, "grant") /\ limits' = tier[p] /\ Head(todo[p]) = "grant"
<1>1. /\ todo[p] # <<>> /\ Head(todo[p]) \in {"grant", "revert"}
      /\ At(p, "grant") => Has(p, "grant") /\ tier[p] \in Tier /\ Head(todo[p]) = "grant"
  BY Calling DEF UpdateStorageLimits, OfTier
<1>2. Keeps /\ UNCHANGED <<receipts, inbox>> /\ Proceed(p, Rest(p))
  BY SameKeeps DEF UpdateStorageLimits
<1>3. Procs' /\ Went(p)
  BY <1>1, <1>2, Advances
<1>4. 0 \in Tier /\ limits \in Tier
  BY NumberAssumption, Parts DEF Tier, Others
<1>. QED
  BY <1>1, <1>2, <1>3, <1>4 DEF UpdateStorageLimits

LEMMA RecordChargeShape ==
  ASSUME Shape, UNCHANGED providerVars, NEW p \in Proc, RecordCharge(p)
  PROVE  /\ Procs' /\ UNCHANGED <<limits, receipts, inbox, faults>> /\ sub[p] \in Sub
         /\ Has(p, "receipt") /\ Head(todo[p]) = "receipt"
         /\ \/ Went(p)
            \/ /\ receipts[sub[p]][PaymentOf(p)] <= 0
               /\ \A q \in Proc \ {p} : Stays(q)
               /\ Continues(p, <<"insertReceipt">> \o Rest(p))
               /\ Left(p)' = {"insertReceipt"} \cup Range(Rest(p))
               /\ Left(p) = {"receipt"} \cup Range(Rest(p))
<1>1. /\ todo[p] # <<>> /\ Head(todo[p]) = "receipt" /\ Has(p, "receipt") /\ CallOK(p)
      /\ sub[p] \in Sub
  BY Calling DEF RecordCharge, OfRow, Call
<1>2. Keeps /\ UNCHANGED <<limits, receipts, inbox, faults>>
  BY SameKeeps DEF RecordCharge
<1>3. /\ todo[p] \in Seq(Call) /\ Ordered(todo[p]) /\ Rest(p) \in Seq(Call) /\ Ordered(Rest(p))
      /\ Left(p) = {"receipt"} \cup Range(Rest(p))
      /\ First \cap Range(Rest(p)) = {}
  BY <1>1, CallTails, OrderedTail DEF CallOK, Rest
<1>4. PICK t \in Seq(Call) :
        /\ t = <<"insertReceipt">> \o Rest(p)
        /\ t # <<>> /\ Range(t) = {"insertReceipt"} \cup Range(Rest(p))
  <2>1. PICK c \in Call, r \in Seq(Call) : c = "insertReceipt" /\ r = Rest(p)
    BY <1>3 DEF Call
  <2>2. <<c>> \o r \in Seq(Call) /\ <<c>> \o r # <<>> /\ Range(<<c>> \o r) = {c} \cup Range(r)
    BY RangeCons
  <2>. QED
    BY <2>1, <2>2
<1>5. Ordered(t)
  BY <1>3, <1>4, OrderedCons
<1>6. CASE Proceed(p, Rest(p))
  BY <1>1, <1>2, <1>6, Advances
<1>7. CASE Proceed(p, t) /\ ~(receipts[sub[p]][PaymentOf(p)] > 0)
  <2>1. ProcTypes' /\ Continues(p, t) /\ \A q \in Proc \ {p} : Stays(q)
    BY <1>4, <1>7, ProceedsTo
  <2>2. Left(p)' = {"insertReceipt"} \cup Range(Rest(p))
    BY <1>4, <2>1 DEF Left, Continues
  <2>3. PICK e : e = event[p]
    OBVIOUS
  <2>4. e # NoEvent => EventOK(e)' /\ e.sub = sub[p]
    BY <1>1, <1>2, <2>3, EventStays DEF CallOK
  <2>5. event'[p] # NoEvent => EventOK(event[p])' /\ event'[p].sub = sub'[p]
    BY <2>1, <2>3, <2>4 DEF Continues
  <2>6. CallOK(p)'
    BY <1>1, <1>3, <1>4, <1>5, <2>1, <2>2, <2>5
         DEF CallOK, Has, Continues, OfTier, OfRow, Call, First
  <2>7. Procs'
    BY <1>2, <2>1, <2>6, ProcsGo
  <2>8. PICK i : i = PaymentOf(p)
    OBVIOUS
  <2>9. i \in 1 .. MaxPays
    BY <1>1, <2>3, <2>8, NumberAssumption DEF CallOK, PaymentOf, EventOK, Event
  <2>10. receipts[sub[p]][i] \in Nat
    BY <1>1, <2>9, Parts DEF Others
  <2>. QED
    BY <1>1, <1>2, <1>3, <1>4, <1>7, <2>1, <2>2, <2>7, <2>8, <2>10
<1>. QED
  BY <1>4, <1>6, <1>7 DEF RecordCharge

LEMMA PaymentRange ==
  ASSUME Shape, NEW p \in Proc
  PROVE  PaymentOf(p) \in 1 .. MaxPays
<1>1. PICK e : e = event[p]
  OBVIOUS
<1>2. e # NoEvent => EventOK(e)
  BY <1>1, Parts DEF Procs, CallOK
<1>. QED
  BY <1>1, <1>2, NumberAssumption DEF PaymentOf, EventOK, Event

LEMMA InsertReceiptShape ==
  ASSUME Shape, UNCHANGED providerVars, NEW p \in Proc, InsertReceipt(p)
  PROVE  /\ Procs' /\ UNCHANGED <<limits, inbox, faults>> /\ Went(p) /\ sub[p] \in Sub
         /\ Head(todo[p]) = "insertReceipt"
         /\ receipts' \in [Sub -> [1 .. MaxPays -> Nat]]
<1>1. /\ todo[p] # <<>> /\ Head(todo[p]) = "insertReceipt" /\ sub[p] \in Sub
  BY Calling DEF InsertReceipt, OfRow, Call
<1>2. Keeps /\ UNCHANGED <<limits, inbox, faults>> /\ Proceed(p, Rest(p))
  BY SameKeeps DEF InsertReceipt
<1>3. Procs' /\ Went(p)
  BY <1>1, <1>2, Advances
<1>4. PICK s \in Sub, i \in 1 .. MaxPays : s = sub[p] /\ i = PaymentOf(p)
  BY <1>1, PaymentRange
<1>5. receipts' = [receipts EXCEPT ![s][i] = @ + 1]
  BY <1>4 DEF InsertReceipt
<1>6. receipts' \in [Sub -> [1 .. MaxPays -> Nat]]
  <2>1. receipts \in [Sub -> [1 .. MaxPays -> Nat]]
    BY Parts DEF Others
  <2>2. PICK f \in [1 .. MaxPays -> Nat] : f = receipts[s]
    BY <2>1
  <2>3. f[i] + 1 \in Nat
    BY <1>4, <2>2, NumberAssumption
  <2>4. [f EXCEPT ![i] = f[i] + 1] \in [1 .. MaxPays -> Nat]
    BY <2>2, <2>3
  <2>5. receipts' = [receipts EXCEPT ![s] = [f EXCEPT ![i] = f[i] + 1]]
    BY <1>5, <2>2
  <2>. QED
    BY <2>1, <2>4, <2>5
<1>. QED
  BY <1>1, <1>2, <1>3, <1>6

LEMMA RecordShape ==
  ASSUME Shape, UNCHANGED providerVars, NEW p \in Proc, Record(p)
  PROVE  /\ Procs' /\ UNCHANGED <<limits, receipts, faults>> /\ Went(p) /\ inbox' \subseteq inbox
<1>1. /\ todo[p] # <<>> /\ Head(todo[p]) = "record"
  BY Calling DEF Record
<1>2. Keeps /\ UNCHANGED <<limits, receipts, faults>> /\ Proceed(p, Rest(p))
  BY SameKeeps DEF Record
<1>. QED
  BY <1>1, <1>2, Advances DEF Record

LEMMA OtherCallShape ==
  ASSUME Shape, NEW p \in Proc, OtherCall(p)
  PROVE  Shape' /\ Keeps
<1>1. /\ UNCHANGED rowVars /\ UNCHANGED providerVars /\ UNCHANGED <<sched, requests>>
      /\ UpdateStorageLimits(p) \/ RecordCharge(p) \/ InsertReceipt(p) \/ Record(p)
  BY DEF OtherCall
<1>2. requests' \in 0 .. MaxRequests /\ limits \in Tier
        /\ receipts \in [Sub -> [1 .. MaxPays -> Nat]]
      /\ faults \in 0 .. MaxFaults
  BY <1>1, Parts DEF Others
<1>3. /\ Procs' /\ (faults' = faults \/ Fault) /\ inbox' \subseteq inbox /\ limits' \in Tier
      /\ receipts' \in [Sub -> [1 .. MaxPays -> Nat]]
  BY <1>1, <1>2, LimitsShape, RecordChargeShape, InsertReceiptShape, RecordShape
<1>4. Others'
  BY <1>2, <1>3, NumberAssumption DEF Others, Fault
<1>5. Keeps /\ Rows' /\ Records' /\ InboxOK' /\ Scheds'
  BY <1>1, <1>3, SameKeeps, SameRows, SameRecords, InboxStays, SameScheds
<1>. QED
  BY <1>3, <1>4, <1>5, PartsNext

LEMMA AbandonShape ==
  ASSUME Shape, NEW p \in Proc, Abandon(p)
  PROVE  Shape' /\ Keeps /\ Went(p) /\ Ends(p)
<1>1. /\ UNCHANGED rowVars /\ UNCHANGED providerVars /\ UNCHANGED <<limits, receipts>>
      /\ UNCHANGED <<inbox, sched, requests>> /\ Fault /\ Proceed(p, <<>>)
  BY DEF Abandon
<1>2. requests' \in 0 .. MaxRequests
  BY <1>1, Parts DEF Others
<1>3. Keeps
  BY <1>1, SameKeeps
<1>. QED
  BY <1>1, <1>2, <1>3, SameRows, SameRecords, SameOthers, InboxStays, Fails, SameScheds, PartsNext

-----------------------------------------------------------------------------
(* The scheduler.                                                          *)

LEMMA BatchTypes ==
  ASSUME Shape, NEW x \in sched.batch
  PROVE  /\ x[1] \in Sub /\ x[2] \in Tier \cup {NoTier}
         /\ sched.at = "downgrade" => x[2] \in Tier
BY Parts DEF Scheds, SchedType, SchedOK

LEMMA SchedNext ==
  ASSUME NEW a \in {"downgrade", "downgradeLimits", "expire", "expireLimits"},
         NEW B \in SUBSET (Sub \X (Tier \cup {NoTier})), NEW k \in Tier \cup {NoTier},
         sched' = [at |-> a, batch |-> B, tier |-> k],
         a \in {"downgrade", "downgradeLimits"} => B \subseteq Sub \X Tier,
         a = "downgradeLimits" <=> k # NoTier
  PROVE  Scheds' /\ sched'.at = a /\ sched'.batch = B /\ sched'.tier = k
<1>1. sched'.at = a /\ sched'.batch = B /\ sched'.tier = k
  OBVIOUS
<1>2. SchedType'
  BY DEF SchedType
<1>. QED
  BY <1>1, <1>2 DEF Scheds, SchedOK

LEMMA SchedNow ==
  ASSUME Shape
  PROVE  /\ sched = [at |-> sched.at, batch |-> sched.batch, tier |-> sched.tier]
         /\ sched.at \in {"downgrade", "downgradeLimits", "expire", "expireLimits"}
         /\ sched.batch \in SUBSET (Sub \X (Tier \cup {NoTier}))
         /\ sched.tier \in Tier \cup {NoTier}
         /\ sched.at \in {"downgrade", "downgradeLimits"} => sched.batch \subseteq Sub \X Tier
         /\ sched.at = "downgradeLimits" <=> sched.tier # NoTier
         /\ NoTier \notin Tier
BY Parts, NumberAssumption, NameAssumption DEF Scheds, SchedType, SchedOK, Tier

(* What a step of the scheduler does to the batch and its package, the     *)
(* rows and the limits.                                                    *)
Scheduled ==
  /\ Scheds' /\ Rows' /\ limits' \in Tier /\ (faults' = faults \/ Fault)
  /\ \/ UNCHANGED limits \/ limits' = 0
     \/ sched.tier # NoTier /\ limits' = sched.tier
  /\ \/ sched'.tier = NoTier
     \/ \E x \in sched.batch : x[2] # NoTier /\ sched'.tier = x[2]
     \/ sched'.tier = sched.tier
  /\ \A x \in sched'.batch :
       \/ x \in sched.batch \/ x[2] = NoTier
       \/ pending[x[1]] # NoTier /\ x[2] = pending[x[1]]
  /\ \A s \in Sub :
       /\ status'[s] = status[s] \/ status'[s] = "expired"
       /\ pending'[s] = pending[s] \/ pending'[s] = NoTier
       /\ \/ package'[s] = package[s]
          \/ \E x \in sched.batch : x[1] = s /\ x[2] # NoTier /\ package'[s] = x[2]

LEMMA ListPendingDowngradesActs ==
  ASSUME Shape, ListPendingDowngrades
  PROVE  Scheduled
<1>1. PICK B : B = {<<s, pending[s]>> :
                      s \in {t \in Sub : pending[t] # NoTier /\ period[t] = "past"}}
  OBVIOUS
<1>2. B \in SUBSET (Sub \X Tier)
  BY <1>1, RecordTypes
<1>3. \A x \in B : pending[x[1]] # NoTier /\ x[2] = pending[x[1]]
  BY <1>1
<1>4. sched' = [at |-> "downgrade", batch |-> B, tier |-> NoTier]
  BY <1>1 DEF ListPendingDowngrades, Idle
<1>5. Scheds' /\ sched'.batch = B /\ sched'.tier = NoTier
  BY <1>2, <1>4, SchedNext
<1>6. UNCHANGED <<rowVars, limits, faults>>
  BY DEF ListPendingDowngrades
<1>7. Rows' /\ limits' \in Tier
  BY <1>6, SameRows, Parts DEF Others
<1>. QED
  BY <1>3, <1>5, <1>6, <1>7 DEF Scheduled, rowVars

LEMMA ApplyDowngradeActs ==
  ASSUME Shape, NEW x \in sched.batch, ApplyDowngrade(x)
  PROVE  Scheduled
<1>1. sched.at = "downgrade" /\ UNCHANGED <<status, cancelEnd, period, limits>>
  BY DEF ApplyDowngrade
<1>2. PICK s \in Sub, k \in Tier : s = x[1] /\ k = x[2] /\ k # NoTier
  BY <1>1, BatchTypes, SchedNow
<1>3. PICK B : B = sched.batch \ {x}
  OBVIOUS
<1>4. /\ B \in SUBSET (Sub \X (Tier \cup {NoTier})) /\ B \subseteq sched.batch
      /\ B \subseteq Sub \X Tier
  BY <1>1, <1>3, SchedNow
<1>5. limits' \in Tier
  BY <1>1, Parts DEF Others
<1>6. CASE /\ package' = [package EXCEPT ![s] = k]
           /\ pending' = [pending EXCEPT ![s] = NoTier]
           /\ sched' = [at |-> "downgradeLimits", batch |-> B, tier |-> k]
           /\ UNCHANGED faults
  <2>1. Scheds' /\ sched'.batch = B /\ sched'.tier = k
    BY <1>2, <1>4, <1>6, SchedNext
  <2>2. Rows'
    BY <1>1, <1>6, Parts DEF Rows
  <2>3. \A t \in Sub : /\ pending'[t] = pending[t] \/ pending'[t] = NoTier
                       /\ package'[t] = package[t] \/ (t = s /\ package'[t] = k)
    BY <1>6, Parts DEF Rows
  <2>. QED
    BY <1>1, <1>2, <1>4, <1>5, <1>6, <2>1, <2>2, <2>3 DEF Scheduled
<1>7. CASE Fault /\ sched' = [sched EXCEPT !.batch = B] /\ UNCHANGED <<package, pending>>
  <2>1. sched' = [at |-> sched.at, batch |-> B, tier |-> sched.tier]
    BY <1>7, SchedNow
  <2>2. Scheds' /\ sched'.batch = B /\ sched'.tier = sched.tier
    BY <1>4, <2>1, SchedNow, SchedNext
  <2>3. Rows'
    BY <1>1, <1>7, SameRows DEF rowVars
  <2>. QED
    BY <1>1, <1>4, <1>5, <1>7, <2>2, <2>3 DEF Scheduled
<1>. QED
  BY <1>2, <1>3, <1>6, <1>7 DEF ApplyDowngrade

LEMMA DowngradeLimitsActs ==
  ASSUME Shape, DowngradeLimits
  PROVE  Scheduled
<1>1. /\ sched.at = "downgradeLimits"
      /\ sched' = [at |-> "downgrade", batch |-> sched.batch, tier |-> NoTier]
  BY SchedNow DEF DowngradeLimits
<1>2. Scheds' /\ sched'.batch = sched.batch /\ sched'.tier = NoTier
  BY <1>1, SchedNow, SchedNext
<1>3. UNCHANGED rowVars /\ Rows'
  BY SameRows DEF DowngradeLimits
<1>4. sched.tier # NoTier /\ sched.tier \in Tier /\ limits \in Tier
  BY <1>1, SchedNow, Parts DEF Others
<1>5. (limits' = sched.tier /\ UNCHANGED faults) \/ (Fault /\ UNCHANGED limits)
  BY DEF DowngradeLimits
<1>. QED
  BY <1>2, <1>3, <1>4, <1>5 DEF Scheduled, rowVars

LEMMA ListExpiringOrExpiredActs ==
  ASSUME Shape, ListExpiringOrExpired
  PROVE  Scheduled
<1>1. PICK B : B = {<<s, NoTier>> : s \in {t \in Sub : status[t] = "active" /\ period[t] = "past"}}
  OBVIOUS
<1>2. B \in SUBSET (Sub \X (Tier \cup {NoTier})) /\ \A x \in B : x[2] = NoTier
  BY <1>1
<1>3. sched' = [at |-> "expire", batch |-> B, tier |-> NoTier]
  BY <1>1 DEF ListExpiringOrExpired, Idle
<1>4. Scheds' /\ sched'.batch = B /\ sched'.tier = NoTier
  BY <1>2, <1>3, SchedNext
<1>5. UNCHANGED <<rowVars, limits, faults>>
  BY DEF ListExpiringOrExpired
<1>6. Rows' /\ limits' \in Tier
  BY <1>5, SameRows, Parts DEF Others
<1>. QED
  BY <1>2, <1>4, <1>5, <1>6 DEF Scheduled, rowVars

LEMMA ExpireActs ==
  ASSUME Shape, NEW x \in sched.batch, Expire(x)
  PROVE  Scheduled
<1>1. PICK s \in Sub : s = x[1]
  BY BatchTypes
<1>2. PICK B : B = sched.batch \ {x}
  OBVIOUS
<1>3. /\ sched.at = "expire" /\ sched' = [at |-> "expireLimits", batch |-> B, tier |-> sched.tier]
      /\ UNCHANGED <<package, pending, cancelEnd, period, limits>>
  BY <1>2, SchedNow DEF Expire
<1>4. B \in SUBSET (Sub \X (Tier \cup {NoTier})) /\ B \subseteq sched.batch
  BY <1>2, SchedNow
<1>5. Scheds' /\ sched'.batch = B /\ sched'.tier = sched.tier
  BY <1>3, <1>4, SchedNow, SchedNext
<1>6. limits' \in Tier
  BY <1>3, Parts DEF Others
<1>7. /\ Rows' /\ (faults' = faults \/ Fault)
      /\ \A t \in Sub : status'[t] = status[t] \/ status'[t] = "expired"
  <2>1. CASE status' = [status EXCEPT ![s] = "expired"] /\ UNCHANGED faults
    BY <1>3, <2>1, Parts DEF Rows, Status
  <2>2. CASE Fault /\ UNCHANGED status
    BY <1>3, <2>2, SameRows DEF rowVars
  <2>. QED
    BY <1>1, <2>1, <2>2 DEF Expire
<1>. QED
  BY <1>3, <1>4, <1>5, <1>6, <1>7 DEF Scheduled

LEMMA ExpireLimitsActs ==
  ASSUME Shape, ExpireLimits
  PROVE  Scheduled
<1>1. /\ sched.at = "expireLimits"
      /\ sched' = [at |-> "expire", batch |-> sched.batch, tier |-> sched.tier]
  BY SchedNow DEF ExpireLimits
<1>2. Scheds' /\ sched'.batch = sched.batch /\ sched'.tier = sched.tier
  BY <1>1, SchedNow, SchedNext
<1>3. UNCHANGED rowVars /\ Rows'
  BY SameRows DEF ExpireLimits
<1>4. 0 \in Tier /\ limits \in Tier
  BY NumberAssumption, Parts DEF Tier, Others
<1>5. (limits' = 0 /\ UNCHANGED faults) \/ (Fault /\ UNCHANGED limits)
  BY DEF ExpireLimits
<1>. QED
  BY <1>2, <1>3, <1>4, <1>5 DEF Scheduled, rowVars

LEMMA SchedulerShape ==
  ASSUME Shape, ProcessScheduledDowngrades
  PROVE  Shape' /\ Keeps /\ Scheduled /\ UNCHANGED providerVars
         /\ \A q \in Proc : Stays(q)
<1>1. Scheduled
  BY ListPendingDowngradesActs, ApplyDowngradeActs, DowngradeLimitsActs, ListExpiringOrExpiredActs,
     ExpireActs, ExpireLimitsActs DEF ProcessScheduledDowngrades
<1>2. /\ UNCHANGED providerVars /\ UNCHANGED procVars
      /\ UNCHANGED <<receipts, inbox, requests>>
  BY DEF ProcessScheduledDowngrades
<1>3. Keeps /\ Records' /\ InboxOK' /\ Procs' /\ \A q \in Proc : Stays(q)
  BY <1>2, SameKeeps, SameRecords, InboxStays, SameProcs
<1>4. Others'
  BY <1>1, <1>2, NumberAssumption, Parts DEF Others, Scheduled, Fault
<1>. QED
  BY <1>1, <1>2, <1>3, <1>4, PartsNext DEF Scheduled

-----------------------------------------------------------------------------
(* Shape is invariant.                                                     *)

LEMMA InitShape == Init => Shape
<1>. SUFFICES ASSUME Init PROVE Shape
  OBVIOUS
<1>1. PICK o \in Sub, k \in Tier :
        /\ status = [s \in Sub |-> IF k > 0 /\ s = o THEN "active" ELSE "none"]
        /\ package = [s \in Sub |-> IF k > 0 /\ s = o THEN k ELSE 0]
        /\ period = [s \in Sub |-> IF k > 0 /\ s = o THEN "future" ELSE "null"]
        /\ receipts = [s \in Sub |-> [i \in 1 .. MaxPays |->
                          IF i = 1 THEN (IF k > 0 /\ s = o THEN 1 ELSE 0) ELSE 0]]
        /\ rpays = [s \in Sub |-> IF k > 0 /\ s = o THEN 1 ELSE 0]
        /\ limits = k /\ paid = k
  BY DEF Init
<1>2. /\ rstatus = status /\ rplan = package /\ rperiod = period
      /\ pending = [s \in Sub |-> NoTier]
      /\ cancelEnd = [s \in Sub |-> FALSE]
      /\ rnext = [s \in Sub |-> NoTier]
      /\ inbox = {}
      /\ todo = [p \in Proc |-> <<>>]
      /\ sub = [p \in Proc |-> NoSub]
      /\ tier = [p \in Proc |-> NoTier]
      /\ event = [p \in Proc |-> NoEvent]
      /\ sched = Idle /\ requests = 0 /\ faults = 0
  BY DEF Init
<1>3. MaxTier \in Nat /\ MaxPays \in Nat \ {0} /\ MaxRequests \in Nat /\ MaxFaults \in Nat
  BY NumberAssumption
<1>4. status \in [Sub -> Status] /\ period \in [Sub -> Period]
  BY <1>1 DEF Status, Open, Current, Period
<1>5. package \in [Sub -> Tier] /\ rpays \in [Sub -> 0 .. MaxPays] /\ limits \in Tier
        /\ paid \in Tier
  BY <1>1, <1>3 DEF Tier
<1>6. \A s \in Sub : RecordOK(s)
  BY <1>1, <1>2 DEF RecordOK, Paying
<1>7. receipts \in [Sub -> [1 .. MaxPays -> Nat]]
  BY <1>1
<1>8. todo \in [Proc -> Seq(Call)] /\ \A p \in Proc : CallOK(p)
  <2>1. todo \in [Proc -> Seq(Call)]
    BY <1>2, EmptyRange
  <2>2. ASSUME NEW p \in Proc
        PROVE  CallOK(p)
    <3>1. todo[p] = <<>> /\ sub[p] = NoSub /\ tier[p] = NoTier /\ event[p] = NoEvent
      BY <1>2
    <3>. QED
      BY <3>1, EmptyRange DEF CallOK, Left, Has
  <2>. QED
    BY <2>1, <2>2
<1>9. sched = [at |-> "expire", batch |-> {}, tier |-> NoTier]
  BY <1>2 DEF Idle
<1>10. Rows /\ Records /\ Others /\ InboxOK
  BY <1>2, <1>3, <1>4, <1>5, <1>6, <1>7 DEF Rows, Records, Others, InboxOK
<1>11. Procs
  BY <1>2, <1>8 DEF Procs, ProcTypes
<1>12. Scheds
  BY <1>9 DEF Scheds, SchedType, SchedOK
<1>. QED
  BY <1>2, <1>10, <1>11, <1>12
     DEF Shape, TypeOK, Rows, Records, Others, InboxOK, Procs, ProcTypes, Scheds, SchedType

LEMMA StutterShape ==
  ASSUME Shape, UNCHANGED vars
  PROVE  Shape' /\ Keeps /\ \A q \in Proc : Stays(q)
<1>1. /\ UNCHANGED rowVars /\ UNCHANGED providerVars /\ UNCHANGED procVars
      /\ UNCHANGED <<limits, receipts, inbox, sched, requests, faults>>
  BY DEF vars
<1>2. Keeps /\ Procs' /\ \A q \in Proc : Stays(q)
  BY <1>1, SameKeeps, SameProcs
<1>3. requests' \in 0 .. MaxRequests
  BY <1>1, Parts DEF Others
<1>. QED
  BY <1>1, <1>2, <1>3, SameRows, SameRecords, SameOthers, InboxStays, SameScheds, PartsNext

LEMMA NextShape ==
  ASSUME Shape, [Next]_vars
  PROVE  Shape'
<1>1. ASSUME NEW p \in Proc, Request(p) \/ Webhooks(p) \/ Step(p) \/ Abandon(p)
      PROVE  Shape'
  BY <1>1, StartsShape, ProviderCallShape, RowCallShape, OtherCallShape, AbandonShape DEF Step
<1>. QED
  BY <1>1, ProviderShape, TickShape, SchedulerShape, StutterShape DEF Next

(* Type correctness, with what the handlers, the webhooks and the records  *)
(* know (Shape).                                                           *)
LEMMA ShapeHolds == Spec => []Shape
<1>1. Init => Shape
  BY InitShape
<1>2. Shape /\ [Next]_vars => Shape'
  BY NextShape
<1>. QED
  BY <1>1, <1>2, PTL DEF Spec

(* The variables have their types: what Subscription_proofs.Shape adds is  *)
(* that a handler which needs a row, a package or an event has one.        *)
THEOREM TypeCorrect == Spec => []TypeOK
<1>1. Shape => TypeOK
  BY DEF Shape
<1>. QED
  BY <1>1, ShapeHolds, PTL

-----------------------------------------------------------------------------
(* Nothing is billed untracked.                                            *)

Compensated(p) == At(p, "insert") \/ At(p, "cancelNow")

Hidden(s) == status[s] \in {"none", "cancelled"} /\ rstatus[s] \in Open

(* The provider's record is closed before the row is cancelled.            *)
Closes(p) == Has(p, "cancelRow") /\ ~Has(p, "cancelNow") => rstatus[sub[p]] \notin Open

LEMMA TrackedNow ==
  ASSUME TrackedInv, faults = 0
  PROVE  /\ \A s \in Sub : Hidden(s) => \E p \in Proc : sub[p] = s /\ Compensated(p)
         /\ \A p \in Proc : Closes(p)
BY DEF TrackedInv, NoUntrackedBilling, Hidden, Compensated, Closes

LEMMA TrackedNext ==
  ASSUME (faults = 0)' => /\ \A s \in Sub :
                              Hidden(s)' => \E p \in Proc : sub'[p] = s /\ Compensated(p)'
                          /\ \A p \in Proc : Closes(p)'
  PROVE  TrackedInv'
BY DEF TrackedInv, NoUntrackedBilling, Hidden, Compensated, Closes

(* Only p moves: whatever becomes hidden p compensates, and p does not     *)
(* leave alone what it compensated.                                        *)
LEMMA TrackedStep ==
  ASSUME Shape, TrackedInv, (faults' = faults \/ Fault), NEW p \in Proc,
         \A q \in Proc \ {p} : Stays(q),
         faults' = 0 =>
           /\ \A t \in Sub : Hidden(t)' => \/ Hidden(t) /\ ~(sub[p] = t /\ Compensated(p))
                                           \/ sub'[p] = t /\ Compensated(p)'
           /\ \A t \in Sub : rstatus'[t] \in Open =>
                               rstatus[t] \in Open \/ \A q \in Proc \ {p} : sub[q] # t
           /\ Closes(p)'
  PROVE  TrackedInv'
<1>1. faults \in Nat
  BY Parts, NumberAssumption DEF Others
<1>2. SUFFICES ASSUME faults' = 0
               PROVE  /\ \A s \in Sub : Hidden(s)' => \E q \in Proc : sub'[q] = s /\ Compensated(q)'
                      /\ \A q \in Proc : Closes(q)'
  BY TrackedNext
<1>3. faults = 0
  BY <1>1, <1>2 DEF Fault
<1>4. \A q \in Proc \ {p} : /\ sub'[q] = sub[q] /\ Compensated(q)' = Compensated(q)
                            /\ \A c : Has(q, c)' = Has(q, c)
  BY DEF Stays, Compensated, At, Has, Left
<1>5. ASSUME NEW s \in Sub, Hidden(s)'
      PROVE  \E q \in Proc : sub'[q] = s /\ Compensated(q)'
  <2>1. CASE sub'[p] = s /\ Compensated(p)'
    BY <2>1
  <2>2. CASE Hidden(s) /\ ~(sub[p] = s /\ Compensated(p))
    <3>1. PICK q \in Proc : sub[q] = s /\ Compensated(q)
      BY <1>3, <2>2, TrackedNow
    <3>2. q # p
      BY <2>2, <3>1
    <3>. QED
      BY <1>4, <3>1, <3>2
  <2>. QED
    BY <1>2, <1>5, <2>1, <2>2
<1>6. ASSUME NEW q \in Proc \ {p}
      PROVE  Closes(q)'
  <2>1. Closes(q) /\ CallOK(q)
    BY <1>3, TrackedNow, Parts DEF Procs
  <2>2. Has(q, "cancelRow") => sub[q] \in Sub
    BY <2>1 DEF CallOK, Has, OfRow, Call
  <2>3. Has(q, "cancelRow") => (rstatus'[sub[q]] \in Open => rstatus[sub[q]] \in Open)
    BY <1>2, <2>2
  <2>. QED
    BY <1>4, <2>1, <2>3 DEF Closes
<1>. QED
  BY <1>2, <1>5, <1>6

(* A handler goes on, not from an insert or a cancellation of the record.  *)
LEMMA WentCloses ==
  ASSUME Shape, NEW p \in Proc, todo[p] # <<>>, Head(todo[p]) # "cancelNow", Went(p), Closes(p),
         \A t \in Sub : rstatus'[t] \in Open => rstatus[t] \in Open
  PROVE  Closes(p)'
<1>1. CASE Ends(p)
  BY <1>1, EmptyRange DEF Ends, Closes, Has, Left
<1>2. CASE /\ Continues(p, Rest(p)) /\ Left(p)' \subseteq Left(p)
           /\ \A c : Has(p, c) /\ ~Has(p, c)' => c = Head(todo[p])
  <2>1. Has(p, "cancelRow")' => Has(p, "cancelRow") /\ sub[p] \in Sub
    <3>1. CallOK(p)
      BY Parts DEF Procs
    <3>. QED
      BY <1>2, <3>1 DEF Has, CallOK, OfRow, Call
  <2>2. Has(p, "cancelNow") => Has(p, "cancelNow")'
    BY <1>2
  <2>. QED
    BY <1>2, <2>1, <2>2 DEF Closes, Continues
<1>. QED
  BY <1>1, <1>2 DEF Went

LEMMA TrackedWent ==
  ASSUME Shape, TrackedInv, (faults' = faults \/ Fault), NEW p \in Proc, todo[p] # <<>>,
         Head(todo[p]) \notin {"cancelNow", "insert"}, Went(p),
         \A t \in Sub : rstatus'[t] = rstatus[t],
         faults' = 0 => \A t \in Sub : Hidden(t)' => Hidden(t)
  PROVE  TrackedInv'
<1>1. faults \in Nat
  BY Parts, NumberAssumption DEF Others
<1>2. faults' = 0 => faults = 0
  BY <1>1 DEF Fault
<1>3. ~Compensated(p)
  BY DEF Compensated, At
<1>4. faults' = 0 => Closes(p)'
  BY <1>2, TrackedNow, WentCloses
<1>. QED
  BY <1>3, <1>4, TrackedStep DEF Went

(* Handlers stay where they are.                                           *)
LEMMA TrackedStays ==
  ASSUME Shape, TrackedInv, (faults' = faults \/ Fault), \A q \in Proc : Stays(q),
         \A t \in Sub : rstatus'[t] \in Open => rstatus[t] \in Open,
         \A t \in Sub : Hidden(t)' => Hidden(t)
  PROVE  TrackedInv'
<1>1. faults \in Nat
  BY Parts, NumberAssumption DEF Others
<1>2. faults' = 0 => faults = 0
  BY <1>1 DEF Fault
<1>3. PICK p \in Proc : TRUE
  BY NameAssumption
<1>4. sub'[p] = sub[p] /\ Compensated(p)' = Compensated(p) /\ \A c : Has(p, c)' = Has(p, c)
  BY <1>3 DEF Stays, Compensated, At, Has, Left
<1>5. faults' = 0 => Closes(p)'
  <2>1. Has(p, "cancelRow") => sub[p] \in Sub
    BY <1>3, Parts DEF Procs, CallOK, Has, OfRow, Call
  <2>2. faults' = 0 => Closes(p)
    BY <1>2, <1>3, TrackedNow
  <2>. QED
    BY <1>4, <2>1, <2>2 DEF Closes
<1>. QED
  BY <1>3, <1>4, <1>5, TrackedStep

LEMMA ProviderTracked ==
  ASSUME Shape, TrackedInv, Provider
  PROVE  TrackedInv'
<1>1. /\ UNCHANGED procVars /\ UNCHANGED <<status, faults>>
  BY DEF Provider, rowVars
<1>2. \A q \in Proc : Stays(q)
  BY <1>1 DEF procVars, Stays
<1>3. \A t \in Sub : rstatus'[t] \in Open => rstatus[t] \in Open
  <2>1. CASE \E e \in inbox : GiveUp(e)
    BY <2>1 DEF GiveUp, providerVars
  <2>2. CASE \E s \in Sub : Checkout(s) \/ Activate(s) \/ Renew(s) \/ \E m \in Moves : Move(s, m)
    <3>1. PICK s \in Sub : Checkout(s) \/ Activate(s) \/ Renew(s) \/ \E m \in Moves : Move(s, m)
      BY <2>2
    <3>2. Changes(s) /\ rstatus[s] \in {"created", "authenticated"} \cup Paying \cup Open
      BY <3>1, CheckoutChanges, ActivateChanges, RenewChanges, MoveChanges
    <3>3. rstatus[s] \in Open
      BY <3>2 DEF Paying, Open, Current
    <3>. QED
      BY <3>2, <3>3 DEF Changes
  <2>. QED
    BY <2>1, <2>2 DEF Provider
<1>. QED
  BY <1>1, <1>2, <1>3, TrackedStays DEF Hidden

LEMMA TickTracked ==
  ASSUME Shape, TrackedInv, Tick
  PROVE  TrackedInv'
<1>1. /\ UNCHANGED procVars /\ UNCHANGED <<status, rstatus, faults>>
  BY DEF Tick
<1>2. \A q \in Proc : Stays(q)
  BY <1>1 DEF procVars, Stays
<1>. QED
  BY <1>1, <1>2, TrackedStays DEF Hidden

LEMMA StartsTracked ==
  ASSUME Shape, TrackedInv, NEW p \in Proc, Request(p) \/ Webhooks(p)
  PROVE  TrackedInv'
<1>1. UNCHANGED <<status, rstatus>> /\ (faults' = faults \/ Fault) /\ Keeps
  BY RequestStarts, StartsShape DEF rowVars, providerVars
<1>2. PICK s \in Sub \cup {NoSub}, k \in Tier \cup {NoTier}, e \in Event \cup {NoEvent},
           t \in Seq(Call), C \in SUBSET Call :
        /\ Begin(p, s, k, e, t) /\ Good(t, C)
        /\ KnowsRow(s, k, C) /\ KnowsEvent(s, e, C)
  BY RequestStarts DEF Starts
<1>3. (\A q \in Proc \ {p} : Stays(q)) /\ Left(p)' = Range(t)
  BY <1>1, <1>2, Begins DEF Good, KnowsRow, KnowsEvent
<1>4. Closes(p)'
  BY <1>2, <1>3 DEF Closes, Has, Good, KnowsRow
<1>5. ~Compensated(p)
  BY <1>2 DEF Begin, Compensated, At
<1>. QED
  BY <1>1, <1>3, <1>4, <1>5, TrackedStep DEF Hidden

LEMMA OrderTracked ==
  ASSUME Shape, TrackedInv, NEW p \in Proc, Order(p), UNCHANGED status
  PROVE  TrackedInv'
<1>1. /\ todo[p] # <<>> /\ Head(todo[p]) = "order" /\ Has(p, "order") /\ CallOK(p)
  BY Calling DEF Order
<1>2. faults \in Nat /\ (faults' = faults \/ Fault)
  BY Parts, NumberAssumption, OrderShape DEF Others
<1>3. CASE Fault
  BY <1>2, <1>3, TrackedNext DEF Fault
<1>4. CASE \E s \in Sub :
             /\ Fresh(s) /\ \A q \in Proc : sub[q] # s
             /\ rstatus' = [rstatus EXCEPT ![s] = "created"]
             /\ rplan' = [rplan EXCEPT ![s] = tier[p]]
             /\ sub' = [sub EXCEPT ![p] = s]
             /\ todo' = [todo EXCEPT ![p] = Tail(@)]
             /\ UNCHANGED <<tier, event, faults>>
  <2>1. PICK s \in Sub :
             /\ \A q \in Proc : sub[q] # s
             /\ rstatus' = [rstatus EXCEPT ![s] = "created"]
             /\ sub' = [sub EXCEPT ![p] = s]
             /\ todo' = [todo EXCEPT ![p] = Tail(@)]
             /\ UNCHANGED <<tier, event, faults>>
    BY <1>4
  <2>2. \A t \in Sub \ {s} : rstatus'[t] = rstatus[t]
    BY <2>1, Parts DEF Records
  <2>3. ProcTypes
    BY Parts DEF Procs
  <2>4. (\A q \in Proc \ {p} : Stays(q)) /\ todo'[p] = Rest(p) /\ sub'[p] = s
    BY <2>1, <2>3 DEF ProcTypes, Stays, Rest
  <2>5. /\ Rest(p) \in Seq(Call) /\ Range(Rest(p)) \subseteq {"insert"}
        /\ Left(p) = {"order"} \cup Range(Rest(p))
    BY <1>1, CallTails, OrderedTail DEF CallOK, Rest
  <2>6. "insert" \in Range(Rest(p))
    BY <1>1, <2>5 DEF CallOK, Has
  <2>7. Rest(p) # <<>>
    BY <2>6, EmptyRange
  <2>8. Head(Rest(p)) = "insert"
    BY <2>5, <2>7, RangeTail
  <2>9. Compensated(p)'
    BY <2>4, <2>7, <2>8 DEF Compensated, At
  <2>10. Closes(p)'
    BY <2>4, <2>5 DEF Closes, Has, Left
  <2>11. ~Compensated(p)
    BY <1>1 DEF Compensated, At
  <2>. QED
    BY <1>2, <2>1, <2>2, <2>4, <2>9, <2>10, <2>11, TrackedStep DEF Hidden
<1>. QED
  BY <1>3, <1>4 DEF Order

LEMMA CancelNowTracked ==
  ASSUME Shape, TrackedInv, NEW p \in Proc, CancelNow(p), UNCHANGED status
  PROVE  TrackedInv'
<1>1. /\ (faults' = faults \/ Fault) /\ Went(p) /\ sub[p] \in Sub
      /\ \A t \in Sub : rstatus'[t] = rstatus[t] \/ (t = sub[p] /\ rstatus'[t] = "cancelled")
      /\ rstatus'[sub[p]] \notin Open \/ Fault
  BY CancelNowShape
<1>2. faults \in Nat
  BY Parts, NumberAssumption DEF Others
<1>3. "cancelled" \notin Open
  BY DEF Open, Current
<1>4. faults' = 0 => rstatus'[sub[p]] \notin Open
  BY <1>1, <1>2 DEF Fault
<1>5. Closes(p)' \/ rstatus'[sub[p]] \in Open
  <2>1. CASE Ends(p)
    BY <2>1, EmptyRange DEF Ends, Closes, Has, Left
  <2>2. CASE Continues(p, Rest(p))
    BY <2>2 DEF Continues, Closes
  <2>. QED
    BY <1>1, <2>1, <2>2 DEF Went
<1>. QED
  BY <1>1, <1>3, <1>4, <1>5, TrackedStep DEF Hidden, Went

LEMMA FetchTracked ==
  ASSUME Shape, TrackedInv, NEW p \in Proc, Fetch(p), UNCHANGED status
  PROVE  TrackedInv'
<1>1. /\ (faults' = faults \/ Fault) /\ \A q \in Proc \ {p} : Stays(q)
      /\ sub'[p] = sub[p] /\ Left(p)' \subseteq Left(p)
      /\ \A c : Has(p, c) /\ ~Has(p, c)' => c = "fetch"
  BY FetchShape
<1>2. UNCHANGED rstatus
  BY DEF Fetch, providerVars
<1>3. /\ todo[p] # <<>> /\ Head(todo[p]) = "fetch" /\ CallOK(p)
  BY Calling DEF Fetch
<1>4. ~Compensated(p)
  BY <1>3 DEF Compensated, At
<1>5. faults \in Nat
  BY Parts, NumberAssumption DEF Others
<1>6. faults' = 0 => Closes(p)
  BY <1>1, <1>5, TrackedNow DEF Fault
<1>7. Closes(p) => Closes(p)'
  BY <1>1, <1>2 DEF Closes, Has
<1>. QED
  BY <1>1, <1>2, <1>4, <1>6, <1>7, TrackedStep DEF Hidden

LEMMA ProviderCallTracked ==
  ASSUME Shape, TrackedInv, NEW p \in Proc, ProviderCall(p)
  PROVE  TrackedInv'
<1>1. UNCHANGED status
  BY DEF ProviderCall, rowVars
<1>2. ASSUME PlanNow(p) \/ (PlanLater(p) \/ StopLater(p))
      PROVE  TrackedInv'
  <2>1. todo[p] # <<>> /\ Head(todo[p]) \in {"planNow", "planLater", "stopLater"}
    BY <1>2, Calling DEF PlanNow, PlanLater, StopLater
  <2>2. UNCHANGED rstatus /\ Went(p) /\ (faults' = faults \/ Fault)
    BY <1>2, PlanNowShape, LaterShape
  <2>. QED
    BY <1>1, <2>1, <2>2, TrackedWent DEF Hidden
<1>. QED
  BY <1>1, <1>2, OrderTracked, CancelNowTracked, FetchTracked DEF ProviderCall

LEMMA InsertTracked ==
  ASSUME Shape, TrackedInv, UNCHANGED providerVars, NEW p \in Proc, Insert(p)
  PROVE  TrackedInv'
<1>1. /\ (faults' = faults \/ Fault) /\ sub[p] \in Sub /\ \A q \in Proc \ {p} : Stays(q)
      /\ \/ Ends(p) /\ status' = [status EXCEPT ![sub[p]] = "created"]
         \/ /\ Continues(p, <<"cancelNow">>) /\ Left(p)' = {"cancelNow"} /\ At(p, "cancelNow")'
            /\ UNCHANGED status
  BY InsertShape
<1>2. PICK s \in Sub : s = sub[p]
  BY <1>1
<1>3. UNCHANGED rstatus
  BY DEF providerVars
<1>4. CASE Ends(p) /\ status' = [status EXCEPT ![s] = "created"]
  <2>1. Closes(p)'
    BY <1>4, EmptyRange DEF Ends, Closes, Has, Left
  <2>2. \A t \in Sub : Hidden(t)' => t # s /\ Hidden(t)
    BY <1>3, <1>4, Parts DEF Hidden, Rows
  <2>. QED
    BY <1>1, <1>2, <1>3, <2>1, <2>2, TrackedStep
<1>5. CASE /\ Continues(p, <<"cancelNow">>) /\ Left(p)' = {"cancelNow"} /\ At(p, "cancelNow")'
           /\ UNCHANGED status
  <2>1. Closes(p)'
    BY <1>5 DEF Closes, Has
  <2>2. \A t \in Sub : Hidden(t)' => Hidden(t)
    BY <1>3, <1>5 DEF Hidden
  <2>3. Compensated(p)' /\ sub'[p] = sub[p]
    BY <1>5 DEF Compensated, Continues
  <2>. QED
    BY <1>1, <1>3, <2>1, <2>2, <2>3, TrackedStep
<1>. QED
  BY <1>1, <1>2, <1>4, <1>5

LEMMA CancelRowTracked ==
  ASSUME Shape, TrackedInv, UNCHANGED providerVars, NEW p \in Proc, CancelRow(p)
  PROVE  TrackedInv'
<1>1. /\ (faults' = faults \/ Fault) /\ Went(p) /\ sub[p] \in Sub
      /\ Head(todo[p]) = "cancelRow" /\ Has(p, "cancelRow")
      /\ UNCHANGED status \/ status' = [status EXCEPT ![sub[p]] = "cancelled"]
  BY CancelRowShape
<1>2. UNCHANGED rstatus
  BY DEF providerVars
<1>3. todo[p] # <<>> /\ CallOK(p)
  BY Calling DEF CancelRow
<1>4. ~Has(p, "cancelNow")
  BY <1>1, <1>3, CallTails, OrderedTail DEF Has, CallOK, Rest, First
<1>5. faults \in Nat
  BY Parts, NumberAssumption DEF Others
<1>6. faults' = 0 => rstatus[sub[p]] \notin Open
  BY <1>1, <1>4, <1>5, TrackedNow DEF Fault, Closes
<1>7. faults' = 0 => \A t \in Sub : Hidden(t)' => Hidden(t)
  BY <1>1, <1>2, <1>6, Parts DEF Hidden, Rows
<1>. QED
  BY <1>1, <1>2, <1>3, <1>7, TrackedWent

LEMMA RowCallTracked ==
  ASSUME Shape, TrackedInv, NEW p \in Proc, RowCall(p)
  PROVE  TrackedInv'
<1>1. UNCHANGED providerVars /\ UNCHANGED rstatus
  BY DEF RowCall, providerVars
<1>2. CASE Assign(p)
  <2>1. /\ (faults' = faults \/ Fault) /\ Went(p)
        /\ UNCHANGED status \/ \E s \in Sub : status' = [status EXCEPT ![s] = "active"]
    BY <1>1, <1>2, AssignShape
  <2>2. \A t \in Sub : Hidden(t)' => Hidden(t)
    BY <1>1, <2>1, Parts DEF Hidden, Rows
  <2>3. todo[p] # <<>> /\ Head(todo[p]) = "assign"
    BY <1>2, Calling DEF Assign
  <2>. QED
    BY <1>1, <2>1, <2>2, <2>3, TrackedWent
<1>3. CASE Apply(p)
  <2>1. /\ (faults' = faults \/ Fault) /\ Went(p) /\ sub[p] \in Sub
        /\ UNCHANGED status
           \/ \E e \in Event : EventOK(e) /\ e.sub = sub[p]
                /\ status' = [status EXCEPT ![sub[p]] = StatusOf(e)]
    BY <1>1, <1>3, ApplyShape
  <2>2. todo[p] # <<>> /\ Head(todo[p]) = "apply"
    BY <1>3, Calling DEF Apply
  <2>3. CASE UNCHANGED status
    BY <1>1, <2>1, <2>2, <2>3, TrackedWent DEF Hidden
  <2>4. CASE ~(UNCHANGED status)
    <3>1. PICK e \in Event :
            EventOK(e) /\ e.sub = sub[p] /\ status' = [status EXCEPT ![sub[p]] = StatusOf(e)]
      BY <2>1, <2>4
    <3>2. StatusOf(e) # "none" /\ (StatusOf(e) = "cancelled" => rstatus[sub[p]] \notin Open)
      BY <3>1 DEF EventOK, Open, Current
    <3>3. \A t \in Sub : Hidden(t)' => Hidden(t)
      BY <1>1, <2>1, <3>1, <3>2, Parts DEF Hidden, Rows
    <3>. QED
      BY <1>1, <2>1, <2>2, <3>3, TrackedWent
  <2>. QED
    BY <2>3, <2>4
<1>4. CASE SetCancellation(p) \/ SetPendingDowngrade(p) \/ UpdatePackageID(p)
  <2>1. (faults' = faults \/ Fault) /\ Went(p) /\ UNCHANGED status
    BY <1>1, <1>4, SetterShape
  <2>2. todo[p] # <<>> /\ Head(todo[p]) \in {"stopRow", "unstop", "pend", "unpend", "setPackage"}
    BY <1>4, Calling DEF SetCancellation, SetPendingDowngrade, UpdatePackageID
  <2>. QED
    BY <1>1, <2>1, <2>2, TrackedWent DEF Hidden
<1>. QED
  BY <1>1, <1>2, <1>3, <1>4, InsertTracked, CancelRowTracked DEF RowCall

LEMMA OtherCallTracked ==
  ASSUME Shape, TrackedInv, NEW p \in Proc, OtherCall(p)
  PROVE  TrackedInv'
<1>1. UNCHANGED providerVars /\ UNCHANGED <<status, rstatus>>
  BY DEF OtherCall, rowVars, providerVars
<1>2. /\ todo[p] # <<>>
           /\ Head(todo[p]) \in {"grant", "revert", "receipt", "insertReceipt", "record"}
      /\ (faults' = faults \/ Fault)
  <2>1. todo[p] # <<>>
          /\ Head(todo[p]) \in {"grant", "revert", "receipt", "insertReceipt", "record"}
    BY Calling DEF OtherCall, UpdateStorageLimits, RecordCharge, InsertReceipt, Record
  <2>. QED
    BY <1>1, <2>1, LimitsShape, RecordChargeShape, InsertReceiptShape, RecordShape DEF OtherCall
<1>3. CASE Went(p)
  BY <1>1, <1>2, <1>3, TrackedWent DEF Hidden
<1>4. CASE ~Went(p)
  <2>1. /\ \A q \in Proc \ {p} : Stays(q)
        /\ Continues(p, <<"insertReceipt">> \o Rest(p)) /\ UNCHANGED faults
        /\ Left(p)' = {"insertReceipt"} \cup Range(Rest(p))
        /\ Left(p) = {"receipt"} \cup Range(Rest(p))
    BY <1>1, <1>4, LimitsShape, RecordChargeShape, InsertReceiptShape, RecordShape DEF OtherCall
  <2>2. ~Compensated(p)
    BY <1>2 DEF Compensated, At
  <2>3. Closes(p) => Closes(p)'
    BY <1>1, <2>1 DEF Closes, Has, Continues
  <2>4. faults' = 0 => Closes(p)
    BY <2>1, TrackedNow
  <2>. QED
    BY <1>1, <1>2, <2>1, <2>2, <2>3, <2>4, TrackedStep DEF Hidden
<1>. QED
  BY <1>3, <1>4

LEMMA SchedulerTracked ==
  ASSUME Shape, TrackedInv, ProcessScheduledDowngrades
  PROVE  TrackedInv'
<1>1. /\ UNCHANGED rstatus /\ (faults' = faults \/ Fault) /\ \A q \in Proc : Stays(q)
      /\ \A s \in Sub : status'[s] = status[s] \/ status'[s] = "expired"
  BY SchedulerShape DEF Scheduled, providerVars
<1>. QED
  BY <1>1, TrackedStays DEF Hidden

LEMMA NextTracked ==
  ASSUME Shape, TrackedInv, [Next]_vars
  PROVE  TrackedInv'
<1>1. ASSUME NEW p \in Proc, Abandon(p)
      PROVE  TrackedInv'
  <2>1. faults \in Nat
    BY Parts, NumberAssumption DEF Others
  <2>. QED
    BY <1>1, <2>1, TrackedNext DEF Abandon, Fault
<1>2. ASSUME UNCHANGED vars
      PROVE  TrackedInv'
  <2>1. UNCHANGED <<status, rstatus, faults>> /\ \A q \in Proc : Stays(q)
    BY <1>2, StutterShape DEF vars, rowVars, providerVars
  <2>. QED
    BY <2>1, TrackedStays DEF Hidden
<1>. QED
  BY <1>1, <1>2, ProviderTracked, TickTracked, StartsTracked, ProviderCallTracked, RowCallTracked,
     OtherCallTracked, SchedulerTracked DEF Next, Step

LEMMA InitTracked == Init => TrackedInv
<1>. SUFFICES ASSUME Init PROVE TrackedInv
  OBVIOUS
<1>1. rstatus = status /\ todo = [p \in Proc |-> <<>>]
  BY DEF Init
<1>2. \A s \in Sub : ~(status[s] \in {"none", "cancelled"} /\ rstatus[s] \in Open)
  BY <1>1 DEF Open, Current
<1>3. \A p \in Proc : ~Has(p, "cancelRow")
  BY <1>1, EmptyRange DEF Has, Left
<1>. QED
  BY <1>2, <1>3 DEF TrackedInv, NoUntrackedBilling

-----------------------------------------------------------------------------
(* Receipts are bounded.                                                   *)

LEMMA WaitingCard ==
  ASSUME NEW s, NEW i
  PROVE  /\ Waiting(s, i) \subseteq Proc /\ IsFiniteSet(Waiting(s, i))
         /\ Cardinality(Waiting(s, i)) \in Nat /\ Cardinality(Proc) \in Nat
         /\ Cardinality(Waiting(s, i)) <= Cardinality(Proc)
<1>1. Waiting(s, i) \subseteq Proc
  BY DEF Waiting
<1>. QED
  BY <1>1, NameAssumption, FS_Subset, FS_CardinalityType

LEMMA WaitingCardNext ==
  ASSUME NEW s, NEW i
  PROVE  /\ Waiting(s, i)' \subseteq Proc /\ IsFiniteSet(Waiting(s, i)')
         /\ Cardinality(Waiting(s, i)') \in Nat
         /\ Cardinality(Waiting(s, i)') <= Cardinality(Proc)
<1>1. Waiting(s, i)' \subseteq Proc
  BY DEF Waiting
<1>. QED
  BY <1>1, NameAssumption, FS_Subset, FS_CardinalityType

LEMMA ReceiptTypes ==
  ASSUME Shape, NEW s \in Sub, NEW i \in 1 .. MaxPays
  PROVE  receipts[s][i] \in Nat
BY Parts, NumberAssumption DEF Others

(* Nobody new waits, and no receipt is added.                              *)
LEMMA ReceiptSame ==
  ASSUME Shape, ReceiptInv, UNCHANGED receipts,
         \A s \in Sub, i \in 1 .. MaxPays : Waiting(s, i)' \subseteq Waiting(s, i)
  PROVE  ReceiptInv'
<1>1. ASSUME NEW s \in Sub, NEW i \in 1 .. MaxPays
      PROVE  receipts'[s][i] + Cardinality(Waiting(s, i)') <= Cardinality(Proc)
  <2>1. Cardinality(Waiting(s, i)') <= Cardinality(Waiting(s, i))
    BY <1>1, WaitingCard, FS_Subset
  <2>2. receipts[s][i] + Cardinality(Waiting(s, i)) <= Cardinality(Proc)
    BY <1>1 DEF ReceiptInv
  <2>. QED
    BY <1>1, <2>1, <2>2, ReceiptTypes, WaitingCard, WaitingCardNext
<1>. QED
  BY <1>1 DEF ReceiptInv

(* Who stays waits for what it waited for; who goes on waits for nothing.  *)
LEMMA StaysWaiting ==
  ASSUME NEW q, Stays(q)
  PROVE  At(q, "insertReceipt")' = At(q, "insertReceipt") /\ sub'[q] = sub[q]
         /\ PaymentOf(q)' = PaymentOf(q)
BY DEF Stays, At, PaymentOf

LEMMA WaitingStays ==
  ASSUME NEW p \in Proc, \A q \in Proc \ {p} : Stays(q), ~At(p, "insertReceipt")'
  PROVE  \A s, i : Waiting(s, i)' = Waiting(s, i) \ {p}
<1>1. \A q \in Proc \ {p} : At(q, "insertReceipt")' = At(q, "insertReceipt") /\ sub'[q] = sub[q]
                            /\ PaymentOf(q)' = PaymentOf(q)
  BY StaysWaiting
<1>. QED
  BY <1>1 DEF Waiting

LEMMA WentOn ==
  ASSUME Shape, NEW p \in Proc, todo[p] # <<>>, todo'[p] \in {<<>>, Rest(p)}
  PROVE  ~At(p, "insertReceipt")'
<1>1. todo[p] \in Seq(Call) /\ Ordered(todo[p])
  BY Parts DEF Procs, CallOK
<1>2. Rest(p) \in Seq(Call) /\ "insertReceipt" \notin Range(Rest(p))
  BY <1>1, RangeTail, OrderedTail DEF Rest, First
<1>3. Rest(p) # <<>> => Head(Rest(p)) # "insertReceipt"
  BY <1>2, RangeTail
<1>. QED
  BY <1>3 DEF At

LEMMA ReceiptWent ==
  ASSUME Shape, ReceiptInv, NEW p \in Proc, todo[p] # <<>>, todo'[p] \in {<<>>, Rest(p)},
         \A q \in Proc \ {p} : Stays(q), UNCHANGED receipts
  PROVE  ReceiptInv'
<1>1. \A s, i : Waiting(s, i)' = Waiting(s, i) \ {p}
  BY WentOn, WaitingStays
<1>. QED
  BY <1>1, ReceiptSame

LEMMA WentTo ==
  ASSUME NEW p \in Proc, Went(p)
  PROVE  todo'[p] \in {<<>>, Rest(p)} /\ \A q \in Proc \ {p} : Stays(q)
BY DEF Went, Ends, Continues

LEMMA ReceiptStays ==
  ASSUME Shape, ReceiptInv, \A q \in Proc : Stays(q), UNCHANGED receipts
  PROVE  ReceiptInv'
<1>1. \A q \in Proc : At(q, "insertReceipt")' = At(q, "insertReceipt") /\ sub'[q] = sub[q]
                      /\ PaymentOf(q)' = PaymentOf(q)
  BY StaysWaiting
<1>2. \A s, i : Waiting(s, i)' = Waiting(s, i)
  BY <1>1 DEF Waiting
<1>. QED
  BY <1>2, ReceiptSame

LEMMA StartsReceipt ==
  ASSUME Shape, ReceiptInv, NEW p \in Proc, Request(p) \/ Webhooks(p)
  PROVE  ReceiptInv'
<1>1. UNCHANGED receipts /\ Keeps
  BY RequestStarts, StartsShape
<1>2. PICK s \in Sub \cup {NoSub}, k \in Tier \cup {NoTier}, e \in Event \cup {NoEvent},
           t \in Seq(Call), C \in SUBSET Call :
        /\ Begin(p, s, k, e, t) /\ Good(t, C)
        /\ KnowsRow(s, k, C) /\ KnowsEvent(s, e, C)
  BY RequestStarts DEF Starts
<1>3. (\A q \in Proc \ {p} : Stays(q)) /\ todo'[p] = t
  BY <1>1, <1>2, Begins DEF Good, KnowsRow, KnowsEvent
<1>4. t # <<>> => Head(t) # "insertReceipt"
  BY <1>2, RangeTail DEF Good, KnowsRow
<1>5. ~At(p, "insertReceipt")'
  BY <1>3, <1>4 DEF At
<1>6. \A x, i : Waiting(x, i)' = Waiting(x, i) \ {p}
  BY <1>3, <1>5, WaitingStays
<1>. QED
  BY <1>1, <1>6, ReceiptSame

LEMMA ProviderCallReceipt ==
  ASSUME Shape, ReceiptInv, NEW p \in Proc, ProviderCall(p)
  PROVE  ReceiptInv'
<1>1. UNCHANGED receipts
  BY DEF ProviderCall
<1>2. todo[p] # <<>>
  BY DEF ProviderCall, Order, CancelNow, PlanNow, PlanLater, StopLater, Fetch, At
<1>3. CASE CancelNow(p) \/ PlanNow(p) \/ (PlanLater(p) \/ StopLater(p))
  BY <1>1, <1>2, <1>3, CancelNowShape, PlanNowShape, LaterShape, WentTo, ReceiptWent
<1>4. CASE Fetch(p)
  BY <1>1, <1>2, <1>4, FetchShape, ReceiptWent
<1>5. CASE Order(p)
  <2>1. ProcTypes
    BY Parts DEF Procs
  <2>2. CASE Proceed(p, <<>>)
    BY <1>1, <1>2, <2>2, ProceedsTo, EmptyRange, ReceiptWent DEF Ends
  <2>3. CASE \E s \in Sub : /\ sub' = [sub EXCEPT ![p] = s]
                            /\ todo' = [todo EXCEPT ![p] = Tail(@)]
                            /\ UNCHANGED <<tier, event>>
    <3>1. (\A q \in Proc \ {p} : Stays(q)) /\ todo'[p] = Rest(p)
      BY <2>1, <2>3 DEF ProcTypes, Stays, Rest
    <3>. QED
      BY <1>1, <1>2, <3>1, ReceiptWent
  <2>. QED
    BY <1>5, <2>2, <2>3 DEF Order
<1>. QED
  BY <1>3, <1>4, <1>5 DEF ProviderCall

LEMMA RowCallReceipt ==
  ASSUME Shape, ReceiptInv, NEW p \in Proc, RowCall(p)
  PROVE  ReceiptInv'
<1>1. UNCHANGED receipts /\ UNCHANGED providerVars
  BY DEF RowCall
<1>2. todo[p] # <<>>
  BY DEF RowCall, Insert, Assign, Apply, CancelRow, SetCancellation, SetPendingDowngrade,
         UpdatePackageID, At
<1>3. CASE Insert(p)
  <2>1. /\ \A q \in Proc \ {p} : Stays(q)
        /\ Ends(p) \/ At(p, "cancelNow")'
    BY <1>1, <1>3, InsertShape
  <2>2. ~At(p, "insertReceipt")'
    BY <2>1 DEF At, Ends
  <2>3. \A s, i : Waiting(s, i)' = Waiting(s, i) \ {p}
    BY <2>1, <2>2, WaitingStays
  <2>. QED
    BY <1>1, <2>3, ReceiptSame
<1>4. CASE ~Insert(p)
  BY <1>1, <1>2, <1>4, AssignShape, ApplyShape, CancelRowShape, SetterShape, WentTo, ReceiptWent
     DEF RowCall
<1>. QED
  BY <1>3, <1>4

(* Who finds no receipt joins those that wait for it, and there are no     *)
(* more of them than handlers.                                             *)
LEMMA RecordChargeReceipt ==
  ASSUME Shape, ReceiptInv, UNCHANGED providerVars, NEW p \in Proc, RecordCharge(p)
  PROVE  ReceiptInv'
<1>1. /\ todo[p] # <<>> /\ Head(todo[p]) = "receipt" /\ sub[p] \in Sub
  BY Calling DEF RecordCharge, OfRow, Call
<1>2. UNCHANGED receipts /\ sub[p] \in Sub
  BY RecordChargeShape
<1>3. CASE Went(p)
  BY <1>1, <1>2, <1>3, WentTo, ReceiptWent
<1>4. CASE /\ receipts[sub[p]][PaymentOf(p)] <= 0
           /\ \A q \in Proc \ {p} : Stays(q)
           /\ Continues(p, <<"insertReceipt">> \o Rest(p))
  <2>1. \A q \in Proc \ {p} : At(q, "insertReceipt")' = At(q, "insertReceipt") /\ sub'[q] = sub[q]
                              /\ PaymentOf(q)' = PaymentOf(q)
    BY <1>4, StaysWaiting
  <2>2. PaymentOf(p)' = PaymentOf(p) /\ sub'[p] = sub[p]
    BY <1>4 DEF Continues, PaymentOf
  <2>3. ASSUME NEW s \in Sub, NEW i \in 1 .. MaxPays
        PROVE  receipts'[s][i] + Cardinality(Waiting(s, i)') <= Cardinality(Proc)
    <3>1. CASE s = sub[p] /\ i = PaymentOf(p)
      <4>1. receipts[s][i] = 0
        BY <1>4, <2>3, <3>1, ReceiptTypes
      <4>. QED
        BY <1>2, <4>1, WaitingCardNext
    <3>2. CASE ~(s = sub[p] /\ i = PaymentOf(p))
      <4>1. Waiting(s, i)' \subseteq Waiting(s, i)
        BY <2>1, <2>2, <3>2 DEF Waiting
      <4>2. Cardinality(Waiting(s, i)') <= Cardinality(Waiting(s, i))
        BY <4>1, WaitingCard, FS_Subset
      <4>3. receipts[s][i] + Cardinality(Waiting(s, i)) <= Cardinality(Proc)
        BY <2>3 DEF ReceiptInv
      <4>. QED
        BY <1>2, <2>3, <4>2, <4>3, ReceiptTypes, WaitingCard, WaitingCardNext
    <3>. QED
      BY <3>1, <3>2
  <2>. QED
    BY <2>3 DEF ReceiptInv
<1>. QED
  BY <1>3, <1>4, RecordChargeShape

LEMMA InsertReceiptReceipt ==
  ASSUME Shape, ReceiptInv, UNCHANGED providerVars, NEW p \in Proc, InsertReceipt(p)
  PROVE  ReceiptInv'
<1>1. /\ todo[p] # <<>> /\ At(p, "insertReceipt") /\ Went(p)
      /\ receipts' = [receipts EXCEPT ![sub[p]][PaymentOf(p)] = @ + 1]
  BY Calling, InsertReceiptShape DEF InsertReceipt
<1>2. PICK x \in Sub, j \in 1 .. MaxPays : x = sub[p] /\ j = PaymentOf(p)
  BY InsertReceiptShape, PaymentRange
<1>3. \A s, i : Waiting(s, i)' = Waiting(s, i) \ {p}
  BY <1>1, WentTo, WentOn, WaitingStays
<1>4. receipts \in [Sub -> [1 .. MaxPays -> Nat]]
  BY Parts DEF Others
<1>5. ASSUME NEW s \in Sub, NEW i \in 1 .. MaxPays
      PROVE  receipts'[s][i] + Cardinality(Waiting(s, i)') <= Cardinality(Proc)
  <2>1. receipts[s][i] + Cardinality(Waiting(s, i)) <= Cardinality(Proc)
    BY <1>5 DEF ReceiptInv
  <2>2. CASE s = x /\ i = j
    <3>1. p \in Waiting(s, i)
      BY <1>1, <1>2, <2>2 DEF Waiting
    <3>2. Cardinality(Waiting(s, i)') = Cardinality(Waiting(s, i)) - 1
      BY <1>3, <3>1, WaitingCard, FS_RemoveElement
    <3>3. receipts'[s][i] = receipts[s][i] + 1
      BY <1>1, <1>2, <1>4, <1>5, <2>2, NumberAssumption
    <3>. QED
      BY <1>5, <2>1, <3>2, <3>3, ReceiptTypes, WaitingCard
  <2>3. CASE ~(s = x /\ i = j)
    <3>1. receipts'[s][i] = receipts[s][i]
      BY <1>1, <1>2, <1>4, <1>5, <2>3, NumberAssumption
    <3>2. Cardinality(Waiting(s, i)') <= Cardinality(Waiting(s, i))
      BY <1>3, WaitingCard, FS_Subset
    <3>. QED
      BY <1>5, <2>1, <3>1, <3>2, ReceiptTypes, WaitingCard, WaitingCardNext
  <2>. QED
    BY <2>2, <2>3
<1>. QED
  BY <1>5 DEF ReceiptInv

LEMMA OtherCallReceipt ==
  ASSUME Shape, ReceiptInv, NEW p \in Proc, OtherCall(p)
  PROVE  ReceiptInv'
<1>1. UNCHANGED providerVars
  BY DEF OtherCall
<1>2. CASE UpdateStorageLimits(p) \/ Record(p)
  <2>1. todo[p] # <<>>
    BY <1>2 DEF UpdateStorageLimits, Record, At
  <2>. QED
    BY <1>1, <1>2, <2>1, LimitsShape, RecordShape, WentTo, ReceiptWent
<1>. QED
  BY <1>1, <1>2, RecordChargeReceipt, InsertReceiptReceipt DEF OtherCall

LEMMA NextReceipt ==
  ASSUME Shape, ReceiptInv, [Next]_vars
  PROVE  ReceiptInv'
<1>1. ASSUME NEW p \in Proc, Abandon(p)
      PROVE  ReceiptInv'
  <2>1. todo[p] # <<>> /\ UNCHANGED receipts /\ Went(p)
    BY <1>1, AbandonShape DEF Abandon
  <2>. QED
    BY <2>1, WentTo, ReceiptWent
<1>2. ASSUME Provider \/ Tick
      PROVE  ReceiptInv'
  <2>1. UNCHANGED receipts /\ \A q \in Proc : Stays(q)
    BY <1>2 DEF Provider, Tick, procVars, Stays
  <2>. QED
    BY <2>1, ReceiptStays
<1>3. ASSUME ProcessScheduledDowngrades
      PROVE  ReceiptInv'
  <2>1. UNCHANGED receipts /\ \A q \in Proc : Stays(q)
    BY <1>3 DEF ProcessScheduledDowngrades, procVars, Stays
  <2>. QED
    BY <2>1, ReceiptStays
<1>4. ASSUME UNCHANGED vars
      PROVE  ReceiptInv'
  <2>1. UNCHANGED receipts /\ \A q \in Proc : Stays(q)
    BY <1>4, StutterShape DEF vars
  <2>. QED
    BY <2>1, ReceiptStays
<1>. QED
  BY <1>1, <1>2, <1>3, <1>4, StartsReceipt, ProviderCallReceipt, RowCallReceipt, OtherCallReceipt
     DEF Next, Step

LEMMA InitReceipt == Init => ReceiptInv
<1>. SUFFICES ASSUME Init PROVE ReceiptInv
  OBVIOUS
<1>1. PICK o \in Sub, k \in Tier :
        receipts = [s \in Sub |-> [i \in 1 .. MaxPays |->
                      IF i = 1 THEN (IF k > 0 /\ s = o THEN 1 ELSE 0) ELSE 0]]
  BY DEF Init
<1>2. todo = [p \in Proc |-> <<>>]
  BY DEF Init
<1>3. \A s, i : Waiting(s, i) = {}
  BY <1>2 DEF Waiting, At
<1>4. Cardinality(Proc) \in Nat \ {0}
  BY NameAssumption, FS_CardinalityType, FS_EmptySet
<1>5. \A s \in Sub, i \in 1 .. MaxPays : receipts[s][i] \in {0, 1}
  BY <1>1
<1>6. Cardinality({}) = 0
  BY FS_EmptySet
<1>. QED
  BY <1>3, <1>4, <1>5, <1>6 DEF ReceiptInv

(* Shape, with the two conditions that make billing tracked.               *)
LEMMA TrackedHolds == Spec => []TrackedInv /\ []ReceiptInv
<1>1. Init => Shape /\ TrackedInv /\ ReceiptInv
  BY InitShape, InitTracked, InitReceipt
<1>2. Shape /\ TrackedInv /\ ReceiptInv /\ [Next]_vars => Shape' /\ TrackedInv' /\ ReceiptInv'
  BY NextShape, NextTracked, NextReceipt
<1>. QED
  BY <1>1, <1>2, PTL DEF Spec

(* The provider bills nobody for a subscription that is not known here or  *)
(* cancelled here, unless a call failed, and a payment has no more         *)
(* receipts than there are handlers (CancelNow before CancelRow, Insert's  *)
(* compensation, RecordCharge).                                            *)
THEOREM BillingStaysTracked == Spec => []BillingIsTracked
<1>1. Shape /\ TrackedInv /\ ReceiptInv => BillingIsTracked
  <2>. SUFFICES ASSUME Shape, TrackedInv, ReceiptInv PROVE BillingIsTracked
    OBVIOUS
  <2>1. ASSUME NEW s \in Sub, NEW i \in 1 .. MaxPays
        PROVE  receipts[s][i] <= Cardinality(Proc)
    <3>1. receipts[s][i] + Cardinality(Waiting(s, i)) <= Cardinality(Proc)
      BY <2>1 DEF ReceiptInv
    <3>. QED
      BY <2>1, <3>1, ReceiptTypes, WaitingCard
  <2>. QED
    BY <2>1 DEF BillingIsTracked, ReceiptsBounded, TrackedInv
<1>. QED
  BY <1>1, ShapeHolds, TrackedHolds, PTL

-----------------------------------------------------------------------------
(* Limits are paid for.                                                    *)

LEMMA Numbers ==
  ASSUME Shape
  PROVE  /\ Tier \subseteq Nat /\ NoTier \notin Nat /\ paid \in Nat /\ limits \in Nat
         /\ \A s \in Sub : /\ rpays[s] \in Nat /\ rplan[s] \in Nat /\ package[s] \in Nat
                           /\ rnext[s] \in Nat \cup {NoTier} /\ pending[s] \in Nat \cup {NoTier}
         /\ \A p \in Proc : tier[p] \in Nat \cup {NoTier}
         /\ \A e \in Event : e.plan \in Nat
<1>1. Tier \subseteq Nat /\ NoTier \notin Nat /\ 0 .. MaxPays \subseteq Nat
  BY NumberAssumption, NameAssumption DEF Tier
<1>2. paid \in Nat /\ limits \in Nat
  BY <1>1, Parts DEF Records, Others
<1>3. \A s \in Sub : /\ rpays[s] \in Nat /\ rplan[s] \in Nat /\ package[s] \in Nat
                     /\ rnext[s] \in Nat \cup {NoTier} /\ pending[s] \in Nat \cup {NoTier}
  BY <1>1, Parts DEF Records, Rows
<1>4. \A p \in Proc : tier[p] \in Nat \cup {NoTier}
  BY <1>1, Parts DEF Procs, ProcTypes
<1>5. \A e \in Event : e.plan \in Nat
  BY <1>1 DEF Event
<1>. QED
  BY <1>1, <1>2, <1>3, <1>4, <1>5

LEMMA NumbersNext ==
  ASSUME Shape'
  PROVE  /\ paid' \in Nat /\ limits' \in Nat
         /\ \A s \in Sub : /\ rpays'[s] \in Nat /\ rplan'[s] \in Nat /\ package'[s] \in Nat
<1>1. Tier \subseteq Nat /\ 0 .. MaxPays \subseteq Nat
  BY NumberAssumption DEF Tier
<1>2. paid' \in Nat /\ limits' \in Nat
  BY <1>1 DEF Shape, TypeOK
<1>3. \A s \in Sub : /\ rpays'[s] \in Nat /\ rplan'[s] \in Nat /\ package'[s] \in Nat
  BY <1>1 DEF Shape, TypeOK
<1>. QED
  BY <1>2, <1>3

(* What has been paid for stays paid for, and a first payment is for the   *)
(* plan that was ordered.                                                  *)
Raises ==
  /\ paid <= paid'
  /\ \A s \in Sub : /\ rpays[s] > 0 => rpays'[s] > 0
                    /\ rpays[s] <= 0 /\ rpays'[s] > 0 => rplan[s] <= paid'
                    /\ rpays'[s] <= 0 => rplan[s] <= rplan'[s]

LEMMA FitsStays ==
  ASSUME Shape, Shape', Raises, NEW s \in Sub, NEW k \in Nat, Fits(s, k)
  PROVE  Fits(s, k)'
<1>1. paid \in Nat /\ paid' \in Nat /\ rpays[s] \in Nat /\ rpays'[s] \in Nat /\ rplan[s] \in Nat
      /\ rplan'[s] \in Nat
  BY Numbers, NumbersNext
<1>2. CASE rpays[s] > 0
  BY <1>1, <1>2 DEF Fits, Raises
<1>3. CASE rpays[s] <= 0 /\ rpays'[s] > 0
  BY <1>1, <1>3 DEF Fits, Raises
<1>4. CASE rpays[s] <= 0 /\ rpays'[s] <= 0
  BY <1>1, <1>4 DEF Fits, Raises
<1>. QED
  BY <1>1, <1>2, <1>3, <1>4

(* A row that does not become active, with the package and the downgrade   *)
(* it had or with none.                                                    *)
LEMMA RowStays ==
  ASSUME Shape, Shape', Raises, NEW s \in Sub, RowPaid(s), package'[s] = package[s],
         status'[s] = "active" => status[s] = "active" \/ rpays[s] > 0,
         pending'[s] = pending[s] \/ pending'[s] = NoTier
  PROVE  RowPaid(s)'
<1>1. Fits(s, package[s]) /\ package[s] \in Nat /\ paid \in Nat /\ paid' \in Nat
      /\ pending[s] \in Nat \cup {NoTier}
  BY Numbers, NumbersNext DEF RowPaid
<1>2. PICK k \in Nat : k = package[s]
  BY <1>1
<1>3. Fits(s, k)'
  BY <1>1, <1>2, FitsStays
<1>4. Fits(s, package[s])'
  BY <1>2, <1>3 DEF Fits
<1>. QED
  BY <1>1, <1>4 DEF RowPaid, Raises

LEMMA RecordStays ==
  ASSUME Shape, Shape', Raises, NEW s \in Sub, RecordPaid(s),
         rplan'[s] = rplan[s], rnext'[s] = rnext[s] \/ rnext'[s] = NoTier
  PROVE  RecordPaid(s)'
<1>1. /\ paid \in Nat /\ paid' \in Nat /\ rplan[s] \in Nat /\ rpays[s] \in Nat
      /\ rnext[s] \in Nat \cup {NoTier} /\ rpays'[s] \in Nat
  BY Numbers, NumbersNext
<1>. QED
  BY <1>1 DEF RecordPaid, Raises

LEMMA EventsStay ==
  ASSUME Shape, Shape', Raises, EventsPaid,
         \A e \in inbox' : e \in inbox \/ e.kind # "updated" \/ e.plan <= paid'
  PROVE  EventsPaid'
<1>1. \A e \in inbox : e.plan \in Nat
  BY Numbers DEF Shape, TypeOK
<1>2. paid \in Nat /\ paid' \in Nat /\ paid <= paid'
  BY Numbers, NumbersNext DEF Raises
<1>. QED
  BY <1>1, <1>2 DEF EventsPaid

LEMMA BatchStays ==
  ASSUME Shape, Shape', Raises, BatchPaid, UNCHANGED sched
  PROVE  BatchPaid'
<1>1. /\ \A x \in sched.batch : x[1] \in Sub /\ x[2] \in Tier \cup {NoTier}
      /\ sched.tier \in Tier \cup {NoTier} /\ Tier \subseteq Nat
  BY BatchTypes, SchedNow, Numbers
<1>2. paid \in Nat /\ paid' \in Nat /\ paid <= paid'
  BY Numbers, NumbersNext DEF Raises
<1>3. PICK B, k : B = sched.batch /\ k = sched.tier
  OBVIOUS
<1>4. sched'.batch = B /\ sched'.tier = k
  BY <1>3
<1>5. ASSUME NEW x \in B, x[2] # NoTier
      PROVE  x[2] <= paid' /\ rpays'[x[1]] > 0
  <2>1. PICK s \in Sub, j \in Nat : s = x[1] /\ j = x[2]
    BY <1>1, <1>3, <1>5
  <2>2. j <= paid /\ rpays[s] > 0
    BY <1>3, <1>5, <2>1 DEF BatchPaid
  <2>3. j <= paid' /\ rpays'[s] > 0
    BY <1>2, <2>2 DEF Raises
  <2>. QED
    BY <2>1, <2>3
<1>6. k # NoTier => k <= paid'
  <2>1. k # NoTier => k \in Nat
    BY <1>1, <1>3
  <2>2. k # NoTier => k <= paid
    BY <1>3 DEF BatchPaid
  <2>. QED
    BY <1>2, <2>1, <2>2
<1>. QED
  BY <1>4, <1>5, <1>6 DEF BatchPaid

(* The subscriptions known here are the provider's, and were before.       *)
LEMMA BilledBefore ==
  ASSUME AllBilled', \A s \in Sub : Exists(s) => Exists(s)' /\ (Billed(s)' => Billed(s))
  PROVE  AllBilled
BY DEF AllBilled

-----------------------------------------------------------------------------
(* The calls whose packages are paid for.                                  *)

LEMMA CallPaidStays ==
  ASSUME Shape, Shape', Raises, NEW q \in Proc, PaidCall(q), Stays(q)
  PROVE  PaidCall(q)'
<1>1. CallOK(q)
  BY Parts DEF Procs
<1>2. Left(q)' = Left(q) /\ \A c : Has(q, c)' = Has(q, c)
  BY DEF Stays, Left, Has
<1>3. PICK s, k, e : s = sub[q] /\ k = tier[q] /\ e = event[q]
  OBVIOUS
<1>4. sub'[q] = s /\ tier'[q] = k /\ event'[q] = e
  BY <1>3 DEF Stays
<1>5. paid \in Nat /\ paid' \in Nat /\ paid <= paid' /\ k \in Nat \cup {NoTier}
      /\ (e # NoEvent => e.plan \in Nat)
  BY <1>1, <1>3, Numbers, NumbersNext DEF Raises, CallOK, EventOK
<1>6. /\ Has(q, "planLater") \/ Has(q, "pend") \/ Has(q, "setPackage") => s \in Sub
      /\ Has(q, "insert") /\ ~Has(q, "order") => s \in Sub
      /\ Has(q, "planLater") \/ Has(q, "pend") \/ Has(q, "setPackage") \/ Has(q, "grant")
           \/ Has(q, "insert") => k \in Nat
  <2>1. Left(q) \cap OfTier # {} => k \in Nat
    BY <1>1, <1>3, Numbers DEF CallOK
  <2>. QED
    BY <1>1, <1>3, <2>1 DEF CallOK, Has, OfRow, OfTier, Call
<1>7. Has(q, "planLater") \/ Has(q, "pend") => rpays'[s] > 0 /\ k <= paid'
  BY <1>3, <1>5, <1>6 DEF PaidCall, Raises
<1>8. Has(q, "setPackage") => rpays'[s] > 0 /\ ~Has(q, "assign")
  BY <1>3, <1>6 DEF PaidCall, Raises
<1>9. (Has(q, "setPackage") \/ Has(q, "grant")) /\ ~Has(q, "planNow") /\ ~Has(q, "assign")
        => k <= paid'
  BY <1>3, <1>5, <1>6 DEF PaidCall
<1>10. Has(q, "insert") /\ ~Has(q, "order") => Fits(s, k)'
  BY <1>3, <1>6, FitsStays DEF PaidCall
<1>11. e # NoEvent /\ e.kind = "updated" => e.plan <= paid'
  BY <1>3, <1>5 DEF PaidCall
<1>12. Has(q, "insert") /\ ~Has(q, "order") => Fits(sub[q], tier[q])'
  BY <1>4, <1>10 DEF Fits
<1>. QED
  BY <1>2, <1>4, <1>7, <1>8, <1>9, <1>11, <1>12 DEF PaidCall

LEMMA CallPaidEnds ==
  ASSUME NEW p, Ends(p)
  PROVE  PaidCall(p)'
BY CallEnds DEF Ends, PaidCall, Has

(* A handler keeps what it knows, and does fewer calls.                    *)
LEMMA CallPaidGoes ==
  ASSUME Shape, Shape', Raises, NEW p \in Proc, PaidCall(p),
         sub'[p] = sub[p], tier'[p] = tier[p],
         event'[p] = event[p] \/ (event'[p] # NoEvent => event'[p].kind # "updated"),
         \A c \in OfTier \cup {"order"} : Has(p, c)' => Has(p, c),
         Has(p, "order") => Has(p, "order")' \/ ~Has(p, "insert")',
         /\ Has(p, "planNow") => Has(p, "planNow")' \/ tier[p] <= paid'
         /\ Has(p, "assign") => Has(p, "assign")'
  PROVE  PaidCall(p)'
<1>1. CallOK(p)
  BY Parts DEF Procs
<1>2. PICK s, k, e : s = sub[p] /\ k = tier[p] /\ e = event[p]
  OBVIOUS
<1>3. paid \in Nat /\ paid' \in Nat /\ paid <= paid' /\ k \in Nat \cup {NoTier}
      /\ (e # NoEvent => e.plan \in Nat)
  BY <1>1, <1>2, Numbers, NumbersNext DEF Raises, CallOK, EventOK
<1>4. /\ Has(p, "planLater") \/ Has(p, "pend") \/ Has(p, "setPackage") => s \in Sub
      /\ Has(p, "insert") /\ ~Has(p, "order") => s \in Sub
      /\ Has(p, "planLater") \/ Has(p, "pend") \/ Has(p, "setPackage") \/ Has(p, "grant")
           \/ Has(p, "insert") => k \in Nat
  <2>1. Left(p) \cap OfTier # {} => k \in Nat
    BY <1>1, <1>2, Numbers DEF CallOK
  <2>. QED
    BY <1>1, <1>2, <2>1 DEF CallOK, Has, OfRow, OfTier, Call
<1>5. \A c \in {"planLater", "pend", "setPackage", "grant", "insert", "assign", "planNow",
                "order"} :
        Has(p, c)' => Has(p, c)
  BY DEF OfTier
<1>6. Has(p, "planLater")' \/ Has(p, "pend")' => rpays'[s] > 0 /\ k <= paid'
  BY <1>2, <1>3, <1>4, <1>5 DEF PaidCall, Raises
<1>7. Has(p, "setPackage")' => rpays'[s] > 0 /\ ~Has(p, "assign")'
  BY <1>2, <1>4, <1>5 DEF PaidCall, Raises
<1>8. (Has(p, "setPackage")' \/ Has(p, "grant")') /\ ~Has(p, "planNow")' /\ ~Has(p, "assign")'
        => k <= paid'
  <2>1. CASE Has(p, "planNow")
    BY <1>2, <2>1
  <2>2. CASE ~Has(p, "planNow")
    BY <1>2, <1>3, <1>4, <1>5, <2>2 DEF PaidCall
  <2>. QED
    BY <2>1, <2>2
<1>9. Has(p, "insert")' /\ ~Has(p, "order")' => Fits(s, k)'
  BY <1>2, <1>4, <1>5, FitsStays DEF PaidCall
<1>10. Has(p, "insert")' /\ ~Has(p, "order")' => Fits(sub[p], tier[p])'
  BY <1>2, <1>9 DEF Fits
<1>11. event'[p] # NoEvent /\ event'[p].kind = "updated" => event'[p].plan <= paid'
  BY <1>2, <1>3 DEF PaidCall
<1>. QED
  BY <1>2, <1>6, <1>7, <1>8, <1>10, <1>11 DEF PaidCall

LEMMA CallPaidWent ==
  ASSUME Shape, Shape', Raises, NEW p \in Proc, PaidCall(p), Went(p),
         Head(todo[p]) \notin {"order", "assign"},
         Head(todo[p]) = "planNow" => Ends(p) \/ tier[p] <= paid'
  PROVE  PaidCall(p)'
<1>1. CASE Ends(p)
  BY <1>1, CallPaidEnds
<1>2. CASE ~Ends(p)
  <2>1. /\ Continues(p, Rest(p)) /\ Left(p)' \subseteq Left(p)
        /\ \A c : Has(p, c) /\ ~Has(p, c)' => c = Head(todo[p])
    BY <1>2 DEF Went
  <2>2. \A c : Has(p, c)' => Has(p, c)
    BY <2>1 DEF Has
  <2>. QED
    BY <1>2, <2>1, <2>2, CallPaidGoes DEF Continues
<1>. QED
  BY <1>1, <1>2

-----------------------------------------------------------------------------
(* A row is not deleted, and an order gets an id that no row has: if all   *)
(* subscriptions are the provider's, they were.                            *)

Known(s) == Exists(s) => Exists(s)' /\ (Billed(s)' => Billed(s))

LEMMA SameKnown ==
  ASSUME UNCHANGED <<status, rstatus>>
  PROVE  \A s \in Sub : Known(s)
BY DEF Known, Exists, Billed

LEMMA ProviderKnown ==
  ASSUME Shape, Provider
  PROVE  \A s \in Sub : Known(s)
<1>1. UNCHANGED status
  BY DEF Provider, rowVars
<1>2. CASE \E e \in inbox : GiveUp(e)
  BY <1>1, <1>2, SameKnown DEF GiveUp, providerVars
<1>3. CASE \E s \in Sub : Checkout(s) \/ Activate(s) \/ Renew(s) \/ \E m \in Moves : Move(s, m)
  <2>1. PICK s \in Sub : Checkout(s) \/ Activate(s) \/ Renew(s) \/ \E m \in Moves : Move(s, m)
    BY <1>3
  <2>2. Changes(s) /\ rstatus[s] \in {"created", "authenticated"} \cup Paying \cup Open
    BY <2>1, CheckoutChanges, ActivateChanges, RenewChanges, MoveChanges
  <2>3. rstatus[s] # "none"
    BY <2>2 DEF Paying, Open, Current
  <2>. QED
    BY <1>1, <2>2, <2>3 DEF Changes, Known, Exists, Billed
<1>. QED
  BY <1>2, <1>3 DEF Provider

LEMMA ProviderCallKnown ==
  ASSUME Shape, NEW p \in Proc, ProviderCall(p)
  PROVE  \A s \in Sub : Known(s)
<1>1. UNCHANGED status
  BY DEF ProviderCall, rowVars
<1>2. CASE PlanNow(p) \/ (PlanLater(p) \/ StopLater(p)) \/ Fetch(p)
  <2>1. UNCHANGED rstatus
    BY <1>2, PlanNowShape, LaterShape DEF Fetch, providerVars
  <2>. QED
    BY <1>1, <2>1, SameKnown
<1>3. CASE CancelNow(p)
  <2>1. \A t \in Sub : rstatus'[t] = rstatus[t]
          \/ (rstatus[t] \in Open /\ rstatus'[t] = "cancelled")
    BY <1>3, CancelNowShape
  <2>. QED
    BY <1>1, <2>1 DEF Known, Exists, Billed, Open, Current
<1>4. CASE Order(p)
  <2>1. CASE UNCHANGED rstatus
    BY <1>1, <2>1, SameKnown
  <2>2. CASE \E s \in Sub : Fresh(s) /\ rstatus' = [rstatus EXCEPT ![s] = "created"]
    <3>1. PICK s \in Sub : Fresh(s) /\ rstatus' = [rstatus EXCEPT ![s] = "created"]
      BY <2>2
    <3>2. ~Exists(s) /\ \A t \in Sub \ {s} : rstatus'[t] = rstatus[t]
      BY <3>1, Parts DEF Records, Fresh
    <3>. QED
      BY <1>1, <3>2 DEF Known, Exists, Billed
  <2>. QED
    BY <1>4, <2>1, <2>2 DEF Order
<1>. QED
  BY <1>2, <1>3, <1>4 DEF ProviderCall

LEMMA RowCallKnown ==
  ASSUME Shape, NEW p \in Proc, RowCall(p)
  PROVE  \A s \in Sub : Known(s)
<1>1. UNCHANGED providerVars /\ UNCHANGED rstatus
  BY DEF RowCall, providerVars
<1>2. \A s \in Sub : status'[s] = status[s] \/ status'[s] # "none"
  <2>1. CASE UNCHANGED status
    BY <2>1
  <2>2. CASE \E x \in Sub : \E y : status' = [status EXCEPT ![x] = y] /\ y # "none"
    BY <2>2, Parts DEF Rows
  <2>3. Insert(p) =>
          UNCHANGED status \/ (sub[p] \in Sub /\ status' = [status EXCEPT ![sub[p]] = "created"])
    BY <1>1, InsertShape
  <2>4. Assign(p) => UNCHANGED status \/ \E x \in Sub : status' = [status EXCEPT ![x] = "active"]
    BY <1>1, AssignShape
  <2>5. ASSUME Apply(p)
        PROVE  UNCHANGED status
               \/ \E x \in Sub : \E y : status' = [status EXCEPT ![x] = y] /\ y # "none"
    <3>1. /\ sub[p] \in Sub
          /\ UNCHANGED status
             \/ \E e \in Event : EventOK(e) /\ e.sub = sub[p]
                  /\ status' = [status EXCEPT ![sub[p]] = StatusOf(e)]
      BY <1>1, <2>5, ApplyShape
    <3>. QED
      BY <3>1 DEF EventOK
  <2>6. CancelRow(p) =>
          UNCHANGED status
          \/ (sub[p] \in Sub /\ status' = [status EXCEPT ![sub[p]] = "cancelled"])
    BY <1>1, CancelRowShape
  <2>7. SetCancellation(p) \/ SetPendingDowngrade(p) \/ UpdatePackageID(p) => UNCHANGED status
    BY <1>1, SetterShape
  <2>. QED
    BY <2>1, <2>2, <2>3, <2>4, <2>5, <2>6, <2>7 DEF RowCall
<1>. QED
  BY <1>1, <1>2 DEF Known, Exists, Billed

LEMMA BilledNext ==
  ASSUME Shape, [Next]_vars, AllBilled'
  PROVE  AllBilled
<1>1. \A s \in Sub : Known(s)
  <2>1. CASE Tick
    BY <2>1, SameKnown DEF Tick
  <2>2. ASSUME NEW p \in Proc, Request(p) \/ Webhooks(p) \/ OtherCall(p) \/ Abandon(p)
        PROVE  \A s \in Sub : Known(s)
    <3>1. UNCHANGED rowVars /\ UNCHANGED providerVars
      BY <2>2 DEF Request, Webhooks, OtherCall, Abandon
    <3>. QED
      BY <3>1, SameKnown DEF rowVars, providerVars
  <2>3. CASE ProcessScheduledDowngrades
    <3>1. UNCHANGED rstatus /\ \A s \in Sub : status'[s] = status[s] \/ status'[s] = "expired"
      BY <2>3, SchedulerShape DEF Scheduled, providerVars
    <3>. QED
      BY <3>1 DEF Known, Exists, Billed
  <2>4. CASE UNCHANGED vars
    BY <2>4, SameKnown DEF vars, rowVars, providerVars
  <2>. QED
    BY <2>1, <2>2, <2>3, <2>4, ProviderKnown, ProviderCallKnown, RowCallKnown DEF Next, Step
<1>. QED
  BY <1>1, BilledBefore DEF Known

-----------------------------------------------------------------------------
(* Every step keeps what is paid for.                                      *)

LEMMA SameRaises ==
  ASSUME Shape, UNCHANGED providerVars
  PROVE  Raises
<1>1. paid \in Nat /\ \A s \in Sub : rpays[s] \in Nat /\ rplan[s] \in Nat
  BY Numbers
<1>. QED
  BY <1>1 DEF Raises, providerVars

LEMMA SameRecordPaid ==
  ASSUME Shape, Shape', Paid, UNCHANGED providerVars
  PROVE  \A s \in Sub : RecordPaid(s)'
BY SameRaises, RecordStays DEF Paid, providerVars

(* Steps that leave the rows, the limits and the scheduler alone.          *)
LEMMA OthersPaid ==
  ASSUME Shape, Shape', Raises, Paid, UNCHANGED rowVars, UNCHANGED limits, UNCHANGED sched
  PROVE  limits' <= paid' /\ (\A s \in Sub : RowPaid(s)') /\ BatchPaid'
<1>1. UNCHANGED <<status, package, pending>>
  BY DEF rowVars
<1>2. \A s \in Sub : RowPaid(s)'
  BY <1>1, RowStays DEF Paid
<1>3. limits \in Nat /\ paid \in Nat /\ paid' \in Nat
  BY Numbers, NumbersNext
<1>. QED
  BY <1>2, <1>3, BatchStays DEF Paid, Raises

LEMMA RaisesIf ==
  ASSUME Shape, Shape', NEW s \in Sub, Changes(s), paid <= paid',
         rpays[s] > 0 \/ (rpays'[s] <= 0 /\ rplan'[s] = rplan[s]) \/ rplan[s] <= paid'
         \/ rstatus[s] = "none",
         rpays'[s] > 0 \/ rplan'[s] = rplan[s] \/ rstatus[s] = "none",
         rstatus[s] = "none" => rpays'[s] = rpays[s]
  PROVE  Raises
<1>1. paid \in Nat /\ paid' \in Nat
      /\ \A t \in Sub : /\ rpays[t] \in Nat /\ rpays'[t] \in Nat
                         /\ rplan[t] \in Nat /\ rplan'[t] \in Nat
  BY Numbers, NumbersNext
<1>2. \A t \in Sub \ {s} : rpays'[t] = rpays[t] /\ rplan'[t] = rplan[t]
  BY DEF Changes
<1>3. rpays[s] > 0 => rpays'[s] > 0
  BY DEF Changes
<1>4. rstatus[s] = "none" => rpays[s] = 0 /\ rplan[s] = 0
  BY RecordTypes DEF RecordOK
<1>5. rpays[s] <= 0 /\ rpays'[s] > 0 => rplan[s] <= paid'
  BY <1>1, <1>4
<1>6. rpays'[s] <= 0 => rplan[s] <= rplan'[s]
  BY <1>1, <1>4
<1>7. \A t \in Sub \ {s} : /\ rpays[t] > 0 => rpays'[t] > 0
                           /\ rpays[t] <= 0 /\ rpays'[t] > 0 => rplan[t] <= paid'
                           /\ rpays'[t] <= 0 => rplan[t] <= rplan'[t]
  BY <1>1, <1>2
<1>. QED
  BY <1>3, <1>5, <1>6, <1>7 DEF Raises

(* What the provider does of itself.                                       *)
LEMMA ProviderActs ==
  ASSUME Shape, Shape', Paid, Provider
  PROVE  Raises /\ EventsPaid' /\ \A s \in Sub : RecordPaid(s)'
<1>1. CASE \E e \in inbox : GiveUp(e)
  <2>1. UNCHANGED providerVars /\ inbox' \subseteq inbox
    BY <1>1 DEF GiveUp
  <2>. QED
    BY <2>1, SameRaises, SameRecordPaid, EventsStay DEF Paid
<1>2. ASSUME NEW s \in Sub, Checkout(s)
      PROVE  Raises /\ EventsPaid' /\ \A t \in Sub : RecordPaid(t)'
  <2>1. /\ Changes(s) /\ rpays'[s] > 0 /\ rstatus[s] = "created"
        /\ UNCHANGED rplan /\ UNCHANGED rnext /\ paid <= paid' /\ rplan[s] <= paid'
        /\ \A e \in inbox' : e \in inbox \/ e.kind = "authenticated"
    BY <1>2, CheckoutChanges
  <2>2. Raises
    BY <2>1, RaisesIf
  <2>3. \A t \in Sub \ {s} : RecordPaid(t)'
    BY <2>1, <2>2, RecordStays DEF Paid
  <2>4. RecordPaid(s)'
    <3>1. RecordPaid(s) /\ paid \in Nat /\ paid' \in Nat /\ rnext[s] \in Nat \cup {NoTier}
      BY Numbers, NumbersNext DEF Paid
    <3>. QED
      BY <2>1, <3>1 DEF RecordPaid
  <2>. QED
    BY <2>1, <2>2, <2>3, <2>4, EventsStay DEF Paid
<1>3. ASSUME NEW s \in Sub, Activate(s) \/ \E m \in Moves : Move(s, m)
      PROVE  Raises /\ EventsPaid' /\ \A t \in Sub : RecordPaid(t)'
  <2>1. /\ Changes(s) /\ UNCHANGED <<rplan, rnext, rpays, paid>>
        /\ \A e \in inbox' : e \in inbox \/ e.kind # "updated"
    BY <1>3, ActivateChanges, MoveChanges
  <2>2. Raises
    <3>1. paid \in Nat /\ \A t \in Sub : rpays[t] \in Nat /\ rplan[t] \in Nat
      BY Numbers
    <3>. QED
      BY <2>1, <3>1 DEF Raises
  <2>3. \A t \in Sub : RecordPaid(t)'
    BY <2>1, <2>2, RecordStays DEF Paid
  <2>. QED
    BY <2>1, <2>2, <2>3, EventsStay DEF Paid
<1>4. ASSUME NEW s \in Sub, Renew(s)
      PROVE  Raises /\ EventsPaid' /\ \A t \in Sub : RecordPaid(t)'
  <2>1. /\ Changes(s) /\ rstatus[s] \in Paying /\ rpays[s] > 0
        /\ rplan'[s] = (IF rnext[s] = NoTier THEN rplan[s] ELSE rnext[s])
        /\ rnext' = [rnext EXCEPT ![s] = NoTier] /\ UNCHANGED paid
        /\ \A e \in inbox' : e \in inbox \/ e.kind # "updated" \/ e.plan = rplan'[s]
    BY <1>4, RenewChanges
  <2>2. paid \in Nat /\ rpays'[s] > 0 /\ rstatus[s] # "none"
    BY <2>1, Numbers DEF Changes, Paying
  <2>3. Raises
    BY <2>1, <2>2, RaisesIf
  <2>4. rplan'[s] <= paid'
    <3>1. RecordPaid(s)
      BY DEF Paid
    <3>. QED
      BY <2>1, <3>1 DEF RecordPaid
  <2>5. rnext'[s] = NoTier /\ \A t \in Sub \ {s} : rnext'[t] = rnext[t]
    BY <2>1, Parts DEF Records
  <2>6. RecordPaid(s)'
    BY <2>4, <2>5 DEF RecordPaid
  <2>7. \A t \in Sub \ {s} : rplan'[t] = rplan[t]
    BY <2>1 DEF Changes
  <2>8. \A t \in Sub \ {s} : RecordPaid(t)'
    BY <2>3, <2>5, <2>7, RecordStays DEF Paid
  <2>9. EventsPaid'
    BY <2>1, <2>3, <2>4, EventsStay DEF Paid
  <2>. QED
    BY <2>3, <2>6, <2>8, <2>9
<1>. QED
  BY <1>1, <1>2, <1>3, <1>4 DEF Provider

LEMMA ProviderPaid ==
  ASSUME Shape, Shape', Paid, Provider
  PROVE  Paid'
<1>1. UNCHANGED rowVars /\ UNCHANGED limits /\ UNCHANGED sched /\ UNCHANGED procVars
  BY DEF Provider
<1>2. \A q \in Proc : Stays(q)
  BY <1>1 DEF procVars, Stays
<1>3. Raises /\ EventsPaid' /\ \A s \in Sub : RecordPaid(s)'
  BY ProviderActs
<1>4. \A q \in Proc : PaidCall(q)'
  BY <1>2, <1>3, CallPaidStays DEF Paid
<1>. QED
  BY <1>1, <1>3, <1>4, OthersPaid DEF Paid

LEMMA TickPaid ==
  ASSUME Shape, Shape', Paid, Tick
  PROVE  Paid'
<1>1. /\ UNCHANGED <<status, package, pending, rstatus, rplan, rnext, rpays, paid>>
      /\ UNCHANGED <<limits, inbox, procVars>> /\ UNCHANGED sched
  BY DEF Tick
<1>2. Raises
  <2>1. paid \in Nat /\ \A t \in Sub : rpays[t] \in Nat /\ rplan[t] \in Nat
    BY Numbers
  <2>. QED
    BY <1>1, <2>1 DEF Raises
<1>3. \A q \in Proc : Stays(q)
  BY <1>1 DEF procVars, Stays
<1>4. \A q \in Proc : PaidCall(q)'
  BY <1>2, <1>3, CallPaidStays DEF Paid
<1>5. \A s \in Sub : RowPaid(s)' /\ RecordPaid(s)'
  BY <1>1, <1>2, RowStays, RecordStays DEF Paid
<1>6. EventsPaid' /\ BatchPaid'
  BY <1>1, <1>2, EventsStay, BatchStays DEF Paid
<1>. QED
  BY <1>1, <1>4, <1>5, <1>6 DEF Paid

LEMMA StartsPaid ==
  ASSUME Shape, Shape', Paid, AllBilled, NEW p \in Proc, Request(p) \/ Webhooks(p)
  PROVE  Paid'
<1>1. UNCHANGED rowVars /\ UNCHANGED limits /\ UNCHANGED sched /\ UNCHANGED providerVars
      /\ UNCHANGED inbox /\ Keeps
  BY RequestStarts, StartsShape
<1>2. Raises
  BY <1>1, SameRaises
<1>3. PICK s \in Sub \cup {NoSub}, k \in Tier \cup {NoTier}, e \in Event \cup {NoEvent},
           t \in Seq(Call), C \in SUBSET Call :
        /\ Begin(p, s, k, e, t) /\ Good(t, C)
        /\ KnowsRow(s, k, C) /\ KnowsEvent(s, e, C) /\ KnowsPaid(s, k, e, C)
  BY RequestStarts DEF Starts
<1>4. /\ \A q \in Proc \ {p} : Stays(q)
      /\ sub'[p] = s /\ tier'[p] = k /\ event'[p] = e /\ Left(p)' = C
  BY <1>1, <1>3, Begins DEF Good, KnowsRow, KnowsEvent
<1>5. /\ UNCHANGED <<rpays, paid>> /\ paid \in Nat /\ (k # NoTier => k \in Nat)
      /\ (s \in Sub => package[s] \in Nat /\ rpays[s] \in Nat)
  BY <1>1, Numbers DEF providerVars
<1>6. ASSUME s \in Sub
      PROVE  /\ status[s] = "active" => rpays[s] > 0 /\ Billed(s)
             /\ rpays[s] > 0 => package[s] <= paid
  <2>1. RowPaid(s)
    BY <1>6 DEF Paid
  <2>2. status[s] = "active" => Billed(s)
    BY <1>6 DEF AllBilled, Exists
  <2>. QED
    BY <2>1, <2>2 DEF RowPaid, Fits
<1>7. Announced(e, k) => e \in inbox /\ e.sub = s /\ k <= paid /\ rpays[s] > 0
  BY <1>3 DEF Announced, KnowsEvent, Paid, EventsPaid
<1>8. "planLater" \in C \/ "pend" \in C => rpays[s] > 0 /\ k <= paid
  <2>1. CASE "planLater" \in C \/ "pend" \in C
    <3>1. s \in Sub /\ k \in Tier /\ status[s] = "active" /\ k < package[s]
      BY <1>3, <2>1 DEF KnowsRow, KnowsPaid, OfRow, OfTier, Call
    <3>2. k \in Nat /\ package[s] <= paid /\ rpays[s] > 0
      BY <1>6, <3>1, Numbers
    <3>. QED
      BY <1>5, <3>1, <3>2
  <2>. QED
    BY <2>1
<1>9. "setPackage" \in C => rpays[s] > 0 /\ "assign" \notin C /\ ("planNow" \in C \/ k <= paid)
  <2>1. CASE "setPackage" \in C
    <3>1. s \in Sub
      BY <1>3, <2>1 DEF KnowsRow, OfRow, Call
    <3>. QED
      BY <1>3, <1>6, <1>7, <2>1, <3>1 DEF KnowsPaid
  <2>. QED
    BY <2>1
<1>10. "grant" \in C /\ "planNow" \notin C /\ "assign" \notin C => k <= paid
  BY <1>3, <1>6, <1>7 DEF KnowsPaid
<1>11. "insert" \in C => "order" \in C
  BY <1>3 DEF KnowsRow
<1>12. e # NoEvent /\ e.kind = "updated" => e.plan <= paid
  BY <1>3 DEF KnowsEvent, Paid, EventsPaid
<1>13. PaidCall(p)'
  BY <1>4, <1>5, <1>8, <1>9, <1>10, <1>11, <1>12 DEF PaidCall, Has
<1>14. \A q \in Proc : PaidCall(q)'
  BY <1>2, <1>4, <1>13, CallPaidStays DEF Paid
<1>15. EventsPaid' /\ \A x \in Sub : RecordPaid(x)'
  BY <1>1, <1>2, EventsStay, SameRecordPaid DEF Paid
<1>. QED
  BY <1>1, <1>2, <1>14, <1>15, OthersPaid DEF Paid

-----------------------------------------------------------------------------
(* The handlers' calls keep what is paid for.                              *)

LEMMA OrderPaid ==
  ASSUME Shape, Shape', Paid, NEW p \in Proc, Order(p), UNCHANGED rowVars,
         UNCHANGED <<limits, sched>>
  PROVE  Paid'
<1>1. /\ todo[p] # <<>> /\ Head(todo[p]) = "order" /\ Has(p, "order") /\ CallOK(p)
      /\ tier[p] \in Tier
  BY Calling DEF Order, OfTier
<1>2. UNCHANGED <<rnext, rpays, paid, inbox>>
  BY DEF Order
<1>3. paid \in Nat /\ \A t \in Sub : rpays[t] \in Nat /\ rplan[t] \in Nat
  BY Numbers
<1>4. CASE Proceed(p, <<>>) /\ UNCHANGED <<rstatus, rplan>>
  <2>1. UNCHANGED providerVars
    BY <1>4 DEF Order, providerVars
  <2>2. Raises /\ Keeps
    BY <2>1, SameRaises, SameKeeps
  <2>3. (\A q \in Proc \ {p} : Stays(q)) /\ PaidCall(p)'
    BY <1>4, <2>2, Fails, CallPaidEnds DEF Went
  <2>4. \A q \in Proc : PaidCall(q)'
    BY <2>2, <2>3, CallPaidStays DEF Paid
  <2>5. EventsPaid' /\ \A x \in Sub : RecordPaid(x)'
    BY <1>2, <2>1, <2>2, EventsStay, SameRecordPaid DEF Paid
  <2>. QED
    BY <2>2, <2>4, <2>5, OthersPaid DEF Paid
<1>5. CASE \E s \in Sub :
             /\ Fresh(s)
             /\ rplan' = [rplan EXCEPT ![s] = tier[p]]
             /\ sub' = [sub EXCEPT ![p] = s]
             /\ todo' = [todo EXCEPT ![p] = Tail(@)]
             /\ UNCHANGED <<tier, event, faults>>
  <2>1. PICK s \in Sub :
             /\ Fresh(s)
             /\ rplan' = [rplan EXCEPT ![s] = tier[p]]
             /\ sub' = [sub EXCEPT ![p] = s]
             /\ todo' = [todo EXCEPT ![p] = Tail(@)]
             /\ UNCHANGED <<tier, event, faults>>
    BY <1>5
  <2>2. /\ rplan'[s] = tier[p] /\ \A t \in Sub \ {s} : rplan'[t] = rplan[t]
        /\ rplan[s] = 0 /\ rpays[s] = 0 /\ tier[p] \in Nat
    BY <1>1, <2>1, Parts, Numbers DEF Records, RecordOK, Fresh, Billed
  <2>3. Raises
    BY <1>2, <1>3, <2>2 DEF Raises
  <2>4. ProcTypes
    BY Parts DEF Procs
  <2>5. /\ \A q \in Proc \ {p} : Stays(q)
        /\ todo'[p] = Rest(p) /\ sub'[p] = s /\ tier'[p] = tier[p] /\ event'[p] = event[p]
    BY <2>1, <2>4 DEF ProcTypes, Stays, Rest
  <2>6. Range(Rest(p)) \subseteq {"insert"} /\ event[p] = NoEvent
    BY <1>1, OrderedTail DEF CallOK, Rest
  <2>7. Left(p)' \subseteq {"insert"}
    BY <2>5, <2>6 DEF Left
  <2>8. Fits(sub[p], tier[p])'
    BY <1>2, <1>3, <2>2, <2>5 DEF Fits
  <2>9. PaidCall(p)'
    BY <2>5, <2>6, <2>7, <2>8 DEF PaidCall, Has
  <2>10. \A q \in Proc : PaidCall(q)'
    BY <2>3, <2>5, <2>9, CallPaidStays DEF Paid
  <2>11. \A t \in Sub \ {s} : RecordPaid(t)'
    BY <1>2, <2>2, <2>3, RecordStays DEF Paid
  <2>12. RecordPaid(s)'
    <3>1. RecordPaid(s)
      BY DEF Paid
    <3>. QED
      BY <1>2, <2>2, <3>1 DEF RecordPaid
  <2>13. EventsPaid'
    BY <1>2, <2>3, EventsStay DEF Paid
  <2>. QED
    BY <2>3, <2>10, <2>11, <2>12, <2>13, OthersPaid DEF Paid
<1>. QED
  BY <1>4, <1>5 DEF Order

LEMMA CancelNowPaid ==
  ASSUME Shape, Shape', Paid, NEW p \in Proc, CancelNow(p), UNCHANGED rowVars,
         UNCHANGED <<limits, sched>>
  PROVE  Paid'
<1>1. /\ Went(p) /\ UNCHANGED <<rplan, rnext, rpays, paid>>
      /\ \A e \in inbox' : e \in inbox \/ e.kind # "updated"
  BY CancelNowShape
<1>2. Raises
  <2>1. paid \in Nat /\ \A t \in Sub : rpays[t] \in Nat /\ rplan[t] \in Nat
    BY Numbers
  <2>. QED
    BY <1>1, <2>1 DEF Raises
<1>3. Head(todo[p]) = "cancelNow"
  BY Calling DEF CancelNow
<1>4. PaidCall(p)'
  BY <1>1, <1>2, <1>3, CallPaidWent DEF Paid
<1>5. \A q \in Proc : PaidCall(q)'
  BY <1>1, <1>2, <1>4, CallPaidStays DEF Paid, Went
<1>6. EventsPaid' /\ \A t \in Sub : RecordPaid(t)'
  BY <1>1, <1>2, EventsStay, RecordStays DEF Paid
<1>. QED
  BY <1>2, <1>5, <1>6, OthersPaid DEF Paid

LEMMA PlanNowPaid ==
  ASSUME Shape, Shape', Paid, NEW p \in Proc, PlanNow(p), UNCHANGED rowVars,
         UNCHANGED <<limits, sched>>
  PROVE  Paid'
<1>1. PICK s \in Sub, k \in Tier : s = sub[p] /\ k = tier[p]
  BY PlanNowShape
<1>2. /\ Went(p) /\ UNCHANGED <<rstatus, rnext, rpays>>
      /\ \/ UNCHANGED <<rplan, paid, inbox>> /\ Ends(p)
         \/ /\ rpays[s] > 0 /\ rplan' = [rplan EXCEPT ![s] = k]
            /\ paid <= paid' /\ k <= paid'
            /\ \A e \in inbox' : e \in inbox \/ e.plan = k
  BY <1>1, PlanNowShape
<1>3. /\ paid \in Nat /\ paid' \in Nat
      /\ \A t \in Sub : rpays[t] \in Nat /\ rplan[t] \in Nat
  BY Numbers, NumbersNext
<1>4. \A t \in Sub \ {s} : rplan'[t] = rplan[t]
  BY <1>2, Parts DEF Records
<1>5. Raises
  <2>1. rpays[s] > 0 \/ rplan'[s] = rplan[s]
    BY <1>2
  <2>. QED
    BY <1>2, <1>3, <1>4, <2>1 DEF Raises
<1>6. \A t \in Sub \ {s} : RecordPaid(t)'
  BY <1>2, <1>4, <1>5, RecordStays DEF Paid
<1>7. RecordPaid(s)'
  <2>1. CASE UNCHANGED <<rplan, paid>>
    BY <1>2, <1>5, <2>1, RecordStays DEF Paid
  <2>2. CASE rplan' = [rplan EXCEPT ![s] = k] /\ k <= paid'
    <3>1. rplan'[s] = k
      BY <2>2, Parts DEF Records
    <3>2. RecordPaid(s) /\ rnext[s] \in Nat \cup {NoTier}
      BY Numbers DEF Paid
    <3>. QED
      BY <1>2, <1>3, <1>5, <2>2, <3>1, <3>2 DEF RecordPaid, Raises
  <2>. QED
    BY <1>2, <2>1, <2>2
<1>8. EventsPaid'
  BY <1>2, <1>5, EventsStay DEF Paid
<1>9. Head(todo[p]) = "planNow"
  BY Calling DEF PlanNow
<1>10. PaidCall(p)'
  BY <1>1, <1>2, <1>5, <1>9, CallPaidWent DEF Paid
<1>11. \A q \in Proc : PaidCall(q)'
  BY <1>2, <1>5, <1>10, CallPaidStays DEF Paid, Went
<1>. QED
  BY <1>5, <1>6, <1>7, <1>8, <1>11, OthersPaid DEF Paid

LEMMA LaterPaid ==
  ASSUME Shape, Shape', Paid, NEW p \in Proc, PlanLater(p) \/ StopLater(p), UNCHANGED rowVars,
         UNCHANGED <<limits, sched>>
  PROVE  Paid'
<1>1. PICK s \in Sub : s = sub[p]
  BY LaterShape
<1>2. /\ Went(p) /\ UNCHANGED <<rplan, rpays, paid, inbox>>
      /\ \/ UNCHANGED rnext
         \/ rnext' = [rnext EXCEPT ![s] = 0]
         \/ Has(p, "planLater") /\ rnext' = [rnext EXCEPT ![s] = tier[p]]
  BY <1>1, LaterShape
<1>3. paid \in Nat /\ \A t \in Sub : rpays[t] \in Nat /\ rplan[t] \in Nat
  BY Numbers
<1>4. Raises
  BY <1>2, <1>3 DEF Raises
<1>5. Head(todo[p]) \in {"planLater", "stopLater"}
  BY Calling DEF PlanLater, StopLater
<1>6. PaidCall(p)'
  BY <1>2, <1>4, <1>5, CallPaidWent DEF Paid
<1>7. \A q \in Proc : PaidCall(q)'
  BY <1>2, <1>4, <1>6, CallPaidStays DEF Paid, Went
<1>8. Has(p, "planLater") => tier[p] <= paid
  BY DEF Paid, PaidCall
<1>9. ASSUME NEW t \in Sub
      PROVE  RecordPaid(t)'
  <2>1. RecordPaid(t)
    BY DEF Paid
  <2>2. rnext'[t] = rnext[t] \/ rnext'[t] = 0 \/ (Has(p, "planLater") /\ rnext'[t] = tier[p])
    BY <1>2, Parts DEF Records
  <2>. QED
    BY <1>2, <1>3, <1>8, <2>1, <2>2 DEF RecordPaid
<1>10. EventsPaid'
  BY <1>2, <1>4, EventsStay DEF Paid
<1>. QED
  BY <1>4, <1>7, <1>9, <1>10, OthersPaid DEF Paid

LEMMA FetchPaid ==
  ASSUME Shape, Shape', Paid, NEW p \in Proc, Fetch(p), UNCHANGED rowVars,
         UNCHANGED <<limits, sched>>
  PROVE  Paid'
<1>1. UNCHANGED providerVars /\ UNCHANGED inbox
  BY DEF Fetch
<1>2. Raises
  BY <1>1, SameRaises
<1>3. /\ \A q \in Proc \ {p} : Stays(q)
      /\ sub'[p] = sub[p] /\ tier'[p] = tier[p]
      /\ event'[p].kind = "fetched"
      /\ Left(p)' \subseteq Left(p) /\ \A c : Has(p, c) /\ ~Has(p, c)' => c = "fetch"
  BY FetchShape
<1>4. \A c : Has(p, c)' => Has(p, c)
  BY <1>3 DEF Has
<1>5. PaidCall(p)'
  BY <1>2, <1>3, <1>4, CallPaidGoes DEF Paid
<1>6. \A q \in Proc : PaidCall(q)'
  BY <1>2, <1>3, <1>5, CallPaidStays DEF Paid
<1>7. EventsPaid' /\ \A t \in Sub : RecordPaid(t)'
  BY <1>1, <1>2, EventsStay, SameRecordPaid DEF Paid
<1>. QED
  BY <1>2, <1>6, <1>7, OthersPaid DEF Paid

LEMMA ProviderCallPaid ==
  ASSUME Shape, Shape', Paid, NEW p \in Proc, ProviderCall(p)
  PROVE  Paid'
<1>1. UNCHANGED rowVars /\ UNCHANGED <<limits, sched>>
  BY DEF ProviderCall
<1>. QED
  BY <1>1, OrderPaid, CancelNowPaid, PlanNowPaid, LaterPaid, FetchPaid DEF ProviderCall

(* A statement about the row of s: what is left to show is its package,    *)
(* its status and its downgrade, and the calls of p.                       *)
LEMMA StatementPaid ==
  ASSUME Shape, Shape', Paid, UNCHANGED providerVars, UNCHANGED <<limits, inbox, sched>>,
         NEW p \in Proc, \A q \in Proc \ {p} : Stays(q), PaidCall(p)',
         \A s \in Sub : RowPaid(s)'
  PROVE  Paid'
<1>1. Raises
  BY SameRaises
<1>2. \A q \in Proc : PaidCall(q)'
  BY <1>1, CallPaidStays DEF Paid
<1>3. EventsPaid' /\ BatchPaid' /\ \A t \in Sub : RecordPaid(t)'
  BY <1>1, EventsStay, BatchStays, SameRecordPaid DEF Paid
<1>. QED
  BY <1>2, <1>3 DEF Paid, providerVars

LEMMA InsertPaid ==
  ASSUME Shape, Shape', Paid, NEW p \in Proc, Insert(p), UNCHANGED providerVars,
         UNCHANGED <<limits, inbox, sched>>
  PROVE  Paid'
<1>1. PICK s \in Sub, k \in Tier : s = sub[p] /\ k = tier[p]
  BY InsertShape
<1>2. /\ UNCHANGED pending /\ \A q \in Proc \ {p} : Stays(q)
      /\ \/ /\ Ends(p) /\ package' = [package EXCEPT ![s] = k]
            /\ status' = [status EXCEPT ![s] = "created"]
         \/ /\ Continues(p, <<"cancelNow">>) /\ Left(p)' = {"cancelNow"}
            /\ UNCHANGED <<status, package>>
  BY <1>1, InsertShape
<1>3. Raises
  BY SameRaises
<1>4. Fits(s, k) /\ k \in Nat
  BY <1>1, InsertShape, Numbers DEF Paid, PaidCall
<1>5. CASE /\ Ends(p) /\ package' = [package EXCEPT ![s] = k]
           /\ status' = [status EXCEPT ![s] = "created"]
  <2>1. /\ \A t \in Sub \ {s} : package'[t] = package[t] /\ status'[t] = status[t]
        /\ package'[s] = k /\ status'[s] = "created"
    BY <1>5, Parts DEF Rows
  <2>2. \A t \in Sub \ {s} : RowPaid(t)'
    BY <1>2, <1>3, <2>1, RowStays DEF Paid
  <2>3. Fits(s, k)'
    BY <1>3, <1>4, FitsStays
  <2>4. Fits(s, package[s])'
    BY <2>1, <2>3 DEF Fits
  <2>5. RowPaid(s)
    BY DEF Paid
  <2>6. RowPaid(s)'
    BY <1>2, <2>1, <2>4, <2>5 DEF RowPaid, providerVars
  <2>7. PaidCall(p)'
    BY <1>5, CallPaidEnds
  <2>. QED
    BY <1>2, <2>2, <2>6, <2>7, StatementPaid
<1>6. CASE /\ Continues(p, <<"cancelNow">>) /\ Left(p)' = {"cancelNow"}
           /\ UNCHANGED <<status, package>>
  <2>1. \A t \in Sub : RowPaid(t)'
    BY <1>2, <1>3, <1>6, RowStays DEF Paid
  <2>2. event'[p] # NoEvent /\ event'[p].kind = "updated" => event'[p].plan <= paid'
    BY <1>6 DEF Continues, Paid, PaidCall, providerVars
  <2>3. PaidCall(p)'
    BY <1>6, <2>2 DEF PaidCall, Has
  <2>. QED
    BY <1>2, <2>1, <2>3, StatementPaid
<1>. QED
  BY <1>2, <1>5, <1>6

(* The admin's own subscription is not the provider's.                     *)
LEMMA AssignPaid ==
  ASSUME Shape, Shape', Paid, AllBilled', NEW p \in Proc, Assign(p), UNCHANGED providerVars,
         UNCHANGED <<limits, inbox, sched>>
  PROVE  Paid'
<1>1. ~\E s \in Sub : ~Billed(s) /\ status' = [status EXCEPT ![s] = "active"]
  <2>. SUFFICES ASSUME NEW s \in Sub, ~Billed(s), status' = [status EXCEPT ![s] = "active"]
                PROVE  FALSE
    OBVIOUS
  <2>1. status'[s] = "active" /\ rstatus'[s] = rstatus[s]
    BY Parts DEF Rows, providerVars
  <2>. QED
    BY <2>1 DEF AllBilled, Exists, Billed
<1>2. UNCHANGED <<status, package, pending>> /\ Ends(p) /\ \A q \in Proc \ {p} : Stays(q)
  BY <1>1, AssignShape DEF Went
<1>3. \A t \in Sub : RowPaid(t)'
  BY <1>2, SameRaises, RowStays DEF Paid
<1>4. PaidCall(p)'
  BY <1>2, CallPaidEnds
<1>. QED
  BY <1>2, <1>3, <1>4, StatementPaid

LEMMA ApplyPaid ==
  ASSUME Shape, Shape', Paid, NEW p \in Proc, Apply(p) \/ CancelRow(p), UNCHANGED providerVars,
         UNCHANGED <<limits, inbox, sched>>
  PROVE  Paid'
<1>1. PICK s \in Sub : s = sub[p]
  BY ApplyShape, CancelRowShape
<1>2. /\ Went(p) /\ UNCHANGED <<package, pending>>
      /\ \/ UNCHANGED status
         \/ status' = [status EXCEPT ![s] = "cancelled"]
         \/ \E e \in Event : /\ EventOK(e) /\ e.sub = s
                             /\ status' = [status EXCEPT ![s] = StatusOf(e)]
  BY <1>1, ApplyShape, CancelRowShape
<1>3. \A t \in Sub : status'[t] = status[t] \/ status'[t] # "active" \/ rpays[t] > 0
  BY <1>2, Parts DEF Rows, EventOK, Paying
<1>4. \A t \in Sub : RowPaid(t)'
  BY <1>2, <1>3, SameRaises, RowStays DEF Paid
<1>5. Head(todo[p]) \in {"apply", "cancelRow"}
  BY Calling DEF Apply, CancelRow
<1>6. PaidCall(p)'
  BY <1>2, <1>5, SameRaises, CallPaidWent DEF Paid
<1>. QED
  BY <1>2, <1>4, <1>6, StatementPaid DEF Went

(* A package is set once the provider has been asked for it.               *)
LEMMA SettersPaid ==
  ASSUME Shape, Shape', Paid, NEW p \in Proc, UNCHANGED providerVars,
         UNCHANGED <<limits, inbox, sched>>,
         SetCancellation(p) \/ SetPendingDowngrade(p) \/ UpdatePackageID(p)
  PROVE  Paid'
<1>1. PICK s \in Sub, k \in Tier \cup {NoTier} : s = sub[p] /\ k = tier[p]
  BY SetterShape, Parts DEF Procs, ProcTypes
<1>2. /\ Went(p) /\ UNCHANGED status
      /\ \/ UNCHANGED pending
         \/ pending' = [pending EXCEPT ![s] = NoTier]
         \/ Has(p, "pend") /\ pending' = [pending EXCEPT ![s] = k]
      /\ \/ UNCHANGED package
         \/ Has(p, "setPackage") /\ package' = [package EXCEPT ![s] = k]
  BY <1>1, SetterShape
<1>3. Head(todo[p]) \in {"stopRow", "unstop", "pend", "unpend", "setPackage"}
  BY Calling DEF SetCancellation, SetPendingDowngrade, UpdatePackageID
<1>4. PaidCall(p)'
  BY <1>2, <1>3, SameRaises, CallPaidWent DEF Paid
<1>5. UNCHANGED package
        \/ (Head(todo[p]) = "setPackage" /\ todo[p] # <<>> /\ CallOK(p) /\ Has(p, "setPackage"))
  BY Calling DEF SetCancellation, SetPendingDowngrade, UpdatePackageID
<1>6. UNCHANGED package \/ (rpays[s] > 0 /\ k <= paid)
  <2>1. CASE Head(todo[p]) = "setPackage" /\ todo[p] # <<>> /\ CallOK(p) /\ Has(p, "setPackage")
    <3>1. "planNow" \notin Range(Tail(todo[p]))
            /\ Left(p) = {Head(todo[p])} \cup Range(Tail(todo[p]))
      BY <2>1, OrderedTail, RangeTail DEF CallOK, First, Left
    <3>2. ~Has(p, "planNow")
      BY <2>1, <3>1 DEF Has
    <3>. QED
      BY <1>1, <2>1, <3>2 DEF Paid, PaidCall
  <2>. QED
    BY <1>5, <2>1
<1>7. Has(p, "pend") => rpays[s] > 0 /\ k <= paid
  BY <1>1 DEF Paid, PaidCall
<1>8. ASSUME NEW t \in Sub
      PROVE  RowPaid(t)'
  <2>1. RowPaid(t)
    BY DEF Paid
  <2>2. \/ package'[t] = package[t]
        \/ package'[t] = k /\ rpays[t] > 0 /\ k <= paid
    BY <1>2, <1>6, Parts DEF Rows
  <2>3. \/ pending'[t] = pending[t] \/ pending'[t] = NoTier
        \/ pending'[t] = k /\ rpays[t] > 0 /\ k <= paid
    BY <1>2, <1>7, Parts DEF Rows
  <2>4. UNCHANGED <<rpays, rplan, paid>>
    BY DEF providerVars
  <2>5. Fits(t, package[t])'
    BY <2>1, <2>2, <2>4 DEF RowPaid, Fits
  <2>. QED
    BY <1>2, <2>1, <2>3, <2>4, <2>5 DEF RowPaid
<1>. QED
  BY <1>2, <1>4, <1>8, StatementPaid DEF Went

LEMMA RowCallPaid ==
  ASSUME Shape, Shape', Paid, AllBilled', NEW p \in Proc, RowCall(p)
  PROVE  Paid'
<1>1. UNCHANGED providerVars /\ UNCHANGED <<limits, inbox, sched>>
  BY DEF RowCall
<1>. QED
  BY <1>1, InsertPaid, AssignPaid, ApplyPaid, SettersPaid DEF RowCall

(* The limits granted are those of a package paid for.                     *)
LEMMA GrantPaid ==
  ASSUME Shape, Paid, NEW p \in Proc, At(p, "grant")
  PROVE  tier[p] <= paid
<1>1. Head(todo[p]) = "grant" /\ todo[p] # <<>> /\ CallOK(p) /\ Has(p, "grant")
  BY Calling
<1>2. /\ "planNow" \notin Range(Tail(todo[p])) /\ "assign" \notin Range(Tail(todo[p]))
      /\ Left(p) = {Head(todo[p])} \cup Range(Tail(todo[p]))
  BY <1>1, OrderedTail, RangeTail DEF CallOK, First, Left
<1>3. ~Has(p, "planNow") /\ ~Has(p, "assign")
  BY <1>1, <1>2 DEF Has
<1>. QED
  BY <1>1, <1>3 DEF Paid, PaidCall

LEMMA OtherCallPaid ==
  ASSUME Shape, Shape', Paid, NEW p \in Proc, OtherCall(p)
  PROVE  Paid'
<1>1. UNCHANGED <<status, package, pending>> /\ UNCHANGED providerVars /\ UNCHANGED sched
  BY DEF OtherCall, rowVars
<1>2. Raises
  BY <1>1, SameRaises
<1>3. /\ \A t \in Sub : RowPaid(t)' /\ RecordPaid(t)'
      /\ BatchPaid'
  BY <1>1, <1>2, RowStays, SameRecordPaid, BatchStays DEF Paid
<1>4. inbox' \subseteq inbox
  BY <1>1, LimitsShape, RecordChargeShape, InsertReceiptShape, RecordShape DEF OtherCall
<1>5. EventsPaid'
  BY <1>2, <1>4, EventsStay DEF Paid
<1>6. limits' <= paid'
  <2>1. CASE UpdateStorageLimits(p)
    <3>1. UNCHANGED limits \/ limits' = 0 \/ (At(p, "grant") /\ limits' = tier[p])
      BY <2>1 DEF UpdateStorageLimits
    <3>2. paid \in Nat
      BY Numbers
    <3>. QED
      BY <1>1, <3>1, <3>2, GrantPaid DEF Paid, providerVars
  <2>2. CASE RecordCharge(p) \/ InsertReceipt(p) \/ Record(p)
    BY <1>1, <2>2 DEF RecordCharge, InsertReceipt, Record, Paid, providerVars
  <2>. QED
    BY <2>1, <2>2 DEF OtherCall
<1>7. (\A q \in Proc \ {p} : Stays(q)) /\ PaidCall(p)'
  <2>1. CASE Went(p)
    <3>1. Head(todo[p]) \in {"grant", "revert", "receipt", "insertReceipt", "record"}
      BY Calling DEF OtherCall, UpdateStorageLimits, RecordCharge, InsertReceipt, Record
    <3>. QED
      BY <1>2, <2>1, <3>1, CallPaidWent DEF Paid, Went
  <2>2. CASE RecordCharge(p) /\ ~Went(p)
    <3>1. /\ \A q \in Proc \ {p} : Stays(q)
          /\ Continues(p, <<"insertReceipt">> \o Rest(p))
          /\ Left(p)' = {"insertReceipt"} \cup Range(Rest(p))
          /\ Left(p) = {"receipt"} \cup Range(Rest(p))
      BY <1>1, <2>2, RecordChargeShape
    <3>2. \A c : c # "insertReceipt" /\ c # "receipt" => (Has(p, c)' <=> Has(p, c))
      BY <3>1 DEF Has
    <3>. QED
      BY <1>2, <3>1, <3>2, CallPaidGoes DEF Continues, Paid, OfTier
  <2>. QED
    BY <1>1, <2>1, <2>2, LimitsShape, InsertReceiptShape, RecordShape DEF OtherCall
<1>8. \A q \in Proc : PaidCall(q)'
  BY <1>2, <1>7, CallPaidStays DEF Paid
<1>. QED
  BY <1>3, <1>5, <1>6, <1>8 DEF Paid

LEMMA AbandonPaid ==
  ASSUME Shape, Shape', Paid, NEW p \in Proc, Abandon(p)
  PROVE  Paid'
<1>1. UNCHANGED rowVars /\ UNCHANGED providerVars /\ UNCHANGED <<limits, inbox, sched>>
  BY DEF Abandon
<1>2. (\A q \in Proc \ {p} : Stays(q)) /\ PaidCall(p)'
  BY AbandonShape, CallPaidEnds DEF Went
<1>3. \A s \in Sub : RowPaid(s)'
  BY <1>1, SameRaises, OthersPaid
<1>. QED
  BY <1>1, <1>2, <1>3, StatementPaid

(* The downgrades found due are of subscriptions paid for, to a lower tier.*)
LEMMA SchedulerPaid ==
  ASSUME Shape, Shape', Paid, ProcessScheduledDowngrades
  PROVE  Paid'
<1>1. UNCHANGED providerVars /\ UNCHANGED inbox /\ Scheduled /\ \A q \in Proc : Stays(q)
  BY SchedulerShape DEF ProcessScheduledDowngrades
<1>2. Raises /\ UNCHANGED <<rpays, rplan, paid>>
  BY <1>1, SameRaises DEF providerVars
<1>3. paid \in Nat
  BY Numbers
<1>4. limits' <= paid'
  <2>1. UNCHANGED limits \/ limits' = 0 \/ (sched.tier # NoTier /\ limits' = sched.tier)
    BY <1>1 DEF Scheduled
  <2>. QED
    BY <1>2, <1>3, <2>1 DEF Paid, BatchPaid
<1>5. ASSUME NEW s \in Sub
      PROVE  RowPaid(s)'
  <2>1. /\ status'[s] = status[s] \/ status'[s] = "expired"
        /\ pending'[s] = pending[s] \/ pending'[s] = NoTier
        /\ \/ package'[s] = package[s]
           \/ \E x \in sched.batch : x[1] = s /\ x[2] # NoTier /\ package'[s] = x[2]
    BY <1>1 DEF Scheduled
  <2>2. RowPaid(s)
    BY DEF Paid
  <2>3. package'[s] = package[s] \/ (rpays[s] > 0 /\ package'[s] <= paid)
    BY <2>1 DEF Paid, BatchPaid
  <2>4. Fits(s, package[s])'
    BY <1>2, <2>2, <2>3 DEF RowPaid, Fits
  <2>. QED
    BY <1>2, <2>1, <2>2, <2>4 DEF RowPaid
<1>6. BatchPaid'
  <2>1. ASSUME NEW x \in sched'.batch, x[2] # NoTier
        PROVE  x[2] <= paid' /\ rpays'[x[1]] > 0
    <3>1. CASE x \in sched.batch
      BY <1>2, <2>1, <3>1 DEF Paid, BatchPaid
    <3>2. CASE x \notin sched.batch
      <4>1. pending[x[1]] # NoTier /\ x[2] = pending[x[1]]
        BY <1>1, <2>1, <3>2 DEF Scheduled
      <4>2. x[1] \in Sub
        <5>1. sched'.batch \subseteq Sub \X (Tier \cup {NoTier})
          BY <1>1 DEF Scheduled, Scheds, SchedType
        <5>. QED
          BY <2>1, <5>1
      <4>3. RowPaid(x[1])
        BY <4>2 DEF Paid
      <4>. QED
        BY <1>2, <4>1, <4>3 DEF RowPaid
    <3>. QED
      BY <3>1, <3>2
  <2>2. sched'.tier # NoTier => sched'.tier <= paid'
    <3>1. \/ sched'.tier = NoTier
          \/ \E x \in sched.batch : x[2] # NoTier /\ sched'.tier = x[2]
          \/ sched'.tier = sched.tier
      BY <1>1 DEF Scheduled
    <3>. QED
      BY <1>2, <3>1 DEF Paid, BatchPaid
  <2>. QED
    BY <2>1, <2>2 DEF BatchPaid
<1>7. \A q \in Proc : PaidCall(q)'
  BY <1>1, <1>2, CallPaidStays DEF Paid
<1>8. EventsPaid' /\ \A s \in Sub : RecordPaid(s)'
  BY <1>1, <1>2, EventsStay, SameRecordPaid DEF Paid
<1>. QED
  BY <1>4, <1>5, <1>6, <1>7, <1>8 DEF Paid

LEMMA NextPaid ==
  ASSUME Shape, Shape', PaidInv, [Next]_vars
  PROVE  PaidInv'
<1>. SUFFICES ASSUME AllBilled' PROVE Paid'
  BY DEF PaidInv
<1>1. AllBilled /\ Paid
  BY BilledNext DEF PaidInv
<1>2. ASSUME UNCHANGED vars
      PROVE  Paid'
  <2>1. UNCHANGED rowVars /\ UNCHANGED providerVars /\ UNCHANGED <<limits, inbox, sched>>
        /\ \A q \in Proc : Stays(q)
    BY <1>2, StutterShape DEF vars
  <2>2. Raises
    BY <2>1, SameRaises
  <2>3. \A q \in Proc : PaidCall(q)'
    BY <1>1, <2>1, <2>2, CallPaidStays DEF Paid
  <2>4. EventsPaid' /\ \A s \in Sub : RecordPaid(s)'
    BY <1>1, <2>1, <2>2, EventsStay, SameRecordPaid DEF Paid
  <2>. QED
    BY <1>1, <2>1, <2>2, <2>3, <2>4, OthersPaid DEF Paid
<1>. QED
  BY <1>1, <1>2, ProviderPaid, TickPaid, StartsPaid, ProviderCallPaid, RowCallPaid, OtherCallPaid,
     AbandonPaid, SchedulerPaid DEF Next, Step

LEMMA InitPaid == Init => PaidInv
<1>. SUFFICES ASSUME Init PROVE Paid
  BY DEF PaidInv
<1>1. PICK o \in Sub, k \in Tier :
        /\ status = [s \in Sub |-> IF k > 0 /\ s = o THEN "active" ELSE "none"]
        /\ package = [s \in Sub |-> IF k > 0 /\ s = o THEN k ELSE 0]
        /\ rpays = [s \in Sub |-> IF k > 0 /\ s = o THEN 1 ELSE 0]
        /\ limits = k /\ paid = k
  BY DEF Init
<1>2. /\ rplan = package /\ inbox = {} /\ sched = Idle
      /\ pending = [s \in Sub |-> NoTier] /\ rnext = [s \in Sub |-> NoTier]
      /\ todo = [p \in Proc |-> <<>>] /\ event = [p \in Proc |-> NoEvent]
  BY DEF Init
<1>3. k \in Nat
  BY NumberAssumption DEF Tier
<1>4. \A s \in Sub : RowPaid(s) /\ RecordPaid(s)
  BY <1>1, <1>2, <1>3 DEF RowPaid, RecordPaid, Fits
<1>5. \A p \in Proc : PaidCall(p)
  BY <1>2, EmptyRange DEF PaidCall, Has, Left
<1>6. EventsPaid /\ BatchPaid
  BY <1>2 DEF EventsPaid, BatchPaid, Idle
<1>. QED
  BY <1>1, <1>3, <1>4, <1>5, <1>6 DEF Paid

(* As long as every subscription of the user is the provider's, the limits *)
(* are of a tier paid for: whatever UpdateStorageLimits, UpdatePackageID,  *)
(* Verify, the webhooks and ProcessScheduledDowngrades do in whatever      *)
(* order, and whichever of their calls fail.                               *)
THEOREM LimitsArePaid == Spec => []NoUnpaidLimits
<1>1. Init => Shape /\ PaidInv
  BY InitShape, InitPaid
<1>2. Shape /\ PaidInv /\ [Next]_vars => Shape' /\ PaidInv'
  BY NextShape, NextPaid
<1>3. PaidInv => NoUnpaidLimits
  BY DEF PaidInv, AllBilled, Paid, NoUnpaidLimits
<1>. QED
  BY <1>1, <1>2, <1>3, PTL DEF Spec

=============================================================================
