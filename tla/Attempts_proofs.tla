--------------------------- MODULE Attempts_proofs ---------------------------
(***************************************************************************)
(* Proofs about Attempts, for any codes, any number of requests at the same*)
(* time, and any limits.                                                   *)
(***************************************************************************)
EXTENDS Attempts, FiniteSetTheorems, WellFoundedInduction, TLAPS

-----------------------------------------------------------------------------
(* What a request holds at each of its steps.                              *)

Stored == {stored[i] : i \in DOMAIN stored}

(* The request made a code that nobody knows yet.                          *)
Makes(p) == at[p].kind \in {"issue", "forgot"}

(* What was read from Redis.                                               *)
HasRead(p) == at[p].read.code \in Stored

CallOK(p) ==
  \/ pc[p] = "idle" /\ at[p] = NoCall
  \/ pc[p] = "arm" /\ at[p].kind \in Counter
  \/ pc[p] = "compare" /\ at[p].kind = "passcode"
  \/ pc[p] = "store" /\ at[p].kind = "forgot"
  \/ pc[p] = "insert" /\ at[p].kind \in {"issue", "forgot"}
  \/ pc[p] = "get" /\ at[p].kind = "reset"
  \/ /\ at[p].kind \in {"verify", "reset"}
     /\ \/ pc[p] \in {"drop", "find", "user"}
        \/ pc[p] = "del" /\ HasRead(p) /\ at[p].guess = at[p].read.code
        \/ /\ pc[p] \in {"ttl", "set"} /\ HasRead(p)
           /\ ~Exhausted(at[p].read.tries)
        \/ pc[p] \in {"bump", "use"} /\ at[p].row \in DOMAIN rows

(* A new code is in no row before it is inserted, and not in Redis before  *)
(* it is stored there.                                                     *)
NewOK(p) ==
  Makes(p) => /\ at[p].guess \in Code \ Issued
              /\ pc[p] \in {"arm", "store"} => at[p].guess \notin Stored

Apart == \A p, q \in Proc : Makes(p) /\ Makes(q) /\ at[p].guess = at[q].guess => p = q

(* A code has one row, and Redis has only what was stored in it.           *)
CodesOK ==
  /\ \A i, j \in DOMAIN rows : rows[i].code = rows[j].code => i = j
  /\ key = NoKey \/ key.code \in Stored

Shape ==
  /\ TypeOK
  /\ CodesOK
  /\ \A p \in Proc : CallOK(p) /\ NewOK(p)
  /\ Apart

(* A window lets through no more than it has counted.                      *)
WindowInv ==
  /\ \A k \in Counter :
       LET free == IF k = "passcode" THEN 0 ELSE faults
       IN  passed[k] <= hits[k].n + free /\ passed[k] <= Limit + free
  /\ CounterExpires

(* Every acceptance of the watched code took it from Redis or used its row,*)
(* but for lost writes and faults.                                         *)
One(b) == IF b THEN 1 ELSE 0

InRedis == key.code = Watched
Live    == \E i \in DOMAIN rows : rows[i].live /\ rows[i].code = Watched

AcceptInv ==
  accepted + One(InRedis) + One(Live)
    <= One(Watched \in Stored) + One(Watched \in Issued) + lost + faults

(* The attempts counted in a copy of the watched code, and the requests    *)
(* that have compared with it and are about to count.                      *)
InSet  == {p \in Proc : pc[p] \in {"ttl", "set"} /\ at[p].read.code = Watched}
InBump == {p \in Proc : pc[p] = "bump" /\ rows[at[p].row].code = Watched}

Tries == IF InRedis THEN key.tries ELSE MaxTries
Free  == faults + crashes * Cardinality(Proc)

-----------------------------------------------------------------------------
(* FindLatestByEmail finds a row there is.                                 *)

LEMMA Least ==
  ASSUME NEW S \in SUBSET Nat, S # {}
  PROVE  \E m \in S : \A k \in S : m <= k
<1>. DEFINE R == {ss \in Nat \X Nat : ss[1] < ss[2]}
<1>1. IsWellFoundedOn(R, Nat)
  BY NatLessThanWellFounded DEF OpToRel
<1>2. PICK m \in S : \A k \in S : <<k, m>> \notin R
  <2>. HIDE DEF R
  <2>. QED
    BY <1>1, WFMin
<1>3. ASSUME NEW k \in S
      PROVE  m <= k
  <2>1. ~(k < m) /\ k \in Nat /\ m \in Nat
    BY <1>2
  <2>. QED
    BY <2>1
<1>. QED
  BY <1>3

LEMMA Greatest ==
  ASSUME NEW n \in Nat, NEW S \in SUBSET (1..n), S # {}
  PROVE  \E m \in S : \A k \in S : k <= m
<1>. DEFINE T == {n - i : i \in S}
<1>1. T \in SUBSET Nat /\ T # {}
  <2>1. \A i \in S : n - i \in Nat
    OBVIOUS
  <2>. QED
    BY <2>1
<1>2. PICK t \in T : \A k \in T : t <= k
  <2>. HIDE DEF T
  <2>. QED
    BY <1>1, Least
<1>3. PICK m \in S : t = n - m
  OBVIOUS
<1>4. ASSUME NEW k \in S
      PROVE  k <= m
  <2>1. n - k \in T /\ k \in 1..n /\ m \in 1..n
    OBVIOUS
  <2>2. t <= n - k
    BY <1>2, <2>1
  <2>. QED
    BY <1>3, <2>1, <2>2
<1>. QED
  BY <1>4

LEMMA LatestIsUnused ==
  ASSUME rows \in Seq(Row)
  PROVE  FindLatest = 0 \/ (FindLatest \in DOMAIN rows /\ rows[FindLatest].live)
<1>. SUFFICES ASSUME Unused # {}
              PROVE  FindLatest \in Unused
  BY DEF FindLatest, Unused
<1>1. Unused \in SUBSET (1..Len(rows)) /\ Len(rows) \in Nat
  BY DEF Unused
<1>2. \E m \in Unused : \A k \in Unused : k <= m
  BY <1>1, Greatest
<1>. QED
  BY <1>2 DEF FindLatest

-----------------------------------------------------------------------------
(* Shape is inductive.                                                     *)

(* The part of it that is not about requests.                              *)
DataOK ==
  /\ purpose \in Purpose /\ key \in KeyRow /\ rows \in Seq(Row) /\ stored \in Seq(Code)
  /\ hits \in [Counter -> [n : Nat, armed : BOOLEAN]]
  /\ bg \in [find : Nat, mark : SUBSET DOMAIN rows, user : BOOLEAN]
  /\ verified \in BOOLEAN /\ guesses \in [Copy -> Nat] /\ passed \in [Counter -> Nat]
  /\ accepted \in Nat /\ lost \in Nat /\ requests \in Nat /\ faults \in Nat
  /\ crashes \in Nat
  /\ CodesOK

LEMMA Parts ==
  ASSUME Shape
  PROVE  /\ DataOK /\ pc \in [Proc -> PC] /\ at \in [Proc -> CallRow]
         /\ \A p \in Proc : CallOK(p) /\ NewOK(p)
         /\ Apart
BY DEF Shape, DataOK, TypeOK

LEMMA Primed ==
  ASSUME DataOK', (pc \in [Proc -> PC])', (at \in [Proc -> CallRow])',
         \A p \in Proc : CallOK(p)' /\ NewOK(p)', Apart'
  PROVE  Shape'
BY DEF Shape, DataOK, TypeOK

LEMMA Moves ==
  ASSUME Shape, NEW p \in Proc, NEW l, NEW c, Go(p, l, c)
  PROVE  /\ pc'[p] = l /\ at'[p] = c
         /\ \A q \in Proc \ {p} : pc'[q] = pc[q] /\ at'[q] = at[q]
         /\ l \in PC /\ c \in CallRow => pc' \in [Proc -> PC] /\ at' \in [Proc -> CallRow]
BY Parts DEF Go

(* Rows and stored codes only come, and those that do are not of a code    *)
(* that another request than p has made.                                   *)
Grows(p) ==
  /\ DOMAIN rows \subseteq DOMAIN rows' /\ Stored \subseteq Stored'
  /\ \A q \in Proc \ {p} :
       Makes(q) => /\ at[q].guess \in Issued' => at[q].guess \in Issued
                   /\ at[q].guess \in Stored' => at[q].guess \in Stored

LEMMA CallStays ==
  ASSUME NEW p, Grows(p), NEW q \in Proc \ {p}, CallOK(q), NewOK(q),
         pc'[q] = pc[q], at'[q] = at[q]
  PROVE  CallOK(q)' /\ NewOK(q)'
<1>1. CallOK(q)'
  BY DEF CallOK, Grows, HasRead
<1>2. NewOK(q)'
  BY DEF NewOK, Makes, Grows
<1>. QED
  BY <1>1, <1>2

LEMMA StepShape ==
  ASSUME Shape, NEW p \in Proc, Grows(p), DataOK',
         NEW l \in PC, NEW c \in CallRow, Go(p, l, c), CallOK(p)', NewOK(p)',
         c.kind \in {"issue", "forgot"} =>
           \/ c.guess \notin InHand
           \/ Makes(p) /\ c.guess = at[p].guess
  PROVE  Shape'
<1>1. /\ pc'[p] = l /\ at'[p] = c /\ pc' \in [Proc -> PC] /\ at' \in [Proc -> CallRow]
      /\ \A q \in Proc \ {p} : pc'[q] = pc[q] /\ at'[q] = at[q]
  BY Moves
<1>2. \A q \in Proc : CallOK(q)' /\ NewOK(q)'
  <2>1. \A q \in Proc \ {p} : CallOK(q)' /\ NewOK(q)'
    BY <1>1, CallStays, Parts
  <2>. QED
    BY <2>1
<1>3. Apart'
  <2>1. \A q \in Proc \ {p} : ~(Makes(p)' /\ Makes(q)' /\ at'[p].guess = at'[q].guess)
    <3>1. \A q \in Proc \ {p} : Makes(q) => at[q].guess \in InHand
      BY DEF Makes, InHand
    <3>. QED
      BY <1>1, <3>1, Parts DEF Apart, Makes
  <2>. QED
    BY <1>1, <2>1, Parts DEF Apart, Makes
<1>. QED
  BY <1>1, <1>2, <1>3, Primed

(* A request that ends.                                                    *)
LEMMA DoneShape ==
  ASSUME Shape, NEW p \in Proc, Grows(p), DataOK', Done(p)
  PROVE  Shape'
<1>1. NoCall \in CallRow /\ NoCall.kind = "none" /\ "idle" \in PC
  BY AttemptBounds DEF NoCall, NoKey, CallRow, KeyRow, PC
<1>2. pc'[p] = "idle" /\ at'[p] = NoCall
  BY Moves DEF Done
<1>3. CallOK(p)' /\ NewOK(p)'
  BY <1>1, <1>2 DEF CallOK, NewOK, Makes
<1>. QED
  BY <1>1, <1>3, StepShape DEF Done

(* No request moves.                                                       *)
LEMMA QuietShape ==
  ASSUME Shape, DataOK', UNCHANGED <<pc, at>>,
         DOMAIN rows \subseteq DOMAIN rows', Stored' = Stored, Issued' = Issued
  PROVE  Shape'
<1>1. \A q \in Proc : CallOK(q)' /\ NewOK(q)'
  <2>. SUFFICES ASSUME NEW q \in Proc
                PROVE  CallOK(q)' /\ NewOK(q)'
    OBVIOUS
  <2>1. Grows("none") /\ CallOK(q) /\ NewOK(q)
    BY Parts DEF Grows
  <2>2. CallOK(q)'
    BY <2>1 DEF CallOK, HasRead
  <2>3. NewOK(q)'
    BY <2>1 DEF NewOK, Makes
  <2>. QED
    BY <2>2, <2>3
<1>2. Apart'
  BY Parts DEF Apart, Makes
<1>. QED
  BY <1>1, <1>2, Parts, Primed

(* Facts about what steps write.                                           *)
LEMMA CountTypes ==
  ASSUME DataOK
  PROVE  /\ Fault => faults' \in Nat
         /\ Arrives => requests' \in Nat
         /\ \A b : LostIf(b) => lost' \in Nat
         /\ \A c : Accept(c) => accepted' \in Nat
         /\ \A d \in Copy : \A c : Guess(d, c) => guesses' \in [Copy -> Nat]
         /\ \A k \in Counter : Pass(k) => passed' \in [Counter -> Nat]
<1>1. \A d \in Copy : \A c : Guess(d, c) => guesses' \in [Copy -> Nat]
  BY DEF DataOK, Guess
<1>2. \A k \in Counter : Pass(k) => passed' \in [Counter -> Nat]
  BY DEF DataOK, Pass
<1>. QED
  BY <1>1, <1>2 DEF DataOK, Fault, Arrives, LostIf, Accept

LEMMA NoKeyType ==
  NoKey \in KeyRow /\ NoCall \in CallRow /\ Quiet \in [find : Nat, mark : {{}}, user : BOOLEAN]
BY AttemptBounds DEF NoKey, NoCall, Quiet, KeyRow, CallRow

LEMMA SameRows ==
  ASSUME UNCHANGED rows
  PROVE  Issued' = Issued /\ DOMAIN rows' = DOMAIN rows
BY DEF Issued

LEMMA SameStored ==
  ASSUME UNCHANGED stored
  PROVE  Stored' = Stored
BY DEF Stored

LEMMA SameCodes ==
  ASSUME UNCHANGED <<rows, stored>>
  PROVE  /\ DOMAIN rows' = DOMAIN rows /\ Issued' = Issued /\ Stored' = Stored
         /\ \A p : Grows(p)
BY SameRows, SameStored DEF Grows

(* An attempt counted in a row or the row used: it is of the same code.    *)
LEMMA RowWrite ==
  ASSUME DataOK, UNCHANGED stored, NEW i \in DOMAIN rows, NEW r \in Row, r.code = rows[i].code,
         rows' = [rows EXCEPT ![i] = r]
  PROVE  /\ rows' \in Seq(Row) /\ DOMAIN rows' = DOMAIN rows
         /\ \A j \in DOMAIN rows : rows'[j].code = rows[j].code
         /\ \A j \in DOMAIN rows \ {i} : rows'[j] = rows[j]
         /\ rows'[i] = r
         /\ Issued' = Issued /\ Stored' = Stored
         /\ \A p : Grows(p)
<1>1. /\ rows' \in Seq(Row) /\ DOMAIN rows' = DOMAIN rows
      /\ \A j \in DOMAIN rows : rows'[j] = IF j = i THEN r ELSE rows[j]
  BY DEF DataOK
<1>2. \A j \in DOMAIN rows : rows'[j].code = rows[j].code
  BY <1>1
<1>3. Issued' = Issued
  BY <1>1, <1>2 DEF Issued
<1>. QED
  BY <1>1, <1>2, <1>3, SameStored DEF Grows

(* A row of a new code.                                                    *)
LEMMA RowAdd ==
  ASSUME DataOK, UNCHANGED stored, NEW c \in Code \ Issued,
         rows' = Append(rows, [code |-> c, tries |-> 0, live |-> TRUE])
  PROVE  /\ rows' \in Seq(Row) /\ DOMAIN rows \subseteq DOMAIN rows'
         /\ Len(rows') = Len(rows) + 1 /\ Len(rows) \in Nat
         /\ rows'[Len(rows')] = [code |-> c, tries |-> 0, live |-> TRUE]
         /\ rows'[Len(rows')].code = c
         /\ DOMAIN rows' = DOMAIN rows \cup {Len(rows')} /\ Len(rows') \notin DOMAIN rows
         /\ \A j \in DOMAIN rows : rows'[j] = rows[j]
         /\ Issued' = Issued \cup {c}
         /\ \A i, j \in DOMAIN rows' : rows'[i].code = rows'[j].code => i = j
<1>. DEFINE r == [code |-> c, tries |-> 0, live |-> TRUE]
<1>1. r \in Row /\ rows \in Seq(Row)
  BY DEF Row, DataOK
<1>2. /\ rows' \in Seq(Row) /\ Len(rows') = Len(rows) + 1 /\ Len(rows) \in Nat
      /\ DOMAIN rows = 1..Len(rows) /\ DOMAIN rows' = 1..Len(rows')
      /\ rows'[Len(rows')] = r
      /\ \A j \in DOMAIN rows : rows'[j] = rows[j]
  BY <1>1
<1>3. DOMAIN rows' = DOMAIN rows \cup {Len(rows')} /\ Len(rows') \notin DOMAIN rows
  BY <1>2
<1>4. r.code = c
  OBVIOUS
<1>5. Issued' = Issued \cup {c}
  <2>. HIDE DEF r
  <2>. QED
    BY <1>2, <1>3, <1>4 DEF Issued
<1>6. \A i, j \in DOMAIN rows' : rows'[i].code = rows'[j].code => i = j
  <2>. HIDE DEF r
  <2>1. \A i \in DOMAIN rows : rows'[i].code # c
    BY <1>2 DEF Issued
  <2>. QED
    BY <1>2, <1>3, <1>4, <2>1 DEF DataOK, CodesOK
<1>7. rows'[Len(rows')].code = c
  BY <1>2, <1>4
<1>. QED
  BY <1>2, <1>3, <1>5, <1>6, <1>7

(* StoreOTP.                                                               *)
LEMMA StoreWrite ==
  ASSUME DataOK, UNCHANGED rows, NEW c \in Code, StoreOTP(c)
  PROVE  /\ key' \in KeyRow /\ stored' \in Seq(Code) /\ faults' \in Nat
         /\ key' = NoKey \/ key'.code \in Stored'
         /\ Stored \subseteq Stored' /\ Stored' \subseteq Stored \cup {c}
<1>1. CASE key' = [code |-> c, tries |-> 0, until |-> c] /\ stored' = Append(stored, c)
           /\ UNCHANGED faults
  <2>1. stored \in Seq(Code) /\ faults' \in Nat
    BY <1>1 DEF DataOK
  <2>2. /\ stored' \in Seq(Code) /\ DOMAIN stored' = DOMAIN stored \cup {Len(stored')}
        /\ stored'[Len(stored')] = c /\ \A j \in DOMAIN stored : stored'[j] = stored[j]
    BY <1>1, <2>1
  <2>3. Stored' = Stored \cup {c}
    BY <2>2 DEF Stored
  <2>4. key' \in KeyRow /\ key'.code = c
    BY <1>1, AttemptBounds DEF KeyRow
  <2>. QED
    BY <2>1, <2>2, <2>3, <2>4
<1>2. CASE Fault /\ UNCHANGED <<key, stored>>
  BY <1>2, SameStored, CountTypes DEF DataOK, CodesOK
<1>. QED
  BY <1>1, <1>2 DEF StoreOTP

(* DEL.                                                                    *)
LEMMA DeleteWrite ==
  ASSUME DataOK, DeleteKey
  PROVE  key' \in KeyRow /\ faults' \in Nat /\ (key' = NoKey \/ key' = key)
BY CountTypes, NoKeyType DEF DataOK, DeleteKey

(* A counter counted or armed.                                             *)
LEMMA HitsWrite ==
  ASSUME DataOK, NEW k \in Counter, NEW n \in Nat, NEW b \in BOOLEAN
  PROVE  /\ [hits EXCEPT ![k].n = n] \in [Counter -> [n : Nat, armed : BOOLEAN]]
         /\ [hits EXCEPT ![k].armed = b] \in [Counter -> [n : Nat, armed : BOOLEAN]]
<1>1. /\ hits \in [Counter -> [n : Nat, armed : BOOLEAN]]
      /\ hits[k] \in [n : Nat, armed : BOOLEAN]
  BY DEF DataOK
<1>2. /\ [hits[k] EXCEPT !.n = n] \in [n : Nat, armed : BOOLEAN]
      /\ [hits[k] EXCEPT !.armed = b] \in [n : Nat, armed : BOOLEAN]
  BY <1>1
<1>. QED
  BY <1>1, <1>2

LEMMA HitsType ==
  ASSUME Shape, NEW k \in Counter
  PROVE  hits[k].n \in Nat /\ hits[k].n + 1 \in Nat /\ (hits[k].n > 0) \in BOOLEAN
<1>1. hits \in [Counter -> [n : Nat, armed : BOOLEAN]]
  BY Parts DEF DataOK
<1>2. hits[k].n \in Nat
  BY <1>1
<1>. QED
  BY <1>2

LEMMA IncrShape ==
  ASSUME Shape, NEW p \in Proc, NEW k \in Counter, NEW g \in Code \cup {Wrong},
         k = "forgot" => g \in Fresh, Incr(p, k, g)
  PROVE  Shape'
<1>1. PICK c \in CallRow : c = [NoCall EXCEPT !.kind = k, !.guess = g]
  BY NoKeyType DEF CallRow, NoCall
<1>2. c.kind = k /\ c.guess = g
  BY <1>1 DEF NoCall
<1>3. UNCHANGED <<purpose, key, rows, bg, verified, stored, accepted, guesses, lost, crashes>>
  BY DEF Incr, otp, history
<1>4. /\ hits' \in [Counter -> [n : Nat, armed : BOOLEAN]] /\ passed' \in [Counter -> Nat]
      /\ requests' \in Nat /\ faults' \in Nat
  <2>1. requests' \in Nat
    BY CountTypes, Parts DEF Incr
  <2>2. CASE hits' = [hits EXCEPT ![k].n = hits[k].n + 1] /\ (Pass(k) \/ UNCHANGED passed)
             /\ UNCHANGED faults
    <3>1. hits[k].n \in Nat /\ hits[k].n + 1 \in Nat
      BY HitsType
    <3>2. hits' \in [Counter -> [n : Nat, armed : BOOLEAN]]
      BY <2>2, <3>1, Parts, HitsWrite
    <3>. QED
      BY <2>1, <2>2, <3>2, CountTypes, Parts DEF DataOK
  <2>3. CASE Fault /\ (Pass(k) \/ UNCHANGED passed) /\ UNCHANGED hits
    BY <2>1, <2>3, CountTypes, Parts DEF DataOK
  <2>. QED
    BY <2>2, <2>3 DEF Incr
<1>5. DataOK' /\ Grows(p) /\ Issued' = Issued /\ Stored' = Stored
  BY <1>3, <1>4, SameCodes, Parts DEF DataOK, CodesOK
<1>6. Done(p) \/ \E l \in {"arm", After(k)} : Go(p, l, c)
  BY <1>1 DEF Incr
<1>7. ASSUME NEW l \in {"arm", After(k)}, Go(p, l, c)
      PROVE  Shape'
  <2>1. l \in PC /\ pc'[p] = l /\ at'[p] = c
    BY <1>7, Moves DEF PC, After, Counter
  <2>2. CallOK(p)'
    BY <1>2, <1>7, <2>1 DEF CallOK, After, Counter
  <2>3. NewOK(p)'
    BY <1>2, <1>5, <2>1 DEF NewOK, Makes, Fresh, Stored, Counter
  <2>4. c.kind \in {"issue", "forgot"} => c.guess \notin InHand
    BY <1>2 DEF Fresh, Counter
  <2>. QED
    BY <1>5, <1>7, <2>1, <2>2, <2>3, <2>4, StepShape
<1>. QED
  BY <1>5, <1>6, <1>7, DoneShape

LEMMA RowCodes ==
  ASSUME Shape
  PROVE  Issued \subseteq Code /\ Stored \subseteq Code
<1>1. rows \in Seq(Row) /\ stored \in Seq(Code)
  BY Parts DEF DataOK
<1>2. \A i \in DOMAIN rows : rows[i] \in Row
  BY <1>1
<1>3. \A i \in DOMAIN rows : rows[i].code \in Code
  BY <1>2 DEF Row
<1>. QED
  BY <1>1, <1>3 DEF Issued, Stored

(* A step that does not change what the request has made.                  *)
LEMMA OnShape ==
  ASSUME Shape, NEW p \in Proc, Grows(p), DataOK', NEW l \in PC \ {"arm", "store"},
         NEW c \in CallRow, Go(p, l, c), c.kind = at[p].kind, c.guess = at[p].guess,
         CallOK(p)', UNCHANGED rows
  PROVE  Shape'
<1>1. pc'[p] = l /\ at'[p] = c /\ NewOK(p) /\ Issued' = Issued
  BY Moves, Parts, SameRows
<1>2. NewOK(p)' /\ (c.kind \in {"issue", "forgot"} => Makes(p))
  BY <1>1 DEF NewOK, Makes
<1>. QED
  BY <1>2, StepShape

LEMMA ArmShape ==
  ASSUME Shape, NEW p \in Proc, Arm(p)
  PROVE  Shape'
<1>1. PICK k \in Counter : k = at[p].kind
  BY Parts DEF Arm, Is, CallOK
<1>2. UNCHANGED <<purpose, key, rows, passed, bg, verified, stored, accepted, guesses, lost,
                  requests, crashes>>
  BY DEF Arm, otp, history
<1>3. hits' \in [Counter -> [n : Nat, armed : BOOLEAN]] /\ faults' \in Nat
  <2>1. CASE hits' = [hits EXCEPT ![k].armed = hits[k].n > 0] /\ UNCHANGED faults
    BY <2>1, Parts, HitsType, HitsWrite DEF DataOK
  <2>2. CASE Fault /\ UNCHANGED hits
    BY <2>2, CountTypes, Parts DEF DataOK
  <2>. QED
    BY <1>1, <2>1, <2>2 DEF Arm
<1>4. DataOK' /\ Grows(p) /\ Issued' = Issued /\ Stored' = Stored
  BY <1>2, <1>3, SameCodes, Parts DEF DataOK, CodesOK
<1>5. CASE Go(p, After(k), at[p])
  <2>1. pc'[p] = After(k) /\ at'[p] = at[p] /\ at[p] \in CallRow /\ After(k) \in PC
    BY <1>5, Moves, Parts DEF PC, After, Counter
  <2>2. CallOK(p)'
    BY <1>1, <2>1 DEF CallOK, After, Counter
  <2>3. NewOK(p)'
    BY <1>1, <1>4, <2>1, Parts DEF NewOK, Makes, Arm, Is
  <2>. QED
    BY <1>4, <1>5, <2>1, <2>2, <2>3, StepShape DEF Makes
<1>6. CASE Done(p)
  BY <1>4, <1>6, DoneShape
<1>. QED
  BY <1>1, <1>5, <1>6 DEF Arm, Step

LEMMA CompareShape ==
  ASSUME Shape, NEW p \in Proc, Compare(p)
  PROVE  Shape'
<1>1. UNCHANGED <<purpose, key, rows, hits, passed, bg, verified, stored, accepted, guesses,
                  lost, requests, faults, crashes>> /\ Done(p)
  BY DEF Compare, otp, counter, history
<1>2. DataOK' /\ Grows(p)
  BY <1>1, SameCodes, Parts DEF DataOK, CodesOK
<1>. QED
  BY <1>1, <1>2, DoneShape

LEMMA WindowEndsShape ==
  ASSUME Shape, NEW k \in Counter, WindowEnds(k)
  PROVE  Shape'
<1>1. UNCHANGED <<purpose, key, rows, pc, at, bg, verified, stored, accepted, guesses, lost,
                  requests, faults, crashes>>
  BY DEF WindowEnds, otp, history
<1>2. hits' \in [Counter -> [n : Nat, armed : BOOLEAN]] /\ passed' \in [Counter -> Nat]
  BY Parts DEF WindowEnds, DataOK
<1>3. DataOK' /\ DOMAIN rows' = DOMAIN rows /\ Issued' = Issued /\ Stored' = Stored
  BY <1>1, <1>2, SameCodes, Parts DEF DataOK, CodesOK
<1>. QED
  BY <1>1, <1>3, QuietShape

(* What storing a new code leaves to prove.                                *)
LEMMA NewCode ==
  ASSUME Shape, NEW p \in Proc, UNCHANGED rows, NEW c \in Code, StoreOTP(c), c \notin Issued,
         c \notin Stored, \A q \in Proc \ {p} : Makes(q) => at[q].guess # c
  PROVE  Grows(p) /\ Issued' = Issued
<1>1. /\ Stored \subseteq Stored' /\ Stored' \subseteq Stored \cup {c} /\ Issued' = Issued
      /\ DOMAIN rows' = DOMAIN rows
  BY StoreWrite, SameRows, Parts
<1>. QED
  BY <1>1 DEF Grows

LEMMA IssueShape ==
  ASSUME Shape, NEW p \in Proc, Issue(p)
  PROVE  Shape'
<1>1. PICK g \in Fresh : /\ StoreOTP(g)
                         /\ Go(p, "insert", [NoCall EXCEPT !.kind = "issue", !.guess = g])
  BY DEF Issue
<1>2. PICK c \in CallRow : c = [NoCall EXCEPT !.kind = "issue", !.guess = g]
  BY NoKeyType DEF CallRow, NoCall, Fresh
<1>3. /\ c.kind = "issue" /\ c.guess = g /\ g \in Code /\ g \notin Issued /\ g \notin Stored
      /\ g \notin InHand
  BY <1>2 DEF NoCall, Fresh, Stored
<1>4. \A q \in Proc \ {p} : Makes(q) => at[q].guess # g
  BY <1>3 DEF InHand, Makes
<1>5. Grows(p) /\ Issued' = Issued /\ UNCHANGED rows
  BY <1>1, <1>3, <1>4, NewCode DEF Issue
<1>6. /\ key' \in KeyRow /\ stored' \in Seq(Code) /\ faults' \in Nat /\ requests' \in Nat
      /\ (key' = NoKey \/ key'.code \in Stored')
  BY <1>1, <1>3, <1>5, StoreWrite, CountTypes, Parts DEF Issue
<1>7. UNCHANGED <<purpose, hits, passed, bg, verified, accepted, guesses, lost, crashes>>
  BY DEF Issue, counter, history
<1>8. DataOK'
  BY <1>5, <1>6, <1>7, Parts DEF DataOK, CodesOK
<1>9. pc'[p] = "insert" /\ at'[p] = c /\ "insert" \in PC
  BY <1>1, <1>2, Moves DEF PC
<1>10. CallOK(p)' /\ NewOK(p)'
  BY <1>3, <1>5, <1>9 DEF CallOK, NewOK, Makes
<1>. QED
  BY <1>1, <1>2, <1>3, <1>5, <1>8, <1>9, <1>10, StepShape

LEMMA StoreShape ==
  ASSUME Shape, NEW p \in Proc, Store(p)
  PROVE  Shape'
<1>1. /\ at[p].kind = "forgot" /\ at[p] \in CallRow /\ at[p].guess \in Code
      /\ at[p].guess \notin Issued /\ at[p].guess \notin Stored
      /\ \A q \in Proc \ {p} : Makes(q) => at[q].guess # at[p].guess
  BY Parts DEF Store, Is, CallOK, NewOK, Makes, Apart
<1>2. Grows(p) /\ Issued' = Issued /\ UNCHANGED rows
  BY <1>1, NewCode DEF Store
<1>3. /\ key' \in KeyRow /\ stored' \in Seq(Code) /\ faults' \in Nat
      /\ (key' = NoKey \/ key'.code \in Stored')
  BY <1>1, <1>2, StoreWrite, Parts DEF Store
<1>4. UNCHANGED <<purpose, hits, passed, bg, verified, accepted, guesses, lost, requests, crashes>>
  BY DEF Store, counter, history
<1>5. DataOK'
  BY <1>2, <1>3, <1>4, Parts DEF DataOK, CodesOK
<1>6. pc'[p] = "insert" /\ at'[p] = at[p] /\ "insert" \in PC \ {"arm", "store"}
      /\ Go(p, "insert", at[p])
  BY Moves DEF PC, Store, Step
<1>7. CallOK(p)'
  BY <1>1, <1>6 DEF CallOK
<1>. QED
  BY <1>1, <1>2, <1>5, <1>6, <1>7, OnShape

LEMMA InsertShape ==
  ASSUME Shape, NEW p \in Proc, Insert(p)
  PROVE  Shape'
<1>1. UNCHANGED <<purpose, key, hits, passed, bg, verified, stored, accepted, guesses, lost,
                  requests, crashes>> /\ Done(p)
  BY DEF Insert, counter, history
<1>2. PICK c : c = at[p].guess
  OBVIOUS
<1>3. /\ c \in Code \ Issued
      /\ \A q \in Proc \ {p} : Makes(q) => at[q].guess # c
  BY <1>2, Parts DEF Insert, Is, CallOK, NewOK, Makes, Apart
<1>4. CASE rows' = Append(rows, [code |-> c, tries |-> 0, live |-> TRUE]) /\ UNCHANGED faults
  <2>1. /\ rows' \in Seq(Row) /\ DOMAIN rows \subseteq DOMAIN rows'
        /\ \A i, j \in DOMAIN rows' : rows'[i].code = rows'[j].code => i = j
        /\ Issued' = Issued \cup {c} /\ Stored' = Stored
    BY <1>1, <1>3, <1>4, RowAdd, SameStored, Parts
  <2>2. Grows(p)
    BY <1>3, <2>1 DEF Grows
  <2>3. bg' \in [find : Nat, mark : SUBSET DOMAIN rows', user : BOOLEAN]
    BY <1>1, <2>1, Parts DEF DataOK
  <2>4. DataOK'
    BY <1>1, <1>4, <2>1, <2>3, Parts DEF DataOK, CodesOK
  <2>. QED
    BY <1>1, <2>2, <2>4, DoneShape
<1>5. CASE Fault /\ UNCHANGED rows
  <2>1. DataOK' /\ Grows(p)
    BY <1>1, <1>5, SameCodes, CountTypes, Parts DEF DataOK, CodesOK
  <2>. QED
    BY <1>1, <2>1, DoneShape
<1>. QED
  BY <1>2, <1>4, <1>5 DEF Insert

LEMMA LookShape ==
  ASSUME Shape, NEW p \in Proc, NEW call \in CallRow, call.kind \in {"verify", "reset"},
         Look(p, call), requests' \in Nat,
         UNCHANGED <<purpose, otp, counter, bg, verified, stored, accepted, lost, crashes>>
  PROVE  Shape'
<1>1. PICK c : c = [call EXCEPT !.read = key]
  OBVIOUS
<1>2. /\ c \in CallRow /\ c.kind = call.kind /\ c.guess = call.guess /\ c.read = key
      /\ CodesOK
  BY <1>1, Parts DEF DataOK, CallRow
<1>3. guesses' \in [Copy -> Nat] /\ faults' \in Nat
  BY CountTypes, Parts DEF Look, DataOK, Copy
<1>4. DataOK' /\ Grows(p) /\ Stored' = Stored
  BY <1>3, SameCodes, Parts DEF DataOK, CodesOK, otp, counter
<1>5. /\ c.kind \notin {"issue", "forgot"} /\ call.kind \notin {"issue", "forgot"}
      /\ {"find", "drop", "del", "ttl"} \subseteq PC
  BY <1>2 DEF PC
<1>6. ASSUME NEW l \in {"find", "drop", "del", "ttl"}, NEW d \in {c, call}, Go(p, l, d),
             l = "del" => d.read.code \in Stored /\ d.guess = d.read.code,
             l = "ttl" => d.read.code \in Stored /\ ~Exhausted(d.read.tries)
      PROVE  Shape'
  <2>1. pc'[p] = l /\ at'[p] = d /\ d \in CallRow /\ d.kind = call.kind
    BY <1>2, <1>6, Moves
  <2>2. CallOK(p)'
    BY <1>4, <1>6, <2>1 DEF CallOK, HasRead
  <2>3. NewOK(p)'
    BY <1>5, <2>1 DEF NewOK, Makes
  <2>. QED
    BY <1>4, <1>5, <1>6, <2>1, <2>2, <2>3, StepShape
<1>7. key # NoKey => key.code \in Stored
  BY <1>2 DEF CodesOK
<1>8. \/ Go(p, "find", call) \/ Go(p, "drop", c)
      \/ key # NoKey /\ key.code = c.guess /\ Go(p, "del", c)
      \/ key # NoKey /\ ~Exhausted(key.tries) /\ Go(p, "ttl", c)
  BY <1>1 DEF Look
<1>. QED
  BY <1>2, <1>6, <1>7, <1>8

LEMMA TryCodeShape ==
  ASSUME Shape, NEW p \in Proc, TryCode(p)
  PROVE  Shape'
<1>1. PICK g \in Issued \cup {Wrong} : Look(p, [NoCall EXCEPT !.kind = "verify", !.guess = g])
  BY DEF TryCode
<1>2. PICK c : c = [NoCall EXCEPT !.kind = "verify", !.guess = g]
  OBVIOUS
<1>3. c \in CallRow /\ c.kind = "verify"
  BY <1>2, NoKeyType, RowCodes DEF CallRow, NoCall
<1>4. requests' \in Nat
  BY CountTypes, Parts DEF TryCode
<1>. QED
  BY <1>1, <1>2, <1>3, <1>4, LookShape DEF TryCode

LEMMA GetShape ==
  ASSUME Shape, NEW p \in Proc, Get(p)
  PROVE  Shape'
<1>1. at[p] \in CallRow /\ at[p].kind = "reset" /\ requests' \in Nat
  BY Parts DEF Get, Is, CallOK, DataOK
<1>. QED
  BY <1>1, LookShape DEF Get

LEMMA DropShape ==
  ASSUME Shape, NEW p \in Proc, Drop(p)
  PROVE  Shape'
<1>1. UNCHANGED <<purpose, rows, hits, passed, bg, verified, stored, accepted, guesses, requests,
                  crashes>> /\ Done(p)
  BY DEF Drop, counter
<1>2. key' \in KeyRow /\ faults' \in Nat /\ (key' = NoKey \/ key' = key) /\ lost' \in Nat
  BY DeleteWrite, CountTypes, Parts DEF Drop
<1>3. DataOK' /\ Grows(p)
  BY <1>1, <1>2, SameCodes, Parts DEF DataOK, CodesOK
<1>. QED
  BY <1>1, <1>3, DoneShape

(* What the goroutines of an acceptance have to do.                        *)
BgRow == [find : Nat, mark : SUBSET DOMAIN rows, user : BOOLEAN]

LEMMA BgWrite ==
  ASSUME Shape
  PROVE  /\ bg \in BgRow /\ bg.find \in Nat /\ bg.find + 1 \in Nat
         /\ bg.find > 0 => bg.find - 1 \in Nat
         /\ \A n \in Nat : [bg EXCEPT !.find = n] \in BgRow
         /\ \A n \in Nat, i \in DOMAIN rows :
              [bg EXCEPT !.find = n, !.mark = bg.mark \cup {i}] \in BgRow
         /\ \A n \in Nat : [bg EXCEPT !.find = n, !.user = TRUE] \in BgRow
         /\ \A i : [bg EXCEPT !.mark = bg.mark \ {i}, !.user = TRUE] \in BgRow
         /\ [bg EXCEPT !.user = FALSE] \in BgRow /\ Quiet \in BgRow
<1>1. bg \in BgRow
  BY Parts DEF DataOK, BgRow
<1>2. bg.find \in Nat /\ bg.mark \in SUBSET DOMAIN rows
  BY <1>1 DEF BgRow
<1>3. \A n \in Nat, i \in DOMAIN rows :
        [bg EXCEPT !.find = n, !.mark = bg.mark \cup {i}] \in BgRow
  BY <1>1, <1>2 DEF BgRow
<1>4. /\ \A n \in Nat : [bg EXCEPT !.find = n, !.user = TRUE] \in BgRow
      /\ \A n \in Nat : [bg EXCEPT !.find = n] \in BgRow
      /\ [bg EXCEPT !.user = FALSE] \in BgRow
  BY <1>1, <1>2 DEF BgRow
<1>5. \A i : [bg EXCEPT !.mark = bg.mark \ {i}, !.user = TRUE] \in BgRow
  BY <1>1, <1>2 DEF BgRow
<1>6. Quiet \in BgRow
  BY DEF BgRow, Quiet
<1>7. bg.find + 1 \in Nat /\ (bg.find > 0 => bg.find - 1 \in Nat)
  BY <1>2
<1>. QED
  BY <1>1, <1>2, <1>3, <1>4, <1>5, <1>6, <1>7

LEMMA DelShape ==
  ASSUME Shape, NEW p \in Proc, Del(p)
  PROVE  Shape'
<1>1. UNCHANGED <<purpose, rows, hits, passed, verified, stored, guesses, requests, crashes>>
      /\ Done(p)
  BY DEF Del, counter
<1>2. key' \in KeyRow /\ faults' \in Nat /\ (key' = NoKey \/ key' = key) /\ lost' \in Nat
      /\ accepted' \in Nat
  BY DeleteWrite, CountTypes, Parts DEF Del
<1>3. bg' \in [find : Nat, mark : SUBSET DOMAIN rows, user : BOOLEAN]
  BY BgWrite DEF Del, BgRow
<1>4. DataOK' /\ Grows(p)
  BY <1>1, <1>2, <1>3, SameCodes, Parts DEF DataOK, CodesOK
<1>. QED
  BY <1>1, <1>4, DoneShape

LEMMA TtlShape ==
  ASSUME Shape, NEW p \in Proc, Ttl(p)
  PROVE  Shape'
<1>1. UNCHANGED <<purpose, key, rows, hits, passed, bg, verified, stored, accepted, guesses,
                  lost, requests, faults, crashes>>
  BY DEF Ttl, otp, counter, history
<1>2. DataOK' /\ Grows(p) /\ Stored' = Stored
  BY <1>1, SameCodes, Parts DEF DataOK, CodesOK
<1>3. PICK c : c = [at[p] EXCEPT !.until = LeftToLive] /\ Go(p, "set", c)
  BY DEF Ttl
<1>4. /\ at[p] \in CallRow /\ at[p].kind \in {"verify", "reset"}
      /\ HasRead(p) /\ ~Exhausted(at[p].read.tries)
      /\ LeftToLive \in Code \cup {NoCode, Forever, Keep}
  BY Parts DEF Ttl, Is, CallOK, DataOK, LeftToLive, KeyRow
<1>5. /\ c \in CallRow /\ c.kind = at[p].kind /\ c.guess = at[p].guess /\ c.read = at[p].read
      /\ pc'[p] = "set" /\ at'[p] = c /\ "set" \in PC \ {"arm", "store"}
  BY <1>3, <1>4, Moves DEF CallRow, PC
<1>6. CallOK(p)'
  BY <1>2, <1>4, <1>5 DEF CallOK, HasRead
<1>. QED
  BY <1>1, <1>2, <1>3, <1>5, <1>6, OnShape

LEMMA SetShape ==
  ASSUME Shape, NEW p \in Proc, Set(p)
  PROVE  Shape'
<1>1. UNCHANGED <<purpose, rows, hits, passed, bg, verified, stored, accepted, guesses, requests,
                  crashes>> /\ Done(p)
  BY DEF Set, counter
<1>2. PICK c : c = at[p]
  OBVIOUS
<1>3. /\ c \in CallRow /\ c.read \in KeyRow /\ c.read.code \in Stored
      /\ c.read.tries \in 0..MaxTries /\ ~(c.read.tries >= MaxTries)
      /\ c.until \in Code \cup {NoCode, Forever, Keep}
  BY <1>2, Parts DEF Set, Is, CallOK, HasRead, CallRow, KeyRow, Exhausted
<1>4. key' \in KeyRow /\ faults' \in Nat /\ (key' = key \/ key'.code \in Stored)
  <2>1. CASE /\ key' = [code |-> c.read.code, tries |-> OneMore(c.read.tries),
                        until |-> IF c.until # Keep THEN c.until
                                  ELSE IF key = NoKey THEN Forever ELSE key.until]
             /\ UNCHANGED faults
    <3>1. /\ OneMore(c.read.tries) \in 0..MaxTries /\ c.read.code \in Code
          /\ key.until \in Code \cup {NoCode, Forever}
      BY <1>3, RowCodes, AttemptBounds, Parts, SMTT(30) DEF OneMore, DataOK, KeyRow
    <3>. QED
      BY <1>3, <2>1, <3>1, Parts DEF KeyRow, DataOK
  <2>2. CASE Fault /\ UNCHANGED key
    BY <2>2, CountTypes, Parts DEF DataOK
  <2>. QED
    BY <1>2, <2>1, <2>2 DEF Set
<1>5. lost' \in Nat
  BY CountTypes, Parts DEF Set
<1>6. DataOK' /\ Grows(p)
  BY <1>1, <1>4, <1>5, SameCodes, Parts DEF DataOK, CodesOK
<1>. QED
  BY <1>1, <1>6, DoneShape

LEMMA FindShape ==
  ASSUME Shape, NEW p \in Proc, Find(p)
  PROVE  Shape'
<1>1. UNCHANGED <<purpose, key, rows, hits, passed, bg, verified, stored, accepted, lost,
                  requests, faults, crashes>>
  BY DEF Find, otp, counter
<1>2. guesses' \in [Copy -> Nat]
  BY CountTypes, Parts DEF Find, DataOK, Copy
<1>3. DataOK' /\ Grows(p)
  BY <1>1, <1>2, SameCodes, Parts DEF DataOK, CodesOK
<1>4. PICK i : i = FindLatest
  OBVIOUS
<1>5. i = 0 \/ (i \in DOMAIN rows /\ i \in Nat)
  <2>1. rows \in Seq(Row)
    BY Parts DEF DataOK
  <2>. QED
    BY <1>4, <2>1, LatestIsUnused
<1>6. PICK c : c = [at[p] EXCEPT !.row = i]
  OBVIOUS
<1>7. Done(p) \/ (i # 0 /\ \E l \in {"use", "bump"} : Go(p, l, c))
  BY <1>4, <1>6 DEF Find
<1>8. ASSUME i # 0, NEW l \in {"use", "bump"}, Go(p, l, c)
      PROVE  Shape'
  <2>1. at[p] \in CallRow /\ at[p].kind \in {"verify", "reset"} /\ i \in Nat
    BY <1>5, <1>8, Parts DEF Find, Is, CallOK
  <2>2. /\ c \in CallRow /\ c.kind = at[p].kind /\ c.guess = at[p].guess /\ c.row = i
        /\ pc'[p] = l /\ at'[p] = c /\ l \in PC \ {"arm", "store"}
    BY <1>6, <1>8, <2>1, Moves DEF CallRow, PC
  <2>3. CallOK(p)'
    BY <1>1, <1>5, <1>8, <2>1, <2>2 DEF CallOK
  <2>. QED
    BY <1>1, <1>3, <1>8, <2>2, <2>3, OnShape
<1>. QED
  BY <1>3, <1>7, <1>8, DoneShape

(* A row with an attempt counted, and one that is used.                    *)
LEMMA RowType ==
  ASSUME Shape, NEW i \in DOMAIN rows
  PROVE  /\ rows[i] \in Row /\ rows[i].tries \in Nat
         /\ \E r \in Row : /\ r = [rows[i] EXCEPT !.tries = rows[i].tries + 1]
                           /\ r.code = rows[i].code /\ r.tries = rows[i].tries + 1
                           /\ r.live = rows[i].live
         /\ \E r \in Row : /\ r = [rows[i] EXCEPT !.live = FALSE]
                           /\ r.code = rows[i].code /\ r.tries = rows[i].tries /\ ~r.live
<1>1. rows \in Seq(Row)
  BY Parts DEF DataOK
<1>2. rows[i] \in Row
  BY <1>1
<1>3. rows[i].tries \in Nat /\ [rows[i] EXCEPT !.live = FALSE] \in Row
  BY <1>2 DEF Row
<1>4. [rows[i] EXCEPT !.tries = rows[i].tries + 1] \in Row
  BY <1>2, <1>3 DEF Row
<1>5. /\ [rows[i] EXCEPT !.tries = rows[i].tries + 1].code = rows[i].code
      /\ [rows[i] EXCEPT !.tries = rows[i].tries + 1].tries = rows[i].tries + 1
      /\ [rows[i] EXCEPT !.tries = rows[i].tries + 1].live = rows[i].live
  BY <1>2 DEF Row
<1>6. /\ [rows[i] EXCEPT !.live = FALSE].code = rows[i].code
      /\ [rows[i] EXCEPT !.live = FALSE].tries = rows[i].tries
      /\ ~[rows[i] EXCEPT !.live = FALSE].live
  BY <1>2 DEF Row
<1>. QED
  BY <1>2, <1>3, <1>4, <1>5, <1>6

LEMMA BumpWrite ==
  ASSUME Shape, NEW i \in DOMAIN rows, rows' = [rows EXCEPT ![i].tries = @ + 1], UNCHANGED stored
  PROVE  /\ rows' \in Seq(Row) /\ DOMAIN rows' = DOMAIN rows
         /\ \A j \in DOMAIN rows : /\ rows'[j].code = rows[j].code
                                   /\ rows'[j].live = rows[j].live
         /\ \A j \in DOMAIN rows \ {i} : rows'[j] = rows[j]
         /\ rows'[i].tries = rows[i].tries + 1
         /\ Issued' = Issued /\ Stored' = Stored /\ \A p : Grows(p)
<1>1. PICK r \in Row : /\ r = [rows[i] EXCEPT !.tries = rows[i].tries + 1]
                       /\ r.code = rows[i].code /\ r.tries = rows[i].tries + 1
                       /\ r.live = rows[i].live
  BY RowType
<1>2. rows' = [rows EXCEPT ![i] = r]
  BY <1>1
<1>. QED
  BY <1>1, <1>2, RowWrite, Parts

LEMMA UseWrite ==
  ASSUME Shape, NEW i \in DOMAIN rows, rows' = [rows EXCEPT ![i].live = FALSE], UNCHANGED stored
  PROVE  /\ rows' \in Seq(Row) /\ DOMAIN rows' = DOMAIN rows
         /\ \A j \in DOMAIN rows : /\ rows'[j].code = rows[j].code
                                   /\ rows'[j].tries = rows[j].tries
         /\ \A j \in DOMAIN rows \ {i} : rows'[j] = rows[j]
         /\ ~rows'[i].live
         /\ Issued' = Issued /\ Stored' = Stored /\ \A p : Grows(p)
<1>1. PICK r \in Row : /\ r = [rows[i] EXCEPT !.live = FALSE]
                       /\ r.code = rows[i].code /\ r.tries = rows[i].tries /\ ~r.live
  BY RowType
<1>2. rows' = [rows EXCEPT ![i] = r]
  BY <1>1
<1>. QED
  BY <1>1, <1>2, RowWrite, Parts

(* What a write of a row leaves to prove.                                  *)
LEMMA SameNumbers ==
  ASSUME Shape, rows' \in Seq(Row), DOMAIN rows' = DOMAIN rows,
         \A j \in DOMAIN rows : rows'[j].code = rows[j].code,
         UNCHANGED <<purpose, key, hits, passed, verified, stored, guesses, requests, crashes>>,
         faults' \in Nat, lost' \in Nat, accepted' \in Nat, bg' \in BgRow
  PROVE  DataOK'
BY SameStored, Parts DEF DataOK, CodesOK, BgRow

LEMMA BumpShape ==
  ASSUME Shape, NEW p \in Proc, Bump(p)
  PROVE  Shape'
<1>1. UNCHANGED <<purpose, key, hits, passed, bg, verified, stored, accepted, guesses, lost,
                  requests, crashes>> /\ Done(p)
  BY DEF Bump, counter, history
<1>2. PICK i \in DOMAIN rows : i = at[p].row
  BY Parts DEF Bump, Is, CallOK
<1>3. DataOK /\ bg \in BgRow
  BY Parts, BgWrite
<1>4. CASE rows' = [rows EXCEPT ![i].tries = @ + 1] /\ UNCHANGED faults
  <2>1. /\ rows' \in Seq(Row) /\ DOMAIN rows' = DOMAIN rows /\ Grows(p)
        /\ \A j \in DOMAIN rows : rows'[j].code = rows[j].code
    BY <1>1, <1>4, BumpWrite
  <2>2. DataOK'
    BY <1>1, <1>3, <1>4, <2>1, SameNumbers DEF DataOK
  <2>. QED
    BY <1>1, <2>1, <2>2, DoneShape
<1>5. CASE Fault /\ UNCHANGED rows
  <2>1. Grows(p) /\ DataOK'
    BY <1>1, <1>3, <1>5, SameCodes, CountTypes DEF DataOK, CodesOK
  <2>. QED
    BY <1>1, <2>1, DoneShape
<1>. QED
  BY <1>2, <1>4, <1>5 DEF Bump

LEMMA UseShape ==
  ASSUME Shape, NEW p \in Proc, Use(p)
  PROVE  Shape'
<1>1. UNCHANGED <<purpose, key, hits, passed, bg, verified, stored, guesses, requests, crashes>>
  BY DEF Use, counter
<1>2. PICK i \in DOMAIN rows : i = at[p].row
  BY Parts DEF Use, Is, CallOK
<1>3. /\ DataOK /\ bg \in BgRow /\ at[p] \in CallRow /\ pc[p] = "use"
      /\ at[p].kind \in {"verify", "reset"}
  BY Parts, BgWrite DEF Use, Is, CallOK
<1>4. CASE /\ rows' = [rows EXCEPT ![i].live = FALSE]
           /\ LostIf(~rows[i].live) /\ Accept(rows[i].code) /\ UNCHANGED faults
           /\ (Step(p, "user") \/ Done(p))
  <2>1. /\ rows' \in Seq(Row) /\ DOMAIN rows' = DOMAIN rows /\ Grows(p) /\ Issued' = Issued
        /\ \A j \in DOMAIN rows : rows'[j].code = rows[j].code
    BY <1>1, <1>4, UseWrite
  <2>2. lost' \in Nat /\ accepted' \in Nat
    BY <1>3, <1>4, CountTypes
  <2>3. DataOK'
    BY <1>1, <1>3, <1>4, <2>1, <2>2, SameNumbers DEF DataOK
  <2>4. CASE Step(p, "user")
    <3>1. pc'[p] = "user" /\ at'[p] = at[p] /\ "user" \in PC /\ Go(p, "user", at[p])
      BY <2>4, Moves DEF PC, Step
    <3>2. CallOK(p)' /\ NewOK(p)'
      BY <1>3, <3>1 DEF CallOK, NewOK, Makes
    <3>. QED
      BY <1>3, <2>1, <2>3, <3>1, <3>2, StepShape
  <2>. QED
    BY <1>4, <2>1, <2>3, <2>4, DoneShape
<1>5. CASE Fault /\ Done(p) /\ UNCHANGED <<rows, lost, accepted>>
  <2>1. Grows(p) /\ DataOK'
    BY <1>1, <1>3, <1>5, SameCodes, CountTypes DEF DataOK, CodesOK
  <2>. QED
    BY <1>5, <2>1, DoneShape
<1>. QED
  BY <1>2, <1>4, <1>5 DEF Use

LEMMA UserShape ==
  ASSUME Shape, NEW p \in Proc, User(p)
  PROVE  Shape'
<1>1. UNCHANGED <<purpose, key, rows, hits, passed, bg, stored, accepted, guesses, lost, requests,
                  crashes>> /\ Done(p) /\ verified' \in BOOLEAN /\ faults' \in Nat
  BY CountTypes, Parts DEF User, otp, counter, history, DataOK
<1>2. DataOK' /\ Grows(p)
  BY <1>1, SameCodes, Parts DEF DataOK, CodesOK
<1>. QED
  BY <1>1, <1>2, DoneShape

LEMMA BgFindShape ==
  ASSUME Shape, BgFind
  PROVE  Shape'
<1>1. UNCHANGED <<purpose, key, rows, hits, passed, pc, at, verified, stored, accepted, guesses,
                  lost, requests, crashes>>
  BY DEF BgFind, otp, counter, history
<1>2. FindLatest = 0 \/ FindLatest \in DOMAIN rows
  BY LatestIsUnused, Parts DEF DataOK
<1>3. faults' \in Nat /\ bg.find - 1 \in Nat
  BY BgWrite, CountTypes, Parts DEF BgFind, DataOK
<1>4. bg' \in BgRow
  <2>1. CASE /\ FindLatest # 0
             /\ bg' = [bg EXCEPT !.find = bg.find - 1, !.mark = bg.mark \cup {FindLatest}]
    BY <1>2, <1>3, <2>1, BgWrite
  <2>2. CASE bg' = [bg EXCEPT !.find = bg.find - 1, !.user = TRUE]
    BY <1>3, <2>2, BgWrite
  <2>. QED
    BY <2>1, <2>2 DEF BgFind
<1>5. DataOK' /\ DOMAIN rows' = DOMAIN rows /\ Issued' = Issued /\ Stored' = Stored
  BY <1>1, <1>3, <1>4, SameCodes, Parts DEF DataOK, CodesOK, BgRow
<1>. QED
  BY <1>1, <1>5, QuietShape

LEMMA BgMarkShape ==
  ASSUME Shape, NEW i \in DOMAIN rows, BgMark(i)
  PROVE  Shape'
<1>1. UNCHANGED <<purpose, key, hits, passed, pc, at, verified, stored, accepted, guesses, lost,
                  requests, crashes>>
  BY DEF BgMark, counter, history
<1>2. bg' \in BgRow
  BY BgWrite DEF BgMark
<1>3. DataOK
  BY Parts
<1>4. CASE rows' = [rows EXCEPT ![i].live = FALSE] /\ UNCHANGED faults
  <2>1. /\ rows' \in Seq(Row) /\ DOMAIN rows' = DOMAIN rows /\ Issued' = Issued
        /\ Stored' = Stored /\ \A j \in DOMAIN rows : rows'[j].code = rows[j].code
    BY <1>1, <1>4, UseWrite
  <2>2. DataOK'
    BY <1>1, <1>2, <1>3, <1>4, <2>1, SameNumbers DEF DataOK
  <2>. QED
    BY <1>1, <2>1, <2>2, QuietShape
<1>5. CASE Fault /\ UNCHANGED rows
  <2>1. DataOK' /\ DOMAIN rows' = DOMAIN rows /\ Issued' = Issued /\ Stored' = Stored
    BY <1>1, <1>2, <1>3, <1>5, SameCodes, CountTypes DEF DataOK, CodesOK, BgRow
  <2>. QED
    BY <1>1, <2>1, QuietShape
<1>. QED
  BY <1>4, <1>5 DEF BgMark

LEMMA BgUserShape ==
  ASSUME Shape, BgUser
  PROVE  Shape'
<1>1. UNCHANGED <<purpose, key, rows, hits, passed, pc, at, stored, accepted, guesses, lost,
                  requests, crashes>>
  BY DEF BgUser, otp, counter, history
<1>2. bg' \in BgRow /\ faults' \in Nat
  BY BgWrite, CountTypes, Parts DEF BgUser, DataOK
<1>3. verified' \in BOOLEAN
  BY Parts DEF BgUser, DataOK
<1>4. DataOK' /\ DOMAIN rows' = DOMAIN rows /\ Issued' = Issued /\ Stored' = Stored
  BY <1>1, <1>2, <1>3, SameCodes, Parts DEF DataOK, CodesOK, BgRow
<1>. QED
  BY <1>1, <1>4, QuietShape

LEMMA KeyExpiresShape ==
  ASSUME Shape, KeyExpires
  PROVE  Shape'
<1>1. UNCHANGED <<purpose, rows, hits, passed, pc, at, bg, verified, stored, accepted, guesses,
                  lost, requests, faults, crashes>> /\ key' = NoKey
  BY DEF KeyExpires, counter, history
<1>2. DataOK' /\ DOMAIN rows' = DOMAIN rows /\ Issued' = Issued /\ Stored' = Stored
  BY <1>1, NoKeyType, SameCodes, Parts DEF DataOK, CodesOK
<1>. QED
  BY <1>1, <1>2, QuietShape

LEMMA RowExpiresShape ==
  ASSUME Shape, NEW i \in DOMAIN rows, RowExpires(i)
  PROVE  Shape'
<1>1. UNCHANGED <<purpose, key, hits, passed, pc, at, bg, verified, stored, accepted, guesses,
                  lost, requests, faults, crashes>> /\ rows' = [rows EXCEPT ![i].live = FALSE]
  BY DEF RowExpires, counter, history
<1>2. /\ rows' \in Seq(Row) /\ DOMAIN rows' = DOMAIN rows /\ Issued' = Issued /\ Stored' = Stored
      /\ \A j \in DOMAIN rows : rows'[j].code = rows[j].code
  BY <1>1, UseWrite
<1>3. DataOK'
  BY <1>1, <1>2, SameNumbers, BgWrite, Parts DEF DataOK
<1>. QED
  BY <1>1, <1>2, <1>3, QuietShape

LEMMA CrashShape ==
  ASSUME Shape, Crash
  PROVE  Shape'
<1>1. /\ UNCHANGED <<purpose, key, rows, hits, passed, verified, stored, accepted, guesses, lost,
                     requests, faults>>
      /\ pc' = [p \in Proc |-> "idle"] /\ at' = [p \in Proc |-> NoCall] /\ bg' = Quiet
      /\ crashes' = crashes + 1
  BY DEF Crash, otp, counter, history
<1>2. DataOK'
  <2>1. Stored' = Stored
    BY <1>1, SameStored
  <2>2. crashes' \in Nat
    BY <1>1, Parts DEF DataOK
  <2>3. bg' \in BgRow
    BY <1>1, BgWrite
  <2>. QED
    BY <1>1, <2>1, <2>2, <2>3, Parts DEF DataOK, CodesOK, BgRow
<1>3. pc' \in [Proc -> PC] /\ at' \in [Proc -> CallRow] /\ NoCall.kind = "none"
  BY <1>1, NoKeyType DEF PC, NoCall
<1>4. \A p \in Proc : CallOK(p)' /\ NewOK(p)' /\ ~Makes(p)'
  BY <1>1, <1>3 DEF CallOK, NewOK, Makes
<1>. QED
  BY <1>2, <1>3, <1>4, Primed DEF Apart

LEMMA InitShape ==
  Init => Shape
<1>. SUFFICES ASSUME Init
              PROVE  Shape
  OBVIOUS
<1>1. /\ rows = <<>> /\ stored = <<>> /\ key = NoKey /\ NoKey \in KeyRow /\ NoCall \in CallRow
      /\ bg = Quiet /\ NoCall.kind = "none" /\ purpose \in Purpose
  BY NoKeyType DEF Init, NoCall
<1>2. CodesOK
  BY <1>1 DEF CodesOK
<1>3. rows \in Seq(Row) /\ stored \in Seq(Code)
  BY <1>1
<1>4. /\ hits \in [Counter -> [n : Nat, armed : BOOLEAN]] /\ passed \in [Counter -> Nat]
      /\ guesses \in [Copy -> Nat] /\ verified \in BOOLEAN
  BY DEF Init
<1>8. bg \in [find : Nat, mark : SUBSET DOMAIN rows, user : BOOLEAN]
  BY <1>1 DEF Quiet
<1>5. pc \in [Proc -> PC] /\ at \in [Proc -> CallRow]
  BY <1>1 DEF Init, PC
<1>6. TypeOK
  BY <1>1, <1>3, <1>4, <1>5, <1>8 DEF TypeOK, Init
<1>7. \A p \in Proc : CallOK(p) /\ NewOK(p) /\ ~Makes(p)
  BY <1>1 DEF Init, CallOK, NewOK, Makes
<1>. QED
  BY <1>2, <1>6, <1>7 DEF Shape, Apart

LEMMA StutterShape ==
  ASSUME Shape, UNCHANGED vars
  PROVE  Shape'
<1>1. UNCHANGED <<purpose, key, rows, hits, passed, pc, at, bg, verified, stored, accepted,
                  guesses, lost, requests, faults, crashes>>
  BY DEF vars
<1>2. DataOK' /\ DOMAIN rows' = DOMAIN rows /\ Issued' = Issued /\ Stored' = Stored
  BY <1>1, SameCodes, Parts DEF DataOK, CodesOK
<1>. QED
  BY <1>1, <1>2, QuietShape

(* The beginnings of requests that count first.                            *)
LEMMA BeginsCounted ==
  ASSUME Shape, NEW p \in Proc, AskForReset(p) \/ TryReset(p) \/ TryPasscode(p)
  PROVE  \E k \in Counter, g \in Code \cup {Wrong} : (k = "forgot" => g \in Fresh) /\ Incr(p, k, g)
BY RowCodes DEF AskForReset, TryReset, TryPasscode, Counter, Fresh

LEMMA NextShape ==
  Shape /\ [Next]_vars => Shape'
<1>. SUFFICES ASSUME Shape, [Next]_vars
              PROVE  Shape'
  OBVIOUS
<1>1. ASSUME NEW p \in Proc, Request(p)
      PROVE  Shape'
  BY <1>1, BeginsCounted, IncrShape, IssueShape, TryCodeShape DEF Request
<1>2. ASSUME NEW p \in Proc, Continue(p)
      PROVE  Shape'
  BY <1>2, ArmShape, CompareShape, StoreShape, InsertShape, GetShape, DropShape, DelShape,
     TtlShape, SetShape, FindShape, BumpShape, UseShape, UserShape
  DEF Continue
<1>3. CASE Background
  BY <1>3, BgFindShape, BgUserShape, BgMarkShape DEF Background
<1>. QED
  BY <1>1, <1>2, <1>3, WindowEndsShape, KeyExpiresShape, RowExpiresShape, CrashShape, StutterShape
  DEF Next

LEMMA ShapeHolds == Spec => []Shape
<1>. QED
  BY InitShape, NextShape, PTL DEF Spec

(* Every variable keeps its type.                                          *)
THEOREM TypeCorrect == Spec => []TypeOK
<1>1. Shape => TypeOK
  BY DEF Shape
<1>. QED
  BY <1>1, ShapeHolds, PTL

-----------------------------------------------------------------------------
(* A rate limit holds.                                                     *)

(* A step of a request, of which the counters know nothing.                *)
Moved(p) ==
  /\ \A q \in Proc \ {p} : pc'[q] = pc[q] /\ at'[q] = at[q]
  /\ faults' = faults \/ Fault
  /\ crashes' = crashes

LEMMA GoMoved ==
  ASSUME Shape, NEW p \in Proc, \E l, c : Go(p, l, c), faults' = faults \/ Fault, crashes' = crashes
  PROVE  Moved(p)
BY Moves DEF Moved

LEMMA Aside ==
  ASSUME Shape, NEW p \in Proc,
         Issue(p) \/ TryCode(p) \/ (Continue(p) /\ ~Arm(p))
  PROVE  Moved(p) /\ UNCHANGED counter /\ pc[p] # "arm"
<1>1. CASE Issue(p)
  <2>1. /\ \E l, c : Go(p, l, c)
        /\ UNCHANGED <<counter, crashes>> /\ (faults' = faults \/ Fault) /\ pc[p] # "arm"
    BY <1>1 DEF Issue, StoreOTP, Is
  <2>. QED
    BY <2>1, GoMoved
<1>2. CASE TryCode(p) \/ Get(p)
  <2>1. /\ \E l, c : Go(p, l, c)
        /\ UNCHANGED <<counter, crashes>> /\ (faults' = faults \/ Fault) /\ pc[p] # "arm"
    BY <1>2 DEF TryCode, Get, Look, Is
  <2>. QED
    BY <2>1, GoMoved
<1>3. CASE Compare(p) \/ Store(p) \/ Insert(p)
  <2>1. /\ \E l, c : Go(p, l, c)
        /\ UNCHANGED <<counter, crashes>> /\ (faults' = faults \/ Fault) /\ pc[p] # "arm"
    BY <1>3 DEF Compare, Store, Insert, StoreOTP, Done, Step, Is
  <2>. QED
    BY <2>1, GoMoved
<1>4. CASE Drop(p) \/ Del(p) \/ Ttl(p) \/ Set(p)
  <2>1. /\ \E l, c : Go(p, l, c)
        /\ UNCHANGED <<counter, crashes>> /\ (faults' = faults \/ Fault) /\ pc[p] # "arm"
    BY <1>4 DEF Drop, Del, Ttl, Set, DeleteKey, Done, Is
  <2>. QED
    BY <2>1, GoMoved
<1>5. CASE Find(p)
  <2>1. /\ \E l, c : Go(p, l, c)
        /\ UNCHANGED <<counter, crashes, faults>> /\ pc[p] # "arm"
    BY <1>5 DEF Find, Done, Is
  <2>. QED
    BY <2>1, GoMoved
<1>6. CASE Bump(p) \/ Use(p) \/ User(p)
  <2>1. /\ \E l, c : Go(p, l, c)
        /\ UNCHANGED <<counter, crashes>> /\ (faults' = faults \/ Fault) /\ pc[p] # "arm"
    BY <1>6 DEF Bump, Use, User, Done, Step, Is
  <2>. QED
    BY <2>1, GoMoved
<1>. QED
  BY <1>1, <1>2, <1>3, <1>4, <1>5, <1>6 DEF Continue

LEMMA Numbers ==
  ASSUME Shape
  PROVE  /\ faults \in Nat /\ crashes \in Nat /\ lost \in Nat /\ accepted \in Nat
         /\ Limit \in Nat \ {0} /\ MaxTries \in Nat \ {0}
         /\ \A k \in Counter : hits[k].n \in Nat /\ passed[k] \in Nat
         /\ guesses["redis"] \in Nat /\ guesses["row"] \in Nat
<1>1. guesses \in [Copy -> Nat] /\ passed \in [Counter -> Nat]
  BY Parts DEF DataOK
<1>. QED
  BY <1>1, HitsType, AttemptBounds, Parts DEF DataOK, Copy

LEMMA WindowStays ==
  ASSUME Shape, WindowInv, UNCHANGED counter, faults' = faults \/ Fault,
         \/ /\ crashes' = crashes
            /\ \A q \in Proc : pc[q] = "arm" => pc'[q] = "arm" /\ at'[q] = at[q]
         \/ crashes' = crashes + 1
  PROVE  WindowInv'
<1>1. hits' = hits /\ passed' = passed /\ (faults' = faults \/ faults' = faults + 1)
  BY DEF counter, Fault
<1>2. ASSUME NEW k \in Counter
      PROVE  LET free == IF k = "passcode" THEN 0 ELSE faults'
             IN  passed'[k] <= hits'[k].n + free /\ passed'[k] <= Limit + free
  <2>1. /\ passed[k] <= hits[k].n + (IF k = "passcode" THEN 0 ELSE faults)
        /\ passed[k] <= Limit + (IF k = "passcode" THEN 0 ELSE faults)
    BY DEF WindowInv
  <2>. QED
    BY <1>1, <2>1, Numbers
<1>3. CounterExpires'
  BY <1>1, Numbers DEF WindowInv, CounterExpires, Is
<1>. QED
  BY <1>2, <1>3 DEF WindowInv

LEMMA IncrWindow ==
  ASSUME Shape, WindowInv, NEW p \in Proc, NEW k \in Counter, NEW g, Incr(p, k, g)
  PROVE  WindowInv'
<1>1. /\ pc[p] = "idle" /\ crashes' = crashes /\ hits \in [Counter -> [n : Nat, armed : BOOLEAN]]
      /\ passed \in [Counter -> Nat]
  BY Parts DEF Incr, Is, DataOK
<1>2. \A q \in Proc \ {p} : pc'[q] = pc[q] /\ at'[q] = at[q]
  BY Moves DEF Incr, Done
<1>3. PICK n \in Nat : n = hits[k].n + 1
  BY Numbers
<1>4. CASE /\ hits' = [hits EXCEPT ![k].n = n] /\ UNCHANGED faults
           /\ IF Within(n) THEN Pass(k) ELSE UNCHANGED passed
           /\ ArmsAt(n) => Go(p, "arm", [NoCall EXCEPT !.kind = k, !.guess = g])
  <2>1. /\ hits'[k].n = n /\ hits'[k].armed = hits[k].armed
        /\ \A j \in Counter \ {k} : hits'[j] = hits[j]
    BY <1>1, <1>4
  <2>2. /\ \A j \in Counter \ {k} : passed'[j] = passed[j]
        /\ IF n <= Limit THEN passed'[k] = passed[k] + 1 ELSE passed'[k] = passed[k]
    BY <1>1, <1>4 DEF Within, Pass
  <2>3. ASSUME NEW j \in Counter
        PROVE  LET free == IF j = "passcode" THEN 0 ELSE faults'
               IN  passed'[j] <= hits'[j].n + free /\ passed'[j] <= Limit + free
    <3>1. /\ passed[j] <= hits[j].n + (IF j = "passcode" THEN 0 ELSE faults)
          /\ passed[j] <= Limit + (IF j = "passcode" THEN 0 ELSE faults)
      BY DEF WindowInv
    <3>2. CASE j # k
      BY <1>4, <2>1, <2>2, <3>1, <3>2
    <3>3. CASE j = k
      BY <1>3, <1>4, <2>1, <2>2, <3>1, <3>3, Numbers
    <3>. QED
      BY <3>2, <3>3
  <2>4. ASSUME NEW j \in Counter, hits'[j].n > 0, ~hits'[j].armed
        PROVE  faults' > 0 \/ crashes' > 0 \/ \E q \in Proc : Is(q, "arm")' /\ at'[q].kind = j
    <3>1. CASE j = k /\ ArmsAt(n)
      <4>1. pc'[p] = "arm" /\ at'[p] = [NoCall EXCEPT !.kind = k, !.guess = g]
        BY <1>4, <3>1, Moves
      <4>. QED
        BY <3>1, <4>1 DEF Is, NoCall
    <3>2. CASE j # k \/ ~ArmsAt(n)
      <4>1. hits[j].n > 0 /\ ~hits[j].armed
        BY <1>3, <2>1, <2>4, <3>2, Numbers DEF ArmsAt
      <4>2. faults > 0 \/ crashes > 0 \/ \E q \in Proc : pc[q] = "arm" /\ at[q].kind = j
        BY <4>1 DEF WindowInv, CounterExpires, Is
      <4>. QED
        BY <1>1, <1>2, <1>4, <4>2 DEF Is
    <3>. QED
      BY <3>1, <3>2
  <2>. QED
    BY <2>3, <2>4 DEF WindowInv, CounterExpires
<1>5. CASE /\ Fault /\ UNCHANGED hits
           /\ IF k = "passcode" THEN UNCHANGED passed ELSE Pass(k)
  <2>1. /\ \A j \in Counter \ {k} : passed'[j] = passed[j]
        /\ passed'[k] = passed[k] \/ (k # "passcode" /\ passed'[k] = passed[k] + 1)
        /\ faults' = faults + 1
    BY <1>1, <1>5 DEF Pass, Fault
  <2>2. ASSUME NEW j \in Counter
        PROVE  LET free == IF j = "passcode" THEN 0 ELSE faults'
               IN  passed'[j] <= hits'[j].n + free /\ passed'[j] <= Limit + free
    <3>1. /\ passed[j] <= hits[j].n + (IF j = "passcode" THEN 0 ELSE faults)
          /\ passed[j] <= Limit + (IF j = "passcode" THEN 0 ELSE faults)
      BY DEF WindowInv
    <3>. QED
      BY <1>5, <2>1, <3>1, Numbers
  <2>. QED
    BY <1>5, <2>1, <2>2, Numbers DEF WindowInv, CounterExpires
<1>. QED
  BY <1>3, <1>4, <1>5 DEF Incr

LEMMA ArmWindow ==
  ASSUME Shape, WindowInv, NEW p \in Proc, Arm(p)
  PROVE  WindowInv'
<1>1. PICK k \in Counter : k = at[p].kind
  BY Parts DEF Arm, Is, CallOK
<1>2. /\ passed' = passed /\ crashes' = crashes /\ hits \in [Counter -> [n : Nat, armed : BOOLEAN]]
      /\ \A q \in Proc \ {p} : pc'[q] = pc[q] /\ at'[q] = at[q]
  BY Moves, Parts DEF Arm, Step, Done, DataOK
<1>3. CASE hits' = [hits EXCEPT ![k].armed = hits[k].n > 0] /\ UNCHANGED faults
  <2>1. /\ \A j \in Counter \ {k} : hits'[j] = hits[j]
        /\ hits'[k].n = hits[k].n /\ hits'[k].armed = (hits[k].n > 0)
    BY <1>2, <1>3
  <2>2. \A j \in Counter : hits'[j].n = hits[j].n
    BY <2>1
  <2>3. CounterExpires'
    <3>. SUFFICES ASSUME NEW j \in Counter, hits'[j].n > 0, ~hits'[j].armed
                  PROVE  \/ faults' > 0 \/ crashes' > 0
                         \/ \E q \in Proc : Is(q, "arm")' /\ at'[q].kind = j
      BY DEF CounterExpires
    <3>1. j # k /\ hits[j].n > 0 /\ ~hits[j].armed
      BY <2>1
    <3>2. faults > 0 \/ crashes > 0 \/ \E q \in Proc : pc[q] = "arm" /\ at[q].kind = j
      BY <3>1 DEF WindowInv, CounterExpires, Is
    <3>. QED
      BY <1>1, <1>2, <1>3, <3>1, <3>2 DEF Is
  <2>. QED
    BY <1>2, <1>3, <2>2, <2>3 DEF WindowInv
<1>4. CASE Fault /\ UNCHANGED hits
  <2>1. faults' = faults + 1
    BY <1>4 DEF Fault
  <2>2. ASSUME NEW j \in Counter
        PROVE  LET free == IF j = "passcode" THEN 0 ELSE faults'
               IN  passed'[j] <= hits'[j].n + free /\ passed'[j] <= Limit + free
    <3>1. /\ passed[j] <= hits[j].n + (IF j = "passcode" THEN 0 ELSE faults)
          /\ passed[j] <= Limit + (IF j = "passcode" THEN 0 ELSE faults)
      BY DEF WindowInv
    <3>. QED
      BY <1>2, <1>4, <2>1, <3>1, Numbers
  <2>. QED
    BY <2>1, <2>2, Numbers DEF WindowInv, CounterExpires
<1>. QED
  BY <1>1, <1>3, <1>4 DEF Arm

LEMMA WindowEndsWindow ==
  ASSUME Shape, WindowInv, NEW k \in Counter, WindowEnds(k)
  PROVE  WindowInv'
<1>1. /\ hits \in [Counter -> [n : Nat, armed : BOOLEAN]] /\ passed \in [Counter -> Nat]
      /\ UNCHANGED <<pc, at, faults, crashes>>
  BY Parts DEF WindowEnds, DataOK
<1>2. /\ \A j \in Counter \ {k} : hits'[j] = hits[j] /\ passed'[j] = passed[j]
      /\ hits'[k].n = 0 /\ passed'[k] = 0
  BY <1>1 DEF WindowEnds
<1>3. ASSUME NEW j \in Counter
      PROVE  LET free == IF j = "passcode" THEN 0 ELSE faults'
             IN  passed'[j] <= hits'[j].n + free /\ passed'[j] <= Limit + free
  <2>1. /\ passed[j] <= hits[j].n + (IF j = "passcode" THEN 0 ELSE faults)
        /\ passed[j] <= Limit + (IF j = "passcode" THEN 0 ELSE faults)
    BY DEF WindowInv
  <2>. QED
    BY <1>1, <1>2, <2>1, Numbers
<1>4. CounterExpires'
  BY <1>1, <1>2 DEF WindowInv, CounterExpires, Is
<1>. QED
  BY <1>3, <1>4 DEF WindowInv

LEMMA BehindMoves ==
  ASSUME Shape, Background \/ KeyExpires \/ \E i \in DOMAIN rows : RowExpires(i)
  PROVE  /\ UNCHANGED <<pc, at, hits, passed, stored, accepted, guesses, lost, crashes>>
         /\ faults' = faults \/ Fault
<1>1. CASE Background
  BY <1>1 DEF Background, BgFind, BgMark, BgUser, counter, history
<1>2. CASE KeyExpires
  BY <1>2 DEF KeyExpires, counter, history
<1>3. CASE \E i \in DOMAIN rows : RowExpires(i)
  BY <1>3 DEF RowExpires, counter, history
<1>. QED
  BY <1>1, <1>2, <1>3

LEMMA NextWindow ==
  Shape /\ WindowInv /\ [Next]_vars => WindowInv'
<1>. SUFFICES ASSUME Shape, WindowInv, [Next]_vars
              PROVE  WindowInv'
  OBVIOUS
<1>1. ASSUME NEW p \in Proc, Request(p) \/ Continue(p)
      PROVE  WindowInv'
  <2>1. CASE Issue(p) \/ TryCode(p) \/ (Continue(p) /\ ~Arm(p))
    BY <2>1, Aside, WindowStays DEF Moved
  <2>2. CASE AskForReset(p) \/ TryReset(p) \/ TryPasscode(p)
    BY <2>2, BeginsCounted, IncrWindow
  <2>. QED
    BY <1>1, <2>1, <2>2, ArmWindow DEF Request
<1>2. CASE Background \/ KeyExpires \/ \E i \in DOMAIN rows : RowExpires(i)
  BY <1>2, BehindMoves, WindowStays DEF counter
<1>3. CASE Crash
  BY <1>3, WindowStays DEF Crash
<1>4. CASE UNCHANGED vars
  BY <1>4, WindowStays DEF vars, counter
<1>. QED
  BY <1>1, <1>2, <1>3, <1>4, WindowEndsWindow DEF Next

(* No window lets through more than its limit, and every window ends.      *)
THEOREM WindowsHold == Spec => []WindowHolds
<1>1. Init => WindowInv
  <2>. SUFFICES ASSUME Init
                PROVE  WindowInv
    OBVIOUS
  <2>1. \A k \in Counter : hits[k].n = 0 /\ passed[k] = 0
    BY DEF Init
  <2>. QED
    BY <2>1, AttemptBounds DEF WindowInv, CounterExpires, Init
<1>2. WindowInv => WindowHolds
  BY DEF WindowInv, WindowHolds, PassedPerWindow
<1>. QED
  BY <1>1, <1>2, ShapeHolds, NextWindow, PTL DEF Spec

-----------------------------------------------------------------------------
(* A code is accepted twice at most, but for races and faults.             *)

LEMMA WatchedIsCode ==
  ASSUME Shape
  PROVE  /\ Watched \in Code /\ Watched # NoCode /\ NoKey.code = NoCode
         /\ InRedis => Watched \in Stored
         /\ Live => Watched \in Issued
         /\ \A i, j \in DOMAIN rows : rows[i].code = rows[j].code => i = j
BY AttemptBounds, Parts DEF NoKey, InRedis, Live, Issued, DataOK, CodesOK

(* Nothing is accepted and the code comes back nowhere.                    *)
LEMMA AcceptStays ==
  ASSUME Shape, AcceptInv, accepted' = accepted, InRedis' => InRedis, Live' => Live,
         Stored \subseteq Stored', Issued \subseteq Issued',
         lost' = lost \/ lost' = lost + 1, faults' = faults \/ Fault
  PROVE  AcceptInv'
<1>1. faults' = faults \/ faults' = faults + 1
  BY DEF Fault
<1>. QED
  BY <1>1, Numbers, SMTT(30) DEF AcceptInv, One

LEMMA SameRowsLive ==
  ASSUME UNCHANGED rows
  PROVE  Live' = Live
BY DEF Live

LEMMA UseLive ==
  ASSUME Shape, NEW i \in DOMAIN rows, rows' = [rows EXCEPT ![i].live = FALSE], UNCHANGED stored
  PROVE  Live' => Live /\ rows[i].code # Watched
<1>1. /\ DOMAIN rows' = DOMAIN rows /\ ~rows'[i].live
      /\ \A j \in DOMAIN rows : rows'[j].code = rows[j].code
      /\ \A j \in DOMAIN rows \ {i} : rows'[j] = rows[j]
  BY UseWrite
<1>. QED
  BY <1>1, WatchedIsCode DEF Live

LEMMA StoreAccept ==
  ASSUME Shape, AcceptInv, NEW c \in Code, StoreOTP(c), c \notin Stored,
         UNCHANGED <<rows, accepted, lost>>
  PROVE  AcceptInv'
<1>1. /\ Stored \subseteq Stored' /\ Issued' = Issued /\ Live' = Live
  BY StoreWrite, SameRows, SameRowsLive, Parts
<1>2. CASE UNCHANGED <<key, stored>> /\ Fault
  <2>1. InRedis' = InRedis
    BY <1>2 DEF InRedis
  <2>. QED
    BY <1>1, <1>2, <2>1, AcceptStays
<1>3. CASE /\ key' = [code |-> c, tries |-> 0, until |-> c] /\ stored' = Append(stored, c)
           /\ UNCHANGED faults
  <2>1. InRedis' <=> c = Watched
    BY <1>3 DEF InRedis
  <2>2. CASE c = Watched
    <3>1. Watched \in Stored'
      <4>1. stored \in Seq(Code)
        BY Parts DEF DataOK
      <4>2. Len(stored') \in DOMAIN stored' /\ stored'[Len(stored')] = c
        BY <1>3, <4>1
      <4>. QED
        BY <2>2, <4>2 DEF Stored
    <3>2. ~InRedis
      BY <2>2, WatchedIsCode
    <3>. QED
      BY <1>1, <1>3, <2>1, <2>2, <3>1, <3>2, Numbers, SMTT(30) DEF AcceptInv, One
  <2>3. CASE c # Watched
    BY <1>1, <1>3, <2>1, <2>3, AcceptStays
  <2>. QED
    BY <2>2, <2>3
<1>. QED
  BY <1>2, <1>3 DEF StoreOTP

LEMMA IssueAccept ==
  ASSUME Shape, AcceptInv, NEW p \in Proc, Issue(p) \/ Store(p)
  PROVE  AcceptInv'
<1>1. PICK c \in Code : StoreOTP(c) /\ c \notin Stored
  <2>1. CASE Issue(p)
    BY <2>1 DEF Issue, Fresh, Stored
  <2>2. CASE Store(p)
    <3>1. at[p].guess \in Code /\ at[p].guess \notin Stored
      BY <2>2, Parts DEF Store, Is, CallOK, NewOK, Makes
    <3>. QED
      BY <2>2, <3>1 DEF Store
  <2>. QED
    BY <2>1, <2>2
<1>2. UNCHANGED <<rows, accepted, lost>>
  BY DEF Issue, Store, history
<1>. QED
  BY <1>1, <1>2, StoreAccept

LEMMA InsertAccept ==
  ASSUME Shape, AcceptInv, NEW p \in Proc, Insert(p)
  PROVE  AcceptInv'
<1>1. UNCHANGED <<key, stored, accepted, lost>>
  BY DEF Insert, history
<1>2. InRedis' = InRedis /\ Stored' = Stored
  BY <1>1, SameStored DEF InRedis
<1>3. PICK c : c = at[p].guess
  OBVIOUS
<1>4. c \in Code \ Issued
  BY <1>3, Parts DEF Insert, Is, CallOK, NewOK, Makes
<1>5. CASE rows' = Append(rows, [code |-> c, tries |-> 0, live |-> TRUE]) /\ UNCHANGED faults
  <2>1. /\ DOMAIN rows' = DOMAIN rows \cup {Len(rows')}
        /\ rows'[Len(rows')].code = c
        /\ \A j \in DOMAIN rows : rows'[j] = rows[j]
        /\ Issued' = Issued \cup {c}
    BY <1>1, <1>4, <1>5, RowAdd, Parts
  <2>2. Live' => Live \/ c = Watched
    <3>. SUFFICES ASSUME NEW j \in DOMAIN rows', rows'[j].live, rows'[j].code = Watched
                  PROVE  Live \/ c = Watched
      BY DEF Live
    <3>1. j \in DOMAIN rows \/ j = Len(rows')
      BY <2>1
    <3>. QED
      BY <2>1, <3>1 DEF Live
  <2>3. CASE c = Watched
    <3>1. ~Live /\ Watched \notin Issued /\ Watched \in Issued'
      BY <1>4, <2>1, <2>3, WatchedIsCode
    <3>. QED
      BY <1>1, <1>2, <1>5, <3>1, Numbers, SMTT(30) DEF AcceptInv, One
  <2>4. CASE c # Watched
    BY <1>1, <1>2, <1>5, <2>1, <2>2, <2>4, AcceptStays
  <2>. QED
    BY <2>3, <2>4
<1>6. CASE Fault /\ UNCHANGED rows
  BY <1>1, <1>2, <1>6, SameRows, SameRowsLive, AcceptStays
<1>. QED
  BY <1>3, <1>5, <1>6 DEF Insert

LEMMA DelAccept ==
  ASSUME Shape, AcceptInv, NEW p \in Proc, Del(p)
  PROVE  AcceptInv'
<1>1. UNCHANGED <<rows, stored>>
  BY DEF Del
<1>2. Live' = Live /\ Stored' = Stored /\ Issued' = Issued
  BY <1>1, SameRows, SameRowsLive, SameStored
<1>3. PICK c : c = at[p].guess /\ c = at[p].read.code
  BY Parts DEF Del, Is, CallOK
<1>4. /\ DeleteKey /\ LostIf(key # at[p].read) /\ Accept(c)
  BY <1>3 DEF Del
<1>5. CASE key # at[p].read
  <2>1. lost' = lost + 1
    BY <1>4, <1>5 DEF LostIf
  <2>2. accepted' = accepted \/ accepted' = accepted + 1
    BY <1>4 DEF Accept
  <2>3. (InRedis' => InRedis) /\ (faults' = faults \/ faults' = faults + 1)
    BY <1>4, WatchedIsCode DEF DeleteKey, InRedis, Fault
  <2>. QED
    BY <1>2, <2>1, <2>2, <2>3, Numbers, SMTT(30) DEF AcceptInv, One
<1>6. CASE key = at[p].read
  <2>1. lost' = lost
    BY <1>4, <1>6 DEF LostIf
  <2>2. CASE c # Watched
    <3>1. accepted' = accepted /\ (InRedis' => InRedis) /\ (faults' = faults \/ Fault)
      BY <1>4, <2>2, WatchedIsCode DEF Accept, DeleteKey, InRedis
    <3>. QED
      BY <1>2, <2>1, <3>1, AcceptStays
  <2>3. CASE c = Watched
    <3>1. accepted' = accepted + 1 /\ InRedis
      BY <1>3, <1>4, <1>6, <2>3 DEF Accept, InRedis
    <3>2. (~InRedis' /\ faults' = faults) \/ (InRedis' /\ faults' = faults + 1)
      BY <1>4, <3>1, WatchedIsCode DEF DeleteKey, InRedis, Fault
    <3>. QED
      BY <1>2, <2>1, <3>1, <3>2, Numbers, SMTT(30) DEF AcceptInv, One
  <2>. QED
    BY <2>2, <2>3
<1>. QED
  BY <1>5, <1>6

LEMMA SetAccept ==
  ASSUME Shape, AcceptInv, NEW p \in Proc, Set(p)
  PROVE  AcceptInv'
<1>1. UNCHANGED <<rows, stored, accepted>>
  BY DEF Set
<1>2. Live' = Live /\ Stored' = Stored /\ Issued' = Issued
  BY <1>1, SameRows, SameRowsLive, SameStored
<1>3. (key' = key \/ key'.code = at[p].read.code) /\ (faults' = faults \/ faults' = faults + 1)
  BY DEF Set, Fault
<1>4. CASE key # at[p].read
  <2>1. lost' = lost + 1
    BY <1>4 DEF Set, LostIf
  <2>. QED
    BY <1>1, <1>2, <1>3, <2>1, Numbers, SMTT(30) DEF AcceptInv, One
<1>5. CASE key = at[p].read
  <2>1. lost' = lost /\ InRedis' = InRedis
    BY <1>3, <1>5 DEF Set, LostIf, InRedis
  <2>. QED
    BY <1>1, <1>2, <1>3, <2>1, Numbers, SMTT(30) DEF AcceptInv, One
<1>. QED
  BY <1>4, <1>5

LEMMA UseAccept ==
  ASSUME Shape, AcceptInv, NEW p \in Proc, Use(p)
  PROVE  AcceptInv'
<1>1. UNCHANGED <<key, stored>>
  BY DEF Use
<1>2. InRedis' = InRedis /\ Stored' = Stored
  BY <1>1, SameStored DEF InRedis
<1>3. PICK i \in DOMAIN rows : i = at[p].row
  BY Parts DEF Use, Is, CallOK
<1>4. CASE /\ rows' = [rows EXCEPT ![i].live = FALSE] /\ LostIf(~rows[i].live)
           /\ Accept(rows[i].code) /\ UNCHANGED faults
  <2>1. Issued' = Issued /\ (Live' => Live /\ rows[i].code # Watched)
    BY <1>1, <1>4, UseWrite, UseLive
  <2>2. CASE rows[i].code # Watched
    <3>1. accepted' = accepted /\ (lost' = lost \/ lost' = lost + 1)
      BY <1>4, <2>2 DEF Accept, LostIf
    <3>. QED
      BY <1>2, <1>4, <2>1, <3>1, AcceptStays
  <2>3. CASE rows[i].code = Watched
    <3>1. accepted' = accepted + 1
      BY <1>4, <2>3 DEF Accept
    <3>2. IF rows[i].live THEN lost' = lost ELSE lost' = lost + 1
      BY <1>4 DEF LostIf
    <3>3. ~Live' /\ (rows[i].live => Live)
      BY <2>1, <2>3 DEF Live
    <3>. QED
      BY <1>2, <1>4, <2>1, <3>1, <3>2, <3>3, Numbers, SMTT(30) DEF AcceptInv, One
  <2>. QED
    BY <2>2, <2>3
<1>5. CASE Fault /\ UNCHANGED <<rows, lost, accepted>>
  BY <1>2, <1>5, SameRows, SameRowsLive, AcceptStays
<1>. QED
  BY <1>3, <1>4, <1>5 DEF Use

LEMMA CalmAccept ==
  ASSUME Shape, AcceptInv, UNCHANGED <<rows, stored, accepted>>,
         key' = key \/ key' = NoKey, lost' = lost \/ lost' = lost + 1, faults' = faults \/ Fault
  PROVE  AcceptInv'
<1>1. InRedis' => InRedis
  BY WatchedIsCode DEF InRedis
<1>. QED
  BY <1>1, SameRows, SameRowsLive, SameStored, AcceptStays

LEMMA MarkAccept ==
  ASSUME Shape, AcceptInv, NEW i \in DOMAIN rows, rows' = [rows EXCEPT ![i].live = FALSE],
         UNCHANGED <<key, stored, accepted, lost, faults>>
  PROVE  AcceptInv'
<1>1. Issued' = Issued /\ Stored' = Stored /\ (Live' => Live)
  BY UseWrite, UseLive
<1>2. InRedis' = InRedis
  BY DEF InRedis
<1>. QED
  BY <1>1, <1>2, AcceptStays

LEMMA BumpAccept ==
  ASSUME Shape, AcceptInv, NEW p \in Proc, Bump(p)
  PROVE  AcceptInv'
<1>1. UNCHANGED <<key, stored, accepted, lost>>
  BY DEF Bump, history
<1>2. PICK i \in DOMAIN rows : i = at[p].row
  BY Parts DEF Bump, Is, CallOK
<1>3. CASE rows' = [rows EXCEPT ![i].tries = @ + 1] /\ UNCHANGED faults
  <2>1. /\ Issued' = Issued /\ Stored' = Stored /\ DOMAIN rows' = DOMAIN rows
        /\ \A j \in DOMAIN rows : rows'[j].code = rows[j].code /\ rows'[j].live = rows[j].live
    BY <1>1, <1>3, BumpWrite
  <2>2. Live' = Live /\ InRedis' = InRedis
    BY <1>1, <2>1 DEF Live, InRedis
  <2>. QED
    BY <1>1, <1>3, <2>1, <2>2, AcceptStays
<1>4. CASE Fault /\ UNCHANGED rows
  BY <1>1, <1>4, CalmAccept
<1>. QED
  BY <1>2, <1>3, <1>4 DEF Bump

LEMMA NextAccept ==
  Shape /\ AcceptInv /\ [Next]_vars => AcceptInv'
<1>. SUFFICES ASSUME Shape, AcceptInv, [Next]_vars
              PROVE  AcceptInv'
  OBVIOUS
<1>1. ASSUME NEW p \in Proc, Request(p)
      PROVE  AcceptInv'
  <2>1. CASE TryCode(p)
    BY <2>1, CalmAccept DEF TryCode, otp, Look
  <2>2. CASE AskForReset(p) \/ TryReset(p) \/ TryPasscode(p)
    BY <2>2, BeginsCounted, CalmAccept DEF Incr, otp, history
  <2>. QED
    BY <1>1, <2>1, <2>2, IssueAccept DEF Request
<1>2. ASSUME NEW p \in Proc, Continue(p)
      PROVE  AcceptInv'
  <2>1. CASE Arm(p) \/ Compare(p) \/ Get(p) \/ Ttl(p) \/ Find(p) \/ User(p)
    BY <2>1, CalmAccept DEF Arm, Compare, Get, Look, Ttl, Find, User, otp, history
  <2>2. CASE Drop(p)
    BY <2>2, CalmAccept DEF Drop, DeleteKey, LostIf
  <2>. QED
    BY <1>2, <2>1, <2>2, IssueAccept, InsertAccept, DelAccept, SetAccept, BumpAccept, UseAccept
    DEF Continue
<1>3. CASE \/ BgFind \/ BgUser \/ KeyExpires \/ Crash \/ UNCHANGED vars
           \/ \E k \in Counter : WindowEnds(k)
  BY <1>3, CalmAccept DEF BgFind, BgUser, KeyExpires, Crash, vars, WindowEnds, otp, history
<1>4. ASSUME NEW i \in DOMAIN rows, BgMark(i) \/ RowExpires(i)
      PROVE  AcceptInv'
  <2>1. UNCHANGED <<key, stored, accepted, lost>>
    BY <1>4 DEF BgMark, RowExpires, history
  <2>2. CASE rows' = [rows EXCEPT ![i].live = FALSE] /\ UNCHANGED faults
    BY <2>1, <2>2, MarkAccept
  <2>3. CASE Fault /\ UNCHANGED rows
    BY <2>1, <2>3, CalmAccept
  <2>. QED
    BY <1>4, <2>2, <2>3 DEF BgMark, RowExpires
<1>. QED
  BY <1>1, <1>2, <1>3, <1>4 DEF Next, Background

(* A code is accepted once by Redis and once by its row, and once more for *)
(* each write that was overtaken or failed.                                *)
THEOREM CodesAreConsumed == Spec => []ConsumedUnlessRaced
<1>1. Init => AcceptInv
  <2>. SUFFICES ASSUME Init
                PROVE  AcceptInv
    OBVIOUS
  <2>1. key = NoKey /\ rows = <<>> /\ accepted = 0 /\ lost = 0 /\ faults = 0
    BY DEF Init
  <2>2. ~InRedis /\ ~Live
    BY <2>1, AttemptBounds DEF InRedis, Live, NoKey
  <2>. QED
    BY <2>1, <2>2 DEF AcceptInv, One
<1>2. Shape /\ AcceptInv => ConsumedUnlessRaced
  BY Numbers, SMTT(30) DEF AcceptInv, One, ConsumedUnlessRaced
<1>. QED
  BY <1>1, <1>2, ShapeHolds, NextAccept, PTL DEF Spec

-----------------------------------------------------------------------------
(* Guesses are bounded.                                                    *)

LEMMA SizeType ==
  ASSUME NEW S \in SUBSET Proc
  PROVE  /\ Cardinality(S) \in Nat /\ Cardinality(Proc) \in Nat
         /\ Cardinality(S) <= Cardinality(Proc)
         /\ \A T \in SUBSET S : Cardinality(T) <= Cardinality(S) /\ Cardinality(T) \in Nat
BY AttemptBounds, FS_Subset, FS_CardinalityType

(* A set that loses no request but p, and one that gains p.                *)
LEMMA SizeLoses ==
  ASSUME NEW S \in SUBSET Proc, NEW T \in SUBSET Proc, NEW p, S \ {p} \subseteq T
  PROVE  Cardinality(S) <= Cardinality(T) + 1
<1>1. /\ IsFiniteSet(S) /\ Cardinality(S \ {p}) >= Cardinality(S) - 1
  BY AttemptBounds, FS_Subset, FS_RemoveElement, FS_CardinalityType
<1>2. Cardinality(S \ {p}) <= Cardinality(T)
  BY SizeType
<1>. QED
  BY <1>1, <1>2, SizeType

LEMMA SizeGains ==
  ASSUME NEW S \in SUBSET Proc, NEW T \in SUBSET Proc, NEW p \in T \ S, S \subseteq T
  PROVE  Cardinality(S) + 1 <= Cardinality(T)
<1>1. IsFiniteSet(T) /\ IsFiniteSet(S) /\ Cardinality(T \ {p}) = Cardinality(T) - 1
  BY AttemptBounds, FS_Subset, FS_RemoveElement
<1>2. Cardinality(S) <= Cardinality(T \ {p})
  BY SizeType
<1>. QED
  BY <1>1, <1>2, SizeType

LEMMA Sizes ==
  ASSUME Shape
  PROVE  /\ InSet \in SUBSET Proc /\ InBump \in SUBSET Proc
         /\ Cardinality(InSet) \in Nat /\ Cardinality(InBump) \in Nat
         /\ Cardinality(Proc) \in Nat /\ Tries \in 0..MaxTries
         /\ Cardinality(InSet) <= Cardinality(Proc) /\ Cardinality(InBump) <= Cardinality(Proc)
<1>1. InSet \in SUBSET Proc /\ InBump \in SUBSET Proc
  BY DEF InSet, InBump
<1>2. Tries \in 0..MaxTries
  BY Parts, AttemptBounds DEF Tries, DataOK, KeyRow
<1>. QED
  BY <1>1, <1>2, SizeType

(* The allowances, of which the first grows with every fault and crash and *)
(* the second with every lost write.                                       *)
Extra == lost * MaxTries

LEMMA Allowance ==
  ASSUME Shape
  PROVE  /\ Free \in Nat /\ Extra \in Nat
         /\ (lost + 1) * MaxTries = Extra + MaxTries
         /\ (faults + 1) + crashes * Cardinality(Proc) = Free + 1
         /\ faults + (crashes + 1) * Cardinality(Proc) = Free + Cardinality(Proc)
<1>1. /\ lost \in Nat /\ MaxTries \in Nat /\ faults \in Nat /\ crashes \in Nat
      /\ Cardinality(Proc) \in Nat
  BY Numbers, Sizes
<1>2. \A a, b \in Nat : a * b \in Nat /\ (a + 1) * b = a * b + b
  OBVIOUS
<1>. QED
  BY <1>1, <1>2 DEF Free, Extra

(* What happened to the allowances in a step.                              *)
Spends(f, l) == faults' = faults + f /\ lost' = lost + l /\ crashes' = crashes

LEMMA Spent ==
  ASSUME Shape, NEW f \in {0, 1}, NEW l \in {0, 1}, Spends(f, l)
  PROVE  Free' = Free + f /\ Extra' = Extra + (IF l = 1 THEN MaxTries ELSE 0)
<1>1. /\ faults \in Nat /\ lost \in Nat /\ crashes * Cardinality(Proc) \in Nat
      /\ lost * MaxTries \in Nat
  BY Numbers, Allowance, Sizes DEF Free, Extra
<1>2. /\ crashes' * Cardinality(Proc) = crashes * Cardinality(Proc)
      /\ Free' = faults' + crashes' * Cardinality(Proc)
      /\ Free = faults + crashes * Cardinality(Proc)
  BY DEF Spends, Free
<1>3. Free' = Free + f
  BY <1>1, <1>2 DEF Spends
<1>4. l = 1 => Extra' = Extra + MaxTries
  BY Allowance DEF Spends, Extra
<1>5. l = 0 => Extra' = Extra
  BY <1>1, Allowance DEF Spends, Extra
<1>. QED
  BY <1>3, <1>4, <1>5, Allowance

(* The invariant of each copy.                                             *)
RedisInv ==
  /\ Watched \notin Stored => guesses["redis"] = 0
  /\ guesses["redis"] <= Cardinality(InSet) + Tries + Extra + Free
  /\ guesses["redis"] <= MaxTries + (Cardinality(Proc) - 1) + Extra + Free

RowInv ==
  /\ Watched \notin Issued => guesses["row"] = 0
  /\ \A i \in DOMAIN rows :
       rows[i].code = Watched => guesses["row"] <= Cardinality(InBump) + rows[i].tries + Free
  /\ guesses["row"] <= MaxTries + (Cardinality(Proc) - 1) + Free

LEMMA Bounded ==
  ASSUME Shape, RedisInv, RowInv
  PROVE  GuessesBounded
<1>1. /\ guesses["redis"] \in Nat /\ guesses["row"] \in Nat /\ MaxTries \in Nat
      /\ Cardinality(Proc) \in Nat /\ faults \in Nat /\ Extra \in Nat /\ Free \in Nat
      /\ crashes * Cardinality(Proc) \in Nat
  BY Numbers, Sizes, Allowance
<1>. QED
  BY <1>1 DEF GuessesBounded, Copy, Extra, Free, RedisInv, RowInv

LEMMA RowTries ==
  ASSUME Shape, NEW i \in DOMAIN rows
  PROVE  rows[i].tries \in Nat
BY RowType

(* The types after a step.                                                 *)
LEMMA SizesNext ==
  ASSUME Shape'
  PROVE  /\ InSet' \in SUBSET Proc /\ InBump' \in SUBSET Proc
         /\ Cardinality(InSet') \in Nat /\ Cardinality(InBump') \in Nat
         /\ Cardinality(InSet') <= Cardinality(Proc) /\ Cardinality(InBump') <= Cardinality(Proc)
         /\ Tries' \in 0..MaxTries /\ \A i \in DOMAIN rows' : rows'[i].tries \in Nat
<1>1. key' \in KeyRow /\ rows' \in Seq(Row)
  BY DEF Shape, TypeOK
<1>2. InSet' \in SUBSET Proc /\ InBump' \in SUBSET Proc
  BY DEF InSet, InBump
<1>3. Tries' \in 0..MaxTries
  BY <1>1, AttemptBounds DEF Tries, KeyRow
<1>4. ASSUME NEW i \in DOMAIN rows'
      PROVE  rows'[i].tries \in Nat
  <2>1. rows'[i] \in Row
    BY <1>1
  <2>. QED
    BY <2>1 DEF Row
<1>. QED
  BY <1>2, <1>3, <1>4, SizeType

(* Nothing more is guessed in a copy, and what is counted does not shrink  *)
(* by more than what is spent.                                             *)
LEMMA RedisKeeps ==
  ASSUME Shape, Shape', RedisInv, NEW f \in {0, 1}, NEW l \in {0, 1}, Spends(f, l),
         guesses'["redis"] = guesses["redis"], Stored \subseteq Stored',
         \/ Watched \notin Stored
         \/ Cardinality(InSet) + Tries
              <= Cardinality(InSet') + Tries' + f + (IF l = 1 THEN MaxTries ELSE 0)
  PROVE  RedisInv'
<1>1. Free' = Free + f /\ Extra' = Extra + (IF l = 1 THEN MaxTries ELSE 0)
  BY Spent
<1>2. /\ Free \in Nat /\ Extra \in Nat /\ MaxTries \in Nat \ {0} /\ Cardinality(Proc) \in Nat
      /\ Cardinality(InSet) \in Nat /\ Cardinality(InSet') \in Nat
      /\ Tries \in Nat /\ Tries' \in Nat /\ guesses["redis"] \in Nat
      /\ Free' \in Nat /\ Extra' \in Nat
  BY <1>1, Sizes, SizesNext, Allowance, Numbers
<1>3. CASE Watched \notin Stored
  BY <1>2, <1>3 DEF RedisInv
<1>4. CASE Cardinality(InSet) + Tries
             <= Cardinality(InSet') + Tries' + f + (IF l = 1 THEN MaxTries ELSE 0)
  BY <1>1, <1>2, <1>4 DEF RedisInv
<1>. QED
  BY <1>3, <1>4

LEMMA RowKeeps ==
  ASSUME Shape, Shape', RowInv, NEW f \in {0, 1}, NEW l \in {0, 1}, Spends(f, l),
         guesses'["row"] = guesses["row"], Issued \subseteq Issued',
         \/ Watched \notin Issued
         \/ \A i \in DOMAIN rows' :
              rows'[i].code = Watched =>
                /\ i \in DOMAIN rows /\ rows[i].code = Watched
                /\ Cardinality(InBump) + rows[i].tries
                     <= Cardinality(InBump') + rows'[i].tries + f
  PROVE  RowInv'
<1>1. Free' = Free + f
  BY Spent
<1>2. /\ Free \in Nat /\ MaxTries \in Nat \ {0} /\ Cardinality(Proc) \in Nat
      /\ Cardinality(InBump) \in Nat /\ Cardinality(InBump') \in Nat
      /\ guesses["row"] \in Nat /\ Free' \in Nat
  BY <1>1, Sizes, SizesNext, Allowance, Numbers
<1>3. ASSUME NEW i \in DOMAIN rows'
      PROVE  rows'[i].tries \in Nat
  BY <1>3, SizesNext
<1>4. CASE Watched \notin Issued
  BY <1>2, <1>3, <1>4 DEF RowInv
<1>5. CASE Watched \in Issued
  <2>1. ASSUME NEW i \in DOMAIN rows', rows'[i].code = Watched
        PROVE  guesses'["row"] <= Cardinality(InBump') + rows'[i].tries + Free'
    <3>1. /\ i \in DOMAIN rows /\ rows[i].code = Watched
          /\ Cardinality(InBump) + rows[i].tries <= Cardinality(InBump') + rows'[i].tries + f
      BY <1>5, <2>1
    <3>2. rows[i].tries \in Nat /\ rows'[i].tries \in Nat
      BY <1>3, <3>1, RowTries
    <3>3. guesses["row"] <= Cardinality(InBump) + rows[i].tries + Free
      BY <3>1 DEF RowInv
    <3>. QED
      BY <1>1, <1>2, <3>1, <3>2, <3>3
  <2>. QED
    BY <1>1, <1>2, <1>5, <2>1 DEF RowInv
<1>. QED
  BY <1>4, <1>5

(* The key as it was or gone, and no request done with its count.          *)
LEMMA RedisCalm ==
  ASSUME Shape, Shape', RedisInv, NEW f \in {0, 1}, NEW l \in {0, 1}, Spends(f, l),
         guesses'["redis"] = guesses["redis"], UNCHANGED stored, key' = key \/ key' = NoKey,
         InSet \subseteq InSet'
  PROVE  RedisInv'
<1>1. Tries <= Tries' /\ Tries \in Nat /\ Tries' \in Nat /\ MaxTries \in Nat
  BY Sizes, SizesNext, WatchedIsCode, Numbers DEF Tries, InRedis
<1>2. /\ Cardinality(InSet) <= Cardinality(InSet') /\ Cardinality(InSet) \in Nat
      /\ Cardinality(InSet') \in Nat
  BY Sizes, SizesNext, SizeType
<1>. QED
  BY <1>1, <1>2, SameStored, RedisKeeps

LEMMA RowCalm ==
  ASSUME Shape, Shape', RowInv, NEW f \in {0, 1}, NEW l \in {0, 1}, Spends(f, l),
         guesses'["row"] = guesses["row"], Issued' = Issued, DOMAIN rows' = DOMAIN rows,
         \A j \in DOMAIN rows : rows'[j].code = rows[j].code /\ rows'[j].tries = rows[j].tries,
         InBump \subseteq InBump'
  PROVE  RowInv'
<1>1. /\ Cardinality(InBump) <= Cardinality(InBump') /\ Cardinality(InBump) \in Nat
      /\ Cardinality(InBump') \in Nat
  BY Sizes, SizesNext, SizeType
<1>2. \A j \in DOMAIN rows :
        Cardinality(InBump) + rows[j].tries <= Cardinality(InBump') + rows'[j].tries + f
  <2>. SUFFICES ASSUME NEW j \in DOMAIN rows
                PROVE  Cardinality(InBump) + rows[j].tries
                         <= Cardinality(InBump') + rows'[j].tries + f
    OBVIOUS
  <2>1. rows[j].tries \in Nat /\ rows'[j].tries = rows[j].tries
    BY RowTries
  <2>. QED
    BY <1>1, <2>1
<1>. QED
  BY <1>2, RowKeeps

(* Who is about to count, stays.                                           *)
LEMMA SetStays ==
  ASSUME NEW p, \A q \in Proc \ {p} : pc'[q] = pc[q] /\ at'[q] = at[q], pc[p] \notin {"ttl", "set"}
  PROVE  InSet \subseteq InSet'
BY DEF InSet

LEMMA BumpStays ==
  ASSUME Shape, NEW p, \A q \in Proc \ {p} : pc'[q] = pc[q] /\ at'[q] = at[q], pc[p] # "bump",
         \A j \in DOMAIN rows : rows'[j].code = rows[j].code
  PROVE  InBump \subseteq InBump'
<1>1. \A q \in Proc : pc[q] = "bump" => at[q].row \in DOMAIN rows
  BY Parts DEF CallOK
<1>. QED
  BY <1>1 DEF InBump

(* A step in which nothing is guessed, stored or counted.                  *)
LEMMA Spending ==
  ASSUME Shape, faults' = faults \/ Fault, lost' = lost \/ lost' = lost + 1, crashes' = crashes
  PROVE  \E f \in {0, 1} : \E l \in {0, 1} : Spends(f, l)
<1>1. PICK f \in {0, 1} : faults' = faults + f
  BY Numbers DEF Fault
<1>2. PICK l \in {0, 1} : lost' = lost + l
  BY Numbers
<1>. QED
  BY <1>1, <1>2 DEF Spends

SameTries ==
  /\ DOMAIN rows' = DOMAIN rows
  /\ \A j \in DOMAIN rows : rows'[j].code = rows[j].code /\ rows'[j].tries = rows[j].tries

LEMMA Calm ==
  ASSUME Shape, Shape', RedisInv, RowInv, faults' = faults \/ Fault,
         lost' = lost \/ lost' = lost + 1, UNCHANGED <<guesses, stored, crashes>>,
         Issued' = Issued, SameTries, key' = key \/ key' = NoKey,
         InSet \subseteq InSet', InBump \subseteq InBump'
  PROVE  RedisInv' /\ RowInv'
<1>1. PICK f \in {0, 1} : \E l \in {0, 1} : Spends(f, l)
  BY Spending
<1>2. PICK l \in {0, 1} : Spends(f, l)
  BY <1>1
<1>3. RedisInv'
  BY <1>2, RedisCalm
<1>4. RowInv'
  BY <1>2, RowCalm DEF SameTries
<1>. QED
  BY <1>3, <1>4

(* Requests that are not about to count, and no request at all.            *)
LEMMA CalmRequest ==
  ASSUME Shape, Shape', RedisInv, RowInv, NEW p \in Proc, \E l, c : Go(p, l, c),
         pc[p] \notin {"ttl", "set", "bump"}, faults' = faults \/ Fault,
         lost' = lost \/ lost' = lost + 1, UNCHANGED <<guesses, stored, crashes>>,
         Issued' = Issued, SameTries, key' = key \/ key' = NoKey
  PROVE  RedisInv' /\ RowInv'
<1>1. \A q \in Proc \ {p} : pc'[q] = pc[q] /\ at'[q] = at[q]
  BY Moves
<1>2. InSet \subseteq InSet'
  BY <1>1, SetStays
<1>3. InBump \subseteq InBump'
  BY <1>1, BumpStays DEF SameTries
<1>. QED
  BY <1>2, <1>3, Calm

LEMMA CalmQuiet ==
  ASSUME Shape, Shape', RedisInv, RowInv, UNCHANGED <<pc, at>>, faults' = faults \/ Fault,
         UNCHANGED <<lost, guesses, stored, crashes>>,
         Issued' = Issued, SameTries, key' = key \/ key' = NoKey
  PROVE  RedisInv' /\ RowInv'
<1>1. InSet \subseteq InSet'
  BY DEF InSet
<1>2. InBump \subseteq InBump'
  <2>1. \A q \in Proc : pc[q] = "bump" => at[q].row \in DOMAIN rows
    BY Parts DEF CallOK
  <2>. QED
    BY <2>1 DEF InBump, SameTries
<1>. QED
  BY <1>1, <1>2, Calm

LEMMA SameRowsTries ==
  ASSUME UNCHANGED rows
  PROVE  SameTries /\ Issued' = Issued
BY SameRows DEF SameTries

LEMMA UseTries ==
  ASSUME Shape, NEW i \in DOMAIN rows, rows' = [rows EXCEPT ![i].live = FALSE], UNCHANGED stored
  PROVE  SameTries /\ Issued' = Issued
BY UseWrite DEF SameTries

(* A request stores a new code.                                            *)
LEMMA StoreGuess ==
  ASSUME Shape, Shape', RedisInv, RowInv, NEW p \in Proc, \E l, c : Go(p, l, c),
         pc[p] \in {"idle", "store"}, NEW c \in Code, StoreOTP(c), c \notin Stored,
         UNCHANGED <<rows, guesses, lost, crashes>>
  PROVE  RedisInv' /\ RowInv'
<1>1. SameTries /\ Issued' = Issued
  BY SameRowsTries
<1>2. CASE Fault /\ UNCHANGED <<key, stored>>
  BY <1>1, <1>2, CalmRequest
<1>3. CASE /\ key' = [code |-> c, tries |-> 0, until |-> c] /\ stored' = Append(stored, c)
           /\ UNCHANGED faults
  <2>1. \A q \in Proc \ {p} : pc'[q] = pc[q] /\ at'[q] = at[q]
    BY Moves
  <2>2. InSet \subseteq InSet'
    BY <2>1, SetStays
  <2>3. InBump \subseteq InBump'
    BY <1>1, <2>1, BumpStays DEF SameTries
  <2>4. Spends(0, 0)
    BY <1>3, Numbers DEF Spends
  <2>5. RowInv'
    BY <1>1, <2>3, <2>4, RowCalm DEF SameTries
  <2>6. Stored \subseteq Stored'
    BY StoreWrite, Parts
  <2>7. Watched \in Stored => Cardinality(InSet) + Tries <= Cardinality(InSet') + Tries'
    <3>. SUFFICES ASSUME Watched \in Stored
                  PROVE  Cardinality(InSet) + Tries <= Cardinality(InSet') + Tries'
      OBVIOUS
    <3>1. Tries' = MaxTries
      BY <1>3 DEF Tries, InRedis
    <3>2. Tries \in 0..MaxTries /\ MaxTries \in Nat
      BY Sizes, Numbers
    <3>3. Cardinality(InSet) <= Cardinality(InSet')
      BY <2>2, SizesNext, SizeType
    <3>4. Cardinality(InSet) \in Nat /\ Cardinality(InSet') \in Nat
      BY Sizes, SizesNext
    <3>. QED
      BY <3>1, <3>2, <3>3, <3>4
  <2>8. RedisInv'
    <3>1. Cardinality(InSet') \in Nat /\ Tries' \in Nat
      BY SizesNext
    <3>2. \/ Watched \notin Stored
          \/ Cardinality(InSet) + Tries <= Cardinality(InSet') + Tries' + 0
      BY <2>7, <3>1
    <3>3. \/ Watched \notin Stored
          \/ Cardinality(InSet) + Tries
               <= Cardinality(InSet') + Tries' + 0 + (IF 0 = 1 THEN MaxTries ELSE 0)
      BY <3>1, <3>2
    <3>. QED
      BY <2>4, <2>6, <3>3, RedisKeeps
  <2>. QED
    BY <2>5, <2>8
<1>. QED
  BY <1>2, <1>3 DEF StoreOTP

LEMMA IssueGuess ==
  ASSUME Shape, Shape', RedisInv, RowInv, NEW p \in Proc, Issue(p) \/ Store(p)
  PROVE  RedisInv' /\ RowInv'
<1>1. PICK c \in Code : StoreOTP(c) /\ c \notin Stored
  <2>1. CASE Issue(p)
    BY <2>1 DEF Issue, Fresh, Stored
  <2>2. CASE Store(p)
    <3>1. at[p].guess \in Code /\ at[p].guess \notin Stored
      BY <2>2, Parts DEF Store, Is, CallOK, NewOK, Makes
    <3>. QED
      BY <2>2, <3>1 DEF Store
  <2>. QED
    BY <2>1, <2>2
<1>2. /\ UNCHANGED <<rows, guesses, lost, crashes>> /\ pc[p] \in {"idle", "store"}
      /\ \E l, d : Go(p, l, d)
  BY DEF Issue, Store, history, Is, Step
<1>. QED
  BY <1>1, <1>2, StoreGuess

LEMMA InsertGuess ==
  ASSUME Shape, Shape', RedisInv, RowInv, NEW p \in Proc, Insert(p)
  PROVE  RedisInv' /\ RowInv'
<1>1. /\ UNCHANGED <<key, stored, guesses, lost, crashes>> /\ pc[p] = "insert"
      /\ \E l, d : Go(p, l, d)
  BY DEF Insert, history, Is, Done
<1>2. PICK c : c = at[p].guess
  OBVIOUS
<1>3. c \in Code \ Issued
  BY <1>1, <1>2, Parts DEF CallOK, NewOK, Makes
<1>4. CASE rows' = Append(rows, [code |-> c, tries |-> 0, live |-> TRUE]) /\ UNCHANGED faults
  <2>1. /\ DOMAIN rows' = DOMAIN rows \cup {Len(rows')}
        /\ rows'[Len(rows')].code = c
        /\ \A j \in DOMAIN rows : rows'[j] = rows[j]
        /\ Issued' = Issued \cup {c}
    BY <1>1, <1>3, <1>4, RowAdd, Parts
  <2>2. \A q \in Proc \ {p} : pc'[q] = pc[q] /\ at'[q] = at[q]
    BY <1>1, Moves
  <2>3. InSet \subseteq InSet'
    BY <1>1, <2>2, SetStays
  <2>4. InBump \subseteq InBump'
    BY <1>1, <2>1, <2>2, BumpStays
  <2>5. Spends(0, 0)
    BY <1>1, <1>4, Numbers DEF Spends
  <2>6. RedisInv'
    BY <1>1, <2>3, <2>5, RedisCalm
  <2>7. ASSUME Watched \in Issued, NEW i \in DOMAIN rows', rows'[i].code = Watched
        PROVE  /\ i \in DOMAIN rows /\ rows[i].code = Watched
               /\ Cardinality(InBump) + rows[i].tries
                    <= Cardinality(InBump') + rows'[i].tries + 0
    <3>1. i \in DOMAIN rows /\ rows'[i] = rows[i]
      BY <1>3, <2>1, <2>7
    <3>2. Cardinality(InBump) <= Cardinality(InBump')
      BY <2>4, SizesNext, SizeType
    <3>3. Cardinality(InBump) \in Nat /\ Cardinality(InBump') \in Nat
      BY Sizes, SizesNext
    <3>4. rows[i].tries \in Nat
      BY <3>1, RowTries
    <3>. QED
      BY <2>7, <3>1, <3>2, <3>3, <3>4
  <2>8. Issued \subseteq Issued' /\ guesses'["row"] = guesses["row"]
    BY <1>1, <2>1
  <2>9. RowInv'
    BY <2>5, <2>7, <2>8, RowKeeps
  <2>. QED
    BY <2>6, <2>9
<1>5. CASE Fault /\ UNCHANGED rows
  BY <1>1, <1>5, SameRowsTries, CalmRequest
<1>. QED
  BY <1>2, <1>4, <1>5 DEF Insert

(* GET of a key that has attempts left: one more wrong guess of its code.  *)
LEMMA LookGuess ==
  ASSUME Shape, Shape', RedisInv, RowInv, NEW p \in Proc, pc[p] \in {"idle", "get"},
         NEW call, Look(p, call), call \in CallRow,
         UNCHANGED <<key, rows, stored, lost, crashes>>
  PROVE  RedisInv' /\ RowInv'
<1>1. PICK c : c = [call EXCEPT !.read = key]
  OBVIOUS
<1>2. c.read = key
  BY <1>1 DEF CallRow
<1>3. \E l, d : Go(p, l, d)
  BY DEF Look
<1>4. SameTries /\ Issued' = Issued /\ Stored' = Stored
  BY SameRowsTries, SameStored
<1>5. CASE UNCHANGED guesses /\ (faults' = faults \/ Fault)
  BY <1>3, <1>4, <1>5, CalmRequest
<1>6. CASE /\ ~(key = NoKey) /\ ~Exhausted(key.tries) /\ Go(p, "ttl", c)
           /\ Guess("redis", key.code) /\ UNCHANGED faults
  <2>1. CASE key.code # Watched
    BY <1>3, <1>4, <1>6, <2>1, CalmRequest DEF Guess
  <2>2. CASE key.code = Watched
    <3>1. /\ \A q \in Proc \ {p} : pc'[q] = pc[q] /\ at'[q] = at[q]
          /\ pc'[p] = "ttl" /\ at'[p] = c
      BY <1>6, Moves
    <3>2. guesses'["redis"] = guesses["redis"] + 1 /\ guesses'["row"] = guesses["row"]
      BY <1>6, <2>2, Parts DEF Guess, DataOK, Copy
    <3>3. InSet \subseteq InSet' /\ p \in InSet' /\ p \notin InSet
      BY <1>2, <2>2, <3>1, SetStays DEF InSet
    <3>4. Cardinality(InSet) + 1 <= Cardinality(InSet')
      BY <3>3, Sizes, SizesNext, SizeGains
    <3>5. Tries = key.tries /\ Tries' = Tries /\ Tries < MaxTries
      BY <1>6, <2>2, Parts, Numbers DEF Tries, InRedis, Exhausted, DataOK, KeyRow
    <3>6. Free' = Free /\ Extra' = Extra
      BY <1>6 DEF Free, Extra
    <3>7. Watched \in Stored'
      BY <1>4, <1>6, <2>2, Parts DEF DataOK, CodesOK
    <3>8. /\ Free \in Nat /\ Extra \in Nat /\ MaxTries \in Nat /\ Tries \in Nat
          /\ Cardinality(Proc) \in Nat /\ Cardinality(InSet) \in Nat
          /\ Cardinality(InSet') \in Nat /\ guesses["redis"] \in Nat
          /\ Cardinality(InSet') <= Cardinality(Proc)
      BY Sizes, SizesNext, Allowance, Numbers
    <3>9. guesses["redis"] <= Cardinality(InSet) + Tries + Extra + Free
      BY DEF RedisInv
    <3>10. RedisInv'
      BY <3>2, <3>4, <3>5, <3>6, <3>7, <3>8, <3>9 DEF RedisInv
    <3>11. InBump \subseteq InBump'
      BY <1>4, <3>1, BumpStays DEF SameTries
    <3>12. Spends(0, 0)
      BY <1>6, Numbers DEF Spends
    <3>13. RowInv'
      BY <1>4, <3>2, <3>11, <3>12, RowCalm DEF SameTries
    <3>. QED
      BY <3>10, <3>13
  <2>. QED
    BY <2>1, <2>2
<1>. QED
  BY <1>1, <1>5, <1>6 DEF Look

LEMMA TryCodeGuess ==
  ASSUME Shape, Shape', RedisInv, RowInv, NEW p \in Proc, TryCode(p) \/ Get(p)
  PROVE  RedisInv' /\ RowInv'
<1>1. UNCHANGED <<key, rows, stored, lost, crashes>> /\ pc[p] \in {"idle", "get"}
  BY DEF TryCode, Get, otp, Is
<1>2. CASE TryCode(p)
  <2>1. PICK g \in Issued \cup {Wrong} : Look(p, [NoCall EXCEPT !.kind = "verify", !.guess = g])
    BY <1>2 DEF TryCode
  <2>2. [NoCall EXCEPT !.kind = "verify", !.guess = g] \in CallRow
    BY RowCodes, NoKeyType DEF NoCall, CallRow
  <2>. QED
    BY <1>1, <2>1, <2>2, LookGuess
<1>3. CASE Get(p)
  BY <1>1, <1>3, Parts, LookGuess DEF Get
<1>. QED
  BY <1>2, <1>3

LEMMA TtlGuess ==
  ASSUME Shape, Shape', RedisInv, RowInv, NEW p \in Proc, Ttl(p)
  PROVE  RedisInv' /\ RowInv'
<1>1. /\ UNCHANGED <<key, rows, stored, lost, guesses, faults, crashes>> /\ pc[p] = "ttl"
      /\ Go(p, "set", [at[p] EXCEPT !.until = LeftToLive])
  BY DEF Ttl, otp, history, Is
<1>2. /\ \A q \in Proc \ {p} : pc'[q] = pc[q] /\ at'[q] = at[q]
      /\ pc'[p] = "set" /\ at'[p] = [at[p] EXCEPT !.until = LeftToLive]
  BY <1>1, Moves
<1>3. at'[p].read = at[p].read
  BY <1>2, Parts DEF CallRow
<1>4. InSet \subseteq InSet'
  BY <1>2, <1>3 DEF InSet
<1>5. InBump \subseteq InBump'
  BY <1>1, <1>2, SameRowsTries, BumpStays DEF SameTries
<1>. QED
  BY <1>1, <1>4, <1>5, SameRowsTries, Calm

(* SET of what was read and one attempt: it counts the guess, unless it    *)
(* fails or another request was there in between.                          *)
LEMMA SetGuess ==
  ASSUME Shape, Shape', RedisInv, RowInv, NEW p \in Proc, Set(p)
  PROVE  RedisInv' /\ RowInv'
<1>1. /\ UNCHANGED <<rows, stored, guesses, crashes>> /\ pc[p] = "set" /\ LostIf(key # at[p].read)
      /\ \E l, d : Go(p, l, d)
  BY DEF Set, Is, Done
<1>2. \A q \in Proc \ {p} : pc'[q] = pc[q] /\ at'[q] = at[q]
  BY <1>1, Moves
<1>3. PICK r : r = at[p].read
  OBVIOUS
<1>4. r.tries \in 0..MaxTries /\ r.tries < MaxTries /\ MaxTries \in Nat
  BY <1>1, <1>3, Parts, Numbers DEF CallOK, Exhausted, CallRow, KeyRow
<1>5. \/ key'.code = r.code /\ key'.tries = r.tries + 1 /\ UNCHANGED faults
      \/ Fault /\ UNCHANGED key
  BY <1>3 DEF Set, OneMore
<1>6. PICK f \in {0, 1} : /\ faults' = faults + f
                          /\ f = 1 => key' = key
                          /\ f = 0 => key'.code = r.code /\ key'.tries = r.tries + 1
  BY <1>5, Numbers DEF Fault
<1>7. PICK l \in {0, 1} : lost' = lost + l /\ (l = 0 => key = r)
  BY <1>1, <1>3, Numbers DEF LostIf
<1>8. Spends(f, l)
  BY <1>1, <1>6, <1>7 DEF Spends
<1>9. SameTries /\ Issued' = Issued /\ Stored' = Stored
  BY <1>1, SameRowsTries, SameStored
<1>10. RowInv'
  <2>1. InBump \subseteq InBump'
    BY <1>1, <1>2, <1>9, BumpStays DEF SameTries
  <2>. QED
    BY <1>1, <1>8, <1>9, <2>1, RowCalm DEF SameTries
<1>11. /\ Cardinality(InSet) \in Nat /\ Cardinality(InSet') \in Nat
       /\ Tries \in 0..MaxTries /\ Tries' \in 0..MaxTries
  BY Sizes, SizesNext
<1>12. PICK e \in Nat : /\ e = IF l = 1 THEN MaxTries ELSE 0
                        /\ l = 0 => e = 0
                        /\ l = 1 => e = MaxTries
  BY <1>4
<1>13. Cardinality(InSet) + Tries <= Cardinality(InSet') + Tries' + f + e
  <2>1. CASE r.code = Watched
    <3>1. InSet \ {p} \subseteq InSet'
      BY <1>2 DEF InSet
    <3>2. Cardinality(InSet) <= Cardinality(InSet') + 1
      BY <3>1, Sizes, SizesNext, SizeLoses
    <3>3. CASE f = 1
      <4>1. Tries' = Tries
        BY <1>6, <3>3 DEF Tries, InRedis
      <4>. QED
        BY <1>4, <1>11, <1>12, <3>2, <3>3, <4>1
    <3>4. CASE f = 0
      <4>1. Tries' = r.tries + 1
        BY <1>6, <2>1, <3>4 DEF Tries, InRedis
      <4>2. l = 0 => Tries = r.tries
        BY <1>7, <2>1 DEF Tries, InRedis
      <4>3. CASE l = 0
        BY <1>4, <1>11, <1>12, <3>2, <3>4, <4>1, <4>2, <4>3
      <4>4. CASE l = 1
        BY <1>4, <1>11, <1>12, <3>2, <3>4, <4>1, <4>4
      <4>. QED
        BY <4>3, <4>4
    <3>. QED
      BY <3>3, <3>4
  <2>2. CASE r.code # Watched
    <3>1. InSet \subseteq InSet'
      BY <1>2, <1>3, <2>2 DEF InSet
    <3>2. Cardinality(InSet) <= Cardinality(InSet')
      BY <3>1, SizesNext, SizeType
    <3>3. CASE l = 0
      <4>1. ~InRedis
        BY <1>7, <2>2, <3>3 DEF InRedis
      <4>2. ~InRedis'
        BY <1>6, <2>2, <4>1 DEF InRedis
      <4>3. Tries' = Tries
        BY <4>1, <4>2 DEF Tries
      <4>. QED
        BY <1>11, <1>12, <3>2, <4>3
    <3>4. CASE l = 1
      BY <1>4, <1>11, <1>12, <3>2, <3>4
    <3>. QED
      BY <3>3, <3>4
  <2>. QED
    BY <2>1, <2>2
<1>14. RedisInv'
  <2>1. /\ guesses'["redis"] = guesses["redis"] /\ Stored \subseteq Stored'
        /\ Cardinality(InSet) + Tries
             <= Cardinality(InSet') + Tries' + f + (IF l = 1 THEN MaxTries ELSE 0)
    BY <1>1, <1>9, <1>12, <1>13
  <2>. QED
    BY <1>8, <2>1, RedisKeeps
<1>. QED
  BY <1>10, <1>14

(* The newest unused row with attempts left: one more wrong guess of it.   *)
LEMMA FindGuess ==
  ASSUME Shape, Shape', RedisInv, RowInv, NEW p \in Proc, Find(p)
  PROVE  RedisInv' /\ RowInv'
<1>1. /\ UNCHANGED <<key, rows, stored, lost, faults, crashes>> /\ pc[p] = "find"
      /\ \E l, d : Go(p, l, d)
  BY DEF Find, otp, Is, Done
<1>2. PICK i : i = FindLatest
  OBVIOUS
<1>3. SameTries /\ Issued' = Issued /\ Stored' = Stored
  BY <1>1, SameRowsTries, SameStored
<1>4. CASE UNCHANGED guesses
  BY <1>1, <1>3, <1>4, CalmRequest
<1>5. CASE /\ i # 0 /\ ~Exhausted(rows[i].tries)
           /\ Go(p, "bump", [at[p] EXCEPT !.row = i]) /\ Guess("row", rows[i].code)
  <2>1. i \in DOMAIN rows
    BY <1>2, <1>5, Parts, LatestIsUnused DEF DataOK
  <2>2. CASE rows[i].code # Watched
    BY <1>4, <1>5, <2>2 DEF Guess
  <2>3. CASE rows[i].code = Watched
    <3>1. /\ \A q \in Proc \ {p} : pc'[q] = pc[q] /\ at'[q] = at[q]
          /\ pc'[p] = "bump" /\ at'[p] = [at[p] EXCEPT !.row = i]
      BY <1>5, Moves
    <3>2. at'[p].row = i
      BY <3>1, Parts DEF CallRow
    <3>3. guesses'["row"] = guesses["row"] + 1 /\ guesses'["redis"] = guesses["redis"]
      BY <1>5, <2>3, Parts DEF Guess, DataOK, Copy
    <3>4. InBump \subseteq InBump' /\ p \in InBump' /\ p \notin InBump
      <4>1. InBump \subseteq InBump'
        BY <1>1, <1>3, <3>1, BumpStays DEF SameTries
      <4>. QED
        BY <1>1, <2>3, <3>1, <3>2, <4>1 DEF InBump
    <3>5. Cardinality(InBump) + 1 <= Cardinality(InBump')
      BY <3>4, Sizes, SizesNext, SizeGains
    <3>6. rows[i].tries \in Nat /\ rows[i].tries < MaxTries
      BY <1>5, <2>1, RowTries, Numbers DEF Exhausted
    <3>7. Free' = Free
      BY <1>1 DEF Free
    <3>8. /\ Free \in Nat /\ MaxTries \in Nat /\ Cardinality(Proc) \in Nat
          /\ Cardinality(InBump) \in Nat /\ Cardinality(InBump') \in Nat
          /\ guesses["row"] \in Nat /\ Cardinality(InBump') <= Cardinality(Proc)
      BY Sizes, SizesNext, Allowance, Numbers
    <3>9. guesses["row"] <= Cardinality(InBump) + rows[i].tries + Free
      BY <2>1, <2>3 DEF RowInv
    <3>10. guesses'["row"] <= Cardinality(InBump') + rows[i].tries + Free'
      BY <3>3, <3>5, <3>6, <3>7, <3>8, <3>9
    <3>11. guesses'["row"] <= MaxTries + (Cardinality(Proc) - 1) + Free'
      BY <3>3, <3>5, <3>6, <3>7, <3>8, <3>9
    <3>12. \A j \in DOMAIN rows' : rows'[j].code = Watched => j = i
      BY <1>1, <2>1, <2>3, WatchedIsCode
    <3>13. Watched \in Issued'
      BY <1>3, <2>1, <2>3 DEF Issued
    <3>14. RowInv'
      BY <1>1, <3>10, <3>11, <3>12, <3>13 DEF RowInv
    <3>15. InSet \subseteq InSet'
      BY <1>1, <3>1, SetStays
    <3>16. Spends(0, 0)
      BY <1>1, Numbers DEF Spends
    <3>17. RedisInv'
      BY <1>1, <3>3, <3>15, <3>16, RedisCalm
    <3>. QED
      BY <3>14, <3>17
  <2>. QED
    BY <2>2, <2>3
<1>. QED
  BY <1>2, <1>4, <1>5 DEF Find

(* An attempt is counted in its row.                                       *)
LEMMA BumpGuess ==
  ASSUME Shape, Shape', RedisInv, RowInv, NEW p \in Proc, Bump(p)
  PROVE  RedisInv' /\ RowInv'
<1>1. /\ UNCHANGED <<key, stored, lost, guesses, crashes>> /\ pc[p] = "bump"
      /\ \E l, d : Go(p, l, d)
  BY DEF Bump, history, Is, Done
<1>2. PICK i \in DOMAIN rows : i = at[p].row
  BY <1>1, Parts DEF CallOK
<1>3. \/ rows' = [rows EXCEPT ![i].tries = @ + 1] /\ UNCHANGED faults
      \/ Fault /\ UNCHANGED rows
  BY <1>2 DEF Bump
<1>4. PICK f \in {0, 1} :
        /\ faults' = faults + f
        /\ f = 0 => rows' = [rows EXCEPT ![i].tries = @ + 1]
        /\ f = 1 => UNCHANGED rows
  BY <1>3, Numbers DEF Fault
<1>5. /\ Issued' = Issued /\ DOMAIN rows' = DOMAIN rows
      /\ \A j \in DOMAIN rows : rows'[j].code = rows[j].code
      /\ \A j \in DOMAIN rows \ {i} : rows'[j].tries = rows[j].tries
      /\ f = 0 => rows'[i].tries = rows[i].tries + 1
      /\ f = 1 => rows'[i].tries = rows[i].tries
  <2>1. CASE f = 0
    BY <1>1, <1>4, <2>1, BumpWrite
  <2>2. CASE f = 1
    BY <1>4, <2>2, SameRows
  <2>. QED
    BY <2>1, <2>2
<1>6. Spends(f, 0)
  BY <1>1, <1>4, Numbers DEF Spends
<1>7. \A q \in Proc \ {p} : pc'[q] = pc[q] /\ at'[q] = at[q]
  BY <1>1, Moves
<1>8. RedisInv'
  <2>1. InSet \subseteq InSet'
    BY <1>1, <1>7, SetStays
  <2>. QED
    BY <1>1, <1>6, <2>1, RedisCalm
<1>9. \A q \in Proc : pc[q] = "bump" => at[q].row \in DOMAIN rows
  BY Parts DEF CallOK
<1>10. InBump \ {p} \subseteq InBump'
  BY <1>5, <1>7, <1>9 DEF InBump
<1>11. Cardinality(InBump) <= Cardinality(InBump') + 1
  BY <1>10, Sizes, SizesNext, SizeLoses
<1>12. Cardinality(InBump) \in Nat /\ Cardinality(InBump') \in Nat
  BY Sizes, SizesNext
<1>13. ASSUME NEW j \in DOMAIN rows', rows'[j].code = Watched
       PROVE  /\ j \in DOMAIN rows /\ rows[j].code = Watched
              /\ Cardinality(InBump) + rows[j].tries <= Cardinality(InBump') + rows'[j].tries + f
  <2>1. j \in DOMAIN rows /\ rows[j].code = Watched
    BY <1>5, <1>13
  <2>2. rows[j].tries \in Nat
    BY <2>1, RowTries
  <2>3. CASE j = i
    BY <1>4, <1>5, <1>11, <1>12, <2>1, <2>2, <2>3
  <2>4. CASE j # i
    <3>1. rows[i].code # Watched
      BY <2>1, <2>4, WatchedIsCode
    <3>2. p \notin InBump
      BY <1>2, <3>1 DEF InBump
    <3>3. InBump \subseteq InBump'
      BY <1>10, <3>2
    <3>4. Cardinality(InBump) <= Cardinality(InBump')
      BY <3>3, SizesNext, SizeType
    <3>5. rows'[j].tries = rows[j].tries
      BY <1>5, <2>1, <2>4
    <3>. QED
      BY <1>12, <2>1, <2>2, <3>4, <3>5
  <2>. QED
    BY <2>3, <2>4
<1>14. RowInv'
  BY <1>1, <1>5, <1>6, <1>13, RowKeeps
<1>. QED
  BY <1>8, <1>14

(* A crash forgets every request that was about to count.                  *)
LEMMA CrashGuess ==
  ASSUME Shape, Shape', RedisInv, RowInv, Crash
  PROVE  RedisInv' /\ RowInv'
<1>1. /\ UNCHANGED <<key, rows, stored, lost, guesses, faults>> /\ crashes' = crashes + 1
  BY DEF Crash, otp, history
<1>2. Free' = Free + Cardinality(Proc) /\ Extra' = Extra
  BY <1>1, Allowance DEF Free, Extra
<1>3. Tries' = Tries /\ Stored' = Stored /\ Issued' = Issued
  BY <1>1, SameRows, SameStored DEF Tries, InRedis
<1>4. /\ Free \in Nat /\ Extra \in Nat /\ MaxTries \in Nat /\ Tries \in Nat
      /\ Cardinality(Proc) \in Nat /\ Cardinality(InSet) <= Cardinality(Proc)
      /\ Cardinality(InBump) <= Cardinality(Proc)
      /\ Cardinality(InSet) \in Nat /\ Cardinality(InSet') \in Nat
      /\ Cardinality(InBump) \in Nat /\ Cardinality(InBump') \in Nat
      /\ guesses["redis"] \in Nat /\ guesses["row"] \in Nat
  BY Sizes, SizesNext, Allowance, Numbers
<1>5. RedisInv'
  BY <1>1, <1>2, <1>3, <1>4 DEF RedisInv
<1>6. ASSUME NEW j \in DOMAIN rows, rows[j].code = Watched
      PROVE  guesses["row"] <= Cardinality(InBump') + rows[j].tries + Free'
  <2>1. rows[j].tries \in Nat /\ guesses["row"] <= Cardinality(InBump) + rows[j].tries + Free
    BY <1>6, RowTries DEF RowInv
  <2>. QED
    BY <1>2, <1>4, <2>1
<1>7. RowInv'
  BY <1>1, <1>2, <1>3, <1>4, <1>6 DEF RowInv
<1>. QED
  BY <1>5, <1>7

LEMMA NextGuess ==
  Shape /\ RedisInv /\ RowInv /\ [Next]_vars => RedisInv' /\ RowInv'
<1>. SUFFICES ASSUME Shape, RedisInv, RowInv, [Next]_vars
              PROVE  RedisInv' /\ RowInv'
  OBVIOUS
<1>1. Shape'
  BY NextShape
<1>2. ASSUME NEW p \in Proc, AskForReset(p) \/ TryReset(p) \/ TryPasscode(p)
      PROVE  RedisInv' /\ RowInv'
  <2>1. PICK k \in Counter, g \in Code \cup {Wrong} : Incr(p, k, g)
    BY <1>2, BeginsCounted
  <2>2. /\ UNCHANGED <<key, rows, stored, guesses, lost, crashes>> /\ pc[p] = "idle"
        /\ \E l, c : Go(p, l, c)
        /\ faults' = faults \/ Fault
    BY <2>1 DEF Incr, otp, history, Is, Done
  <2>. QED
    BY <1>1, <2>2, SameRowsTries, CalmRequest
<1>3. ASSUME NEW p \in Proc, Arm(p) \/ Compare(p) \/ User(p) \/ Drop(p) \/ Del(p)
      PROVE  RedisInv' /\ RowInv'
  <2>1. /\ UNCHANGED <<rows, stored, guesses, crashes>> /\ pc[p] \notin {"ttl", "set", "bump"}
        /\ key' = key \/ key' = NoKey
        /\ lost' = lost \/ lost' = lost + 1
        /\ faults' = faults \/ Fault
        /\ \E l, c : Go(p, l, c)
    BY <1>3 DEF Arm, Compare, User, Drop, Del, DeleteKey, LostIf, otp, history, Is, Done, Step
  <2>. QED
    BY <1>1, <2>1, SameRowsTries, CalmRequest
<1>4. ASSUME NEW p \in Proc, Use(p)
      PROVE  RedisInv' /\ RowInv'
  <2>1. /\ UNCHANGED <<key, stored, guesses, crashes>> /\ pc[p] = "use"
        /\ lost' = lost \/ lost' = lost + 1
        /\ faults' = faults \/ Fault
        /\ \E l, c : Go(p, l, c)
    BY <1>4 DEF Use, LostIf, Is, Done, Step
  <2>2. PICK i \in DOMAIN rows : i = at[p].row
    BY <1>4, Parts DEF Use, Is, CallOK
  <2>3. rows' = [rows EXCEPT ![i].live = FALSE] \/ UNCHANGED rows
    BY <1>4, <2>2 DEF Use
  <2>4. SameTries /\ Issued' = Issued
    BY <2>1, <2>3, UseTries, SameRowsTries
  <2>. QED
    BY <1>1, <2>1, <2>4, CalmRequest
<1>5. CASE BgFind \/ BgUser \/ KeyExpires \/ UNCHANGED vars \/ \E k \in Counter : WindowEnds(k)
  <2>1. /\ UNCHANGED <<pc, at, rows, stored, guesses, lost, crashes>>
        /\ key' = key \/ key' = NoKey
        /\ faults' = faults \/ Fault
    BY <1>5 DEF BgFind, BgUser, KeyExpires, WindowEnds, vars, otp, history
  <2>. QED
    BY <1>1, <2>1, SameRowsTries, CalmQuiet
<1>6. ASSUME NEW i \in DOMAIN rows, BgMark(i) \/ RowExpires(i)
      PROVE  RedisInv' /\ RowInv'
  <2>1. /\ UNCHANGED <<pc, at, key, stored, guesses, lost, crashes>>
        /\ faults' = faults \/ Fault
        /\ rows' = [rows EXCEPT ![i].live = FALSE] \/ UNCHANGED rows
    BY <1>6 DEF BgMark, RowExpires, history
  <2>2. SameTries /\ Issued' = Issued
    BY <2>1, UseTries, SameRowsTries
  <2>. QED
    BY <1>1, <2>1, <2>2, CalmQuiet
<1>7. ASSUME NEW p \in Proc, Request(p)
      PROVE  RedisInv' /\ RowInv'
  BY <1>1, <1>2, <1>7, IssueGuess, TryCodeGuess DEF Request
<1>8. ASSUME NEW p \in Proc, Continue(p)
      PROVE  RedisInv' /\ RowInv'
  BY <1>1, <1>3, <1>4, <1>8, IssueGuess, InsertGuess, TryCodeGuess, TtlGuess, SetGuess, FindGuess,
     BumpGuess
  DEF Continue
<1>. QED
  BY <1>1, <1>5, <1>6, <1>7, <1>8, CrashGuess DEF Next, Background

(* Each copy of a code is compared with no more wrong guesses than its     *)
(* attempts and one for each other request, but for faults, crashes and    *)
(* writes of requests that overtake each other.                            *)
THEOREM GuessesAreBounded == Spec => []GuessesBounded
<1>1. Init => RedisInv /\ RowInv
  <2>. SUFFICES ASSUME Init
                PROVE  RedisInv /\ RowInv
    OBVIOUS
  <2>1. /\ rows = <<>> /\ guesses["redis"] = 0 /\ guesses["row"] = 0
    BY DEF Init, Copy
  <2>2. Shape
    BY InitShape
  <2>3. /\ Free \in Nat /\ Extra \in Nat /\ MaxTries \in Nat \ {0} /\ Tries \in Nat
        /\ Cardinality(Proc) \in Nat /\ Cardinality(InSet) \in Nat
    BY <2>2, Sizes, Allowance, Numbers
  <2>. QED
    BY <2>1, <2>3 DEF RedisInv, RowInv
<1>2. Shape /\ RedisInv /\ RowInv => GuessesBounded
  BY Bounded
<1>. QED
  BY <1>1, <1>2, ShapeHolds, NextShape, NextGuess, PTL DEF Spec

=============================================================================
