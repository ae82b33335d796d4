------------------------------ MODULE Auth_proofs ------------------------------
(***************************************************************************)
(* Proofs about Auth, for any accounts to start from, any numbers of       *)
(* accounts and requests, and any failures and crashes.                    *)
(***************************************************************************)
EXTENDS Auth, FiniteSetTheorems, TLAPS

-------------------------------------------------------------------------------
(* What holds of one state: types, and what a request at each step holds.  *)

Kind == {"none", "refresh", "expired", "linked", "register", "login", "google", "verify", "code",
         "setup", "enable", "disable", "change", "reset", "leave", "expel"}

CallType ==
  [kind : Kind, id : {0} \cup Ids, era : Nat, tok : Nat, word : Word \cup {NoWord}, old : BOOLEAN,
   on : BOOLEAN, late : BOOLEAN, verified : BOOLEAN, secret : Nat]

Session == [tok : Nat, id : Ids, era : Nat, on : BOOLEAN, late : BOOLEAN, linked : BOOLEAN]

(* Steps of a request that has no row yet, of one that may end with a      *)
(* session, and the others.                                                *)
NoRow   == {"idle", "register", "create"}
Opening == {"open", "drop", "restore", "mfa", "google", "dismiss", "clear", "details", "link"}
Label   == NoRow \cup Opening \cup {"on", "off", "update", "wipe", "soft"}

(* The row was made; it may have been purged since.                        *)
Known(i) == i \in Ids /\ users[i] # NoUser

RequestOK(l, c) ==
  /\ l \in Label /\ c \in CallType
  /\ l = "idle" => c = NoCall
  /\ l \in NoRow => c.id = 0 /\ ~c.old /\ ~c.on
  /\ l \notin NoRow => Known(c.id)
  /\ c.old \/ l \in {"register", "update"} => c.word \in Word
  /\ l = "restore" => c.kind \in {"login", "google"}
  /\ c.tok \in 0 .. Len(born) /\ (c.tok # 0 => l \in {"drop", "open"})
  /\ c.secret <= secrets /\ (l = "on" => c.secret # 0)

RowOK(r) == r \in Row /\ r.secret <= secrets /\ (r.mfa => r.secret # 0)
UsersOK == \A i \in Ids : users[i] \in {NoUser, Erased} \/ RowOK(users[i])
RowsOK == users \in [Ids -> Row \cup {NoUser, Erased}] /\ UsersOK

TokensOK ==
  /\ sessions \subseteq Session
  /\ \A s \in sessions : Exists(s.id) /\ s.tok \in 1 .. Len(born)
  /\ halfway \subseteq [id : Ids, era : Nat, late : BOOLEAN] /\ access \subseteq Ids
  /\ \A t \in halfway : Known(t.id)
  /\ born \in Seq(Nat) /\ \A n \in 1 .. Len(born) : born[n] \in 0 .. Len(born)

RehashesOK ==
  /\ rehashes \subseteq [id : Ids, word : Word]
  /\ \A r \in rehashes : Known(r.id)

CountsOK ==
  /\ secrets \in Nat /\ proved \subseteq 1 .. secrets
  /\ requests \in Nat /\ faults \in Nat /\ crashes \in Nat

RequestsOK ==
  /\ DOMAIN pc = Proc /\ DOMAIN at = Proc
  /\ \A p \in Proc : RequestOK(pc[p], at[p])

Shape ==
  /\ RowsOK
  /\ TokensOK /\ RehashesOK /\ CountsOK /\ RequestsOK

-------------------------------------------------------------------------------
(* Who holds a password of row i holds the one chosen last, or the row     *)
(* says that it was chosen meanwhile.                                      *)
Holds(i, w) == Exists(i) => w = users[i].latest \/ users[i].raced

WordInv ==
  /\ LatestPassword
  /\ \A r \in rehashes : Holds(r.id, r.word)
  /\ \A p \in Proc : at[p].old => Holds(at[p].id, at[p].word)

(* A login that found the second factor on finds it on when it asks, or    *)
(* was overtaken.                                                          *)
Asked(c) == c.late \/ faults > 0

FactorCall(l, c) ==
  /\ l = "on" => c.secret \in proved
  /\ c.on =>
       /\ c.kind = "login" /\ l \in {"restore", "mfa", "open"}
       /\ l = "restore" /\ Exists(c.id) => users[c.id].mfa
       /\ l = "mfa" => SecondFactor(c.id) \/ Asked(c)
       /\ l = "open" => Asked(c)

FactorInv ==
  /\ FactorHolds
  /\ \A p \in Proc : FactorCall(pc[p], at[p])

(* The sessions of row i are about to be ended.                            *)
Wiping(i) == \E q \in Proc : at[q].id = i /\ Is(q, "wipe")

(* What was read of row i is of its password, or somebody knows better.    *)
Fresh(i, era, late) == Exists(i) /\ era < users[i].era => late \/ Wiping(i)

CallFresh(l, c) == l \in Opening => Fresh(c.id, c.era, c.late)

(* The account is not deleted, or its deletion overtook the request.       *)
LiveCall(l, c) ==
  l \in Opening \ {"restore"} /\ (l = "drop" => c.kind # "expired")
    => Live(c.id) \/ c.late \/ c.kind = "linked"

SessionsFresh == \A s \in sessions : Fresh(s.id, s.era, s.late)
HalfwayFresh  == \A t \in halfway : Fresh(t.id, t.era, t.late)

(* Who closes an account has ended its sessions: those left are late.      *)
ClosingLate ==
  \A q \in Proc, s \in sessions : pc[q] \in {"clear", "soft"} /\ s.id = at[q].id => s.late
SessionsLive == \A s \in sessions : users[s.id].del # "no" => s.late \/ s.linked

Ended ==
  /\ SessionsFresh /\ HalfwayFresh /\ SessionsLive /\ ClosingLate
  /\ \A p \in Proc : CallFresh(pc[p], at[p]) /\ LiveCall(pc[p], at[p])

EndedInv == Undisturbed => Ended

(* The sessions refreshed from token t, and the requests that may store    *)
(* another or have deleted it.                                             *)
From(b, t)    == {n \in DOMAIN b : b[n] = t}
Children(t)   == From(born, t)
Exchanging(t) == {p \in Proc : at[p].tok = t}
Exchanged(t)  == {p \in Proc : at[p].tok = t /\ Is(p, "open")}

TokenInv ==
  \A t \in DOMAIN born :
    /\ Cardinality(Children(t)) + Cardinality(Exchanging(t)) <= Cardinality(Proc) + faults
    /\ (\E s \in sessions : s.tok = t)
         => Cardinality(Children(t)) + Cardinality(Exchanged(t)) <= faults


-------------------------------------------------------------------------------
(* Rows are made and purged, tokens and secrets are only added.            *)
Onward ==
  /\ \A i \in Ids : users[i] # NoUser => users'[i] # NoUser
  /\ Len(born) <= Len(born') /\ secrets <= secrets'

LEMMA NoCallType ==
  /\ NoCall \in CallType
  /\ NoCall.kind = "none" /\ NoCall.id = 0 /\ NoCall.era = 0 /\ NoCall.tok = 0
  /\ NoCall.word = NoWord /\ ~NoCall.old /\ ~NoCall.on /\ ~NoCall.late /\ ~NoCall.verified
  /\ NoCall.secret = 0
BY DEF NoCall, CallType, Kind

LEMMA Fields ==
  ASSUME NEW c \in CallType
  PROVE  /\ c.kind \in Kind /\ c.id \in {0} \cup Ids /\ c.era \in Nat /\ c.tok \in Nat
         /\ c.word \in Word \cup {NoWord} /\ c.old \in BOOLEAN /\ c.on \in BOOLEAN
         /\ c.late \in BOOLEAN /\ c.verified \in BOOLEAN /\ c.secret \in Nat
BY DEF CallType

(* A call that is overtaken, or for which the factor was turned off.       *)
LEMMA Overtaken ==
  ASSUME NEW c \in CallType, NEW d, d = [c EXCEPT !.late = TRUE]
  PROVE  /\ d \in CallType /\ d.late
         /\ d.kind = c.kind /\ d.id = c.id /\ d.era = c.era /\ d.tok = c.tok /\ d.word = c.word
         /\ d.old = c.old /\ d.on = c.on /\ d.verified = c.verified /\ d.secret = c.secret
BY DEF CallType

LEMMA Unasked ==
  ASSUME NEW c \in CallType, NEW d, d = [c EXCEPT !.on = FALSE]
  PROVE  /\ d \in CallType /\ ~d.on
         /\ d.kind = c.kind /\ d.id = c.id /\ d.era = c.era /\ d.tok = c.tok /\ d.word = c.word
         /\ d.old = c.old /\ d.late = c.late /\ d.verified = c.verified /\ d.secret = c.secret
BY DEF CallType

LEMMA RequestLasts ==
  ASSUME NEW l, NEW c, RequestOK(l, c), Onward, secrets \in Nat, secrets' \in Nat,
         born \in Seq(Nat), born' \in Seq(Nat)
  PROVE  RequestOK(l, c)'
<1>1. c.secret \in Nat /\ c.tok \in Nat
  BY Fields DEF RequestOK
<1>2. Len(born) \in Nat /\ Len(born') \in Nat
  OBVIOUS
<1> QED
  BY <1>1, <1>2 DEF RequestOK, Known, Onward

LEMMA LateRequest ==
  ASSUME NEW l, NEW c, RequestOK(l, c), l \notin NoRow
  PROVE  RequestOK(l, [c EXCEPT !.late = TRUE])
<1> DEFINE d == [c EXCEPT !.late = TRUE]
<1>1. c \in CallType
  BY DEF RequestOK
<1>2. /\ d \in CallType
      /\ d.kind = c.kind /\ d.id = c.id /\ d.tok = c.tok /\ d.word = c.word
      /\ d.old = c.old /\ d.secret = c.secret
  BY <1>1, Overtaken
<1> HIDE DEF d
<1>3. l # "idle"
  BY DEF NoRow
<1>4. RequestOK(l, d)
  BY <1>2, <1>3 DEF RequestOK
<1> QED
  BY <1>4 DEF d

LEMMA UnaskedRequest ==
  ASSUME NEW l, NEW c, RequestOK(l, c), l \notin NoRow
  PROVE  RequestOK(l, [c EXCEPT !.on = FALSE])
<1> DEFINE d == [c EXCEPT !.on = FALSE]
<1>1. c \in CallType
  BY DEF RequestOK
<1>2. /\ d \in CallType
      /\ d.kind = c.kind /\ d.id = c.id /\ d.tok = c.tok /\ d.word = c.word
      /\ d.old = c.old /\ d.secret = c.secret
  BY <1>1, Unasked
<1> HIDE DEF d
<1>3. l # "idle"
  BY DEF NoRow
<1>4. RequestOK(l, d)
  BY <1>2, <1>3 DEF RequestOK
<1> QED
  BY <1>4 DEF d

(* The requests stay as they are.                                          *)
LEMMA RequestsLast ==
  ASSUME RequestsOK, CountsOK, TokensOK, Onward, UNCHANGED <<pc, at>>, secrets' \in Nat,
         born' \in Seq(Nat)
  PROVE  RequestsOK'
<1> SUFFICES ASSUME NEW p \in Proc PROVE RequestOK(pc[p], at[p])'
  BY DEF RequestsOK
<1>1. PICK l, c : l = pc[p] /\ c = at[p]
  OBVIOUS
<1>2. RequestOK(l, c)'
  BY <1>1, RequestLasts DEF RequestsOK, CountsOK, TokensOK
<1> QED
  BY <1>1, <1>2 DEF RequestOK, Known

(* One request moves.                                                      *)
LEMMA RequestMoves ==
  ASSUME RequestsOK, CountsOK, TokensOK, Onward, secrets' \in Nat, born' \in Seq(Nat),
         NEW p \in Proc, NEW l, NEW c, Go(p, l, c), RequestOK(l, c)'
  PROVE  RequestsOK'
<1>1. DOMAIN pc' = Proc /\ DOMAIN at' = Proc
  BY DEF RequestsOK, Go
<1> SUFFICES ASSUME NEW q \in Proc PROVE RequestOK(pc[q], at[q])'
  BY <1>1 DEF RequestsOK
<1>2. PICK k, d : k = pc'[q] /\ d = at'[q]
  OBVIOUS
<1>3. RequestOK(k, d)'
  <2>1. CASE q = p
    BY <2>1, <1>2 DEF Go, RequestsOK
  <2>2. CASE q # p
    BY <2>2, <1>2, RequestLasts DEF Go, RequestsOK, CountsOK, TokensOK
  <2> QED
    BY <2>1, <2>2
<1> QED
  BY <1>2, <1>3 DEF RequestOK, Known

(* One request moves and overtakes others.                                 *)
LEMMA RequestsOvertaken ==
  ASSUME RequestsOK, CountsOK, TokensOK, Onward, secrets' \in Nat, born' \in Seq(Nat),
         NEW p \in Proc, NEW i \in Ids, NEW l, NEW c, Overtake(p, i, l, c), RequestOK(l, c)'
  PROVE  RequestsOK'
<1>1. DOMAIN pc' = Proc /\ DOMAIN at' = Proc
  BY DEF RequestsOK, Overtake
<1> SUFFICES ASSUME NEW q \in Proc PROVE RequestOK(pc[q], at[q])'
  BY <1>1 DEF RequestsOK
<1>2. PICK k, d : k = pc'[q] /\ d = at'[q]
  OBVIOUS
<1>3. RequestOK(k, d)'
  <2>1. CASE q = p
    BY <2>1, <1>2 DEF Overtake, RequestsOK
  <2>2. CASE q # p /\ at[q].id # i
    <3>1. k = pc[q] /\ d = at[q]
      BY <2>2, <1>2 DEF Overtake, RequestsOK
    <3> QED
      BY <3>1, RequestLasts DEF RequestsOK, CountsOK, TokensOK
  <2>3. CASE q # p /\ at[q].id = i
    <3>1. PICK b : b = at[q]
      OBVIOUS
    <3>2. k = pc[q] /\ d = [b EXCEPT !.late = TRUE]
      BY <2>3, <1>2, <3>1 DEF Overtake, RequestsOK
    <3>3. RequestOK(k, b) /\ k \notin NoRow
      BY <3>1, <3>2, <2>3 DEF RequestsOK, RequestOK, Ids
    <3>4. RequestOK(k, d)
      BY <3>2, <3>3, LateRequest
    <3> QED
      BY <3>4, RequestLasts DEF CountsOK, TokensOK
  <2> QED
    BY <2>1, <2>2, <2>3
<1> QED
  BY <1>2, <1>3 DEF RequestOK, Known

-------------------------------------------------------------------------------
(* What a request that arrives has read.                                   *)
ReadNoRow(l, c) ==
  /\ l \in {"register", "create"}
  /\ c.id = 0 /\ c.tok = 0 /\ ~c.old /\ ~c.on /\ c.secret = 0
  /\ l = "register" => c.word \in Word

ReadSession(l, c) ==
  /\ l = "drop" /\ ~c.old /\ ~c.on /\ c.secret = 0
  /\ c.kind \in {"refresh", "expired", "linked"}
  /\ \E s \in sessions :
       /\ c.id = s.id /\ c.tok = s.tok /\ c.era = s.era /\ c.late = s.late
       /\ s.linked => c.kind \in {"linked", "expired"}

ReadHalfway(l, c) ==
  /\ l = "open" /\ c.kind = "code" /\ ~c.old /\ ~c.on /\ c.tok = 0 /\ c.secret = 0
  /\ Live(c.id)
  /\ \E t \in halfway : c.id = t.id /\ c.era = t.era /\ c.late = t.late

ReadRow(l, c) ==
  /\ l \in {"mfa", "restore", "open", "link", "dismiss", "on", "off", "update", "wipe"}
  /\ c.id \in Ids /\ Exists(c.id) /\ c.era = users[c.id].era /\ c.tok = 0 /\ ~c.late
  /\ l = "update" => c.word \in Word
  /\ l = "restore" => c.kind \in {"login", "google"}
  /\ l = "on" => c.secret # 0 /\ c.secret \in proved'
  /\ l \in Opening \ {"restore"} => Live(c.id) \/ c.kind = "linked"
  /\ c.old => c.word \in Word /\ c.word = users[c.id].word
  /\ c.on => c.kind = "login" /\ l \in {"mfa", "restore"} /\ users[c.id].mfa
  /\ c.secret <= secrets'

Arrived(l, c) ==
  /\ c \in CallType
  /\ ReadNoRow(l, c) \/ ReadSession(l, c) \/ ReadHalfway(l, c) \/ ReadRow(l, c)

LEMMA CallRead ==
  ASSUME UsersOK, secrets \in Nat, NEW k \in Kind, NEW i \in Ids, Exists(i), NEW c, c = Call(k, i)
  PROVE  /\ c \in CallType /\ c.kind = k /\ c.id = i /\ c.era = users[i].era /\ c.tok = 0
         /\ c.word = NoWord /\ ~c.old /\ ~c.on /\ ~c.late /\ ~c.verified /\ c.secret = 0
<1>1. users[i] \in Row
  BY DEF UsersOK, Exists, RowOK
<1>2. users[i].era \in Nat
  BY <1>1 DEF Row
<1>3. PICK n : n = NoCall
  OBVIOUS
<1>4. c = [n EXCEPT !.kind = k, !.id = i, !.era = users[i].era]
  BY <1>3 DEF Call
<1>5. /\ n \in CallType /\ n.tok = 0 /\ n.word = NoWord
      /\ ~n.old /\ ~n.on /\ ~n.late /\ ~n.verified /\ n.secret = 0
  BY <1>3, NoCallType
<1> QED
  BY <1>2, <1>4, <1>5 DEF CallType

LEMMA RowFields ==
  ASSUME NEW r \in Row
  PROVE  /\ r.del \in {"no", "pending", "lapsed", "inactive"} /\ r.word \in Word \cup {NoWord}
         /\ r.old \in BOOLEAN /\ r.verified \in BOOLEAN /\ r.mfa \in BOOLEAN /\ r.secret \in Nat
         /\ r.linked \in BOOLEAN /\ r.era \in Nat /\ r.latest \in Word \cup {NoWord}
         /\ r.raced \in BOOLEAN
BY DEF Row

LEMMA RefreshReads ==
  ASSUME Shape, NEW p \in Proc, Refresh(p)
  PROVE  \E l, c : Go(p, l, c) /\ Arrived(l, c)
<1>1. PICK s \in sessions, k \in {"refresh", "expired"} :
        Go(p, "drop", [NoCall EXCEPT !.kind = IF s.linked /\ k = "refresh" THEN "linked" ELSE k,
                                     !.id = s.id, !.era = s.era, !.tok = s.tok, !.late = s.late])
  BY DEF Refresh
<1>2. PICK d : d = IF s.linked /\ k = "refresh" THEN "linked" ELSE k
  OBVIOUS
<1>3. PICK n, c : n = NoCall /\ c = [n EXCEPT !.kind = d, !.id = s.id, !.era = s.era,
                                              !.tok = s.tok, !.late = s.late]
  OBVIOUS
<1>4. Go(p, "drop", c)
  BY <1>1, <1>2, <1>3
<1>5. /\ n \in CallType /\ ~n.old /\ ~n.on /\ n.secret = 0
  BY <1>3, NoCallType
<1>6. s \in Session
  BY DEF Shape, TokensOK
<1>7. s.id \in Ids /\ s.era \in Nat /\ s.tok \in Nat /\ s.late \in BOOLEAN
  BY <1>6 DEF Session
<1>8. d \in Kind /\ d \in {"refresh", "expired", "linked"}
      /\ (s.linked => d \in {"linked", "expired"})
  BY <1>2 DEF Kind
<1>9. c \in CallType /\ ~c.old /\ ~c.on /\ c.secret = 0 /\ c.kind = d
      /\ c.id = s.id /\ c.tok = s.tok /\ c.era = s.era /\ c.late = s.late
  BY <1>3, <1>5, <1>7, <1>8 DEF CallType
<1>10. Arrived("drop", c)
  BY <1>8, <1>9 DEF Arrived, ReadSession
<1> QED
  BY <1>4, <1>10

LEMMA RegisterReads ==
  ASSUME Shape, NEW p \in Proc, Register(p)
  PROVE  \E l, c : Go(p, l, c) /\ Arrived(l, c)
<1>1. PICK w \in Word : Go(p, "register", [NoCall EXCEPT !.kind = "register", !.word = w])
  BY DEF Register
<1>2. PICK n, c : n = NoCall /\ c = [n EXCEPT !.kind = "register", !.word = w]
  OBVIOUS
<1>3. Go(p, "register", c)
  BY <1>1, <1>2
<1>4. /\ n \in CallType /\ n.id = 0 /\ n.tok = 0 /\ ~n.old /\ ~n.on /\ n.secret = 0
  BY <1>2, NoCallType
<1>5. /\ c \in CallType /\ c.id = 0 /\ c.tok = 0 /\ ~c.old /\ ~c.on /\ c.secret = 0
      /\ c.word = w
  BY <1>2, <1>4 DEF CallType, Kind
<1>6. Arrived("register", c)
  BY <1>5 DEF Arrived, ReadNoRow
<1> QED
  BY <1>3, <1>6

LEMMA LoginReads ==
  ASSUME Shape, NEW p \in Proc, Login(p)
  PROVE  \E l, c : Go(p, l, c) /\ Arrived(l, c)
<1>1. PICK i \in FindByEmailForAuth, w \in Word :
         /\ Matches(i, w)
         /\ users[i].del \in {"no", "pending"}
         /\ Go(p, IF users[i].del = "pending" THEN "restore" ELSE "mfa",
               [Call("login", i) EXCEPT !.word = w, !.old = users[i].old, !.on = users[i].mfa])
  BY DEF Login
<1>2. i \in Ids /\ Exists(i) /\ w = users[i].word
  BY <1>1 DEF FindByEmailForAuth, Matches
<1>3. PICK l : l = IF users[i].del = "pending" THEN "restore" ELSE "mfa"
  OBVIOUS
<1>4. PICK b, c : /\ b = Call("login", i)
                  /\ c = [b EXCEPT !.word = w, !.old = users[i].old, !.on = users[i].mfa]
  OBVIOUS
<1>5. Go(p, l, c)
  BY <1>1, <1>3, <1>4
<1>6. /\ b \in CallType /\ b.kind = "login" /\ b.id = i /\ b.era = users[i].era /\ b.tok = 0
      /\ ~b.late /\ b.secret = 0
  BY <1>2, <1>4, CallRead DEF Shape, RowsOK, CountsOK, Kind
<1>7. users[i] \in Row
  BY <1>2 DEF Shape, RowsOK, UsersOK, Exists, RowOK
<1>8. users[i].old \in BOOLEAN /\ users[i].mfa \in BOOLEAN
  BY <1>7, RowFields
<1>9. /\ c \in CallType /\ c.kind = "login" /\ c.id = i /\ c.era = users[i].era /\ c.tok = 0
      /\ ~c.late /\ c.secret = 0 /\ c.word = w /\ c.on = users[i].mfa
  BY <1>4, <1>6, <1>8 DEF CallType
<1>10. secrets' = secrets /\ secrets \in Nat
  BY DEF Login, factor, Shape, CountsOK
<1>11. ReadRow(l, c)
  BY <1>1, <1>2, <1>3, <1>9, <1>10 DEF ReadRow, Live, Opening
<1> QED
  BY <1>5, <1>9, <1>11 DEF Arrived

LEMMA VerifyEmailReads ==
  ASSUME Shape, NEW p \in Proc, VerifyEmail(p)
  PROVE  \E l, c : Go(p, l, c) /\ Arrived(l, c)
<1>1. PICK i \in FindByEmail : Go(p, "open", Call("verify", i))
  BY DEF VerifyEmail
<1>2. PICK c : c = Call("verify", i)
  OBVIOUS
<1>3. i \in Ids /\ Live(i) /\ Exists(i)
  BY DEF FindByEmail, Live
<1>4. /\ c \in CallType /\ c.kind = "verify" /\ c.id = i /\ c.era = users[i].era /\ c.tok = 0
      /\ ~c.old /\ ~c.on /\ ~c.late /\ c.secret = 0
  BY <1>2, <1>3, CallRead DEF Shape, RowsOK, CountsOK, Kind
<1>5. secrets' = secrets /\ secrets \in Nat
  BY DEF VerifyEmail, factor, Shape, CountsOK
<1>6. ReadRow("open", c)
  BY <1>3, <1>4, <1>5 DEF ReadRow
<1> QED
  BY <1>1, <1>2, <1>4, <1>6 DEF Arrived

LEMMA GoogleReads ==
  ASSUME Shape, NEW p \in Proc, Google(p)
  PROVE  \E l, c : Go(p, l, c) /\ Arrived(l, c)
<1>1. secrets' = secrets /\ secrets \in Nat
  BY DEF Google, factor, Shape, CountsOK
<1>2. CASE \E i \in Linked : Go(p, "open", Call("linked", i))
  <2>1. PICK i \in Linked : Go(p, "open", Call("linked", i))
    BY <1>2
  <2>2. PICK c : c = Call("linked", i)
    OBVIOUS
  <2>3. i \in Ids /\ Exists(i)
    BY DEF Linked
  <2>4. /\ c \in CallType /\ c.kind = "linked" /\ c.id = i /\ c.era = users[i].era /\ c.tok = 0
        /\ ~c.old /\ ~c.on /\ ~c.late /\ c.secret = 0
    BY <2>2, <2>3, CallRead DEF Shape, RowsOK, CountsOK, Kind
  <2>5. ReadRow("open", c)
    BY <1>1, <2>3, <2>4 DEF ReadRow
  <2> QED
    BY <2>1, <2>2, <2>4, <2>5 DEF Arrived
<1>3. CASE Go(p, "create", [NoCall EXCEPT !.kind = "google"])
  <2>1. PICK n, c : n = NoCall /\ c = [n EXCEPT !.kind = "google"]
    OBVIOUS
  <2>2. /\ n \in CallType /\ n.id = 0 /\ n.tok = 0 /\ ~n.old /\ ~n.on /\ n.secret = 0
    BY <2>1, NoCallType
  <2>3. /\ c \in CallType /\ c.id = 0 /\ c.tok = 0 /\ ~c.old /\ ~c.on /\ c.secret = 0
    BY <2>1, <2>2 DEF CallType, Kind
  <2>4. Arrived("create", c)
    BY <2>3 DEF Arrived, ReadNoRow
  <2> QED
    BY <1>3, <2>1, <2>4
<1>4. CASE \E i \in FindByEmailForAuth :
             LET c == [Call("google", i) EXCEPT !.verified = users[i].verified] IN
             \/ users[i].del = "no" /\ Go(p, IF c.verified THEN "link" ELSE "dismiss", c)
             \/ users[i].del = "pending" /\ Go(p, "restore", c)
  <2>1. PICK i \in FindByEmailForAuth :
             LET c == [Call("google", i) EXCEPT !.verified = users[i].verified] IN
             \/ users[i].del = "no" /\ Go(p, IF c.verified THEN "link" ELSE "dismiss", c)
             \/ users[i].del = "pending" /\ Go(p, "restore", c)
    BY <1>4
  <2>2. i \in Ids /\ Exists(i)
    BY DEF FindByEmailForAuth
  <2>3. PICK b, c : b = Call("google", i) /\ c = [b EXCEPT !.verified = users[i].verified]
    OBVIOUS
  <2>4. PICK l : /\ Go(p, l, c)
                 /\ \/ l \in {"link", "dismiss"} /\ users[i].del = "no"
                    \/ l = "restore"
    BY <2>1, <2>3
  <2>5. /\ b \in CallType /\ b.kind = "google" /\ b.id = i /\ b.era = users[i].era /\ b.tok = 0
        /\ ~b.old /\ ~b.on /\ ~b.late /\ b.secret = 0
    BY <2>2, <2>3, CallRead DEF Shape, RowsOK, CountsOK, Kind
  <2>6. users[i] \in Row
    BY <2>2 DEF Shape, RowsOK, UsersOK, Exists, RowOK
  <2>7. users[i].verified \in BOOLEAN
    BY <2>6, RowFields
  <2>8. /\ c \in CallType /\ c.kind = "google" /\ c.id = i /\ c.era = users[i].era /\ c.tok = 0
        /\ ~c.old /\ ~c.on /\ ~c.late /\ c.secret = 0
    BY <2>3, <2>5, <2>7 DEF CallType
  <2>9. ReadRow(l, c)
    BY <1>1, <2>2, <2>4, <2>8 DEF ReadRow, Opening, Live
  <2> QED
    BY <2>4, <2>8, <2>9 DEF Arrived
<1> QED
  BY <1>2, <1>3, <1>4 DEF Google

LEMMA MfaLoginReads ==
  ASSUME Shape, NEW p \in Proc, MfaLogin(p)
  PROVE  \E l, c : Go(p, l, c) /\ Arrived(l, c)
<1>1. PICK t \in halfway :
        /\ Live(t.id)
        /\ Go(p, "open", [NoCall EXCEPT !.kind = "code", !.id = t.id, !.era = t.era,
                                        !.late = t.late])
  BY DEF MfaLogin
<1>2. PICK n, c : n = NoCall /\ c = [n EXCEPT !.kind = "code", !.id = t.id, !.era = t.era,
                                              !.late = t.late]
  OBVIOUS
<1>3. Go(p, "open", c)
  BY <1>1, <1>2
<1>4. n \in CallType /\ n.tok = 0 /\ ~n.old /\ ~n.on /\ n.secret = 0
  BY <1>2, NoCallType
<1>5. t.id \in Ids /\ t.era \in Nat /\ t.late \in BOOLEAN
  BY DEF Shape, TokensOK
<1>6. /\ c \in CallType /\ c.kind = "code" /\ c.tok = 0 /\ ~c.old /\ ~c.on /\ c.secret = 0
      /\ c.id = t.id /\ c.era = t.era /\ c.late = t.late
  BY <1>2, <1>4, <1>5 DEF CallType, Kind
<1>7. ReadHalfway("open", c)
  BY <1>1, <1>6 DEF ReadHalfway
<1> QED
  BY <1>3, <1>6, <1>7 DEF Arrived

LEMMA FactorReads ==
  ASSUME Shape, NEW p \in Proc, SetupMFA(p) \/ EnableMFA(p) \/ DisableMFA(p)
  PROVE  \E l, c : Go(p, l, c) /\ Arrived(l, c)
<1>1. secrets \in Nat
  BY DEF Shape, CountsOK
<1>2. \A i \in access : i \in Ids
  BY DEF Shape, TokensOK
<1>3. CASE SetupMFA(p)
  <2>1. PICK i \in access :
          /\ Live(i) /\ secrets' = secrets + 1
          /\ Go(p, "off", [Call("setup", i) EXCEPT !.secret = secrets + 1])
    BY <1>3 DEF SetupMFA
  <2>2. PICK b, c : b = Call("setup", i) /\ c = [b EXCEPT !.secret = secrets + 1]
    OBVIOUS
  <2>3. i \in Ids /\ Exists(i)
    BY <1>2, <2>1 DEF Live
  <2>4. /\ b \in CallType /\ b.id = i /\ b.era = users[i].era /\ b.tok = 0
        /\ ~b.old /\ ~b.on /\ ~b.late
    BY <2>2, <2>3, CallRead DEF Shape, RowsOK, CountsOK, Kind
  <2>5. /\ c \in CallType /\ c.id = i /\ c.era = users[i].era /\ c.tok = 0
        /\ ~c.old /\ ~c.on /\ ~c.late /\ c.secret = secrets + 1
    BY <1>1, <2>2, <2>4 DEF CallType
  <2>6. ReadRow("off", c)
    BY <1>1, <2>1, <2>3, <2>5 DEF ReadRow, Opening
  <2> QED
    BY <2>1, <2>2, <2>5, <2>6 DEF Arrived
<1>4. CASE EnableMFA(p)
  <2>1. PICK i \in access :
          /\ Live(i) /\ users[i].secret # 0 /\ proved' = proved \cup {users[i].secret}
          /\ Go(p, "on", [Call("enable", i) EXCEPT !.secret = users[i].secret])
    BY <1>4 DEF EnableMFA
  <2>2. PICK b, c : b = Call("enable", i) /\ c = [b EXCEPT !.secret = users[i].secret]
    OBVIOUS
  <2>3. i \in Ids /\ Exists(i)
    BY <1>2, <2>1 DEF Live
  <2>4. /\ b \in CallType /\ b.id = i /\ b.era = users[i].era /\ b.tok = 0
        /\ ~b.old /\ ~b.on /\ ~b.late
    BY <2>2, <2>3, CallRead DEF Shape, RowsOK, CountsOK, Kind
  <2>5. RowOK(users[i])
    BY <2>3 DEF Shape, RowsOK, UsersOK, Exists
  <2>6. users[i].secret \in Nat /\ users[i].secret <= secrets
    BY <2>5, RowFields DEF RowOK
  <2>7. /\ c \in CallType /\ c.id = i /\ c.era = users[i].era /\ c.tok = 0
        /\ ~c.old /\ ~c.on /\ ~c.late /\ c.secret = users[i].secret
    BY <2>2, <2>4, <2>6 DEF CallType
  <2>8. secrets' = secrets
    BY <1>4 DEF EnableMFA
  <2>9. ReadRow("on", c)
    BY <2>1, <2>3, <2>6, <2>7, <2>8 DEF ReadRow, Opening
  <2> QED
    BY <2>1, <2>2, <2>7, <2>9 DEF Arrived
<1>5. CASE DisableMFA(p)
  <2>1. PICK i \in access : Live(i) /\ Go(p, "off", Call("disable", i))
    BY <1>5 DEF DisableMFA
  <2>2. PICK c : c = Call("disable", i)
    OBVIOUS
  <2>3. i \in Ids /\ Exists(i)
    BY <1>2, <2>1 DEF Live
  <2>4. /\ c \in CallType /\ c.id = i /\ c.era = users[i].era /\ c.tok = 0
        /\ ~c.old /\ ~c.on /\ ~c.late /\ c.secret = 0
    BY <2>2, <2>3, CallRead DEF Shape, RowsOK, CountsOK, Kind
  <2>5. secrets' = secrets
    BY <1>5 DEF DisableMFA
  <2>6. ReadRow("off", c)
    BY <1>1, <2>3, <2>4, <2>5 DEF ReadRow, Opening
  <2> QED
    BY <2>1, <2>2, <2>4, <2>6 DEF Arrived
<1> QED
  BY <1>3, <1>4, <1>5

LEMMA PasswordReads ==
  ASSUME Shape, NEW p \in Proc, ChangePassword(p) \/ ResetPassword(p)
  PROVE  \E l, c : Go(p, l, c) /\ Arrived(l, c)
<1>1. PICK i \in Ids, w \in Word, k \in {"change", "reset"} :
        Live(i) /\ Go(p, "update", [Call(k, i) EXCEPT !.word = w])
  <2>1. CASE ChangePassword(p)
    BY <2>1 DEF ChangePassword, Shape, TokensOK
  <2>2. CASE ResetPassword(p)
    BY <2>2 DEF ResetPassword, FindByEmail
  <2> QED
    BY <2>1, <2>2
<1>2. PICK b, c : b = Call(k, i) /\ c = [b EXCEPT !.word = w]
  OBVIOUS
<1>3. Exists(i)
  BY <1>1 DEF Live
<1>4. /\ b \in CallType /\ b.id = i /\ b.era = users[i].era /\ b.tok = 0
      /\ ~b.old /\ ~b.on /\ ~b.late /\ b.secret = 0
  BY <1>2, <1>3, CallRead DEF Shape, RowsOK, CountsOK, Kind
<1>5. /\ c \in CallType /\ c.id = i /\ c.era = users[i].era /\ c.tok = 0
      /\ ~c.old /\ ~c.on /\ ~c.late /\ c.secret = 0 /\ c.word = w
  BY <1>2, <1>4 DEF CallType
<1>6. secrets' = secrets /\ secrets \in Nat
  BY DEF ChangePassword, ResetPassword, factor, Shape, CountsOK
<1>7. ReadRow("update", c)
  BY <1>1, <1>3, <1>5, <1>6 DEF ReadRow, Opening
<1> QED
  BY <1>1, <1>2, <1>5, <1>7 DEF Arrived

LEMMA DeletionReads ==
  ASSUME Shape, NEW p \in Proc, DeleteMe(p) \/ DeleteUser(p)
  PROVE  \E l, c : Go(p, l, c) /\ Arrived(l, c)
<1>1. PICK i \in Ids, k \in {"leave", "expel"} : Exists(i) /\ Go(p, "wipe", Call(k, i))
  <2>1. CASE DeleteMe(p)
    BY <2>1 DEF DeleteMe, Live, Shape, TokensOK
  <2>2. CASE DeleteUser(p)
    BY <2>2 DEF DeleteUser, FindByEmailForAuth
  <2> QED
    BY <2>1, <2>2
<1>2. PICK c : c = Call(k, i)
  OBVIOUS
<1>3. /\ c \in CallType /\ c.id = i /\ c.era = users[i].era /\ c.tok = 0
      /\ ~c.old /\ ~c.on /\ ~c.late /\ c.secret = 0
  BY <1>1, <1>2, CallRead DEF Shape, RowsOK, CountsOK, Kind
<1>4. secrets' = secrets /\ secrets \in Nat
  BY DEF DeleteMe, DeleteUser, factor, Shape, CountsOK
<1>5. ReadRow("wipe", c)
  BY <1>1, <1>3, <1>4 DEF ReadRow, Opening
<1> QED
  BY <1>1, <1>2, <1>3, <1>5 DEF Arrived

(* A request that arrives, other than Logout, which ends at once.          *)
Begins(p) ==
  \/ Refresh(p) \/ Register(p) \/ Login(p) \/ VerifyEmail(p) \/ Google(p) \/ MfaLogin(p)
  \/ SetupMFA(p) \/ EnableMFA(p) \/ DisableMFA(p)
  \/ ChangePassword(p) \/ ResetPassword(p) \/ DeleteMe(p) \/ DeleteUser(p)

LEMMA RequestReads ==
  ASSUME Shape, NEW p \in Proc, Begins(p)
  PROVE  \E l, c : Go(p, l, c) /\ Arrived(l, c)
BY RefreshReads, RegisterReads, LoginReads, VerifyEmailReads, GoogleReads, MfaLoginReads,
   FactorReads, PasswordReads, DeletionReads DEF Begins

-------------------------------------------------------------------------------
(* What a step leaves of the rows.                                         *)
RowsStay ==
  /\ \A j \in Ids : Exists(j)' <=> Exists(j)
  /\ \A j \in Ids : users[j] # NoUser => users'[j] # NoUser
WordKept ==
  \A j \in Ids : Exists(j)' =>
    /\ Exists(j) /\ users'[j].word = users[j].word
    /\ users'[j].latest = users[j].latest /\ users'[j].raced = users[j].raced
FactorKept ==
  \A j \in Ids : Exists(j)' =>
    Exists(j) /\ users'[j].mfa = users[j].mfa /\ users'[j].secret = users[j].secret
EraKept == \A j \in Ids : Exists(j)' => Exists(j) /\ users'[j].era = users[j].era
DelKept == \A j \in Ids : Exists(j)' => Exists(j) /\ users'[j].del = users[j].del

LEMMA RowChanges ==
  ASSUME RowsOK, UNCHANGED secrets, NEW i \in Ids, Exists(i), NEW d, RowOK(d),
         users' = [users EXCEPT ![i] = d]
  PROVE  /\ RowsOK' /\ RowsStay
         /\ users'[i] = d /\ \A j \in Ids \ {i} : users'[j] = users[j]
<1>1. d \in Row /\ d # NoUser /\ d # Erased
  BY AccountAssumption DEF RowOK
<1>2. users'[i] = d /\ \A j \in Ids \ {i} : users'[j] = users[j]
  BY DEF RowsOK
<1>3. users' \in [Ids -> Row \cup {NoUser, Erased}]
  BY <1>1 DEF RowsOK
<1>4. UsersOK'
  <2> SUFFICES ASSUME NEW j \in Ids PROVE users'[j] \in {NoUser, Erased} \/ RowOK(users[j])'
    BY DEF UsersOK
  <2>1. CASE j = i
    BY <1>2, <2>1 DEF RowOK
  <2>2. CASE j # i
    BY <1>2, <2>2 DEF RowOK, RowsOK, UsersOK
  <2> QED
    BY <2>1, <2>2
<1>5. RowsStay
  BY <1>1, <1>2 DEF RowsStay, Exists
<1> QED
  BY <1>2, <1>3, <1>4, <1>5 DEF RowsOK

LEMMA DelChanges ==
  ASSUME RowsOK, UNCHANGED secrets, NEW i \in Ids, Exists(i),
         NEW x \in {"no", "pending", "lapsed", "inactive"}, users' = [users EXCEPT ![i].del = x]
  PROVE  /\ RowsOK' /\ RowsStay /\ WordKept /\ FactorKept /\ EraKept
         /\ users'[i].del = x /\ \A j \in Ids \ {i} : users'[j] = users[j]
<1>1. PICK r, d : r = users[i] /\ d = [r EXCEPT !.del = x]
  OBVIOUS
<1>2. RowOK(r) /\ r \in Row
  BY <1>1 DEF RowsOK, UsersOK, Exists, RowOK
<1>3. /\ d \in Row /\ d.del = x /\ d.word = r.word /\ d.latest = r.latest /\ d.raced = r.raced
      /\ d.mfa = r.mfa /\ d.secret = r.secret /\ d.era = r.era
  BY <1>1, <1>2 DEF Row
<1>4. users' = [users EXCEPT ![i] = d]
  BY <1>1
<1>5. RowsOK' /\ RowsStay /\ users'[i] = d /\ \A j \in Ids \ {i} : users'[j] = users[j]
  BY <1>2, <1>3, <1>4, RowChanges DEF RowOK
<1> QED
  BY <1>1, <1>3, <1>5 DEF RowsStay, WordKept, FactorKept, EraKept

LEMMA VerifiedChanges ==
  ASSUME RowsOK, UNCHANGED secrets, NEW i \in Ids, Exists(i),
         users' = [users EXCEPT ![i].verified = TRUE]
  PROVE  RowsOK' /\ RowsStay /\ WordKept /\ FactorKept /\ EraKept /\ DelKept
<1>1. PICK r, d : r = users[i] /\ d = [r EXCEPT !.verified = TRUE]
  OBVIOUS
<1>2. RowOK(r) /\ r \in Row
  BY <1>1 DEF RowsOK, UsersOK, Exists, RowOK
<1>3. /\ d \in Row /\ d.del = r.del /\ d.word = r.word /\ d.latest = r.latest
      /\ d.raced = r.raced /\ d.mfa = r.mfa /\ d.secret = r.secret /\ d.era = r.era
  BY <1>1, <1>2 DEF Row
<1>4. users' = [users EXCEPT ![i] = d]
  BY <1>1
<1>5. RowsOK' /\ RowsStay /\ users'[i] = d /\ \A j \in Ids \ {i} : users'[j] = users[j]
  BY <1>2, <1>3, <1>4, RowChanges DEF RowOK
<1> QED
  BY <1>1, <1>3, <1>5 DEF RowsStay, WordKept, FactorKept, EraKept, DelKept

LEMMA LinkedChanges ==
  ASSUME RowsOK, UNCHANGED secrets, NEW i \in Ids, Exists(i),
         users' = [users EXCEPT ![i].linked = TRUE]
  PROVE  RowsOK' /\ RowsStay /\ WordKept /\ FactorKept /\ EraKept /\ DelKept
<1>1. PICK r, d : r = users[i] /\ d = [r EXCEPT !.linked = TRUE]
  OBVIOUS
<1>2. RowOK(r) /\ r \in Row
  BY <1>1 DEF RowsOK, UsersOK, Exists, RowOK
<1>3. /\ d \in Row /\ d.del = r.del /\ d.word = r.word /\ d.latest = r.latest
      /\ d.raced = r.raced /\ d.mfa = r.mfa /\ d.secret = r.secret /\ d.era = r.era
  BY <1>1, <1>2 DEF Row
<1>4. users' = [users EXCEPT ![i] = d]
  BY <1>1
<1>5. RowsOK' /\ RowsStay /\ users'[i] = d /\ \A j \in Ids \ {i} : users'[j] = users[j]
  BY <1>2, <1>3, <1>4, RowChanges DEF RowOK
<1> QED
  BY <1>1, <1>3, <1>5 DEF RowsStay, WordKept, FactorKept, EraKept, DelKept

(* The goroutine's hash.                                                   *)
LEMMA HashChanges ==
  ASSUME RowsOK, UNCHANGED secrets, NEW i \in Ids, Exists(i), NEW w \in Word,
         users' = [users EXCEPT ![i].word = w, ![i].old = FALSE]
  PROVE  /\ RowsOK' /\ RowsStay /\ FactorKept /\ EraKept /\ DelKept
         /\ users'[i].word = w /\ users'[i].latest = users[i].latest
         /\ users'[i].raced = users[i].raced /\ \A j \in Ids \ {i} : users'[j] = users[j]
<1>1. PICK r, d : r = users[i] /\ d = [r EXCEPT !.word = w, !.old = FALSE]
  OBVIOUS
<1>2. RowOK(r) /\ r \in Row
  BY <1>1 DEF RowsOK, UsersOK, Exists, RowOK
<1>3. /\ d \in Row /\ d.del = r.del /\ d.word = w /\ d.latest = r.latest
      /\ d.raced = r.raced /\ d.mfa = r.mfa /\ d.secret = r.secret /\ d.era = r.era
  BY <1>1, <1>2 DEF Row
<1>4. users' = [users EXCEPT ![i] = d]
  BY <1>1 DEF RowsOK
<1>5. RowsOK' /\ RowsStay /\ users'[i] = d /\ \A j \in Ids \ {i} : users'[j] = users[j]
  BY <1>2, <1>3, <1>4, RowChanges DEF RowOK
<1> QED
  BY <1>1, <1>3, <1>5 DEF RowsStay, FactorKept, EraKept, DelKept

(* A password that the user chose, or that was cleared.                    *)
Chosen(i, w) ==
  users' = [users EXCEPT ![i].word = w, ![i].old = FALSE, ![i].latest = w,
                         ![i].era = @ + 1, ![i].raced = @ \/ Raced(i, w)]

LEMMA PasswordChanges ==
  ASSUME RowsOK, UNCHANGED secrets, NEW i \in Ids, Exists(i), NEW w \in Word \cup {NoWord},
         Chosen(i, w)
  PROVE  /\ RowsOK' /\ RowsStay /\ FactorKept /\ DelKept
         /\ users'[i].word = w /\ users'[i].latest = w /\ users'[i].era = users[i].era + 1
         /\ (users[i].raced \/ Raced(i, w)) => users'[i].raced
         /\ \A j \in Ids \ {i} : users'[j] = users[j]
<1>1. PICK b \in BOOLEAN : b = Raced(i, w)
  BY DEF Raced
<1>2. PICK r : r = users[i]
  OBVIOUS
<1>3. RowOK(r) /\ r \in Row
  BY <1>2 DEF RowsOK, UsersOK, Exists, RowOK
<1>4. r.era \in Nat /\ r.raced \in BOOLEAN
  BY <1>3, RowFields
<1>5. PICK h \in BOOLEAN, n \in Nat : h = (r.raced \/ b) /\ n = r.era + 1
  BY <1>4
<1> DEFINE d == [r EXCEPT !.word = w, !.old = FALSE, !.latest = w, !.era = n, !.raced = h]
<1>6. /\ d \in Row /\ d.del = r.del /\ d.word = w /\ d.latest = w /\ d.mfa = r.mfa
      /\ d.secret = r.secret /\ d.era = n /\ d.raced = h
  BY <1>3 DEF Row
<1>7. users' = [users EXCEPT ![i] = d]
  BY <1>1, <1>2, <1>5 DEF RowsOK, Chosen
<1> HIDE DEF d
<1>8. RowsOK' /\ RowsStay /\ users'[i] = d /\ \A j \in Ids \ {i} : users'[j] = users[j]
  BY <1>3, <1>6, <1>7, RowChanges DEF RowOK
<1> QED
  BY <1>1, <1>2, <1>5, <1>6, <1>8 DEF RowsStay, FactorKept, DelKept

Stored(i, b, n) == users' = [users EXCEPT ![i].mfa = b, ![i].secret = n]

LEMMA FactorChanges ==
  ASSUME RowsOK, UNCHANGED secrets, NEW i \in Ids, Exists(i), NEW b \in BOOLEAN, NEW n \in Nat,
         n <= secrets, b => n # 0, Stored(i, b, n)
  PROVE  /\ RowsOK' /\ RowsStay /\ WordKept /\ EraKept /\ DelKept
         /\ users'[i].mfa = b /\ users'[i].secret = n
         /\ \A j \in Ids \ {i} : users'[j] = users[j]
<1>1. PICK r, d : r = users[i] /\ d = [r EXCEPT !.mfa = b, !.secret = n]
  OBVIOUS
<1>2. r \in Row
  BY <1>1 DEF RowsOK, UsersOK, Exists, RowOK
<1>3. /\ d \in Row /\ d.del = r.del /\ d.word = r.word /\ d.latest = r.latest
      /\ d.raced = r.raced /\ d.mfa = b /\ d.secret = n /\ d.era = r.era
  BY <1>1, <1>2 DEF Row
<1>4. users' = [users EXCEPT ![i] = d]
  BY <1>1 DEF RowsOK, Stored
<1>5. RowsOK' /\ RowsStay /\ users'[i] = d /\ \A j \in Ids \ {i} : users'[j] = users[j]
  BY <1>3, <1>4, RowChanges DEF RowOK
<1> QED
  BY <1>1, <1>3, <1>5 DEF RowsStay, WordKept, EraKept, DelKept

LEMMA UsersUnchanged ==
  ASSUME RowsOK, UNCHANGED <<users, secrets>>
  PROVE  RowsOK' /\ RowsStay /\ WordKept /\ FactorKept /\ EraKept /\ DelKept
BY DEF RowsOK, UsersOK, RowOK, RowsStay, WordKept, FactorKept, EraKept, DelKept, Exists

-------------------------------------------------------------------------------
(* The shape of the state is kept.                                         *)
KnownKept == \A j \in Ids : users[j] # NoUser => users'[j] # NoUser
ExistsKept == \A j \in Ids : Exists(j) => Exists(j)'

(* The requests whose sessions are ended here are late: so are their tokens. *)
LateTokens(i) == {IF t.id = i THEN [t EXCEPT !.late = TRUE] ELSE t : t \in halfway}

LEMMA LateTokensOK ==
  ASSUME TokensOK, NEW i, NEW t \in LateTokens(i)
  PROVE  /\ t \in [id : Ids, era : Nat, late : BOOLEAN]
         /\ \E u \in halfway : /\ t.id = u.id /\ t.era = u.era /\ (u.late => t.late)
                               /\ (t.id = i => t.late)
<1>1. PICK u \in halfway : t = IF u.id = i THEN [u EXCEPT !.late = TRUE] ELSE u
  BY DEF LateTokens
<1>2. u \in [id : Ids, era : Nat, late : BOOLEAN]
  BY DEF TokensOK
<1>3. CASE u.id = i
  <2>1. t = [u EXCEPT !.late = TRUE]
    BY <1>1, <1>3
  <2> QED
    BY <1>2, <2>1
<1>4. CASE u.id # i
  BY <1>1, <1>2, <1>4
<1> QED
  BY <1>3, <1>4

(* No session, MFA or access token is added.                               *)
LEMMA TokensLast ==
  ASSUME TokensOK, KnownKept, UNCHANGED born, access' \subseteq access,
         sessions' \subseteq sessions, \A s \in sessions' : Exists(s.id) => Exists(s.id)',
         halfway' \subseteq halfway \/ \E i : halfway' = LateTokens(i)
  PROVE  TokensOK'
<1>1. halfway' \subseteq [id : Ids, era : Nat, late : BOOLEAN] /\ \A t \in halfway' : Known(t.id)'
  <2> SUFFICES ASSUME NEW t \in halfway'
               PROVE  t \in [id : Ids, era : Nat, late : BOOLEAN] /\ Known(t.id)'
    OBVIOUS
  <2>1. PICK u \in halfway : t.id = u.id /\ t \in [id : Ids, era : Nat, late : BOOLEAN]
    BY LateTokensOK DEF TokensOK
  <2> QED
    BY <2>1 DEF TokensOK, Known, KnownKept
<1>2. sessions' \subseteq Session /\ \A s \in sessions' : Exists(s.id)' /\ s.tok \in 1 .. Len(born')
  BY DEF TokensOK
<1> QED
  BY <1>1, <1>2 DEF TokensOK

LEMMA RehashesLast ==
  ASSUME RehashesOK, KnownKept, rehashes' \subseteq rehashes
  PROVE  RehashesOK'
BY DEF RehashesOK, KnownKept, Known

LEMMA RehashesStay ==
  ASSUME RehashesOK, KnownKept, UNCHANGED rehashes
  PROVE  RehashesOK'
BY DEF RehashesOK, KnownKept, Known

LEMMA CountsStep ==
  ASSUME CountsOK, UNCHANGED <<factor, requests, crashes>>, UNCHANGED faults \/ Fault
  PROVE  CountsOK'
BY DEF CountsOK, Fault, factor

LEMMA IdleRequest ==
  ASSUME born' \in Seq(Nat), secrets' \in Nat
  PROVE  RequestOK("idle", NoCall)'
<1>1. PICK n : n = NoCall
  OBVIOUS
<1>2. /\ n \in CallType /\ n.id = 0 /\ n.tok = 0 /\ ~n.old /\ ~n.on /\ n.secret = 0
  BY <1>1, NoCallType
<1>3. Len(born') \in Nat
  OBVIOUS
<1>4. RequestOK("idle", n)'
  BY <1>1, <1>2, <1>3 DEF RequestOK, Label, NoRow
<1> QED
  BY <1>1, <1>4

(* The next step of a request with the same call.                          *)
LEMMA NextRequest ==
  ASSUME NEW l, NEW k \in Label, NEW c, RequestOK(l, c), l \notin NoRow, k \notin NoRow,
         k \notin {"restore", "update", "on"}, c.tok # 0 => k = "open"
  PROVE  RequestOK(k, c)
BY DEF RequestOK, NoRow

LEMMA Onwards ==
  ASSUME Shape, KnownKept, UNCHANGED <<born, secrets>>
  PROVE  Onward /\ secrets \in Nat /\ secrets' \in Nat /\ born \in Seq(Nat) /\ born' \in Seq(Nat)
BY DEF Shape, TokensOK, CountsOK, Onward, KnownKept

(* One request steps and leaves the tokens.                                *)
LEMMA ShapeStep ==
  ASSUME Shape, RowsOK', KnownKept, ExistsKept,
         UNCHANGED <<tokens, rehashes, factor, requests, crashes>>,
         UNCHANGED faults \/ Fault, RequestsOK'
  PROVE  Shape'
<1>1. TokensOK'
  BY TokensLast DEF Shape, tokens, ExistsKept, TokensOK, Session
<1>2. RehashesOK'
  BY RehashesStay DEF Shape
<1>3. CountsOK'
  BY CountsStep DEF Shape
<1> QED
  BY <1>1, <1>2, <1>3 DEF Shape

LEMMA ArrivedRequest ==
  ASSUME Shape, NEW l, NEW c, Arrived(l, c), KnownKept, UNCHANGED born, secrets <= secrets',
         secrets' \in Nat
  PROVE  RequestOK(l, c)'
<1>1. /\ secrets \in Nat /\ Len(born) \in Nat /\ l \in Label
      /\ c \in CallType /\ c.tok \in Nat
  BY Fields DEF Shape, CountsOK, TokensOK, Arrived, ReadNoRow, ReadSession, ReadHalfway, ReadRow,
                Label, NoRow, Opening
<1>2. CASE ReadNoRow(l, c)
  BY <1>1, <1>2 DEF ReadNoRow, RequestOK, NoRow
<1>3. CASE ReadSession(l, c)
  <2>1. PICK s \in sessions : c.id = s.id /\ c.tok = s.tok
    BY <1>3 DEF ReadSession
  <2>2. s.id \in Ids /\ users[s.id] # NoUser /\ s.tok \in 1 .. Len(born)
    BY DEF Shape, TokensOK, Session, Exists
  <2> QED
    BY <1>1, <1>3, <2>1, <2>2 DEF ReadSession, RequestOK, NoRow, Known, KnownKept
<1>4. CASE ReadHalfway(l, c)
  <2>1. c.id \in Ids /\ users[c.id] # NoUser
    BY <1>4 DEF ReadHalfway, Shape, TokensOK, Known
  <2> QED
    BY <1>1, <1>4, <2>1 DEF ReadHalfway, RequestOK, NoRow, Known, KnownKept
<1>5. CASE ReadRow(l, c)
  BY <1>1, <1>5 DEF ReadRow, RequestOK, NoRow, Known, KnownKept, Exists
<1> QED
  BY <1>2, <1>3, <1>4, <1>5 DEF Arrived

LEMMA BeginsShape ==
  ASSUME Shape, NEW p \in Proc, Begins(p)
  PROVE  Shape'
<1>1. PICK l, c : Go(p, l, c) /\ Arrived(l, c)
  BY RequestReads
<1>2. /\ UNCHANGED <<sessions, halfway, access, born, rehashes, faults, crashes>>
      /\ requests' = requests + 1
  BY DEF Begins, Refresh, Register, Login, VerifyEmail, Google, MfaLogin, SetupMFA, EnableMFA,
         DisableMFA, ChangePassword, ResetPassword, DeleteMe, DeleteUser, tokens, Arrives
<1>3. RowsOK' /\ RowsStay
  <2>1. CASE VerifyEmail(p)
    <3>1. PICK i \in Ids : Exists(i) /\ users' = [users EXCEPT ![i].verified = TRUE]
      BY <2>1 DEF VerifyEmail, FindByEmail, Live
    <3>2. UNCHANGED secrets
      BY <2>1 DEF VerifyEmail, factor
    <3> QED
      BY <3>1, <3>2, VerifiedChanges DEF Shape
  <2>2. CASE ~VerifyEmail(p)
    <3>1. UNCHANGED users
      BY <2>2 DEF Begins, Refresh, Register, Login, Google, MfaLogin, SetupMFA, EnableMFA,
                  DisableMFA, ChangePassword, ResetPassword, DeleteMe, DeleteUser
    <3>2. secrets' \in {secrets, secrets + 1}
      BY DEF Begins, Refresh, Register, Login, VerifyEmail, Google, MfaLogin, SetupMFA, EnableMFA,
             DisableMFA, ChangePassword, ResetPassword, DeleteMe, DeleteUser, factor
    <3>3. \A r \in Row : r.secret \in Nat
      BY RowFields
    <3> QED
      BY <3>1, <3>2, <3>3 DEF Shape, RowsOK, UsersOK, RowOK, RowsStay, CountsOK, Exists
  <2> QED
    BY <2>1, <2>2
<1>4. CountsOK' /\ secrets <= secrets'
  <2>1. CASE SetupMFA(p)
    BY <1>2, <2>1 DEF SetupMFA, Shape, CountsOK
  <2>2. CASE MfaLogin(p)
    <3>1. PICK t \in halfway : /\ Live(t.id) /\ users[t.id].secret # 0
                               /\ proved' = proved \cup {users[t.id].secret}
      BY <2>2 DEF MfaLogin
    <3>2. t.id \in Ids
      BY DEF Shape, TokensOK
    <3>3. PICK n \in 1 .. secrets : n = users[t.id].secret
      BY <3>1, <3>2, RowFields DEF Live, Exists, Shape, RowsOK, UsersOK, RowOK
    <3>4. UNCHANGED secrets
      BY <2>2 DEF MfaLogin
    <3>5. proved' \subseteq 1 .. secrets
      BY <3>1, <3>3 DEF Shape, CountsOK
    <3> QED
      BY <1>2, <3>4, <3>5 DEF Shape, CountsOK
  <2>3. CASE EnableMFA(p)
    <3>1. PICK i \in access : /\ Live(i) /\ users[i].secret # 0
                              /\ proved' = proved \cup {users[i].secret}
      BY <2>3 DEF EnableMFA
    <3>2. i \in Ids
      BY DEF Shape, TokensOK
    <3>3. PICK n \in 1 .. secrets : n = users[i].secret
      BY <3>1, <3>2, RowFields DEF Live, Exists, Shape, RowsOK, UsersOK, RowOK
    <3>4. UNCHANGED secrets
      BY <2>3 DEF EnableMFA
    <3>5. proved' \subseteq 1 .. secrets
      BY <3>1, <3>3 DEF Shape, CountsOK
    <3> QED
      BY <1>2, <3>4, <3>5 DEF Shape, CountsOK
  <2>4. CASE DisableMFA(p)
    <3>1. PICK i \in access : Live(i) /\ users[i].mfa /\ proved' = proved \cup {users[i].secret}
      BY <2>4 DEF DisableMFA
    <3>2. i \in Ids
      BY DEF Shape, TokensOK
    <3>3. PICK n \in 1 .. secrets : n = users[i].secret
      BY <3>1, <3>2, RowFields DEF Live, Exists, Shape, RowsOK, UsersOK, RowOK
    <3>4. UNCHANGED secrets
      BY <2>4 DEF DisableMFA
    <3>5. proved' \subseteq 1 .. secrets
      BY <3>1, <3>3 DEF Shape, CountsOK
    <3> QED
      BY <1>2, <3>4, <3>5 DEF Shape, CountsOK
  <2>5. CASE ~(SetupMFA(p) \/ MfaLogin(p) \/ EnableMFA(p) \/ DisableMFA(p))
    <3>1. UNCHANGED factor
      BY <2>5 DEF Begins, Refresh, Register, Login, VerifyEmail, Google, ChangePassword,
                  ResetPassword, DeleteMe, DeleteUser
    <3> QED
      BY <1>2, <3>1 DEF Shape, CountsOK, factor
  <2> QED
    BY <2>1, <2>2, <2>3, <2>4, <2>5
<1>5. TokensOK' /\ RehashesOK'
  BY <1>2, <1>3, TokensLast, RehashesStay
     DEF Shape, RowsStay, KnownKept, ExistsKept, TokensOK, Session
<1>6. RequestOK(l, c)'
  BY <1>1, <1>2, <1>3, <1>4, ArrivedRequest DEF RowsStay, KnownKept, CountsOK
<1>7. RequestsOK'
  BY <1>1, <1>2, <1>3, <1>4, <1>6, RequestMoves
     DEF Shape, Onward, RowsStay, CountsOK, TokensOK
<1> QED
  BY <1>3, <1>4, <1>5, <1>7 DEF Shape

(* The call of a request that runs.                                        *)
LEMMA Running ==
  ASSUME Shape, NEW p \in Proc
  PROVE  /\ RequestOK(pc[p], at[p]) /\ at[p] \in CallType
         /\ pc[p] \notin NoRow => at[p].id \in Ids /\ users[at[p].id] # NoUser
         /\ at[p].id \in Ids => pc[p] \notin NoRow
BY DEF Shape, RequestsOK, RequestOK, Known, Ids

LEMMA OpenShape ==
  ASSUME Shape, NEW p \in Proc, Open(p)
  PROVE  Shape'
<1>1. PICK c : c = at[p]
  OBVIOUS
<1>2. RequestOK("open", c) /\ c \in CallType /\ c.id \in Ids
  BY <1>1, Running DEF Open, Is, NoRow
<1>3. /\ UNCHANGED <<users, halfway, rehashes, factor, requests, crashes>>
      /\ pc' = [pc EXCEPT ![p] = "idle"] /\ at' = [at EXCEPT ![p] = NoCall]
      /\ UNCHANGED faults \/ Fault
  BY DEF Open, NoEffect, Done, Go
<1>4. secrets \in Nat /\ UNCHANGED secrets
  BY <1>3 DEF Shape, CountsOK, factor
<1>5. RowsOK' /\ RowsStay
  BY <1>3, <1>4, UsersUnchanged DEF Shape
<1>6. TokensOK' /\ Len(born) <= Len(born')
  <2>1. CASE UNCHANGED <<born, sessions, access>>
    BY <1>3, <1>5, <2>1, TokensLast DEF Shape, RowsStay, KnownKept, TokensOK, Session
  <2>2. CASE /\ Exists(c.id) /\ born' = Append(born, c.tok)
             /\ access' = access \cup {c.id}
             /\ sessions' = sessions \cup
                  {[tok |-> Len(born) + 1, id |-> c.id, era |-> c.era, on |-> c.on,
                    late |-> c.late \/ Closing(c.id), linked |-> c.kind = "linked"]}
    <3>1. born \in Seq(Nat) /\ Len(born) \in Nat
      BY DEF Shape, TokensOK
    <3>2. c.tok \in 0 .. Len(born) /\ c.era \in Nat /\ c.on \in BOOLEAN /\ c.late \in BOOLEAN
      BY <1>2, Fields DEF RequestOK
    <3>3. /\ born' \in Seq(Nat) /\ Len(born') = Len(born) + 1
          /\ \A n \in 1 .. Len(born') : born'[n] \in 0 .. Len(born')
      BY <2>2, <3>1, <3>2 DEF Shape, TokensOK
    <3>4. PICK s : s = [tok |-> Len(born) + 1, id |-> c.id, era |-> c.era, on |-> c.on,
                        late |-> c.late \/ Closing(c.id), linked |-> c.kind = "linked"]
      OBVIOUS
    <3>5. (c.late \/ Closing(c.id)) \in BOOLEAN /\ (c.kind = "linked") \in BOOLEAN
      OBVIOUS
    <3>6. s \in Session /\ s.id = c.id /\ s.tok = Len(born) + 1
      BY <1>2, <3>1, <3>2, <3>4, <3>5 DEF Session
    <3>7. sessions' = sessions \cup {s}
      BY <2>2, <3>4
    <3>8. \A j \in Ids : Exists(j)' <=> Exists(j)
      BY <1>5 DEF RowsStay
    <3>9. /\ sessions' \subseteq Session
          /\ \A x \in sessions' : Exists(x.id)' /\ x.tok \in 1 .. Len(born')
      BY <1>2, <2>2, <3>1, <3>3, <3>6, <3>7, <3>8 DEF Shape, TokensOK, Session
    <3>10. access' \subseteq Ids
      BY <1>2, <2>2 DEF Shape, TokensOK
    <3> QED
      BY <1>3, <3>1, <3>3, <3>9, <3>10 DEF Shape, TokensOK, Known
  <2> QED
    BY <1>1, <2>1, <2>2, <1>4 DEF Open, Shape, TokensOK
<1>7. CountsOK'
  BY <1>3, CountsStep DEF Shape
<1>8. RehashesOK'
  BY <1>3, <1>5, RehashesStay DEF Shape, RowsStay, KnownKept
<1>9. born' \in Seq(Nat)
  BY <1>6 DEF TokensOK
<1>10. RequestOK("idle", NoCall)'
  BY <1>4, <1>9, IdleRequest
<1>11. Go(p, "idle", NoCall) /\ Onward
  BY <1>3, <1>4, <1>5, <1>6 DEF Go, Onward, RowsStay
<1>12. PICK n : n = NoCall
  OBVIOUS
<1>13. RequestsOK'
  BY <1>4, <1>9, <1>10, <1>11, RequestMoves DEF Shape
<1> QED
  BY <1>5, <1>6, <1>7, <1>8, <1>13 DEF Shape

(* A request that stops, or goes on with the same call.                    *)
LEMMA StopsOrSteps ==
  ASSUME Shape, KnownKept, UNCHANGED <<born, secrets>>, NEW p \in Proc, pc[p] \notin NoRow,
         NEW k \in Label, k \notin NoRow, k \notin {"restore", "update", "on"},
         at[p].tok # 0 => k = "open", Done(p) \/ Step(p, k)
  PROVE  RequestsOK'
<1>1. Onward /\ secrets \in Nat /\ secrets' \in Nat /\ born \in Seq(Nat) /\ born' \in Seq(Nat)
  BY Onwards
<1>2. CASE Done(p)
  BY <1>1, <1>2, IdleRequest, RequestMoves DEF Done, Shape
<1>3. CASE Step(p, k)
  <2>1. PICK l, c : l = pc[p] /\ c = at[p]
    OBVIOUS
  <2>2. RequestOK(l, c)
    BY <2>1, Running
  <2>3. RequestOK(k, c)
    BY <2>1, <2>2, NextRequest
  <2>4. RequestOK(k, c)'
    BY <1>1, <2>3, RequestLasts
  <2>5. Go(p, k, c)
    BY <1>3, <2>1 DEF Step
  <2> QED
    BY <1>1, <2>4, <2>5, RequestMoves DEF Shape
<1> QED
  BY <1>2, <1>3

LEMMA DropShape ==
  ASSUME Shape, NEW p \in Proc, Drop(p)
  PROVE  Shape'
<1>1. /\ UNCHANGED <<users, halfway, access, born, rehashes, factor, requests, crashes>>
      /\ UNCHANGED faults \/ Fault
      /\ sessions' \subseteq sessions
      /\ Done(p) \/ Step(p, "open")
  BY DEF Drop, DeleteByTokenHash, Is
<1>2. UNCHANGED secrets
  BY <1>1 DEF factor
<1>3. RowsOK' /\ RowsStay
  BY <1>1, <1>2, UsersUnchanged DEF Shape
<1>4. TokensOK'
  BY <1>1, <1>3, TokensLast DEF Shape, RowsStay, KnownKept, TokensOK, Session
<1>5. RehashesOK' /\ CountsOK'
  BY <1>1, <1>3, RehashesStay, CountsStep DEF Shape, RowsStay, KnownKept
<1>6. "open" \in Label /\ "open" \notin NoRow /\ pc[p] \notin NoRow
  BY DEF Label, Opening, NoRow, Drop, Is
<1>7. RequestsOK'
  BY <1>1, <1>2, <1>3, <1>6, StopsOrSteps DEF RowsStay, KnownKept
<1> QED
  BY <1>3, <1>4, <1>5, <1>7 DEF Shape

LEMMA LogoutShape ==
  ASSUME Shape, NEW p \in Proc, Logout(p)
  PROVE  Shape'
<1>1. /\ UNCHANGED <<users, halfway, access, born, rehashes, pc, at, factor, faults, crashes>>
      /\ requests' = requests + 1 /\ sessions' \subseteq sessions
  BY DEF Logout, DeleteByTokenHash, Arrives
<1>2. UNCHANGED <<secrets, proved>>
  BY <1>1 DEF factor
<1>3. RowsOK' /\ RowsStay
  BY <1>1, <1>2, UsersUnchanged DEF Shape
<1>4. TokensOK'
  BY <1>1, <1>3, TokensLast DEF Shape, RowsStay, KnownKept, TokensOK, Session
<1>5. RehashesOK' /\ CountsOK'
  BY <1>1, <1>2, <1>3, RehashesStay DEF Shape, RowsStay, KnownKept, CountsOK
<1>6. RequestsOK'
  BY <1>1, <1>2, <1>3, Onwards, RequestsLast DEF Shape, RowsStay, KnownKept
<1> QED
  BY <1>3, <1>4, <1>5, <1>6 DEF Shape

LEMMA TokensExpireShape ==
  ASSUME Shape, TokensExpire
  PROVE  Shape'
<1>1. /\ UNCHANGED <<users, sessions, born, rehashes, pc, at, factor, requests, faults, crashes>>
      /\ access' = {} /\ halfway' = {}
  BY DEF TokensExpire
<1>2. UNCHANGED <<secrets, proved>>
  BY <1>1 DEF factor
<1>3. RowsOK' /\ RowsStay
  BY <1>1, <1>2, UsersUnchanged DEF Shape
<1>4. TokensOK'
  BY <1>1, <1>3, TokensLast DEF Shape, RowsStay, KnownKept, TokensOK, Session
<1>5. RehashesOK' /\ CountsOK'
  BY <1>1, <1>2, <1>3, RehashesStay DEF Shape, RowsStay, KnownKept, CountsOK
<1>6. RequestsOK'
  BY <1>1, <1>2, <1>3, Onwards, RequestsLast DEF Shape, RowsStay, KnownKept
<1> QED
  BY <1>3, <1>4, <1>5, <1>6 DEF Shape

LEMMA CreateRow ==
  ASSUME Shape, Room, NEW w \in Word \cup {NoWord}, NEW b \in BOOLEAN, UNCHANGED secrets,
         users' = [users EXCEPT ![NewId] =
                     [del |-> "no", word |-> w, old |-> FALSE, verified |-> b,
                      mfa |-> FALSE, secret |-> 0, linked |-> FALSE,
                      era |-> 0, latest |-> w, raced |-> FALSE]]
  PROVE  /\ RowsOK' /\ KnownKept /\ ExistsKept
         /\ \E i \in Ids :
              /\ i = NewId /\ users[i] = NoUser /\ Live(i)'
              /\ users'[i].word = w /\ users'[i].latest = w /\ users'[i].era = 0
              /\ users'[i].mfa = FALSE
              /\ \A j \in Ids \ {i} : users'[j] = users[j]
<1>1. NewId \in Ids /\ users[NewId] = NoUser
  BY DEF NewId, Room
<1>2. PICK d : d = [del |-> "no", word |-> w, old |-> FALSE, verified |-> b,
                    mfa |-> FALSE, secret |-> 0, linked |-> FALSE,
                    era |-> 0, latest |-> w, raced |-> FALSE]
  OBVIOUS
<1>3. /\ d \in Row /\ d.del = "no" /\ d.word = w /\ d.latest = w /\ d.era = 0
      /\ d.mfa = FALSE /\ d.secret = 0
  BY <1>2 DEF Row
<1>4. PICK i \in Ids : i = NewId
  BY <1>1
<1>5. users' = [users EXCEPT ![i] = d]
  BY <1>2, <1>4
<1>6. users'[i] = d /\ \A j \in Ids \ {i} : users'[j] = users[j]
  BY <1>5 DEF Shape, RowsOK
<1>7. d # NoUser /\ d # Erased
  BY <1>3, AccountAssumption
<1>8. users' \in [Ids -> Row \cup {NoUser, Erased}]
  BY <1>3, <1>5 DEF Shape, RowsOK
<1>9. RowOK(d)'
  BY <1>3 DEF Shape, CountsOK, RowOK
<1>10. UsersOK'
  <2> SUFFICES ASSUME NEW j \in Ids PROVE users'[j] \in {NoUser, Erased} \/ RowOK(users[j])'
    BY DEF UsersOK
  <2>1. CASE j = i
    BY <1>6, <1>9, <2>1 DEF RowOK
  <2>2. CASE j # i
    BY <1>6, <2>2 DEF RowOK, Shape, RowsOK, UsersOK
  <2> QED
    BY <2>1, <2>2
<1>11. KnownKept /\ ExistsKept /\ Live(i)'
  BY <1>1, <1>3, <1>4, <1>6, <1>7 DEF KnownKept, ExistsKept, Exists, Live
<1> QED
  BY <1>1, <1>3, <1>4, <1>6, <1>8, <1>10, <1>11 DEF RowsOK

LEMMA CreateShape ==
  ASSUME Shape, NEW p \in Proc, RegisterCreate(p) \/ GoogleCreate(p)
  PROVE  Shape'
<1>1. PICK w \in Word \cup {NoWord}, b \in BOOLEAN, l \in {"open", "link"} :
        Create(p, w, b, l) /\ pc[p] \in {"register", "create"}
  <2>1. CASE RegisterCreate(p)
    <3>1. at[p].word \in Word
      BY <2>1, Running DEF RegisterCreate, Is, RequestOK
    <3> QED
      BY <2>1, <3>1 DEF RegisterCreate, Is
  <2>2. CASE GoogleCreate(p)
    BY <2>2 DEF GoogleCreate, Is
  <2> QED
    BY <2>1, <2>2
<1>2. UNCHANGED <<tokens, rehashes, factor, requests, crashes>> /\ UNCHANGED <<born, secrets>>
  BY <1>1 DEF Create, tokens, factor
<1>3. CASE Fault /\ Done(p) /\ UNCHANGED users
  <2>1. RowsOK' /\ RowsStay
    BY <1>2, <1>3, UsersUnchanged DEF Shape
  <2>2. KnownKept /\ ExistsKept
    BY <2>1 DEF RowsStay, KnownKept, ExistsKept
  <2>3. RequestsOK'
    BY <1>2, <1>3, <2>2, Onwards, IdleRequest, RequestMoves DEF Done, Shape
  <2> QED
    BY <1>2, <1>3, <2>1, <2>2, <2>3, ShapeStep
<1>4. CASE /\ Room /\ UNCHANGED faults
           /\ users' = [users EXCEPT ![NewId] =
                         [del |-> "no", word |-> w, old |-> FALSE, verified |-> b,
                          mfa |-> FALSE, secret |-> 0, linked |-> FALSE,
                          era |-> 0, latest |-> w, raced |-> FALSE]]
           /\ Go(p, l, [at[p] EXCEPT !.id = NewId])
  <2>1. RowsOK' /\ KnownKept /\ ExistsKept
    BY <1>2, <1>4, CreateRow
  <2>2. PICK i \in Ids : i = NewId /\ Live(i)'
    BY <1>2, <1>4, CreateRow
  <2>3. PICK c, d : c = at[p] /\ d = [c EXCEPT !.id = i]
    OBVIOUS
  <2>4. RequestOK(pc[p], c) /\ c \in CallType /\ c.id = 0
    BY <1>1, <2>3, Running DEF RequestOK, NoRow
  <2>5. /\ d \in CallType /\ d.id = i /\ d.tok = c.tok /\ d.old = c.old /\ d.on = c.on
        /\ d.word = c.word /\ d.secret = c.secret
    BY <2>3, <2>4 DEF CallType
  <2>6. users'[i] # NoUser
    BY <2>2 DEF Live, Exists
  <2>7. Onward /\ secrets \in Nat /\ secrets' \in Nat /\ born \in Seq(Nat) /\ born' \in Seq(Nat)
    BY <1>2, <2>1, Onwards
  <2>8. RequestOK(l, d)'
    BY <1>1, <1>2, <2>4, <2>5, <2>6 DEF RequestOK, NoRow, Known, Label, Opening
  <2>9. Go(p, l, d)
    BY <1>4, <2>2, <2>3
  <2>10. RequestsOK'
    BY <2>7, <2>8, <2>9, RequestMoves DEF Shape
  <2> QED
    BY <1>2, <1>4, <2>1, <2>10, ShapeStep
<1> QED
  BY <1>1, <1>3, <1>4 DEF Create

(* A request that leaves the tokens, and stops or goes on with its call.   *)
LEMMA ShapeStepOn ==
  ASSUME Shape, RowsOK', RowsStay, UNCHANGED <<tokens, rehashes, factor, requests, crashes>>,
         UNCHANGED faults \/ Fault, NEW p \in Proc, pc[p] \notin NoRow \cup {"open", "drop"},
         NEW k \in Label, k \notin NoRow \cup {"restore", "update", "on"}, Done(p) \/ Step(p, k)
  PROVE  Shape'
<1>1. KnownKept /\ ExistsKept
  BY DEF RowsStay, KnownKept, ExistsKept
<1>2. at[p].tok = 0
  BY Running DEF RequestOK, NoRow
<1>3. RequestsOK'
  BY <1>1, <1>2, StopsOrSteps DEF tokens, factor
<1> QED
  BY <1>1, <1>3, ShapeStep

LEMMA RestoreRow ==
  ASSUME Shape, NEW p \in Proc, Restore(p)
  PROVE  /\ RowsOK' /\ RowsStay /\ WordKept /\ FactorKept /\ EraKept
         /\ \A j \in Ids : users'[j] = users[j] \/ (Exists(j) /\ users'[j].del = "no")
<1>1. PICK i \in Ids : i = at[p].id
  BY Running DEF Restore, Is, NoRow
<1>2. UNCHANGED secrets
  BY DEF Restore, factor
<1>3. UNCHANGED users \/ (Exists(i) /\ users' = [users EXCEPT ![i].del = "no"])
  BY <1>1 DEF Restore
<1> QED
  BY <1>2, <1>3, DelChanges, UsersUnchanged DEF Shape

LEMMA RestoreShape ==
  ASSUME Shape, NEW p \in Proc, Restore(p)
  PROVE  Shape'
<1>1. PICK k \in {"mfa", "google"} : k = Restored[at[p].kind]
  BY Running DEF Restore, Is, RequestOK, Restored
<1>2. /\ UNCHANGED <<tokens, rehashes, factor, requests, crashes>> /\ (UNCHANGED faults \/ Fault)
      /\ pc[p] \notin NoRow \cup {"open", "drop"}
  BY DEF Restore, NoEffect, Is, NoRow
<1>3. Done(p) \/ Step(p, k)
  BY <1>1 DEF Restore
<1>4. k \in Label /\ k \notin NoRow \cup {"restore", "update", "on"}
  BY DEF Label, Opening, NoRow
<1> QED
  BY <1>2, <1>3, <1>4, RestoreRow, ShapeStepOn

LEMMA GoogleRestoredShape ==
  ASSUME Shape, NEW p \in Proc, GoogleRestored(p)
  PROVE  Shape'
<1>1. PICK k \in {"link", "dismiss"} : Step(p, k)
  BY DEF GoogleRestored
<1>2. /\ UNCHANGED <<tokens, rehashes, factor, requests, crashes>> /\ UNCHANGED faults
      /\ UNCHANGED <<users, secrets>> /\ pc[p] \notin NoRow \cup {"open", "drop"}
  BY DEF GoogleRestored, factor, Is, NoRow
<1>3. k \in Label /\ k \notin NoRow \cup {"restore", "update", "on"}
  BY DEF Label, Opening, NoRow
<1>4. RowsOK' /\ RowsStay
  BY <1>2, UsersUnchanged DEF Shape
<1> QED
  BY <1>1, <1>2, <1>3, <1>4, ShapeStepOn

LEMMA FlagsRow ==
  ASSUME Shape, NEW p \in Proc, Details(p) \/ Link(p)
  PROVE  RowsOK' /\ RowsStay /\ WordKept /\ FactorKept /\ EraKept /\ DelKept
<1>1. PICK i \in Ids : i = at[p].id
  BY Running DEF Details, Link, Is, NoRow
<1>2. UNCHANGED secrets
  BY DEF Details, Link, factor
<1>3. \/ UNCHANGED users
      \/ Exists(i) /\ users' = [users EXCEPT ![i].verified = TRUE]
      \/ Exists(i) /\ users' = [users EXCEPT ![i].linked = TRUE]
  BY <1>1 DEF Details, Link, Live
<1> QED
  BY <1>2, <1>3, VerifiedChanges, LinkedChanges, UsersUnchanged DEF Shape

LEMMA FlagsShape ==
  ASSUME Shape, NEW p \in Proc, Details(p) \/ Link(p)
  PROVE  Shape'
<1>1. PICK k \in {"link", "open"} : Step(p, k)
  BY DEF Details, Link
<1>2. /\ UNCHANGED <<tokens, rehashes, factor, requests, crashes>>
      /\ (UNCHANGED faults \/ Fault) /\ pc[p] \notin NoRow \cup {"open", "drop"}
  BY DEF Details, Link, NoEffect, Is, NoRow
<1>3. k \in Label /\ k \notin NoRow \cup {"restore", "update", "on"}
  BY DEF Label, Opening, NoRow
<1> QED
  BY <1>1, <1>2, <1>3, FlagsRow, ShapeStepOn

LEMMA MfaShape ==
  ASSUME Shape, NEW p \in Proc, Mfa(p)
  PROVE  Shape'
<1>1. PICK c : c = at[p]
  OBVIOUS
<1>2. /\ RequestOK("mfa", c) /\ c \in CallType /\ c.id \in Ids /\ users[c.id] # NoUser
  BY <1>1, Running DEF Mfa, Is, NoRow
<1>3. /\ UNCHANGED <<users, sessions, access, born, factor, requests, crashes>>
      /\ (UNCHANGED faults \/ Fault) /\ (Done(p) \/ Step(p, "open"))
      /\ UNCHANGED <<users, secrets>>
  BY DEF Mfa, NoEffect, factor
<1>4. RowsOK' /\ RowsStay
  BY <1>3, UsersUnchanged DEF Shape
<1>5. TokensOK'
  <2>1. c.era \in Nat /\ c.late \in BOOLEAN
    BY <1>2, Fields
  <2>2. PICK t : t = [id |-> c.id, era |-> c.era, late |-> c.late]
    OBVIOUS
  <2>3. t \in [id : Ids, era : Nat, late : BOOLEAN] /\ t.id = c.id
    BY <1>2, <2>1, <2>2
  <2>4. halfway' \subseteq halfway \cup {t}
    BY <1>1, <2>2 DEF Mfa
  <2>5. halfway' \subseteq [id : Ids, era : Nat, late : BOOLEAN] /\ \A x \in halfway' : Known(x.id)
    BY <1>2, <2>3, <2>4 DEF Shape, TokensOK, Known
  <2> QED
    BY <1>3, <2>5 DEF Shape, TokensOK, Known, Exists
<1>6. RehashesOK'
  <2>1. PICK r : r = [id |-> c.id, word |-> c.word]
    OBVIOUS
  <2>2. rehashes' \subseteq rehashes \/ (c.old /\ rehashes' = rehashes \cup {r})
    BY <1>1, <2>1 DEF Mfa
  <2>3. c.old => r \in [id : Ids, word : Word] /\ r.id = c.id
    BY <1>2, <2>1 DEF RequestOK
  <2> QED
    BY <1>2, <1>3, <2>2, <2>3 DEF Shape, RehashesOK, Known
<1>7. CountsOK'
  BY <1>3, CountsStep DEF Shape
<1>8. "open" \in Label /\ "open" \notin NoRow /\ pc[p] \notin NoRow
  BY DEF Label, Opening, NoRow, Mfa, Is
<1>9. RequestsOK'
  BY <1>3, <1>4, <1>8, StopsOrSteps DEF RowsStay, KnownKept
<1> QED
  BY <1>4, <1>5, <1>6, <1>7, <1>9 DEF Shape

(* A request that ends the sessions of row i.                              *)
LEMMA ShapeOvertake ==
  ASSUME Shape, RowsOK', RowsStay, UNCHANGED <<access, born, rehashes, factor, requests, crashes>>,
         UNCHANGED faults \/ Fault, sessions' \subseteq sessions,
         NEW p \in Proc, NEW i \in Ids, NEW l, NEW c, Overtake(p, i, l, c), RequestOK(l, c)'
  PROVE  Shape'
<1>1. halfway' = LateTokens(i)
  BY DEF Overtake, LateTokens
<1>2. KnownKept /\ UNCHANGED secrets
  BY DEF RowsStay, KnownKept, factor
<1>3. TokensOK'
  BY <1>1, <1>2, TokensLast DEF Shape, RowsStay, TokensOK, Session
<1>4. RehashesOK' /\ CountsOK'
  BY <1>2, RehashesStay, CountsStep DEF Shape
<1>5. RequestsOK'
  BY <1>2, Onwards, RequestsOvertaken DEF Shape
<1> QED
  BY <1>3, <1>4, <1>5 DEF Shape

LEMMA DismissShape ==
  ASSUME Shape, NEW p \in Proc, Dismiss(p)
  PROVE  Shape'
<1>1. PICK c : c = at[p]
  OBVIOUS
<1>2. /\ UNCHANGED <<users, secrets>>
      /\ UNCHANGED <<access, born, rehashes, factor, requests, crashes>>
      /\ (UNCHANGED faults \/ Fault) /\ sessions' \subseteq sessions
      /\ Overtake(p, c.id, "clear", c)
  BY <1>1 DEF Dismiss, factor
<1>3. RequestOK("dismiss", c) /\ c.id \in Ids
  BY <1>1, Running DEF Dismiss, Is, NoRow
<1>4. RowsOK' /\ RowsStay
  BY <1>2, UsersUnchanged DEF Shape
<1>5. RequestOK("clear", c)
  BY <1>3, NextRequest DEF RequestOK, NoRow, Label, Opening
<1>6. RequestOK("clear", c)'
  BY <1>2, <1>4, <1>5, Onwards, RequestLasts DEF RowsStay, KnownKept
<1> QED
  BY <1>2, <1>3, <1>4, <1>6, ShapeOvertake

(* A password is stored by Clear or Update, or it is not.                  *)
LEMMA ClearRow ==
  ASSUME Shape, NEW p \in Proc, Clear(p), NEW i \in Ids, i = at[p].id
  PROVE  /\ RowsOK' /\ RowsStay /\ FactorKept /\ DelKept
         /\ \/ users' = users
            \/ /\ Live(i) /\ users'[i].word = users'[i].latest
               /\ users'[i].era = users[i].era + 1
               /\ users[i].raced \/ Raced(i, users'[i].latest) => users'[i].raced
               /\ \A j \in Ids \ {i} : users'[j] = users[j]
<1>1. UNCHANGED secrets
  BY DEF Clear, factor
<1>2. CASE users' = users
  BY <1>1, <1>2, UsersUnchanged DEF Shape
<1>3. CASE /\ Live(i)
           /\ users' = [users EXCEPT ![i].word = NoWord, ![i].old = FALSE, ![i].latest = NoWord,
                                     ![i].era = @ + 1, ![i].raced = @ \/ Raced(i, NoWord)]
  <2>1. Chosen(i, NoWord) /\ Live(i) /\ Exists(i)
    BY <1>3 DEF Chosen, Live
  <2> QED
    BY <1>1, <2>1, PasswordChanges DEF Shape
<1> QED
  BY <1>2, <1>3 DEF Clear

LEMMA UpdateRow ==
  ASSUME Shape, NEW p \in Proc, Update(p), NEW i \in Ids, i = at[p].id
  PROVE  /\ RowsOK' /\ RowsStay /\ FactorKept /\ DelKept
         /\ \/ users' = users
            \/ /\ Live(i) /\ users'[i].word = users'[i].latest /\ Step(p, "wipe")
               /\ users'[i].era = users[i].era + 1
               /\ users[i].raced \/ Raced(i, users'[i].latest) => users'[i].raced
               /\ \A j \in Ids \ {i} : users'[j] = users[j]
<1>1. UNCHANGED secrets
  BY DEF Update, factor
<1>2. CASE users' = users
  BY <1>1, <1>2, UsersUnchanged DEF Shape
<1>3. CASE users' # users
  <2>1. PICK w \in Word : w = at[p].word
    BY Running DEF Update, Is, RequestOK
  <2>2. /\ Live(i) /\ Step(p, "wipe")
        /\ Chosen(i, w) /\ Exists(i)
    BY <1>3, <2>1 DEF Update, AfterUpdate, Chosen, Live
  <2> QED
    BY <1>1, <2>2, PasswordChanges DEF Shape
<1> QED
  BY <1>2, <1>3

LEMMA ClearShape ==
  ASSUME Shape, NEW p \in Proc, Clear(p)
  PROVE  Shape'
<1>1. PICK c, d : c = at[p] /\ d = [c EXCEPT !.era = @ + 1]
  OBVIOUS
<1>2. /\ UNCHANGED <<born, secrets>>
      /\ UNCHANGED <<access, born, rehashes, factor, requests, crashes>>
      /\ (UNCHANGED faults \/ Fault) /\ sessions' \subseteq sessions
      /\ Overtake(p, c.id, "details", d)
  BY <1>1 DEF Clear, NoEffect, factor
<1>3. RequestOK("clear", c) /\ c.id \in Ids /\ c \in CallType
  BY <1>1, Running DEF Clear, Is, NoRow
<1>4. RowsOK' /\ RowsStay
  BY <1>1, <1>3, ClearRow
<1>5. RequestOK("details", c)
  BY <1>3, NextRequest DEF RequestOK, NoRow, Label, Opening
<1>6. c.era \in Nat
  BY <1>3, Fields
<1>7. d \in CallType /\ d.kind = c.kind /\ d.id = c.id /\ d.tok = c.tok /\ d.word = c.word
      /\ d.old = c.old /\ d.on = c.on /\ d.secret = c.secret
  BY <1>1, <1>3, <1>6 DEF CallType
<1>8. RequestOK("details", d)
  BY <1>5, <1>7 DEF RequestOK
<1>9. RequestOK("details", d)'
  BY <1>2, <1>4, <1>8, Onwards, RequestLasts DEF RowsStay, KnownKept
<1> QED
  BY <1>2, <1>3, <1>4, <1>9, ShapeOvertake

LEMMA UpdateShape ==
  ASSUME Shape, NEW p \in Proc, Update(p)
  PROVE  Shape'
<1>1. PICK i \in Ids : i = at[p].id
  BY Running DEF Update, Is, NoRow
<1>2. RowsOK' /\ RowsStay
  BY <1>1, UpdateRow
<1>3. /\ UNCHANGED <<tokens, rehashes, factor, requests, crashes>> /\ (UNCHANGED faults \/ Fault)
      /\ pc[p] \notin NoRow \cup {"open", "drop"} /\ (Done(p) \/ Step(p, "wipe"))
  BY DEF Update, Is, NoRow, AfterUpdate
<1>4. "wipe" \in Label /\ "wipe" \notin NoRow \cup {"restore", "update", "on"}
  BY DEF Label, NoRow
<1> QED
  BY <1>2, <1>3, <1>4, ShapeStepOn

LEMMA WipeShape ==
  ASSUME Shape, NEW p \in Proc, Wipe(p)
  PROVE  Shape'
<1>1. PICK c : c = at[p]
  OBVIOUS
<1>2. /\ UNCHANGED <<users, secrets>>
      /\ UNCHANGED <<access, born, rehashes, factor, requests, crashes>>
      /\ (UNCHANGED faults \/ Fault) /\ sessions' \subseteq sessions
      /\ Overtake(p, c.id, "soft", c) \/ Overtake(p, c.id, "idle", NoCall)
  BY <1>1 DEF Wipe, DeleteAllByUserID, factor
<1>3. RequestOK("wipe", c) /\ c.id \in Ids
  BY <1>1, Running DEF Wipe, Is, NoRow
<1>4. RowsOK' /\ RowsStay
  BY <1>2, UsersUnchanged DEF Shape
<1>5. RequestOK("soft", c)
  BY <1>3, NextRequest DEF RequestOK, NoRow, Label
<1>6. Onward /\ secrets \in Nat /\ secrets' \in Nat /\ born \in Seq(Nat) /\ born' \in Seq(Nat)
  BY <1>2, <1>4, Onwards DEF RowsStay, KnownKept
<1>7. PICK n : n = NoCall
  OBVIOUS
<1>8. RequestOK("soft", c)' /\ RequestOK("idle", n)'
  BY <1>5, <1>6, <1>7, RequestLasts, IdleRequest
<1> QED
  BY <1>2, <1>3, <1>4, <1>7, <1>8, ShapeOvertake

LEMMA SoftRow ==
  ASSUME Shape, NEW p \in Proc, Soft(p), NEW i \in Ids, i = at[p].id
  PROVE  /\ RowsOK' /\ RowsStay /\ WordKept /\ FactorKept /\ EraKept
         /\ \A j \in Ids \ {i} : users'[j] = users[j]
<1>1. UNCHANGED secrets
  BY DEF Soft, factor
<1>2. \/ users' = users
      \/ \E x \in {"pending", "inactive"} :
           Exists(i) /\ users' = [users EXCEPT ![i].del = x]
  BY DEF Soft, Live
<1> QED
  BY <1>1, <1>2, DelChanges, UsersUnchanged DEF Shape

LEMMA SoftShape ==
  ASSUME Shape, NEW p \in Proc, Soft(p)
  PROVE  Shape'
<1>1. PICK i \in Ids : i = at[p].id
  BY Running DEF Soft, Is, NoRow
<1>2. RowsOK' /\ RowsStay
  BY <1>1, SoftRow
<1>3. /\ UNCHANGED <<access, born, rehashes, factor, requests, crashes>>
      /\ (UNCHANGED faults \/ Fault) /\ sessions' \subseteq sessions /\ UNCHANGED <<born, secrets>>
      /\ Overtake(p, i, "idle", NoCall)
  BY <1>1 DEF Soft, NoEffect, factor
<1>4. Onward /\ secrets \in Nat /\ secrets' \in Nat /\ born \in Seq(Nat) /\ born' \in Seq(Nat)
  BY <1>2, <1>3, Onwards DEF RowsStay, KnownKept
<1>5. PICK n : n = NoCall
  OBVIOUS
<1>6. RequestOK("idle", n)'
  BY <1>4, <1>5, IdleRequest
<1> QED
  BY <1>2, <1>3, <1>5, <1>6, ShapeOvertake

LEMMA LapseShape ==
  ASSUME Shape, NEW i \in Ids, Lapse(i)
  PROVE  /\ Shape' /\ RowsStay /\ WordKept /\ FactorKept /\ EraKept
         /\ \A j \in Ids : Exists(j) /\ users'[j].del = "no" <=> Live(j)
<1>1. /\ Exists(i) /\ users[i].del = "pending" /\ users' = [users EXCEPT ![i].del = "lapsed"]
      /\ UNCHANGED <<tokens, rehashes, pc, at, factor, requests, faults, crashes>>
      /\ UNCHANGED <<born, secrets>>
  BY DEF Lapse, factor, tokens
<1>2. /\ RowsOK' /\ RowsStay /\ WordKept /\ FactorKept /\ EraKept
      /\ users'[i].del = "lapsed" /\ \A j \in Ids \ {i} : users'[j] = users[j]
  BY <1>1, DelChanges DEF Shape
<1>3. RequestsOK'
  BY <1>1, <1>2, Onwards, RequestsLast DEF Shape, RowsStay, KnownKept
<1> QED
  BY <1>1, <1>2, <1>3, ShapeStep DEF RowsStay, KnownKept, ExistsKept, Live

LEMMA RehashRow ==
  ASSUME Shape, NEW r \in rehashes, Rehash(r)
  PROVE  /\ RowsOK' /\ RowsStay /\ FactorKept /\ EraKept /\ DelKept
         /\ \/ users' = users
            \/ /\ users'[r.id].word = r.word /\ users'[r.id].latest = users[r.id].latest
               /\ users'[r.id].raced = users[r.id].raced /\ Exists(r.id)
               /\ \A j \in Ids \ {r.id} : users'[j] = users[j]
<1>1. UNCHANGED secrets /\ r.id \in Ids /\ r.word \in Word
  BY DEF Rehash, factor, Shape, RehashesOK
<1>2. \/ users' = users
      \/ Exists(r.id) /\ users' = [users EXCEPT ![r.id].word = r.word, ![r.id].old = FALSE]
  BY DEF Rehash, Live
<1>3. PICK i \in Ids, w \in Word : i = r.id /\ w = r.word
  BY <1>1
<1> QED
  BY <1>1, <1>2, <1>3, HashChanges, UsersUnchanged DEF Shape

LEMMA RehashShape ==
  ASSUME Shape, NEW r \in rehashes, Rehash(r)
  PROVE  Shape'
<1>1. RowsOK' /\ RowsStay
  BY RehashRow
<1>2. /\ rehashes' \subseteq rehashes
      /\ UNCHANGED <<tokens, pc, at, factor, requests, crashes>> /\ (UNCHANGED faults \/ Fault)
  BY DEF Rehash, NoEffect
<1>3. KnownKept /\ UNCHANGED <<born, secrets>> /\ UNCHANGED <<sessions, halfway, access>>
  BY <1>1, <1>2 DEF RowsStay, KnownKept, tokens, factor
<1>4. TokensOK'
  BY <1>1, <1>3, TokensLast DEF Shape, RowsStay, TokensOK, Session
<1>5. RehashesOK' /\ CountsOK'
  BY <1>2, <1>3, RehashesLast, CountsStep DEF Shape
<1>6. RequestsOK'
  BY <1>2, <1>3, Onwards, RequestsLast DEF Shape
<1> QED
  BY <1>1, <1>4, <1>5, <1>6 DEF Shape

(* SetOn and SetOff store the secret that was read.                        *)
SetFactor(p, b) == UpdateMFA(p, at[p].id, b, at[p].secret)

LEMMA SetFactorRow ==
  ASSUME Shape, NEW p \in Proc, UNCHANGED secrets, NEW b \in BOOLEAN,
         pc[p] = (IF b THEN "on" ELSE "off"), SetFactor(p, b), NEW i \in Ids, i = at[p].id
  PROVE  /\ RowsOK' /\ RowsStay /\ WordKept /\ EraKept /\ DelKept
         /\ \/ users' = users
            \/ /\ Live(i) /\ users'[i].mfa = b /\ users'[i].secret = at[p].secret
               /\ \A j \in Ids \ {i} : users'[j] = users[j]
               /\ \A q \in Proc : at[q].id = i => ~at'[q].on \/ b
<1>1. PICK c : c = at[p]
  OBVIOUS
<1>2. RequestOK(pc[p], c) /\ c.secret \in Nat
  BY <1>1, Running, Fields
<1>3. c.secret <= secrets /\ (b => c.secret # 0)
  BY <1>2 DEF RequestOK
<1>4. CASE users' = users
  BY <1>4, UsersUnchanged DEF Shape
<1>5. CASE users' # users
  <2>1. /\ Live(i) /\ Stored(i, b, c.secret)
        /\ at' = [q \in Proc |-> IF q = p THEN NoCall
                                 ELSE IF at[q].id = i /\ ~b THEN [at[q] EXCEPT !.on = FALSE]
                                      ELSE at[q]]
    BY <1>1, <1>5 DEF SetFactor, UpdateMFA, Stored
  <2>2. \A q \in Proc : at[q].id = i => ~at'[q].on \/ b
    <3> SUFFICES ASSUME NEW q \in Proc, at[q].id = i, ~b PROVE ~at'[q].on
      OBVIOUS
    <3>1. CASE q = p
      BY <2>1, <3>1, NoCallType
    <3>2. CASE q # p
      <4>1. PICK d : d = at[q]
        OBVIOUS
      <4>2. d \in CallType
        BY <4>1, Running
      <4>3. at'[q] = [d EXCEPT !.on = FALSE]
        BY <2>1, <3>2, <4>1
      <4> QED
        BY <4>2, <4>3, Unasked
    <3> QED
      BY <3>1, <3>2
  <2>3. Exists(i)
    BY <2>1 DEF Live
  <2>4. /\ RowsOK' /\ RowsStay /\ WordKept /\ EraKept /\ DelKept
        /\ users'[i].mfa = b /\ users'[i].secret = c.secret
        /\ \A j \in Ids \ {i} : users'[j] = users[j]
    BY <1>2, <1>3, <2>1, <2>3, FactorChanges DEF Shape
  <2> QED
    BY <1>1, <2>1, <2>2, <2>4
<1> QED
  BY <1>4, <1>5

(* The other requests keep their calls, but for what they found on.        *)
LEMMA SetFactorCalls ==
  ASSUME Shape, NEW p \in Proc, NEW b, SetFactor(p, b), NEW q \in Proc, q # p
  PROVE  /\ pc'[q] = pc[q]
         /\ at'[q] = at[q] \/ (at[q].id = at[p].id /\ ~b /\ at'[q] = [at[q] EXCEPT !.on = FALSE])
BY DEF SetFactor, UpdateMFA, Shape, RequestsOK

LEMMA SetFactorShape ==
  ASSUME Shape, NEW p \in Proc, SetOn(p) \/ SetOff(p)
  PROVE  Shape'
<1>1. PICK b \in BOOLEAN : SetFactor(p, b) /\ pc[p] = (IF b THEN "on" ELSE "off")
  BY DEF SetOn, SetOff, SetFactor, Is
<1>2. PICK i \in Ids : i = at[p].id /\ pc[p] \notin NoRow
  BY <1>1, Running DEF NoRow
<1>3. /\ UNCHANGED <<tokens, rehashes, factor, requests, crashes>> /\ UNCHANGED <<born, secrets>>
      /\ (UNCHANGED faults \/ Fault)
  BY DEF SetOn, SetOff, UpdateMFA, NoEffect, tokens, factor
<1>4. RowsOK' /\ RowsStay
  BY <1>1, <1>2, <1>3, SetFactorRow
<1>5. KnownKept /\ ExistsKept
  BY <1>4 DEF RowsStay, KnownKept, ExistsKept
<1>6. Onward /\ secrets \in Nat /\ secrets' \in Nat /\ born \in Seq(Nat) /\ born' \in Seq(Nat)
  BY <1>3, <1>5, Onwards
<1>7. RequestsOK'
  <2>1. DOMAIN pc' = Proc /\ DOMAIN at' = Proc
    BY <1>1 DEF SetFactor, UpdateMFA, Shape, RequestsOK
  <2> SUFFICES ASSUME NEW q \in Proc PROVE RequestOK(pc[q], at[q])'
    BY <2>1 DEF RequestsOK
  <2>2. PICK l, c : l = pc'[q] /\ c = at'[q]
    OBVIOUS
  <2>3. RequestOK(l, c)'
    <3>1. CASE q = p
      <4>1. l = "idle" /\ c = NoCall
        BY <1>1, <2>2, <3>1 DEF SetFactor, UpdateMFA, Shape, RequestsOK
      <4>2. PICK n : n = NoCall
        OBVIOUS
      <4>3. RequestOK("idle", n)'
        BY <1>6, <4>2, IdleRequest
      <4> QED
        BY <4>1, <4>2, <4>3
    <3>2. CASE q # p
      <4>1. PICK d : d = at[q]
        OBVIOUS
      <4>2. RequestOK(pc[q], d) /\ l = pc[q]
        BY <1>1, <2>2, <3>2, <4>1, Running, SetFactorCalls
      <4>3. RequestOK(l, c)
        <5>1. CASE c = d
          BY <4>2, <5>1
        <5>2. CASE c # d
          <6>1. d.id \in Ids /\ c = [d EXCEPT !.on = FALSE]
            BY <1>1, <1>2, <2>2, <3>2, <4>1, <5>2, SetFactorCalls
          <6>2. l \notin NoRow
            BY <4>2, <6>1 DEF RequestOK, Ids
          <6> QED
            BY <4>2, <6>1, <6>2, UnaskedRequest
        <5> QED
          BY <5>1, <5>2
      <4> QED
        BY <1>6, <4>3, RequestLasts
    <3> QED
      BY <3>1, <3>2
  <2> QED
    BY <2>2, <2>3 DEF RequestOK, Known
<1> QED
  BY <1>3, <1>4, <1>5, <1>7, ShapeStep

LEMMA PurgeRow ==
  ASSUME Shape, Purge
  PROVE  /\ RowsOK' /\ KnownKept /\ WordKept /\ FactorKept /\ EraKept /\ DelKept
         /\ \A j \in Ids : users'[j] = users[j] \/ (j \in Gone /\ ~Exists(j)')
<1>1. UNCHANGED secrets
  BY DEF Purge, factor
<1>2. \A j \in Ids : users'[j] = IF j \in Gone THEN Erased ELSE users[j]
  BY DEF Purge
<1>3. RowsOK'
  <2>1. users' \in [Ids -> Row \cup {NoUser, Erased}]
    BY DEF Purge, Shape, RowsOK
  <2>2. UsersOK'
    BY <1>1, <1>2 DEF UsersOK, RowOK, Shape, RowsOK
  <2> QED
    BY <2>1, <2>2 DEF RowsOK
<1>4. \A j \in Ids : users'[j] = users[j] \/ (j \in Gone /\ ~Exists(j)')
  BY <1>2 DEF Exists
<1>5. KnownKept
  BY <1>2, AccountAssumption DEF KnownKept
<1> QED
  BY <1>3, <1>4, <1>5 DEF WordKept, FactorKept, EraKept, DelKept, Exists

LEMMA PurgeShape ==
  ASSUME Shape, Purge
  PROVE  Shape'
<1>1. /\ UNCHANGED <<halfway, access, born, rehashes, pc, at, factor, requests, faults, crashes>>
      /\ UNCHANGED <<born, secrets>> /\ sessions' = {s \in sessions : s.id \notin Gone}
  BY DEF Purge, factor
<1>2. /\ RowsOK' /\ KnownKept
      /\ \A j \in Ids : users'[j] = users[j] \/ (j \in Gone /\ ~Exists(j)')
  BY PurgeRow
<1>3. \A s \in sessions' : Exists(s.id) => Exists(s.id)'
  BY <1>1, <1>2 DEF Exists, Shape, TokensOK, Session
<1>4. TokensOK'
  BY <1>1, <1>2, <1>3, TokensLast DEF Shape
<1>5. RehashesOK' /\ CountsOK'
  BY <1>1, <1>2, RehashesStay, CountsStep DEF Shape
<1>6. RequestsOK'
  BY <1>1, <1>2, Onwards, RequestsLast DEF Shape
<1> QED
  BY <1>2, <1>4, <1>5, <1>6 DEF Shape

LEMMA CrashShape ==
  ASSUME Shape, Crash
  PROVE  Shape'
<1>1. /\ UNCHANGED <<users, tokens, factor, requests, faults>> /\ UNCHANGED <<born, secrets>>
      /\ crashes' = crashes + 1 /\ rehashes' = {}
      /\ pc' = [p \in Proc |-> "idle"] /\ at' = [p \in Proc |-> NoCall]
  BY DEF Crash, tokens, factor
<1>2. RowsOK' /\ RowsStay
  BY <1>1, UsersUnchanged DEF Shape
<1>3. KnownKept
  BY <1>2 DEF RowsStay, KnownKept
<1>4. TokensOK' /\ RehashesOK'
  BY <1>1, <1>2, <1>3, TokensLast, RehashesLast DEF Shape, tokens, RowsStay, TokensOK, Session
<1>5. CountsOK'
  BY <1>1 DEF Shape, CountsOK, factor
<1>6. PICK n : n = NoCall
  OBVIOUS
<1>7. RequestOK("idle", n)'
  BY <1>1, <1>3, <1>6, IdleRequest, Onwards
<1>8. RequestsOK'
  BY <1>1, <1>6, <1>7 DEF RequestsOK, RequestOK, Known
<1> QED
  BY <1>2, <1>4, <1>5, <1>8 DEF Shape

LEMMA ShapeNext ==
  ASSUME Shape, [Next]_vars
  PROVE  Shape'
<1>1. ASSUME NEW p \in Proc, Request(p) PROVE Shape'
  BY <1>1, BeginsShape, LogoutShape DEF Request, Begins
<1>2. ASSUME NEW p \in Proc, Continue(p) PROVE Shape'
  BY <1>2, OpenShape, DropShape, CreateShape, RestoreShape, MfaShape, GoogleRestoredShape,
     DismissShape, ClearShape, FlagsShape, SetFactorShape, UpdateShape, WipeShape, SoftShape
     DEF Continue
<1>3. CASE UNCHANGED vars
  BY <1>3 DEF vars, Shape, RowsOK, UsersOK, RowOK, TokensOK, Exists, Known, RehashesOK, CountsOK,
              RequestsOK, RequestOK
<1> QED
  BY <1>1, <1>2, <1>3, RehashShape, TokensExpireShape, LapseShape, PurgeShape, CrashShape DEF Next

LEMMA ShapeInit ==
  ASSUME Init
  PROVE  Shape
<1>1. PICK r \in Start : /\ users = [i \in Ids |-> IF i = 1 THEN r ELSE NoUser]
                         /\ secrets = IF r = NoUser THEN 0 ELSE r.secret
  BY DEF Init
<1>2. r = NoUser \/ (r \in Row /\ (r.mfa => r.secret # 0))
  BY AccountAssumption
<1>3. secrets \in Nat /\ (r = NoUser \/ RowOK(r))
  BY <1>1, <1>2, RowFields DEF RowOK
<1>4. RowsOK
  BY <1>1, <1>2, <1>3 DEF RowsOK, UsersOK
<1>5. born = <<>> /\ born \in Seq(Nat) /\ Len(born) = 0
  BY DEF Init
<1>6. TokensOK
  BY <1>5 DEF Init, TokensOK
<1>7. RehashesOK /\ CountsOK
  BY <1>3 DEF Init, RehashesOK, CountsOK
<1>8. RequestOK("idle", NoCall)
  BY <1>3, <1>5, NoCallType DEF RequestOK, Label, NoRow
<1>9. RequestsOK
  BY <1>8 DEF Init, RequestsOK
<1> QED
  BY <1>4, <1>6, <1>7, <1>9 DEF Shape

LEMMA ShapeTypeOK ==
  ASSUME Shape
  PROVE  TypeOK
BY DEF Shape, TypeOK, RowsOK, TokensOK, RehashesOK, CountsOK, RequestsOK, Session

LEMMA ShapeInvariant == Spec => []Shape
<1>1. Init => Shape
  BY ShapeInit
<1>2. Shape /\ [Next]_vars => Shape'
  BY ShapeNext
<1> QED
  BY <1>1, <1>2, PTL DEF Spec

(* Whatever runs at the same time, fails or crashes, a session belongs to  *)
(* a row that is there (the foreign key of user_sessions) and was born by  *)
(* one createSession, an MFA token is of an account, a rehash holds a      *)
(* password, and a code is shown of a secret that SetupMFA has drawn.      *)
THEOREM TypeCorrect == Spec => []TypeOK
<1>1. Shape => TypeOK
  BY ShapeTypeOK
<1> QED
  BY <1>1, ShapeInvariant, PTL

-------------------------------------------------------------------------------
(* What a step leaves of the requests.                                     *)
Same(c, d) ==
  /\ d \in CallType /\ d.kind = c.kind /\ d.id = c.id /\ d.era = c.era /\ d.tok = c.tok
  /\ d.word = c.word /\ d.old = c.old /\ d.secret = c.secret
  /\ (c.late => d.late) /\ (d.on => c.on)

OthersStay(p) == \A q \in Proc \ {p} : pc'[q] = pc[q] /\ Same(at[q], at'[q])

LEMMA SameSelf ==
  ASSUME NEW c \in CallType
  PROVE  Same(c, c)
BY DEF Same

LEMMA GoOthers ==
  ASSUME Shape, NEW p \in Proc, NEW l, NEW c, Go(p, l, c)
  PROVE  /\ pc'[p] = l /\ at'[p] = c /\ OthersStay(p)
         /\ \A q \in Proc \ {p} : pc'[q] = pc[q] /\ at'[q] = at[q]
<1>1. pc'[p] = l /\ at'[p] = c
  BY DEF Go, Shape, RequestsOK
<1>2. \A q \in Proc \ {p} : pc'[q] = pc[q] /\ at'[q] = at[q]
  BY DEF Go, Shape, RequestsOK
<1>3. OthersStay(p)
  BY <1>2, Running, SameSelf DEF OthersStay
<1> QED
  BY <1>1, <1>2, <1>3

LEMMA OvertakeOthers ==
  ASSUME Shape, NEW p \in Proc, NEW i, NEW l, NEW c, Overtake(p, i, l, c)
  PROVE  /\ pc'[p] = l /\ at'[p] = c /\ OthersStay(p)
         /\ \A q \in Proc \ {p} : at[q].id = i => at'[q].late
         /\ \A q \in Proc \ {p} : at'[q].on = at[q].on
<1>1. pc'[p] = l /\ at'[p] = c
  BY DEF Overtake, Shape, RequestsOK
<1>2. ASSUME NEW q \in Proc \ {p}
      PROVE  /\ pc'[q] = pc[q] /\ Same(at[q], at'[q]) /\ (at[q].id = i => at'[q].late)
             /\ at'[q].on = at[q].on
  <2>1. PICK b, d : b = at[q] /\ d = at'[q]
    OBVIOUS
  <2>2. pc'[q] = pc[q] /\ d = IF b.id = i THEN [b EXCEPT !.late = TRUE] ELSE b
    BY <2>1 DEF Overtake, Shape, RequestsOK
  <2>3. b \in CallType
    BY <2>1, Running
  <2>4. Same(b, d) /\ (b.id = i => d.late) /\ d.on = b.on
    <3>1. CASE b.id = i
      BY <2>2, <2>3, <3>1, Overtaken DEF Same
    <3>2. CASE b.id # i
      BY <2>2, <2>3, <3>2, SameSelf
    <3> QED
      BY <3>1, <3>2
  <2> QED
    BY <2>1, <2>2, <2>4
<1> QED
  BY <1>1, <1>2 DEF OthersStay

LEMMA SetFactorOthers ==
  ASSUME Shape, NEW p \in Proc, NEW b, SetFactor(p, b)
  PROVE  pc'[p] = "idle" /\ at'[p] = NoCall /\ OthersStay(p)
<1>1. pc'[p] = "idle" /\ at'[p] = NoCall
  BY DEF SetFactor, UpdateMFA, Shape, RequestsOK
<1>2. ASSUME NEW q \in Proc \ {p} PROVE pc'[q] = pc[q] /\ Same(at[q], at'[q])
  <2>1. PICK c, d : c = at[q] /\ d = at'[q]
    OBVIOUS
  <2>2. c \in CallType
    BY <2>1, Running
  <2>3. pc'[q] = pc[q] /\ (d = c \/ d = [c EXCEPT !.on = FALSE])
    BY <2>1, SetFactorCalls
  <2>4. Same(c, d)
    BY <2>2, <2>3, SameSelf, Unasked DEF Same
  <2> QED
    BY <2>1, <2>3, <2>4
<1> QED
  BY <1>1, <1>2 DEF OthersStay

(* How a request goes on.                                                  *)
Ends(p) == pc'[p] = "idle" /\ at'[p] = NoCall
Keeps(p) == at'[p] = at[p]

LEMMA ContinueSelf ==
  ASSUME Shape, NEW p \in Proc, Continue(p)
  PROVE  /\ OthersStay(p) /\ pc'[p] # "on"
         /\ \/ Ends(p)
            \/ Keeps(p)
            \/ pc[p] = "clear" /\ at'[p] = [at[p] EXCEPT !.era = @ + 1]
            \/ pc[p] \in {"register", "create"} /\ \E i : at'[p] = [at[p] EXCEPT !.id = i]
<1>1. CASE \E l, c : Go(p, l, c) /\ l # "on" /\ (c = at[p] \/ (l = "idle" /\ c = NoCall))
  BY <1>1, GoOthers DEF Ends, Keeps
<1>2. CASE Open(p) \/ Drop(p) \/ Mfa(p)
  BY <1>1, <1>2 DEF Open, Drop, Mfa, Done, Step
<1>3. CASE Restore(p) \/ GoogleRestored(p)
  <2>1. Restore(p) => Restored[at[p].kind] # "on"
    BY Running DEF Restore, Is, RequestOK, Restored
  <2> QED
    BY <1>1, <1>3, <2>1 DEF Restore, GoogleRestored, Done, Step
<1>4. CASE Details(p) \/ Link(p) \/ Update(p)
  BY <1>1, <1>4 DEF Details, Link, Update, AfterUpdate, Done, Step
<1>5. CASE RegisterCreate(p) \/ GoogleCreate(p)
  <2>1. PICK w, b, l : Create(p, w, b, l) /\ pc[p] \in {"register", "create"} /\ l # "on"
    BY <1>5 DEF RegisterCreate, GoogleCreate, Is
  <2>2. Done(p) \/ Go(p, l, [at[p] EXCEPT !.id = NewId])
    BY <2>1 DEF Create
  <2>3. CASE Done(p)
    BY <1>1, <2>3 DEF Done
  <2>4. CASE Go(p, l, [at[p] EXCEPT !.id = NewId])
    <3>1. PICK i, c : i = NewId /\ c = [at[p] EXCEPT !.id = i]
      OBVIOUS
    <3>2. Go(p, l, c)
      BY <2>4, <3>1
    <3>3. OthersStay(p) /\ at'[p] = c /\ pc'[p] = l
      BY <3>2, GoOthers
    <3> QED
      BY <2>1, <3>1, <3>3
  <2> QED
    BY <2>2, <2>3, <2>4
<1>6. CASE SetOn(p) \/ SetOff(p)
  BY <1>6, SetFactorOthers DEF SetOn, SetOff, SetFactor, Ends
<1>7. PICK c, d, n : c = at[p] /\ d = [c EXCEPT !.era = @ + 1] /\ n = NoCall
  OBVIOUS
<1>8. CASE Clear(p)
  <2>1. Overtake(p, c.id, "details", d) /\ pc[p] = "clear"
    BY <1>7, <1>8 DEF Clear, Is
  <2> QED
    BY <1>7, <2>1, OvertakeOthers
<1>9. CASE Dismiss(p) \/ Wipe(p) \/ Soft(p)
  <2>1. PICK l, i : (Overtake(p, i, l, c) /\ l # "on") \/ Overtake(p, i, "idle", n)
    BY <1>7, <1>9 DEF Dismiss, Wipe, Soft
  <2> QED
    BY <1>7, <2>1, OvertakeOthers DEF Ends, Keeps
<1> QED
  BY <1>2, <1>3, <1>4, <1>5, <1>6, <1>8, <1>9 DEF Continue

-------------------------------------------------------------------------------
(* Passwords.                                                              *)
OldKept ==
  \A q \in Proc : at'[q].old =>
    at[q].old /\ at'[q].id = at[q].id /\ at'[q].word = at[q].word

LEMMA ContinueOld ==
  ASSUME Shape, NEW p \in Proc, Continue(p)
  PROVE  OldKept
<1> SUFFICES ASSUME NEW q \in Proc, at'[q].old
             PROVE  at[q].old /\ at'[q].id = at[q].id /\ at'[q].word = at[q].word
  BY DEF OldKept
<1>1. CASE q # p
  <2>1. Same(at[q], at'[q])
    BY <1>1, ContinueSelf DEF OthersStay
  <2> QED
    BY <2>1 DEF Same
<1>2. CASE q = p
  <2>1. PICK c, d : c = at[p] /\ d = at'[p]
    OBVIOUS
  <2>2. c \in CallType /\ RequestOK(pc[p], c)
    BY <2>1, Running
  <2>3. CASE Ends(p)
    BY <1>2, <2>3, NoCallType DEF Ends
  <2>4. CASE Keeps(p)
    BY <1>2, <2>4 DEF Keeps
  <2>5. CASE d = [c EXCEPT !.era = @ + 1]
    BY <1>2, <2>1, <2>2, <2>5 DEF CallType
  <2>6. CASE pc[p] \in {"register", "create"} /\ \E i : d = [c EXCEPT !.id = i]
    <3>1. ~c.old
      BY <2>2, <2>6 DEF RequestOK, NoRow
    <3>2. ~d.old
      BY <2>2, <2>6, <3>1 DEF CallType
    <3> QED
      BY <1>2, <2>1, <3>2
  <2> QED
    BY <2>1, <2>3, <2>4, <2>5, <2>6, ContinueSelf
<1> QED
  BY <1>1, <1>2

LEMMA SameCalls ==
  ASSUME Shape, UNCHANGED at
  PROVE  OldKept
BY DEF OldKept

LEMMA HolderIds ==
  ASSUME Shape
  PROVE  /\ \A r \in rehashes : r.id \in Ids /\ users[r.id] # NoUser
         /\ \A q \in Proc : at[q].old => at[q].id \in Ids /\ users[at[q].id] # NoUser
BY Running DEF Shape, RehashesOK, Known, RequestsOK, RequestOK

(* A step that leaves the passwords.                                       *)
LEMMA WordStep ==
  ASSUME Shape, WordInv, WordKept, OldKept, rehashes' \subseteq rehashes
  PROVE  WordInv'
<1>1. ASSUME NEW i \in Ids, NEW w, Holds(i, w) PROVE Holds(i, w)'
  BY <1>1 DEF Holds, WordKept
<1>2. LatestPassword'
  BY DEF LatestPassword, WordInv, WordKept
<1>3. ASSUME NEW r \in rehashes' PROVE Holds(r.id, r.word)'
  <2>1. r \in rehashes /\ r.id \in Ids /\ Holds(r.id, r.word)
    BY HolderIds DEF WordInv
  <2> QED
    BY <1>1, <2>1
<1>4. ASSUME NEW q \in Proc, at'[q].old PROVE Holds(at[q].id, at[q].word)'
  <2>1. PICK i, w : i = at'[q].id /\ w = at'[q].word
    OBVIOUS
  <2>2. i \in Ids /\ Holds(i, w)
    BY <1>4, <2>1, HolderIds DEF OldKept, WordInv
  <2>3. Holds(i, w)'
    BY <1>1, <2>2
  <2> QED
    BY <2>1, <2>3 DEF Holds, Exists
<1> QED
  BY <1>2, <1>3, <1>4 DEF WordInv

(* Another row has no holder of its password before it is made.            *)
LEMMA CreateWord ==
  ASSUME Shape, WordInv, NEW p \in Proc, RegisterCreate(p) \/ GoogleCreate(p)
  PROVE  WordInv'
<1>1. OldKept
  BY ContinueOld DEF Continue
<1>2. UNCHANGED <<rehashes, secrets>>
  BY DEF RegisterCreate, GoogleCreate, Create, factor
<1>3. CASE UNCHANGED users
  BY <1>1, <1>2, <1>3, UsersUnchanged, WordStep DEF Shape
<1>4. CASE ~UNCHANGED users
  <2>1. PICK w \in Word \cup {NoWord}, b \in BOOLEAN : \E l : Create(p, w, b, l)
    <3>1. CASE RegisterCreate(p)
      BY <3>1, Running DEF RegisterCreate, Is, RequestOK
    <3>2. CASE GoogleCreate(p)
      BY <3>2 DEF GoogleCreate
    <3> QED
      BY <3>1, <3>2
  <2>2. PICK i \in Ids :
          /\ users[i] = NoUser /\ users'[i].word = users'[i].latest
          /\ \A j \in Ids \ {i} : users'[j] = users[j]
    BY <1>2, <1>4, <2>1, CreateRow DEF Create
  <2>3. LatestPassword'
    BY <2>2 DEF LatestPassword, WordInv, Exists
  <2>4. ASSUME NEW j \in Ids, j # i, NEW v, Holds(j, v) PROVE Holds(j, v)'
    BY <2>2, <2>4 DEF Holds, Exists
  <2>5. ASSUME NEW r \in rehashes' PROVE Holds(r.id, r.word)'
    <3>1. r \in rehashes /\ r.id \in Ids /\ r.id # i /\ Holds(r.id, r.word)
      BY <1>2, <2>2, HolderIds DEF WordInv
    <3> QED
      BY <2>4, <3>1
  <2>6. ASSUME NEW q \in Proc, at'[q].old PROVE Holds(at[q].id, at[q].word)'
    <3>1. PICK j, v : j = at'[q].id /\ v = at'[q].word
      OBVIOUS
    <3>2. j \in Ids /\ j # i /\ Holds(j, v)
      BY <1>1, <2>2, <2>6, <3>1, HolderIds DEF OldKept, WordInv
    <3>3. Holds(j, v)'
      BY <2>4, <3>2
    <3> QED
      BY <3>1, <3>3 DEF Holds, Exists
  <2> QED
    BY <2>3, <2>5, <2>6 DEF WordInv
<1> QED
  BY <1>3, <1>4

(* The goroutine holds the password that was chosen last, or is told of.   *)
LEMMA RehashWord ==
  ASSUME Shape, WordInv, NEW r \in rehashes, Rehash(r)
  PROVE  WordInv'
<1>1. OldKept /\ rehashes' \subseteq rehashes /\ UNCHANGED secrets
  BY SameCalls DEF Rehash, factor
<1>2. CASE users' = users
  BY <1>1, <1>2, UsersUnchanged, WordStep DEF Shape
<1>3. CASE users' # users
  <2>1. /\ r.id \in Ids /\ Holds(r.id, r.word)
        /\ users'[r.id].word = r.word /\ users'[r.id].latest = users[r.id].latest
        /\ users'[r.id].raced = users[r.id].raced /\ Exists(r.id)
        /\ \A j \in Ids \ {r.id} : users'[j] = users[j]
    BY <1>3, RehashRow, HolderIds DEF WordInv
  <2>2. LatestPassword'
    BY <2>1 DEF LatestPassword, WordInv, Holds, Exists
  <2>3. ASSUME NEW j \in Ids, NEW v, Holds(j, v) PROVE Holds(j, v)'
    BY <2>1, <2>3 DEF Holds, Exists
  <2>4. ASSUME NEW x \in rehashes' PROVE Holds(x.id, x.word)'
    <3>1. x \in rehashes /\ x.id \in Ids /\ Holds(x.id, x.word)
      BY <1>1, HolderIds DEF WordInv
    <3> QED
      BY <2>3, <3>1
  <2>5. ASSUME NEW q \in Proc, at'[q].old PROVE Holds(at[q].id, at[q].word)'
    <3>1. PICK j, v : j = at'[q].id /\ v = at'[q].word
      OBVIOUS
    <3>2. j \in Ids /\ Holds(j, v)
      BY <1>1, <2>5, <3>1, HolderIds DEF OldKept, WordInv
    <3>3. Holds(j, v)'
      BY <2>3, <3>2
    <3> QED
      BY <3>1, <3>3 DEF Holds, Exists
  <2> QED
    BY <2>2, <2>4, <2>5 DEF WordInv
<1> QED
  BY <1>2, <1>3

(* A new password: who holds another one is remembered by the row.         *)
LEMMA ChosenWord ==
  ASSUME Shape, WordInv, NEW p \in Proc, Clear(p) \/ Update(p)
  PROVE  WordInv'
<1>1. OldKept /\ UNCHANGED <<rehashes, secrets>>
  BY ContinueOld DEF Continue, Clear, Update, factor
<1>2. PICK i \in Ids : i = at[p].id
  BY Running DEF Clear, Update, Is, NoRow
<1>3. CASE users' = users
  BY <1>1, <1>3, UsersUnchanged, WordStep DEF Shape
<1>4. CASE users' # users
  <2>1. /\ users'[i].word = users'[i].latest /\ Exists(i)
        /\ (users[i].raced \/ Raced(i, users'[i].latest) => users'[i].raced)
        /\ \A j \in Ids \ {i} : users'[j] = users[j]
    BY <1>2, <1>4, ClearRow, UpdateRow DEF Live
  <2>2. LatestPassword'
    BY <2>1 DEF LatestPassword, WordInv, Exists
  <2>3. ASSUME NEW j \in Ids, NEW v, Holds(j, v), j # i \/ v = users'[i].latest \/ users'[i].raced
        PROVE  Holds(j, v)'
    BY <2>1, <2>3 DEF Holds, Exists
  <2>4. ASSUME NEW r \in rehashes' PROVE Holds(r.id, r.word)'
    <3>1. r \in rehashes /\ r.id \in Ids /\ Holds(r.id, r.word)
      BY <1>1, HolderIds DEF WordInv
    <3>2. r.id # i \/ r.word = users'[i].latest \/ users'[i].raced
      BY <2>1, <3>1 DEF Raced
    <3> QED
      BY <2>3, <3>1, <3>2
  <2>5. ASSUME NEW q \in Proc, at'[q].old PROVE Holds(at[q].id, at[q].word)'
    <3>1. PICK j, v : j = at'[q].id /\ v = at'[q].word
      OBVIOUS
    <3>2. at[q].old /\ j = at[q].id /\ v = at[q].word
      BY <1>1, <2>5, <3>1 DEF OldKept
    <3>3. j \in Ids /\ Holds(j, v) /\ (j # i \/ users'[i].raced)
      BY <2>1, <3>2, HolderIds DEF WordInv, Raced
    <3>4. Holds(j, v)'
      BY <2>3, <3>3
    <3> QED
      BY <3>1, <3>4 DEF Holds, Exists
  <2> QED
    BY <2>2, <2>4, <2>5 DEF WordInv
<1> QED
  BY <1>3, <1>4

(* Login hands its password to a goroutine.                                *)
LEMMA MfaWord ==
  ASSUME Shape, WordInv, NEW p \in Proc, Mfa(p)
  PROVE  WordInv'
<1>1. OldKept /\ UNCHANGED <<users, secrets>>
  BY ContinueOld DEF Continue, Mfa, factor
<1>2. PICK c : c = at[p]
  OBVIOUS
<1>3. rehashes' \subseteq rehashes
      \/ (c.old /\ rehashes' = rehashes \cup {[id |-> c.id, word |-> c.word]})
  BY <1>2 DEF Mfa
<1>4. \A r \in rehashes' : Holds(r.id, r.word)
  BY <1>2, <1>3 DEF WordInv
<1>5. LatestPassword'
  BY <1>1 DEF LatestPassword, WordInv, Exists
<1>6. \A r \in rehashes' : Holds(r.id, r.word)'
  BY <1>1, <1>4 DEF Holds, Exists
<1>7. \A q \in Proc : at'[q].old => Holds(at[q].id, at[q].word)'
  BY <1>1 DEF Holds, Exists, OldKept, WordInv
<1> QED
  BY <1>5, <1>6, <1>7 DEF WordInv

LEMMA BeginsUsers ==
  ASSUME Shape, NEW p \in Proc, Begins(p)
  PROVE  /\ RowsStay /\ WordKept /\ FactorKept /\ EraKept /\ DelKept
         /\ UNCHANGED <<sessions, halfway, born, rehashes, faults, crashes>>
<1>1. UNCHANGED <<sessions, halfway, born, rehashes, faults, crashes>>
  BY DEF Begins, Refresh, Register, Login, VerifyEmail, Google, MfaLogin, SetupMFA, EnableMFA,
         DisableMFA, ChangePassword, ResetPassword, DeleteMe, DeleteUser, tokens
<1>2. CASE VerifyEmail(p)
  <2>1. PICK i \in Ids : Exists(i) /\ users' = [users EXCEPT ![i].verified = TRUE]
    BY <1>2 DEF VerifyEmail, FindByEmail, Live
  <2>2. UNCHANGED secrets
    BY <1>2 DEF VerifyEmail, factor
  <2> QED
    BY <1>1, <2>1, <2>2, VerifiedChanges DEF Shape
<1>3. CASE ~VerifyEmail(p)
  <2>1. UNCHANGED users
    BY <1>3 DEF Begins, Refresh, Register, Login, Google, MfaLogin, SetupMFA, EnableMFA,
                DisableMFA, ChangePassword, ResetPassword, DeleteMe, DeleteUser
  <2> QED
    BY <1>1, <2>1 DEF RowsStay, WordKept, FactorKept, EraKept, DelKept, Exists
<1> QED
  BY <1>2, <1>3

LEMMA BeginsWord ==
  ASSUME Shape, WordInv, NEW p \in Proc, Begins(p)
  PROVE  WordInv'
<1>1. WordKept /\ UNCHANGED rehashes
  BY BeginsUsers
<1>2. PICK l, c : Go(p, l, c) /\ Arrived(l, c)
  BY RequestReads
<1>3. /\ at'[p] = c
      /\ \A q \in Proc \ {p} : pc'[q] = pc[q] /\ at'[q] = at[q]
  BY <1>2, GoOthers
<1>4. c.old => c.id \in Ids /\ Holds(c.id, c.word)
  BY <1>2 DEF Arrived, ReadNoRow, ReadSession, ReadHalfway, ReadRow, WordInv, LatestPassword, Holds
<1>5. ASSUME NEW i \in Ids, NEW w, Holds(i, w) PROVE Holds(i, w)'
  BY <1>1, <1>5 DEF Holds, WordKept
<1>6. LatestPassword'
  BY <1>1 DEF LatestPassword, WordInv, WordKept
<1>7. ASSUME NEW r \in rehashes' PROVE Holds(r.id, r.word)'
  BY <1>1, <1>5, HolderIds DEF WordInv
<1>8. ASSUME NEW q \in Proc, at'[q].old PROVE Holds(at[q].id, at[q].word)'
  <2>1. PICK i, w : i = at'[q].id /\ w = at'[q].word
    OBVIOUS
  <2>2. i \in Ids /\ Holds(i, w)
    BY <1>3, <1>4, <1>8, <2>1, HolderIds DEF WordInv
  <2>3. Holds(i, w)'
    BY <1>5, <2>2
  <2> QED
    BY <2>1, <2>3 DEF Holds, Exists
<1> QED
  BY <1>6, <1>7, <1>8 DEF WordInv

LEMMA SetWord ==
  ASSUME Shape, NEW p \in Proc, SetOn(p) \/ SetOff(p)
  PROVE  WordKept /\ EraKept /\ DelKept
<1>1. PICK b \in BOOLEAN : SetFactor(p, b) /\ pc[p] = (IF b THEN "on" ELSE "off")
  BY DEF SetOn, SetOff, SetFactor, Is
<1>2. PICK i \in Ids : i = at[p].id
  BY <1>1, Running DEF NoRow
<1>3. UNCHANGED secrets
  BY DEF SetOn, SetOff, factor
<1> QED
  BY <1>1, <1>2, <1>3, SetFactorRow

LEMMA WordNext ==
  ASSUME Shape, WordInv, [Next]_vars
  PROVE  WordInv'
<1>1. CASE UNCHANGED users /\ UNCHANGED rehashes /\ UNCHANGED at
  BY <1>1, WordStep, SameCalls DEF WordKept, Exists
<1>2. ASSUME NEW p \in Proc, Request(p) PROVE WordInv'
  BY <1>1, <1>2, BeginsWord DEF Request, Begins, Logout
<1>3. ASSUME NEW p \in Proc, Continue(p) PROVE WordInv'
  <2>1. CASE RegisterCreate(p) \/ GoogleCreate(p) \/ Mfa(p) \/ Clear(p) \/ Update(p)
    BY <2>1, CreateWord, MfaWord, ChosenWord
  <2>2. CASE ~(RegisterCreate(p) \/ GoogleCreate(p) \/ Mfa(p) \/ Clear(p) \/ Update(p))
    <3>1. OldKept
      BY <1>3, ContinueOld
    <3>2. UNCHANGED rehashes
      BY <1>3, <2>2 DEF Continue, Open, Drop, Restore, GoogleRestored, Dismiss, Details, Link,
                        SetOn, SetOff, Wipe, Soft
    <3>3. WordKept
      <4>1. CASE Open(p) \/ Drop(p) \/ GoogleRestored(p) \/ Dismiss(p) \/ Wipe(p)
        BY <4>1 DEF Open, Drop, GoogleRestored, Dismiss, Wipe, WordKept, Exists
      <4>2. CASE Restore(p) \/ Details(p) \/ Link(p)
        BY <4>2, RestoreRow, FlagsRow
      <4>3. CASE Soft(p)
        BY <4>3, SoftRow, Running DEF Soft, Is, NoRow
      <4>4. CASE SetOn(p) \/ SetOff(p)
        BY <4>4, SetWord
      <4> QED
        BY <1>3, <2>2, <4>1, <4>2, <4>3, <4>4 DEF Continue
    <3> QED
      BY <3>1, <3>2, <3>3, WordStep
  <2> QED
    BY <2>1, <2>2
<1>4. CASE TokensExpire \/ UNCHANGED vars
  BY <1>1, <1>4 DEF TokensExpire, vars
<1>5. ASSUME NEW i \in Ids, Lapse(i) PROVE WordInv'
  BY <1>5, LapseShape, WordStep, SameCalls DEF Lapse
<1>6. CASE Purge
  BY <1>6, PurgeRow, WordStep, SameCalls DEF Purge
<1>7. CASE Crash
  <2>1. OldKept
    BY <1>7, NoCallType DEF Crash, OldKept
  <2> QED
    BY <1>7, <2>1, WordStep DEF Crash, WordKept, Exists
<1> QED
  BY <1>2, <1>3, <1>4, <1>5, <1>6, <1>7, RehashWord DEF Next

LEMMA WordInit ==
  ASSUME Init
  PROVE  WordInv
<1>1. PICK r \in Start : users = [i \in Ids |-> IF i = 1 THEN r ELSE NoUser]
  BY DEF Init
<1>2. LatestPassword
  BY <1>1, AccountAssumption DEF LatestPassword, Exists
<1>3. rehashes = {} /\ \A p \in Proc : ~at[p].old
  BY NoCallType DEF Init
<1> QED
  BY <1>2, <1>3 DEF WordInv

-------------------------------------------------------------------------------
(* The second factor.                                                      *)
LiveKept == \A j \in Ids : Live(j) => Live(j)'
MfaKept == \A j \in Ids : Exists(j)' => Exists(j) /\ (users[j].mfa => users'[j].mfa)

LEMMA DelLive ==
  ASSUME RowsStay, DelKept
  PROVE  LiveKept
BY DEF RowsStay, DelKept, LiveKept, Live

(* A call that was not touched, or overtaken, or unasked.                  *)
LEMMA FactorCallLasts ==
  ASSUME NEW l, NEW c, NEW d, Same(c, d), FactorCall(l, c), faults \in Nat, faults' \in Nat,
         proved \subseteq proved', faults <= faults', d.on => d.id \in Ids,
         d.on => (Exists(d.id)' => Exists(d.id) /\ (users[d.id].mfa => users'[d.id].mfa)),
         d.on => (Live(d.id) => Live(d.id)') \/ d.late
  PROVE  FactorCall(l, d)'
<1>1. d.kind = c.kind /\ d.id = c.id /\ d.secret = c.secret /\ (c.late => d.late) /\ (d.on => c.on)
  BY DEF Same
<1>2. l = "on" => d.secret \in proved'
  BY <1>1 DEF FactorCall
<1>3. ASSUME d.on
      PROVE  /\ d.kind = "login" /\ l \in {"restore", "mfa", "open"}
             /\ l = "restore" /\ Exists(d.id)' => users'[d.id].mfa
             /\ l = "mfa" => SecondFactor(d.id)' \/ Asked(d)'
             /\ l = "open" => Asked(d)'
  <2>1. d.kind = "login" /\ l \in {"restore", "mfa", "open"}
    BY <1>1, <1>3 DEF FactorCall
  <2>2. l = "restore" /\ Exists(d.id)' => users'[d.id].mfa
    BY <1>1, <1>3 DEF FactorCall
  <2>3. Asked(c) => Asked(d)'
    BY <1>1 DEF Asked
  <2>4. SecondFactor(d.id) => SecondFactor(d.id)' \/ d.late
    BY <1>3 DEF SecondFactor, Live
  <2>5. l = "mfa" => SecondFactor(d.id)' \/ Asked(d)'
    BY <1>1, <1>3, <2>3, <2>4 DEF FactorCall, Asked
  <2>6. l = "open" => Asked(d)'
    BY <1>1, <1>3, <2>3 DEF FactorCall
  <2> QED
    BY <2>1, <2>2, <2>5, <2>6
<1> QED
  BY <1>2, <1>3 DEF FactorCall

LEMMA FaultsGrow ==
  ASSUME Shape, UNCHANGED faults \/ Fault
  PROVE  faults \in Nat /\ faults' \in Nat /\ faults <= faults'
BY DEF Shape, CountsOK, Fault

(* A step of one request.                                                  *)
LEMMA FactorStep ==
  ASSUME Shape, FactorInv, NEW p \in Proc, OthersStay(p), proved \subseteq proved',
         UNCHANGED faults \/ Fault, NEW l, NEW c, l = pc'[p], c = at'[p], FactorCall(l, c)',
         SecondFactorAsked', EnabledWasProved',
         \A q \in Proc \ {p}, j \in Ids :
           at'[q].on /\ at[q].id = j => (Live(j) => Live(j)') \/ at'[q].late,
         \A q \in Proc \ {p}, j \in Ids : at'[q].on /\ at[q].id = j =>
           (Exists(j)' => Exists(j) /\ (users[j].mfa => users'[j].mfa))
  PROVE  FactorInv'
<1> SUFFICES ASSUME NEW q \in Proc PROVE FactorCall(pc[q], at[q])'
  BY DEF FactorInv, FactorHolds
<1>1. CASE q = p
  BY <1>1 DEF FactorCall, SecondFactor, Live, Exists, Asked
<1>2. CASE q # p
  <2>1. PICK k, b, d : k = pc[q] /\ b = at[q] /\ d = at'[q]
    OBVIOUS
  <2>2. Same(b, d) /\ pc'[q] = k /\ FactorCall(k, b) /\ RequestOK(k, b)
    BY <1>2, <2>1, Running DEF OthersStay, FactorInv
  <2>3. d.id = b.id /\ (d.on => b.on) /\ (b.on => b.id \in Ids)
    BY <2>2 DEF Same, RequestOK, Known
  <2>4. d.on => (Exists(d.id)' => Exists(d.id) /\ (users[d.id].mfa => users'[d.id].mfa))
    BY <1>2, <2>1, <2>3
  <2>5. d.on => (Live(d.id) => Live(d.id)') \/ d.late
    BY <1>2, <2>1, <2>3
  <2>6. FactorCall(k, d)'
    BY <2>2, <2>3, <2>4, <2>5, FaultsGrow, FactorCallLasts
  <2> QED
    BY <2>1, <2>2, <2>6 DEF FactorCall, SecondFactor, Live, Exists, Asked
<1> QED
  BY <1>1, <1>2

(* Sessions are only ended, and the secrets stay where they are.           *)
LEMMA AskedLasts ==
  ASSUME Shape, FactorInv, sessions' \subseteq sessions, UNCHANGED faults \/ Fault
  PROVE  SecondFactorAsked'
BY FaultsGrow DEF SecondFactorAsked, FactorInv, FactorHolds

LEMMA EnabledLasts ==
  ASSUME FactorInv, FactorKept, proved \subseteq proved'
  PROVE  EnabledWasProved'
BY DEF EnabledWasProved, FactorInv, FactorHolds, FactorKept

(* A step of a request that leaves the factors, and the live rows alive.   *)
LEMMA CalmFactor ==
  ASSUME Shape, FactorInv, NEW p \in Proc, OthersStay(p), FactorKept, LiveKept,
         proved \subseteq proved', UNCHANGED faults \/ Fault, SecondFactorAsked',
         NEW l, NEW c, l = pc'[p], c = at'[p], FactorCall(l, c)'
  PROVE  FactorInv'
<1>1. EnabledWasProved'
  BY EnabledLasts
<1>3. \A q \in Proc \ {p}, j \in Ids :
        at'[q].on /\ at[q].id = j => (Live(j) => Live(j)') \/ at'[q].late
  BY DEF LiveKept
<1>4. \A q \in Proc \ {p}, j \in Ids : at'[q].on /\ at[q].id = j =>
        (Exists(j)' => Exists(j) /\ (users[j].mfa => users'[j].mfa))
  BY DEF FactorKept
<1> QED
  BY <1>1, <1>3, <1>4, FactorStep

LEMMA BeginsFactor ==
  ASSUME Shape, FactorInv, NEW p \in Proc, Begins(p)
  PROVE  FactorInv'
<1>1. PICK l, c : Go(p, l, c) /\ Arrived(l, c)
  BY RequestReads
<1>2. l = pc'[p] /\ c = at'[p] /\ OthersStay(p)
  BY <1>1, GoOthers
<1>3. /\ FactorKept /\ DelKept /\ RowsStay /\ UNCHANGED <<sessions, faults>>
  BY BeginsUsers
<1>4. LiveKept
  BY <1>3, DelLive
<1>5. proved \subseteq proved'
  BY DEF Begins, Refresh, Register, Login, VerifyEmail, Google, MfaLogin, SetupMFA, EnableMFA,
         DisableMFA, ChangePassword, ResetPassword, DeleteMe, DeleteUser, factor
<1>6. SecondFactorAsked'
  BY <1>3, AskedLasts
<1>7. FactorCall(l, c)'
  <2>1. CASE c.on
    <3>1. ReadRow(l, c)
      BY <1>1, <2>1 DEF Arrived, ReadNoRow, ReadSession, ReadHalfway
    <3>2. c.id \in Ids /\ Exists(c.id)' /\ users'[c.id].mfa
      BY <1>3, <2>1, <3>1 DEF ReadRow, FactorKept, RowsStay
    <3>3. l = "mfa" => Live(c.id)'
      BY <1>4, <3>1, <2>1 DEF ReadRow, Opening, LiveKept
    <3> QED
      BY <2>1, <3>1, <3>2, <3>3 DEF ReadRow, FactorCall, SecondFactor
  <2>2. CASE ~c.on
    BY <1>1, <2>2 DEF Arrived, ReadNoRow, ReadSession, ReadHalfway, ReadRow, FactorCall
  <2> QED
    BY <2>1, <2>2
<1> QED
  BY <1>2, <1>3, <1>4, <1>5, <1>6, <1>7, CalmFactor

(* A login leaves the steps at which the factor matters only by asking.    *)
LEMMA ContinueUnasked ==
  ASSUME Shape, FactorInv, NEW p \in Proc, Continue(p), ~Restore(p), ~Mfa(p),
         NEW l, NEW c, l = pc'[p], c = at'[p]
  PROVE  FactorCall(l, c)'
<1>1. l # "on"
  BY ContinueSelf
<1>2. ~c.on
  <2>1. CASE Open(p)
    <3>1. c = NoCall
      BY <2>1, GoOthers DEF Open, Done
    <3> QED
      BY <3>1, NoCallType
  <2>2. CASE ~Open(p)
    <3>1. PICK b : b = at[p]
      OBVIOUS
    <3>2. b \in CallType /\ FactorCall(pc[p], b)
      BY <3>1, Running DEF FactorInv
    <3>3. pc[p] \notin {"restore", "mfa", "open"}
      BY <2>2 DEF Continue, Is, Drop, RegisterCreate, GoogleCreate, GoogleRestored, Dismiss, Clear,
                  Details, Link, SetOn, SetOff, Update, Wipe, Soft
    <3>4. ~b.on
      BY <3>2, <3>3 DEF FactorCall
    <3>5. \/ c = NoCall \/ c = b \/ c = [b EXCEPT !.era = @ + 1] \/ \E i : c = [b EXCEPT !.id = i]
      BY <3>1, ContinueSelf DEF Ends, Keeps
    <3>6. [b EXCEPT !.era = @ + 1].on = b.on /\ \A i : [b EXCEPT !.id = i].on = b.on
      BY <3>2 DEF CallType
    <3> QED
      BY <3>4, <3>5, <3>6, NoCallType
  <2> QED
    BY <2>1, <2>2
<1> QED
  BY <1>1, <1>2 DEF FactorCall

LEMMA OpenFactor ==
  ASSUME Shape, FactorInv, NEW p \in Proc, Open(p)
  PROVE  FactorInv'
<1>1. PICK l, c : l = pc'[p] /\ c = at'[p]
  OBVIOUS
<1>2. FactorCall(l, c)'
  BY <1>1, ContinueUnasked DEF Continue, Open, Restore, Mfa, Is
<1>3. OthersStay(p)
  BY ContinueSelf DEF Continue
<1>4. UNCHANGED <<users, proved>> /\ (UNCHANGED faults \/ Fault)
  BY DEF Open, NoEffect, factor
<1>5. FactorKept /\ LiveKept
  BY <1>4 DEF FactorKept, LiveKept, Live, Exists
<1>6. SecondFactorAsked'
  <2>1. PICK b : b = at[p]
    OBVIOUS
  <2>2. FactorCall("open", b) /\ b \in CallType
    BY <2>1, Running DEF FactorInv, Open, Is
  <2>3. PICK x : x = [tok |-> Len(born) + 1, id |-> b.id, era |-> b.era, on |-> b.on,
                      late |-> b.late \/ Closing(b.id), linked |-> b.kind = "linked"]
    OBVIOUS
  <2>4. sessions' \subseteq sessions \cup {x}
    BY <2>1, <2>3 DEF Open
  <2>5. x.on => x.late \/ faults > 0
    BY <2>2, <2>3 DEF FactorCall, Asked
  <2> QED
    BY <1>4, <2>4, <2>5, FaultsGrow DEF SecondFactorAsked, FactorInv, FactorHolds
<1> QED
  BY <1>1, <1>2, <1>3, <1>4, <1>5, <1>6, CalmFactor

LEMMA MfaFactor ==
  ASSUME Shape, FactorInv, NEW p \in Proc, Mfa(p)
  PROVE  FactorInv'
<1>1. OthersStay(p)
  BY ContinueSelf DEF Continue
<1>2. UNCHANGED <<users, proved, sessions>> /\ (UNCHANGED faults \/ Fault)
  BY DEF Mfa, NoEffect, factor
<1>3. FactorKept /\ LiveKept
  BY <1>2 DEF FactorKept, LiveKept, Live, Exists
<1>4. SecondFactorAsked'
  BY <1>2, AskedLasts
<1>5. PICK l, b, c : l = pc'[p] /\ c = at'[p] /\ b = at[p]
  OBVIOUS
<1>6. FactorCall("mfa", b) /\ b \in CallType
  BY <1>5, Running DEF FactorInv, Mfa, Is
<1>7. FactorCall(l, c)'
  <2>1. CASE Done(p)
    <3>1. l # "on" /\ c = NoCall
      BY <1>5, <2>1, GoOthers DEF Done
    <3> QED
      BY <3>1, NoCallType DEF FactorCall
  <2>2. CASE ~Done(p)
    <3>1. Step(p, "open") /\ ((~SecondFactor(b.id) /\ UNCHANGED faults) \/ Fault)
      BY <1>5, <2>2 DEF Mfa, NoEffect
    <3>2. l = "open" /\ c = b
      BY <1>5, <3>1, GoOthers DEF Step
    <3>3. b.on => b.kind = "login" /\ Asked(b)'
      BY <1>6, <3>1 DEF FactorCall, Asked, Fault, Shape, CountsOK
    <3> QED
      BY <3>2, <3>3 DEF FactorCall
  <2> QED
    BY <2>1, <2>2
<1> QED
  BY <1>1, <1>2, <1>3, <1>4, <1>5, <1>7, CalmFactor

LEMMA RestoreFactor ==
  ASSUME Shape, FactorInv, NEW p \in Proc, Restore(p)
  PROVE  FactorInv'
<1>1. OthersStay(p)
  BY ContinueSelf DEF Continue
<1>2. UNCHANGED <<proved, sessions>> /\ (UNCHANGED faults \/ Fault)
  BY DEF Restore, NoEffect, tokens, factor
<1>3. FactorKept /\ LiveKept
  BY RestoreRow DEF RowsStay, LiveKept, Live
<1>4. SecondFactorAsked'
  BY <1>2, AskedLasts
<1>5. PICK l, b, c : l = pc'[p] /\ c = at'[p] /\ b = at[p]
  OBVIOUS
<1>6. FactorCall("restore", b) /\ b \in CallType /\ b.id \in Ids /\ b.kind \in {"login", "google"}
  BY <1>5, Running DEF FactorInv, Restore, Is, NoRow, RequestOK
<1>7. FactorCall(l, c)'
  <2>1. CASE Done(p)
    <3>1. l # "on" /\ c = NoCall
      BY <1>5, <2>1, GoOthers DEF Done
    <3> QED
      BY <3>1, NoCallType DEF FactorCall
  <2>2. CASE ~Done(p)
    <3>1. /\ Exists(b.id) /\ users' = [users EXCEPT ![b.id].del = "no"]
          /\ Step(p, Restored[b.kind]) /\ UNCHANGED secrets
      BY <1>5, <2>2 DEF Restore, factor
    <3>2. l = Restored[b.kind] /\ c = b
      BY <1>5, <3>1, GoOthers DEF Step
    <3>3. /\ users'[b.id].del = "no" /\ Exists(b.id)' /\ users'[b.id].mfa = users[b.id].mfa
      BY <1>6, <3>1, DelChanges DEF Shape, RowsStay, FactorKept
    <3>4. b.on => b.kind = "login" /\ users'[b.id].mfa
      BY <1>6, <3>1, <3>3 DEF FactorCall
    <3>5. l \in {"mfa", "google"} /\ (b.kind = "login" => l = "mfa")
      BY <1>6, <3>2 DEF Restored
    <3> QED
      BY <3>2, <3>3, <3>4, <3>5 DEF FactorCall, SecondFactor, Live
  <2> QED
    BY <2>1, <2>2
<1> QED
  BY <1>1, <1>2, <1>3, <1>4, <1>5, <1>7, CalmFactor

(* The factor is turned on with a secret that was shown, and off for all.  *)
LEMMA SetFactorFactor ==
  ASSUME Shape, FactorInv, NEW p \in Proc, SetOn(p) \/ SetOff(p)
  PROVE  FactorInv'
<1>1. PICK b \in BOOLEAN : SetFactor(p, b) /\ pc[p] = (IF b THEN "on" ELSE "off")
  BY DEF SetOn, SetOff, SetFactor, Is
<1>2. PICK i \in Ids : i = at[p].id
  BY <1>1, Running DEF NoRow
<1>3. UNCHANGED <<secrets, proved, sessions>> /\ (UNCHANGED faults \/ Fault)
  BY DEF SetOn, SetOff, UpdateMFA, NoEffect, factor, tokens
<1>4. /\ RowsOK' /\ RowsStay /\ DelKept
      /\ \/ users' = users
         \/ /\ Live(i) /\ users'[i].mfa = b /\ users'[i].secret = at[p].secret
            /\ \A j \in Ids \ {i} : users'[j] = users[j]
            /\ \A q \in Proc : at[q].id = i => ~at'[q].on \/ b
  BY <1>1, <1>2, <1>3, SetFactorRow
<1>5. OthersStay(p) /\ at'[p] = NoCall /\ pc'[p] = "idle"
  BY <1>1, SetFactorOthers
<1>6. LiveKept
  BY <1>4, DelLive
<1>7. SecondFactorAsked'
  BY <1>3, AskedLasts
<1>8. EnabledWasProved'
  <2>1. CASE users' = users
    BY <1>3, <2>1 DEF EnabledWasProved, FactorInv, FactorHolds, Exists
  <2>2. CASE users' # users
    <3>1. b => at[p].secret \in proved
      BY <1>1 DEF FactorInv, FactorCall
    <3> QED
      BY <1>3, <1>4, <2>2, <3>1 DEF EnabledWasProved, FactorInv, FactorHolds, Exists, RowsStay
  <2> QED
    BY <2>1, <2>2
<1>9. PICK l, c : l = pc'[p] /\ c = at'[p]
  OBVIOUS
<1>10. FactorCall(l, c)'
  BY <1>5, <1>9, NoCallType DEF FactorCall
<1>11. \A q \in Proc \ {p}, j \in Ids : at'[q].on /\ at[q].id = j =>
         (Exists(j)' => Exists(j) /\ (users[j].mfa => users'[j].mfa))
  BY <1>4 DEF RowsStay
<1>12. \A q \in Proc \ {p}, j \in Ids :
         at'[q].on /\ at[q].id = j => (Live(j) => Live(j)') \/ at'[q].late
  BY <1>6 DEF LiveKept
<1> QED
  BY <1>3, <1>5, <1>7, <1>8, <1>9, <1>10, <1>11, <1>12, FactorStep

(* An account is closed: the logins that run are overtaken.                *)
LEMMA SoftFactor ==
  ASSUME Shape, FactorInv, NEW p \in Proc, Soft(p)
  PROVE  FactorInv'
<1>1. PICK i, n : i \in Ids /\ i = at[p].id /\ n = NoCall
  BY Running DEF Soft, Is, NoRow
<1>2. FactorKept /\ RowsStay /\ \A j \in Ids \ {i} : users'[j] = users[j]
  BY <1>1, SoftRow
<1>3. UNCHANGED <<proved, sessions>> /\ (UNCHANGED faults \/ Fault) /\ Overtake(p, i, "idle", n)
  BY <1>1 DEF Soft, NoEffect, factor
<1>4. /\ OthersStay(p) /\ at'[p] = n /\ pc'[p] = "idle"
      /\ \A q \in Proc \ {p} : at[q].id = i => at'[q].late
  BY <1>3, OvertakeOthers
<1>5. SecondFactorAsked' /\ EnabledWasProved'
  BY <1>2, <1>3, AskedLasts, EnabledLasts
<1>6. FactorCall("idle", n)'
  BY <1>1, NoCallType DEF FactorCall
<1>8. \A q \in Proc \ {p}, j \in Ids :
        at'[q].on /\ at[q].id = j => (Live(j) => Live(j)') \/ at'[q].late
  BY <1>2, <1>4 DEF Live, Exists
<1>9. \A q \in Proc \ {p}, j \in Ids : at'[q].on /\ at[q].id = j =>
        (Exists(j)' => Exists(j) /\ (users[j].mfa => users'[j].mfa))
  BY <1>2 DEF FactorKept
<1>10. proved \subseteq proved'
  BY <1>3
<1> QED
  BY <1>3, <1>4, <1>5, <1>6, <1>8, <1>9, <1>10, FactorStep

LEMMA CreateFactor ==
  ASSUME Shape, FactorInv, NEW p \in Proc, RegisterCreate(p) \/ GoogleCreate(p)
  PROVE  FactorInv'
<1>1. PICK l, c : l = pc'[p] /\ c = at'[p]
  OBVIOUS
<1>2. FactorCall(l, c)' /\ OthersStay(p)
  BY <1>1, ContinueUnasked, ContinueSelf
     DEF Continue, RegisterCreate, GoogleCreate, Restore, Mfa, Is
<1>3. UNCHANGED <<secrets, proved, sessions>> /\ (UNCHANGED faults \/ Fault)
  BY DEF RegisterCreate, GoogleCreate, Create, factor, tokens
<1>4. SecondFactorAsked'
  BY <1>3, AskedLasts
<1>5. CASE UNCHANGED users
  <2>1. FactorKept /\ LiveKept
    BY <1>5 DEF FactorKept, LiveKept, Live, Exists
  <2> QED
    BY <1>1, <1>2, <1>3, <1>4, <2>1, CalmFactor
<1>6. CASE ~UNCHANGED users
  <2>1. PICK w \in Word \cup {NoWord}, b \in BOOLEAN : \E k : Create(p, w, b, k)
    <3>1. CASE RegisterCreate(p)
      BY <3>1, Running DEF RegisterCreate, Is, RequestOK
    <3>2. CASE GoogleCreate(p)
      BY <3>2 DEF GoogleCreate
    <3> QED
      BY <3>1, <3>2
  <2>2. PICK i \in Ids :
          /\ users[i] = NoUser /\ users'[i].mfa = FALSE
          /\ \A j \in Ids \ {i} : users'[j] = users[j]
    BY <1>3, <1>6, <2>1, CreateRow DEF Create
  <2>3. EnabledWasProved'
    BY <1>3, <2>2 DEF EnabledWasProved, FactorInv, FactorHolds, Exists
  <2>4. \A q \in Proc : at[q].id # i
    BY <2>2, Running DEF RequestOK, Known, NoRow, Ids
  <2>5. \A q \in Proc \ {p}, j \in Ids :
          at'[q].on /\ at[q].id = j => (Live(j) => Live(j)') \/ at'[q].late
    BY <2>2, <2>4 DEF Live, Exists
  <2>6. \A q \in Proc \ {p}, j \in Ids : at'[q].on /\ at[q].id = j =>
          (Exists(j)' => Exists(j) /\ (users[j].mfa => users'[j].mfa))
    BY <2>2, <2>4 DEF Exists
  <2>7. proved \subseteq proved'
    BY <1>3
  <2> QED
    BY <1>1, <1>2, <1>3, <1>4, <2>3, <2>5, <2>6, <2>7, FactorStep
<1> QED
  BY <1>5, <1>6

LEMMA ContinueFactor ==
  ASSUME Shape, FactorInv, NEW p \in Proc, Continue(p)
  PROVE  FactorInv'
<1>1. CASE Open(p) \/ Mfa(p) \/ Restore(p) \/ SetOn(p) \/ SetOff(p) \/ Soft(p)
           \/ RegisterCreate(p) \/ GoogleCreate(p)
  BY <1>1, OpenFactor, MfaFactor, RestoreFactor, SetFactorFactor, SoftFactor, CreateFactor
<1>2. CASE Drop(p) \/ GoogleRestored(p) \/ Dismiss(p) \/ Clear(p) \/ Details(p) \/ Link(p)
           \/ Update(p) \/ Wipe(p)
  <2>1. PICK l, c : l = pc'[p] /\ c = at'[p]
    OBVIOUS
  <2>2. FactorCall(l, c)' /\ OthersStay(p)
    <3>1. ~Restore(p) /\ ~Mfa(p)
      BY <1>2 DEF Restore, Mfa, Drop, GoogleRestored, Dismiss, Clear, Details, Link, Update, Wipe,
                    Is
    <3> QED
      BY <2>1, <3>1, ContinueUnasked, ContinueSelf
  <2>3. /\ UNCHANGED proved /\ (UNCHANGED faults \/ Fault) /\ sessions' \subseteq sessions
    BY <1>2 DEF Drop, GoogleRestored, Dismiss, Clear, Details, Link, Update, Wipe, NoEffect,
                DeleteByTokenHash, DeleteAllByUserID, factor, tokens
  <2>4. FactorKept /\ LiveKept
    <3>1. CASE Drop(p) \/ GoogleRestored(p) \/ Dismiss(p) \/ Wipe(p)
      BY <3>1 DEF Drop, GoogleRestored, Dismiss, Wipe, FactorKept, LiveKept, Live, Exists
    <3>2. CASE Details(p) \/ Link(p)
      BY <3>2, FlagsRow, DelLive
    <3>3. CASE Clear(p) \/ Update(p)
      <4>1. PICK i \in Ids : i = at[p].id
        BY <3>3, Running DEF Clear, Update, Is, NoRow
      <4> QED
        BY <3>3, <4>1, ClearRow, UpdateRow, DelLive
    <3> QED
      BY <1>2, <3>1, <3>2, <3>3
  <2>5. SecondFactorAsked'
    BY <2>3, AskedLasts
  <2> QED
    BY <2>1, <2>2, <2>3, <2>4, <2>5, CalmFactor
<1> QED
  BY <1>1, <1>2 DEF Continue

(* What is not a step of a request.                                        *)
LEMMA RestFactor ==
  ASSUME Shape, FactorInv, UNCHANGED <<pc, at, proved>>, FactorKept, sessions' \subseteq sessions,
         UNCHANGED faults \/ Fault, LiveKept
  PROVE  FactorInv'
<1>1. SecondFactorAsked' /\ EnabledWasProved'
  BY AskedLasts, EnabledLasts
<1> SUFFICES ASSUME NEW q \in Proc PROVE FactorCall(pc[q], at[q])'
  BY <1>1 DEF FactorInv, FactorHolds
<1>2. PICK k, b : k = pc[q] /\ b = at[q]
  OBVIOUS
<1>3. FactorCall(k, b) /\ RequestOK(k, b) /\ b \in CallType
  BY <1>2, Running DEF FactorInv
<1>4. b.on => b.id \in Ids
  BY <1>3 DEF RequestOK, Known
<1>5. Same(b, b) /\ proved \subseteq proved'
  BY <1>3, SameSelf
<1>6. FactorCall(k, b)'
  BY <1>3, <1>4, <1>5, FaultsGrow, FactorCallLasts DEF FactorKept, LiveKept
<1> QED
  BY <1>2, <1>6 DEF FactorCall, SecondFactor, Live, Exists, Asked

LEMMA PurgeLive ==
  ASSUME Shape, Purge
  PROVE  LiveKept
BY PurgeRow DEF LiveKept, Live, Gone, Exists

LEMMA LapseLive ==
  ASSUME Shape, NEW i \in Ids, Lapse(i)
  PROVE  LiveKept
BY LapseShape DEF LiveKept, Live, RowsStay

LEMMA RehashKept ==
  ASSUME Shape, NEW r \in rehashes, Rehash(r)
  PROVE  /\ FactorKept /\ LiveKept /\ EraKept /\ DelKept /\ RowsStay
         /\ UNCHANGED <<pc, at, proved, sessions, halfway, born, crashes>>
         /\ UNCHANGED faults \/ Fault
BY RehashRow, DelLive DEF Rehash, NoEffect, tokens, factor

LEMMA FactorNext ==
  ASSUME Shape, FactorInv, [Next]_vars
  PROVE  FactorInv'
<1>1. ASSUME NEW p \in Proc, Begins(p) PROVE FactorInv'
  BY <1>1, BeginsFactor
<1>2. ASSUME NEW p \in Proc, Continue(p) PROVE FactorInv'
  BY <1>2, ContinueFactor
<1>3. ASSUME NEW r \in rehashes, Rehash(r) PROVE FactorInv'
  BY <1>3, RehashKept, RestFactor
<1>4. CASE TokensExpire \/ UNCHANGED vars \/ \E p \in Proc : Logout(p)
  <2>1. UNCHANGED <<users, pc, at, proved, faults>> /\ sessions' \subseteq sessions
    BY <1>4 DEF TokensExpire, vars, Logout, DeleteByTokenHash, factor
  <2>2. FactorKept /\ LiveKept
    BY <2>1 DEF FactorKept, LiveKept, Live, Exists
  <2> QED
    BY <2>1, <2>2, RestFactor
<1>5. ASSUME NEW i \in Ids, Lapse(i) PROVE FactorInv'
  BY <1>5, LapseShape, LapseLive, RestFactor DEF Lapse, tokens, factor
<1>6. CASE Purge
  BY <1>6, PurgeRow, PurgeLive, RestFactor DEF Purge, factor
<1>7. CASE Crash
  <2>1. /\ UNCHANGED <<users, sessions, proved, faults>>
        /\ \A p \in Proc : pc'[p] = "idle" /\ at'[p] = NoCall
    BY <1>7 DEF Crash, tokens, factor
  <2>2. FactorHolds'
    BY <2>1 DEF FactorInv, FactorHolds, SecondFactorAsked, EnabledWasProved, Exists
  <2> QED
    BY <2>1, <2>2, NoCallType DEF FactorInv, FactorCall
<1> QED
  BY <1>1, <1>2, <1>3, <1>4, <1>5, <1>6, <1>7 DEF Next, Request, Begins

LEMMA FactorInit ==
  ASSUME Init
  PROVE  FactorInv
<1>1. PICK r \in Start : /\ users = [i \in Ids |-> IF i = 1 THEN r ELSE NoUser]
                         /\ secrets = IF r = NoUser THEN 0 ELSE r.secret
  BY DEF Init
<1>2. proved = 1 .. secrets /\ sessions = {} /\ \A p \in Proc : pc[p] = "idle" /\ at[p] = NoCall
  BY DEF Init
<1>3. r = NoUser \/ (r \in Row /\ (r.mfa => r.secret # 0))
  BY AccountAssumption
<1>4. EnabledWasProved
  <2> SUFFICES ASSUME NEW i \in Ids, Exists(i), users[i].mfa PROVE users[i].secret \in proved
    BY DEF EnabledWasProved
  <2>1. users[i] = r /\ r # NoUser
    BY <1>1 DEF Exists
  <2>2. r.secret \in Nat /\ r.secret # 0 /\ secrets = r.secret
    BY <1>1, <1>3, <2>1, RowFields
  <2> QED
    BY <1>2, <2>1, <2>2
<1>5. SecondFactorAsked
  BY <1>2 DEF SecondFactorAsked
<1> QED
  BY <1>2, <1>4, <1>5, NoCallType DEF FactorInv, FactorHolds, FactorCall

-------------------------------------------------------------------------------
(* Sessions end with the password and the account, if nothing fails.       *)
RowEra(j) ==
  \/ Wiping(j)'
  \/ ~Wiping(j) /\ (Exists(j)' => Exists(j) /\ users'[j].era = users[j].era)

LEMMA FreshLasts ==
  ASSUME NEW j, NEW e, NEW b, NEW d, Fresh(j, e, b), b => d, d \/ RowEra(j)
  PROVE  Fresh(j, e, d)'
BY DEF Fresh, RowEra

LEMMA WipingLasts ==
  ASSUME NEW p \in Proc, OthersStay(p), NEW j, pc[p] # "wipe" \/ at[p].id # j, Wiping(j)
  PROVE  Wiping(j)'
<1>1. PICK q \in Proc : at[q].id = j /\ pc[q] = "wipe"
  BY DEF Wiping, Is
<1>2. q # p
  BY <1>1
<1>3. pc'[q] = "wipe" /\ at'[q].id = j
  BY <1>1, <1>2 DEF OthersStay, Same
<1> QED
  BY <1>3 DEF Wiping, Is

LEMMA KeptEra ==
  ASSUME NEW p \in Proc, OthersStay(p), NEW j \in Ids, pc[p] # "wipe" \/ at[p].id # j, EraKept
  PROVE  RowEra(j)
BY WipingLasts DEF RowEra, EraKept

(* Sessions are only ended.                                                *)
LEMMA SessionsEnd ==
  ASSUME Shape, Ended, NEW p \in Proc, OthersStay(p), sessions' \subseteq sessions,
         \A s \in sessions' : s.late \/ (RowEra(s.id) /\ (Live(s.id) => Live(s.id)')),
         NEW l, NEW c, l = pc'[p], c = at'[p],
         l \in {"clear", "soft"} => \A s \in sessions' : s.id = c.id => s.late
  PROVE  SessionsFresh' /\ SessionsLive' /\ ClosingLate'
<1>1. SessionsFresh'
  BY FreshLasts DEF Ended, SessionsFresh
<1>2. SessionsLive'
  <2> SUFFICES ASSUME NEW s \in sessions', users'[s.id].del # "no", ~s.late PROVE s.linked
    BY DEF SessionsLive
  <2>1. ~Live(s.id) /\ Exists(s.id) /\ s \in sessions
    BY DEF Live, Shape, TokensOK
  <2> QED
    BY <2>1 DEF Live, Ended, SessionsLive
<1>3. ClosingLate'
  <2> SUFFICES ASSUME NEW q \in Proc, NEW s \in sessions', pc'[q] \in {"clear", "soft"},
                      s.id = at'[q].id
               PROVE  s.late
    BY DEF ClosingLate
  <2>1. CASE q = p
    BY <2>1
  <2>2. CASE q # p
    <3>1. pc[q] \in {"clear", "soft"} /\ s.id = at[q].id /\ s \in sessions
      BY <2>2 DEF OthersStay, Same
    <3> QED
      BY <3>1 DEF Ended, ClosingLate
  <2> QED
    BY <2>1, <2>2
<1> QED
  BY <1>1, <1>2, <1>3

(* MFA tokens are only dropped or late.                                    *)
LEMMA HalfwayEnds ==
  ASSUME Ended,
         \A t \in halfway' : \E u \in halfway :
           /\ t.id = u.id /\ t.era = u.era /\ (u.late => t.late)
           /\ t.late \/ RowEra(t.id)
  PROVE  HalfwayFresh'
<1> SUFFICES ASSUME NEW t \in halfway' PROVE Fresh(t.id, t.era, t.late)'
  BY DEF HalfwayFresh
<1>1. PICK u \in halfway : /\ t.id = u.id /\ t.era = u.era /\ (u.late => t.late)
                           /\ t.late \/ RowEra(t.id)
  OBVIOUS
<1>2. Fresh(u.id, u.era, u.late)
  BY DEF Ended, HalfwayFresh
<1> QED
  BY <1>1, <1>2, FreshLasts

LEMMA EndedStep ==
  ASSUME Shape, Ended, NEW p \in Proc, OthersStay(p), NEW l, NEW c, l = pc'[p], c = at'[p],
         CallFresh(l, c)', LiveCall(l, c)',
         \A q \in Proc \ {p}, j \in Ids : at[q].id = j =>
           at'[q].late \/ (RowEra(j) /\ (Live(j) => Live(j)')),
         SessionsFresh', SessionsLive', ClosingLate', HalfwayFresh'
  PROVE  Ended'
<1> SUFFICES ASSUME NEW q \in Proc PROVE CallFresh(pc[q], at[q])' /\ LiveCall(pc[q], at[q])'
  BY DEF Ended
<1>1. CASE q = p
  BY <1>1 DEF CallFresh, LiveCall, Fresh, Live, Exists, Wiping, Is
<1>2. CASE q # p
  <2>1. PICK k, b, d : k = pc[q] /\ b = at[q] /\ d = at'[q]
    OBVIOUS
  <2>2. Same(b, d) /\ pc'[q] = k /\ CallFresh(k, b) /\ LiveCall(k, b) /\ RequestOK(k, b)
    BY <1>2, <2>1, Running DEF OthersStay, Ended
  <2>3. d.kind = b.kind /\ d.id = b.id /\ d.era = b.era /\ (b.late => d.late)
    BY <2>2 DEF Same
  <2>4. k \in Opening => b.id \in Ids
    BY <2>2 DEF RequestOK, Known, Opening, NoRow
  <2>5. CallFresh(k, d)'
    <3>1. CASE k \in Opening
      <4>1. d.late \/ RowEra(b.id)
        BY <1>2, <2>1, <2>4, <3>1
      <4>2. Fresh(b.id, b.era, b.late)
        BY <2>2, <3>1 DEF CallFresh
      <4>3. Fresh(b.id, b.era, d.late)'
        BY <2>3, <4>1, <4>2, FreshLasts
      <4> QED
        BY <2>3, <4>3 DEF CallFresh
    <3>2. CASE k \notin Opening
      BY <3>2 DEF CallFresh
    <3> QED
      BY <3>1, <3>2
  <2>6. LiveCall(k, d)'
    <3>1. k \in Opening => d.late \/ (Live(b.id) => Live(b.id)')
      BY <1>2, <2>1, <2>4
    <3> QED
      BY <2>2, <2>3, <3>1 DEF LiveCall
  <2> QED
    BY <2>1, <2>2, <2>5, <2>6 DEF CallFresh, LiveCall, Fresh, Live, Exists, Wiping, Is
<1> QED
  BY <1>1, <1>2

(* A step that leaves the passwords and the accounts alone.                *)
LEMMA CalmEnded ==
  ASSUME Shape, Ended, NEW p \in Proc, OthersStay(p), pc[p] # "wipe", EraKept, LiveKept,
         sessions' \subseteq sessions, halfway' \subseteq halfway,
         NEW l, NEW c, l = pc'[p], c = at'[p], CallFresh(l, c)', LiveCall(l, c)',
         l \notin {"clear", "soft"}
  PROVE  Ended'
<1>1. \A j \in Ids : RowEra(j) /\ (Live(j) => Live(j)')
  BY KeptEra DEF LiveKept
<1>2. \A s \in sessions' : s.late \/ (RowEra(s.id) /\ (Live(s.id) => Live(s.id)'))
  BY <1>1 DEF Shape, TokensOK, Session
<1>3. SessionsFresh' /\ SessionsLive' /\ ClosingLate'
  BY <1>2, SessionsEnd
<1>4. HalfwayFresh'
  BY <1>1, HalfwayEnds DEF Shape, TokensOK
<1> QED
  BY <1>1, <1>3, <1>4, EndedStep

(* A request goes on with its call.                                        *)
LEMMA SelfFresh ==
  ASSUME Shape, Ended, NEW p \in Proc, NEW c, c = at[p], pc[p] \in Opening, RowEra(c.id)
  PROVE  Fresh(c.id, c.era, c.late)'
<1>1. Fresh(c.id, c.era, c.late)
  BY DEF Ended, CallFresh
<1> QED
  BY <1>1, FreshLasts

LEMMA BeginsEnded ==
  ASSUME Shape, Ended, NEW p \in Proc, Begins(p)
  PROVE  Ended'
<1>1. PICK l, c : Go(p, l, c) /\ Arrived(l, c)
  BY RequestReads
<1>2. l = pc'[p] /\ c = at'[p] /\ OthersStay(p)
  BY <1>1, GoOthers
<1>3. /\ EraKept /\ DelKept /\ RowsStay /\ UNCHANGED <<sessions, halfway>>
  BY BeginsUsers
<1>4. LiveKept
  BY <1>3, DelLive
<1>5. pc[p] = "idle"
  BY DEF Begins, Refresh, Register, Login, VerifyEmail, Google, MfaLogin, SetupMFA, EnableMFA,
         DisableMFA, ChangePassword, ResetPassword, DeleteMe, DeleteUser, Arrives, Is
<1>6. \A j \in Ids : RowEra(j)
  BY <1>2, <1>3, <1>5, KeptEra
<1>7. CallFresh(l, c)'
  <2>1. CASE ReadNoRow(l, c)
    BY <2>1 DEF ReadNoRow, CallFresh, Opening
  <2>2. CASE ReadSession(l, c)
    <3>1. PICK s \in sessions : c.id = s.id /\ c.era = s.era /\ c.late = s.late
      BY <2>2 DEF ReadSession
    <3>2. s.id \in Ids /\ Fresh(s.id, s.era, s.late)
      BY DEF Shape, TokensOK, Session, Ended, SessionsFresh
    <3>3. Fresh(s.id, s.era, s.late)'
      BY <1>6, <3>2, FreshLasts
    <3> QED
      BY <3>1, <3>3 DEF CallFresh
  <2>3. CASE ReadHalfway(l, c)
    <3>1. PICK t \in halfway : c.id = t.id /\ c.era = t.era /\ c.late = t.late
      BY <2>3 DEF ReadHalfway
    <3>2. t.id \in Ids /\ Fresh(t.id, t.era, t.late)
      BY DEF Shape, TokensOK, Ended, HalfwayFresh
    <3>3. Fresh(t.id, t.era, t.late)'
      BY <1>6, <3>2, FreshLasts
    <3> QED
      BY <3>1, <3>3 DEF CallFresh
  <2>4. CASE ReadRow(l, c)
    <3>1. c.id \in Ids /\ c.era = users[c.id].era /\ c.era \in Nat
      BY <1>1, <2>4, Fields DEF ReadRow, Arrived
    <3>2. ~(Exists(c.id)' /\ c.era < users'[c.id].era)
      BY <1>3, <3>1 DEF EraKept
    <3> QED
      BY <3>2 DEF CallFresh, Fresh
  <2> QED
    BY <1>1, <2>1, <2>2, <2>3, <2>4 DEF Arrived
<1>8. LiveCall(l, c)'
  <2>1. CASE ReadNoRow(l, c)
    BY <2>1 DEF ReadNoRow, LiveCall, Opening
  <2>2. CASE ReadSession(l, c)
    <3>1. PICK s \in sessions : /\ c.id = s.id /\ c.late = s.late
                                /\ s.linked => c.kind \in {"linked", "expired"}
      BY <2>2 DEF ReadSession
    <3>2. s.id \in Ids /\ (Live(s.id) \/ s.late \/ s.linked)
      BY DEF Shape, TokensOK, Session, Ended, SessionsLive, Live
    <3>3. Live(s.id) => Live(s.id)'
      BY <1>4, <3>2 DEF LiveKept
    <3> QED
      BY <2>2, <3>1, <3>2, <3>3 DEF LiveCall, ReadSession
  <2>3. CASE ReadHalfway(l, c)
    <3>1. c.id \in Ids /\ Live(c.id)
      BY <2>3 DEF ReadHalfway, Shape, TokensOK
    <3> QED
      BY <1>4, <3>1 DEF LiveCall, LiveKept
  <2>4. CASE ReadRow(l, c)
    BY <1>4, <2>4 DEF ReadRow, LiveCall, LiveKept
  <2> QED
    BY <1>1, <2>1, <2>2, <2>3, <2>4 DEF Arrived
<1>9. l \notin {"clear", "soft"}
  BY <1>1 DEF Arrived, ReadNoRow, ReadSession, ReadHalfway, ReadRow
<1> QED
  BY <1>2, <1>3, <1>4, <1>5, <1>7, <1>8, <1>9, CalmEnded

LEMMA NoFault ==
  ASSUME Shape, UNCHANGED faults
  PROVE  ~Fault
BY DEF Shape, CountsOK, Fault

(* A request that goes on with its call past a step with no change.        *)
LEMMA DropEnded ==
  ASSUME Shape, Ended, NEW p \in Proc, Drop(p)
  PROVE  Ended'
<1>1. OthersStay(p)
  BY ContinueSelf DEF Continue
<1>2. UNCHANGED <<users, halfway>> /\ sessions' \subseteq sessions /\ pc[p] = "drop"
  BY DEF Drop, DeleteByTokenHash, Is
<1>3. EraKept /\ LiveKept
  BY <1>2 DEF EraKept, LiveKept, Live, Exists
<1>4. PICK l, c, b : l = pc'[p] /\ c = at'[p] /\ b = at[p]
  OBVIOUS
<1>5. CallFresh(l, c)' /\ LiveCall(l, c)' /\ l \notin {"clear", "soft"}
  <2>1. CASE Done(p)
    <3>1. l = "idle" /\ c = NoCall
      BY <1>4, <2>1, GoOthers DEF Done
    <3> QED
      BY <3>1 DEF CallFresh, LiveCall, Opening
  <2>2. CASE ~Done(p)
    <3>1. Step(p, "open") /\ b.kind # "expired"
      BY <1>4, <2>2 DEF Drop
    <3>2. l = "open" /\ c = b
      BY <1>4, <3>1, GoOthers DEF Step
    <3>3. RequestOK("drop", b) /\ b.id \in Ids /\ LiveCall("drop", b)
      BY <1>2, <1>4, Running DEF NoRow, Ended
    <3>4. RowEra(b.id)
      BY <1>1, <1>2, <1>3, <3>3, KeptEra
    <3>5. Fresh(b.id, b.era, b.late)'
      BY <1>2, <1>4, <3>4, SelfFresh DEF Opening
    <3>6. Live(b.id)' \/ b.late \/ b.kind = "linked"
      BY <1>3, <3>1, <3>3 DEF LiveCall, Opening, LiveKept
    <3> QED
      BY <3>2, <3>5, <3>6 DEF CallFresh, LiveCall
  <2> QED
    BY <2>1, <2>2
<1> QED
  BY <1>1, <1>2, <1>3, <1>4, <1>5, CalmEnded

LEMMA RestoreEnded ==
  ASSUME Shape, Ended, NEW p \in Proc, Restore(p)
  PROVE  Ended'
<1>1. OthersStay(p)
  BY ContinueSelf DEF Continue
<1>2. UNCHANGED <<halfway, sessions>> /\ pc[p] = "restore"
  BY DEF Restore, tokens, Is
<1>3. EraKept /\ LiveKept
  BY RestoreRow DEF RowsStay, LiveKept, Live
<1>4. PICK l, c, b : l = pc'[p] /\ c = at'[p] /\ b = at[p]
  OBVIOUS
<1>5. CallFresh(l, c)' /\ LiveCall(l, c)' /\ l \notin {"clear", "soft"}
  <2>1. CASE Done(p)
    <3>1. l = "idle" /\ c = NoCall
      BY <1>4, <2>1, GoOthers DEF Done
    <3> QED
      BY <3>1 DEF CallFresh, LiveCall, Opening
  <2>2. CASE ~Done(p)
    <3>1. /\ Exists(b.id) /\ users' = [users EXCEPT ![b.id].del = "no"]
          /\ Step(p, Restored[b.kind]) /\ UNCHANGED secrets
      BY <1>4, <2>2 DEF Restore, factor
    <3>2. l = Restored[b.kind] /\ c = b
      BY <1>4, <3>1, GoOthers DEF Step
    <3>3. RequestOK("restore", b) /\ b.id \in Ids
      BY <1>2, <1>4, Running DEF NoRow
    <3>4. Live(b.id)'
      BY <3>1, <3>3, DelChanges DEF Shape, RowsStay, Live
    <3>5. RowEra(b.id)
      BY <1>1, <1>2, <1>3, <3>3, KeptEra
    <3>6. Fresh(b.id, b.era, b.late)'
      BY <1>2, <1>4, <3>5, SelfFresh DEF Opening
    <3>7. l \in {"mfa", "google"}
      BY <3>2, <3>3 DEF RequestOK, Restored
    <3> QED
      BY <3>2, <3>4, <3>6, <3>7 DEF CallFresh, LiveCall
  <2> QED
    BY <2>1, <2>2
<1> QED
  BY <1>1, <1>2, <1>3, <1>4, <1>5, CalmEnded

LEMMA LinkingEnded ==
  ASSUME Shape, Ended, NEW p \in Proc, GoogleRestored(p) \/ Details(p) \/ Link(p)
  PROVE  Ended'
<1>1. OthersStay(p)
  BY ContinueSelf DEF Continue
<1>2. UNCHANGED <<halfway, sessions>> /\ pc[p] \in {"google", "details", "link"}
  BY DEF GoogleRestored, Details, Link, tokens, Is
<1>3. EraKept /\ LiveKept
  <2>1. CASE GoogleRestored(p)
    BY <2>1 DEF GoogleRestored, EraKept, LiveKept, Live, Exists
  <2>2. CASE Details(p) \/ Link(p)
    BY <2>2, FlagsRow, DelLive
  <2> QED
    BY <2>1, <2>2
<1>4. PICK l, c, b : l = pc'[p] /\ c = at'[p] /\ b = at[p]
  OBVIOUS
<1>5. \E k \in {"link", "dismiss", "open"} : Step(p, k)
  BY DEF GoogleRestored, Details, Link
<1>6. l \in {"link", "dismiss", "open"} /\ c = b
  BY <1>4, <1>5, GoOthers DEF Step
<1>7. b.id \in Ids /\ LiveCall(pc[p], b)
  BY <1>2, <1>4, Running DEF NoRow, Ended
<1>8. RowEra(b.id)
  BY <1>1, <1>2, <1>3, <1>7, KeptEra
<1>9. Fresh(b.id, b.era, b.late)'
  BY <1>2, <1>4, <1>8, SelfFresh DEF Opening
<1>10. Live(b.id)' \/ b.late \/ b.kind = "linked"
  BY <1>2, <1>3, <1>7 DEF LiveCall, Opening, LiveKept
<1>11. CallFresh(l, c)' /\ LiveCall(l, c)' /\ l \notin {"clear", "soft"}
  BY <1>6, <1>9, <1>10 DEF CallFresh, LiveCall
<1> QED
  BY <1>1, <1>2, <1>3, <1>4, <1>11, CalmEnded

LEMMA SetFactorEnded ==
  ASSUME Shape, Ended, NEW p \in Proc, SetOn(p) \/ SetOff(p)
  PROVE  Ended'
<1>1. OthersStay(p)
  BY ContinueSelf DEF Continue
<1>2. UNCHANGED <<halfway, sessions>> /\ pc[p] # "wipe"
  BY DEF SetOn, SetOff, tokens, Is
<1>3. EraKept /\ LiveKept
  <2>1. PICK b \in BOOLEAN : SetFactor(p, b) /\ pc[p] = (IF b THEN "on" ELSE "off")
    BY DEF SetOn, SetOff, SetFactor, Is
  <2>2. PICK i \in Ids : i = at[p].id
    BY <2>1, Running DEF NoRow
  <2>3. UNCHANGED secrets
    BY DEF SetOn, SetOff, factor
  <2> QED
    BY <2>1, <2>2, <2>3, SetFactorRow, DelLive
<1>4. PICK l, c : l = pc'[p] /\ c = at'[p]
  OBVIOUS
<1>5. l = "idle" /\ c = NoCall
  BY <1>4, SetFactorOthers DEF SetOn, SetOff, SetFactor
<1>6. CallFresh(l, c)' /\ LiveCall(l, c)' /\ l \notin {"clear", "soft"}
  BY <1>5 DEF CallFresh, LiveCall, Opening
<1> QED
  BY <1>1, <1>2, <1>3, <1>4, <1>6, CalmEnded

(* A session is as late as its request, or as an account that is closing.  *)
LEMMA OpenEnded ==
  ASSUME Shape, Ended, NEW p \in Proc, Open(p)
  PROVE  Ended'
<1>1. OthersStay(p)
  BY ContinueSelf DEF Continue
<1>2. UNCHANGED <<users, halfway>> /\ pc[p] = "open" /\ Done(p)
  BY DEF Open, Is
<1>3. EraKept /\ LiveKept
  BY <1>2 DEF EraKept, LiveKept, Live, Exists
<1>4. \A j \in Ids : RowEra(j) /\ (Live(j) => Live(j)')
  BY <1>1, <1>2, <1>3, KeptEra DEF LiveKept
<1>5. PICK l, c, b : l = pc'[p] /\ c = at'[p] /\ b = at[p]
  OBVIOUS
<1>6. l = "idle" /\ c = NoCall
  BY <1>2, <1>5, GoOthers DEF Done
<1>7. CallFresh(l, c)' /\ LiveCall(l, c)'
  BY <1>6 DEF CallFresh, LiveCall, Opening
<1>8. HalfwayFresh'
  BY <1>2, <1>4, HalfwayEnds DEF Shape, TokensOK
<1>9. PICK x : x = [tok |-> Len(born) + 1, id |-> b.id, era |-> b.era, on |-> b.on,
                    late |-> b.late \/ Closing(b.id), linked |-> b.kind = "linked"]
  OBVIOUS
<1>10. sessions' = sessions \/ sessions' = sessions \cup {x}
  BY <1>5, <1>9 DEF Open
<1>11. b.id \in Ids /\ LiveCall("open", b) /\ users[b.id] # NoUser
  BY <1>2, <1>5, Running DEF NoRow, Ended
<1>12. Fresh(b.id, b.era, b.late)'
  BY <1>2, <1>4, <1>5, <1>11, SelfFresh DEF Opening
<1>13. /\ x.id = b.id /\ x.era = b.era /\ (b.late => x.late) /\ (Closing(b.id) => x.late)
       /\ x.linked = (b.kind = "linked")
  BY <1>9
<1>14. SessionsFresh'
  <2> SUFFICES ASSUME NEW s \in sessions' PROVE Fresh(s.id, s.era, s.late)'
    BY DEF SessionsFresh
  <2>1. CASE s \in sessions
    <3>1. s.id \in Ids /\ Fresh(s.id, s.era, s.late)
      BY <2>1 DEF Shape, TokensOK, Session, Ended, SessionsFresh
    <3> QED
      BY <1>4, <3>1, FreshLasts
  <2>2. CASE s = x
    BY <1>12, <1>13, <2>2 DEF Fresh
  <2> QED
    BY <1>10, <2>1, <2>2
<1>15. SessionsLive'
  <2> SUFFICES ASSUME NEW s \in sessions', users[s.id].del # "no" PROVE s.late \/ s.linked
    BY <1>2 DEF SessionsLive
  <2>1. CASE s \in sessions
    BY <2>1 DEF Ended, SessionsLive
  <2>2. CASE s = x
    BY <1>11, <1>13, <2>2 DEF LiveCall, Opening, Live
  <2> QED
    BY <1>10, <2>1, <2>2
<1>16. ClosingLate'
  <2> SUFFICES ASSUME NEW q \in Proc, NEW s \in sessions', pc'[q] \in {"clear", "soft"},
                      s.id = at'[q].id
               PROVE  s.late
    BY DEF ClosingLate
  <2>1. q # p
    BY <1>5, <1>6
  <2>2. pc[q] \in {"clear", "soft"} /\ s.id = at[q].id
    BY <1>1, <2>1 DEF OthersStay, Same
  <2>3. CASE s \in sessions
    BY <2>2, <2>3 DEF Ended, ClosingLate
  <2>4. CASE s = x
    BY <1>13, <2>2, <2>4 DEF Closing
  <2> QED
    BY <1>10, <2>3, <2>4
<1> QED
  BY <1>1, <1>4, <1>5, <1>7, <1>8, <1>14, <1>15, <1>16, EndedStep

LEMMA MfaEnded ==
  ASSUME Shape, Ended, NEW p \in Proc, Mfa(p)
  PROVE  Ended'
<1>1. OthersStay(p)
  BY ContinueSelf DEF Continue
<1>2. UNCHANGED <<users, sessions>> /\ pc[p] = "mfa" /\ (Done(p) \/ Step(p, "open"))
  BY DEF Mfa, Is
<1>3. EraKept /\ LiveKept
  BY <1>2 DEF EraKept, LiveKept, Live, Exists
<1>4. \A j \in Ids : RowEra(j) /\ (Live(j) => Live(j)')
  BY <1>1, <1>2, <1>3, KeptEra DEF LiveKept
<1>5. PICK l, c, b : l = pc'[p] /\ c = at'[p] /\ b = at[p]
  OBVIOUS
<1>6. (l = "idle" /\ c = NoCall) \/ (l = "open" /\ c = b)
  BY <1>2, <1>5, GoOthers DEF Done, Step
<1>7. b.id \in Ids /\ LiveCall("mfa", b)
  BY <1>2, <1>5, Running DEF NoRow, Ended
<1>8. Fresh(b.id, b.era, b.late)'
  BY <1>2, <1>4, <1>5, <1>7, SelfFresh DEF Opening
<1>9. Live(b.id)' \/ b.late \/ b.kind = "linked"
  BY <1>4, <1>7 DEF LiveCall, Opening
<1>10. CallFresh(l, c)' /\ LiveCall(l, c)' /\ l \notin {"clear", "soft"}
  BY <1>6, <1>8, <1>9 DEF CallFresh, LiveCall, Opening
<1>11. \A s \in sessions' : s.late \/ (RowEra(s.id) /\ (Live(s.id) => Live(s.id)'))
  BY <1>2, <1>4 DEF Shape, TokensOK, Session
<1>12. SessionsFresh' /\ SessionsLive' /\ ClosingLate'
  BY <1>1, <1>2, <1>5, <1>10, <1>11, SessionsEnd
<1>13. HalfwayFresh'
  <2> SUFFICES ASSUME NEW t \in halfway' PROVE Fresh(t.id, t.era, t.late)'
    BY DEF HalfwayFresh
  <2>1. t \in halfway \/ (t.id = b.id /\ t.era = b.era /\ t.late = b.late)
    BY <1>5 DEF Mfa
  <2>2. CASE t \in halfway
    <3>1. t.id \in Ids /\ Fresh(t.id, t.era, t.late)
      BY <2>2 DEF Shape, TokensOK, Ended, HalfwayFresh
    <3> QED
      BY <1>4, <3>1, FreshLasts
  <2> QED
    BY <1>8, <2>1, <2>2
<1> QED
  BY <1>1, <1>4, <1>5, <1>10, <1>12, <1>13, EndedStep

(* MFA tokens of another row keep what they were.                          *)
LEMMA HalfwayLate ==
  ASSUME Shape, Ended, NEW i, halfway' = LateTokens(i), \A j \in Ids \ {i} : RowEra(j)
  PROVE  HalfwayFresh'
<1>1. ASSUME NEW t \in halfway'
      PROVE  \E u \in halfway :
               /\ t.id = u.id /\ t.era = u.era /\ (u.late => t.late)
               /\ t.late \/ RowEra(t.id)
  BY LateTokensOK DEF Shape, TokensOK
<1> QED
  BY <1>1, HalfwayEnds

LEMMA UpdateEnded ==
  ASSUME Shape, Ended, NEW p \in Proc, Update(p), UNCHANGED faults
  PROVE  Ended'
<1>1. OthersStay(p)
  BY ContinueSelf DEF Continue
<1>2. PICK i \in Ids : i = at[p].id
  BY Running DEF Update, Is, NoRow
<1>3. UNCHANGED <<sessions, halfway>> /\ pc[p] = "update" /\ Step(p, "wipe")
  BY NoFault DEF Update, AfterUpdate, tokens, Is
<1>4. pc'[p] = "wipe" /\ at'[p] = at[p]
  BY <1>3, GoOthers DEF Step
<1>5. LiveKept /\ \A j \in Ids \ {i} : users'[j] = users[j]
  BY <1>2, UpdateRow, DelLive
<1>6. Wiping(i)'
  BY <1>2, <1>4 DEF Wiping, Is
<1>7. \A j \in Ids : RowEra(j) /\ (Live(j) => Live(j)')
  <2> SUFFICES ASSUME NEW j \in Ids PROVE RowEra(j)
    BY <1>5 DEF LiveKept
  <2>1. CASE j = i
    BY <1>6, <2>1 DEF RowEra
  <2>2. CASE j # i
    BY <1>1, <1>3, <1>5, <2>2, WipingLasts DEF RowEra, Exists
  <2> QED
    BY <2>1, <2>2
<1>8. PICK l, c : l = pc'[p] /\ c = at'[p]
  OBVIOUS
<1>9. CallFresh(l, c)' /\ LiveCall(l, c)' /\ l \notin {"clear", "soft"}
  BY <1>4, <1>8 DEF CallFresh, LiveCall, Opening
<1>10. \A s \in sessions' : s.late \/ (RowEra(s.id) /\ (Live(s.id) => Live(s.id)'))
  BY <1>3, <1>7 DEF Shape, TokensOK, Session
<1>11. SessionsFresh' /\ SessionsLive' /\ ClosingLate'
  BY <1>1, <1>3, <1>8, <1>9, <1>10, SessionsEnd
<1>12. HalfwayFresh'
  BY <1>3, <1>7, HalfwayEnds DEF Shape, TokensOK
<1> QED
  BY <1>1, <1>7, <1>8, <1>9, <1>11, <1>12, EndedStep

(* All sessions of the row end: what comes later is late.                  *)
LEMMA WipeEnded ==
  ASSUME Shape, Ended, NEW p \in Proc, Wipe(p) \/ Dismiss(p), UNCHANGED faults
  PROVE  Ended'
<1>1. OthersStay(p)
  BY ContinueSelf DEF Continue
<1>2. PICK i, b : i \in Ids /\ i = at[p].id /\ b = at[p]
  BY Running DEF Wipe, Dismiss, Is, NoRow
<1>3. UNCHANGED users /\ sessions' = {s \in sessions : s.id # i}
  BY <1>2, NoFault DEF Wipe, Dismiss, DeleteAllByUserID
<1>4. PICK l, c : /\ Overtake(p, i, l, c)
                  /\ \/ l = "idle"
                     \/ l = "soft" /\ c = b
                     \/ l = "clear" /\ c = b /\ pc[p] = "dismiss"
  BY <1>2 DEF Wipe, Dismiss, Is
<1>5. /\ l = pc'[p] /\ c = at'[p]
      /\ \A q \in Proc \ {p} : at[q].id = i => at'[q].late
  BY <1>4, OvertakeOthers
<1>6. EraKept /\ LiveKept
  BY <1>3 DEF EraKept, LiveKept, Live, Exists
<1>7. \A j \in Ids \ {i} : RowEra(j) /\ (Live(j) => Live(j)')
  BY <1>1, <1>2, <1>6, KeptEra DEF LiveKept
<1>8. CallFresh(l, c)' /\ LiveCall(l, c)'
  <2>1. CASE l # "clear"
    BY <1>4, <2>1 DEF CallFresh, LiveCall, Opening
  <2>2. CASE l = "clear"
    <3>1. c = at[p] /\ c.id = i /\ pc[p] = "dismiss"
      BY <1>2, <1>4, <2>2
    <3>2. RowEra(i)
      BY <1>1, <1>2, <1>6, <3>1, KeptEra
    <3>3. Fresh(c.id, c.era, c.late)'
      BY <3>1, <3>2, SelfFresh DEF Opening
    <3>4. LiveCall("dismiss", c)
      BY <3>1 DEF Ended
    <3>5. Live(c.id)' \/ c.late \/ c.kind = "linked"
      BY <1>2, <1>6, <3>1, <3>4 DEF LiveCall, Opening, LiveKept
    <3> QED
      BY <2>2, <3>3, <3>5 DEF CallFresh, LiveCall
  <2> QED
    BY <2>1, <2>2
<1>9. \A s \in sessions' : s.late \/ (RowEra(s.id) /\ (Live(s.id) => Live(s.id)'))
  BY <1>3, <1>7 DEF Shape, TokensOK, Session
<1>10. l \in {"clear", "soft"} => \A s \in sessions' : s.id = c.id => s.late
  BY <1>2, <1>3, <1>4
<1>11. SessionsFresh' /\ SessionsLive' /\ ClosingLate'
  BY <1>1, <1>3, <1>5, <1>9, <1>10, SessionsEnd
<1>12. HalfwayFresh'
  BY <1>4, <1>7, HalfwayLate DEF Overtake, LateTokens
<1>13. \A q \in Proc \ {p}, j \in Ids : at[q].id = j =>
         at'[q].late \/ (RowEra(j) /\ (Live(j) => Live(j)'))
  BY <1>5, <1>7
<1> QED
  BY <1>1, <1>5, <1>8, <1>11, <1>12, <1>13, EndedStep

(* The password that nobody knows: the sessions were ended before.         *)
LEMMA ClearEnded ==
  ASSUME Shape, Ended, NEW p \in Proc, Clear(p)
  PROVE  Ended'
<1>1. OthersStay(p)
  BY ContinueSelf DEF Continue
<1>2. PICK i, b : i \in Ids /\ i = at[p].id /\ b = at[p]
  BY Running DEF Clear, Is, NoRow
<1>3. UNCHANGED sessions /\ pc[p] = "clear"
  BY DEF Clear, Is
<1>4. PICK c : c = [b EXCEPT !.era = @ + 1] /\ Overtake(p, i, "details", c)
  BY <1>2 DEF Clear
<1>5. /\ "details" = pc'[p] /\ c = at'[p]
      /\ \A q \in Proc \ {p} : at[q].id = i => at'[q].late
  BY <1>4, OvertakeOthers
<1>6. /\ DelKept /\ RowsStay
      /\ users' = users \/ (/\ users'[i].era = users[i].era + 1
                            /\ \A j \in Ids \ {i} : users'[j] = users[j])
  BY <1>2, ClearRow
<1>7. LiveKept
  BY <1>6, DelLive
<1>8. \A j \in Ids \ {i} : RowEra(j) /\ (Live(j) => Live(j)')
  <2> SUFFICES ASSUME NEW j \in Ids \ {i} PROVE RowEra(j)
    BY <1>7 DEF LiveKept
  <2> QED
    BY <1>1, <1>3, <1>6, WipingLasts DEF RowEra, Exists
<1>9. b \in CallType /\ b.era \in Nat /\ LiveCall("clear", b) /\ CallFresh("clear", b)
  BY <1>2, <1>3, Running, Fields DEF Ended
<1>10. c.id = i /\ c.era = b.era + 1 /\ c.late = b.late /\ c.kind = b.kind
  BY <1>2, <1>4, <1>9 DEF CallType
<1>11. CallFresh("details", c)'
  <2> SUFFICES ASSUME Exists(i)', c.era < users'[i].era, ~c.late PROVE Wiping(i)'
    BY <1>10 DEF CallFresh, Fresh
  <2>1. Exists(i) /\ users[i].era \in Nat
    BY <1>2, <1>6, RowFields DEF RowsStay, Shape, RowsOK, UsersOK, RowOK, Exists
  <2>2. b.era < users[i].era
    BY <1>6, <1>9, <1>10, <2>1
  <2>3. Wiping(i)
    BY <1>2, <1>9, <1>10, <2>1, <2>2 DEF CallFresh, Fresh, Opening
  <2> QED
    BY <1>1, <1>3, <2>3, WipingLasts
<1>12. LiveCall("details", c)'
  BY <1>2, <1>7, <1>9, <1>10 DEF LiveCall, Opening, LiveKept
<1>13. \A s \in sessions' : s.id = i => s.late
  BY <1>2, <1>3 DEF Ended, ClosingLate
<1>14. \A s \in sessions' : s.late \/ (RowEra(s.id) /\ (Live(s.id) => Live(s.id)'))
  BY <1>3, <1>8, <1>13 DEF Shape, TokensOK, Session
<1>15. SessionsFresh' /\ SessionsLive' /\ ClosingLate'
  BY <1>1, <1>3, <1>5, <1>14, SessionsEnd
<1>16. HalfwayFresh'
  BY <1>4, <1>8, HalfwayLate DEF Overtake, LateTokens
<1>17. \A q \in Proc \ {p}, j \in Ids : at[q].id = j =>
         at'[q].late \/ (RowEra(j) /\ (Live(j) => Live(j)'))
  BY <1>5, <1>8
<1> QED
  BY <1>1, <1>5, <1>11, <1>12, <1>15, <1>16, <1>17, EndedStep

(* The account is closed.                                                  *)
LEMMA SoftEnded ==
  ASSUME Shape, Ended, NEW p \in Proc, Soft(p)
  PROVE  Ended'
<1>1. OthersStay(p)
  BY ContinueSelf DEF Continue
<1>2. PICK i, n : i \in Ids /\ i = at[p].id /\ n = NoCall
  BY Running DEF Soft, Is, NoRow
<1>3. UNCHANGED sessions /\ pc[p] = "soft" /\ Overtake(p, i, "idle", n)
  BY <1>2 DEF Soft, Is
<1>4. /\ "idle" = pc'[p] /\ n = at'[p]
      /\ \A q \in Proc \ {p} : at[q].id = i => at'[q].late
  BY <1>3, OvertakeOthers
<1>5. EraKept /\ \A j \in Ids \ {i} : users'[j] = users[j]
  BY <1>2, SoftRow
<1>6. \A j \in Ids : RowEra(j)
  BY <1>1, <1>3, <1>5, KeptEra
<1>7. \A j \in Ids \ {i} : RowEra(j) /\ (Live(j) => Live(j)')
  BY <1>5, <1>6 DEF Live, Exists
<1>8. CallFresh("idle", n)' /\ LiveCall("idle", n)'
  BY DEF CallFresh, LiveCall, Opening
<1>9. \A s \in sessions' : s.late \/ (RowEra(s.id) /\ (Live(s.id) => Live(s.id)'))
  BY <1>2, <1>3, <1>7 DEF Shape, TokensOK, Session, Ended, ClosingLate
<1>10. SessionsFresh' /\ SessionsLive' /\ ClosingLate'
  BY <1>1, <1>3, <1>4, <1>9, SessionsEnd
<1>11. HalfwayFresh'
  BY <1>3, <1>7, HalfwayLate DEF Overtake, LateTokens
<1>12. \A q \in Proc \ {p}, j \in Ids : at[q].id = j =>
         at'[q].late \/ (RowEra(j) /\ (Live(j) => Live(j)'))
  BY <1>4, <1>7
<1> QED
  BY <1>1, <1>4, <1>8, <1>10, <1>11, <1>12, EndedStep

(* A new account has its first password.                                   *)
LEMMA CreateEnded ==
  ASSUME Shape, Ended, NEW p \in Proc, RegisterCreate(p) \/ GoogleCreate(p), UNCHANGED faults
  PROVE  Ended'
<1>1. OthersStay(p)
  BY ContinueSelf DEF Continue
<1>2. PICK w \in Word \cup {NoWord}, v \in BOOLEAN, k \in {"open", "link"} :
        Create(p, w, v, k) /\ pc[p] \in {"register", "create"}
  <2>1. CASE RegisterCreate(p)
    BY <2>1, Running DEF RegisterCreate, Is, RequestOK
  <2>2. CASE GoogleCreate(p)
    BY <2>2 DEF GoogleCreate, Is
  <2> QED
    BY <2>1, <2>2
<1>3. UNCHANGED <<sessions, halfway, secrets>>
  BY <1>2 DEF Create, tokens, factor
<1>4. PICK i \in Ids :
        /\ i = NewId /\ users[i] = NoUser /\ Live(i)' /\ users'[i].era = 0
        /\ \A j \in Ids \ {i} : users'[j] = users[j]
  BY <1>2, <1>3, NoFault, CreateRow DEF Create
<1>5. PICK b, c : b = at[p] /\ c = [b EXCEPT !.id = i]
  OBVIOUS
<1>6. Go(p, k, c)
  BY <1>2, <1>4, <1>5, NoFault DEF Create
<1>7. k = pc'[p] /\ c = at'[p]
  BY <1>6, GoOthers
<1>8. b \in CallType
  BY <1>5, Running
<1>9. c.id = i /\ c.era \in Nat
  BY <1>5, <1>8, Fields DEF CallType
<1>10. CallFresh(k, c)' /\ LiveCall(k, c)'
  BY <1>4, <1>9 DEF CallFresh, Fresh, LiveCall
<1>11. \A j \in Ids \ {i} : RowEra(j) /\ (Live(j) => Live(j)')
  BY <1>1, <1>2, <1>4, WipingLasts DEF RowEra, Live, Exists
<1>12. \A s \in sessions' : s.late \/ (RowEra(s.id) /\ (Live(s.id) => Live(s.id)'))
  BY <1>3, <1>4, <1>11 DEF Shape, TokensOK, Session, Exists
<1>13. SessionsFresh' /\ SessionsLive' /\ ClosingLate'
  BY <1>1, <1>2, <1>3, <1>7, <1>12, SessionsEnd
<1>14. HalfwayFresh'
  BY <1>3, <1>4, <1>11, HalfwayEnds DEF Shape, TokensOK, Known
<1>15. \A q \in Proc \ {p}, j \in Ids : at[q].id = j =>
         at'[q].late \/ (RowEra(j) /\ (Live(j) => Live(j)'))
  BY <1>4, <1>11, Running
<1> QED
  BY <1>1, <1>7, <1>10, <1>13, <1>14, <1>15, EndedStep

(* What is not a step of a request.                                        *)
LEMMA RestEnded ==
  ASSUME Shape, Ended, UNCHANGED <<pc, at>>, EraKept, LiveKept,
         sessions' \subseteq sessions, halfway' \subseteq halfway
  PROVE  Ended'
<1>1. \A j : Wiping(j)' <=> Wiping(j)
  BY DEF Wiping, Is
<1>2. \A j \in Ids : RowEra(j) /\ (Live(j) => Live(j)')
  BY <1>1 DEF RowEra, EraKept, LiveKept
<1>3. SessionsFresh'
  <2> SUFFICES ASSUME NEW s \in sessions' PROVE Fresh(s.id, s.era, s.late)'
    BY DEF SessionsFresh
  <2>1. s.id \in Ids /\ Fresh(s.id, s.era, s.late)
    BY DEF Shape, TokensOK, Session, Ended, SessionsFresh
  <2> QED
    BY <1>2, <2>1, FreshLasts
<1>4. SessionsLive'
  <2> SUFFICES ASSUME NEW s \in sessions', users'[s.id].del # "no", ~s.late PROVE s.linked
    BY DEF SessionsLive
  <2>1. ~Live(s.id) /\ Exists(s.id) /\ s \in sessions
    BY <1>2 DEF Live, Shape, TokensOK, Session
  <2> QED
    BY <2>1 DEF Live, Ended, SessionsLive
<1>5. ClosingLate'
  BY DEF Ended, ClosingLate
<1>6. HalfwayFresh'
  BY <1>2, HalfwayEnds DEF Shape, TokensOK
<1>7. ASSUME NEW q \in Proc PROVE CallFresh(pc[q], at[q])' /\ LiveCall(pc[q], at[q])'
  <2>1. PICK k, b : k = pc[q] /\ b = at[q]
    OBVIOUS
  <2>2. CallFresh(k, b) /\ LiveCall(k, b) /\ (k \in Opening => b.id \in Ids)
    BY <2>1, Running DEF Ended, Opening, NoRow
  <2>3. CallFresh(k, b)'
    BY <1>2, <2>2, FreshLasts DEF CallFresh
  <2>4. LiveCall(k, b)'
    BY <1>2, <2>2 DEF LiveCall
  <2> QED
    BY <2>1, <2>3, <2>4 DEF CallFresh, LiveCall, Fresh, Live, Exists, Wiping, Is
<1> QED
  BY <1>3, <1>4, <1>5, <1>6, <1>7 DEF Ended

LEMMA EndedNext ==
  ASSUME Shape, EndedInv, [Next]_vars
  PROVE  EndedInv'
<1> SUFFICES ASSUME faults' = 0, crashes' = 0 PROVE Ended'
  BY DEF EndedInv, Undisturbed
<1>1. faults \in Nat /\ crashes \in Nat
  BY DEF Shape, CountsOK
<1>2. ASSUME NEW p \in Proc, Begins(p) PROVE Ended'
  BY <1>2, BeginsUsers, BeginsEnded DEF EndedInv, Undisturbed
<1>3. ASSUME NEW p \in Proc, Continue(p) PROVE Ended'
  <2>1. UNCHANGED crashes /\ (UNCHANGED faults \/ Fault)
    BY <1>3 DEF Continue, Open, Drop, RegisterCreate, GoogleCreate, Create, Restore, Mfa,
                GoogleRestored, Dismiss, Clear, Details, Link, SetOn, SetOff, UpdateMFA, Update,
                Wipe, Soft, NoEffect
  <2>2. ~Fault
    BY <1>1 DEF Fault
  <2>3. UNCHANGED faults /\ Ended
    BY <2>1, <2>2 DEF EndedInv, Undisturbed
  <2> QED
    BY <1>3, <2>3, OpenEnded, DropEnded, CreateEnded, RestoreEnded, MfaEnded, LinkingEnded,
       WipeEnded, ClearEnded, SetFactorEnded, UpdateEnded, SoftEnded DEF Continue
<1>4. ASSUME NEW r \in rehashes, Rehash(r) PROVE Ended'
  <2>1. UNCHANGED <<faults, crashes>>
    BY <1>1, <1>4, RehashKept DEF Fault
  <2> QED
    BY <1>4, <2>1, RehashKept, RestEnded DEF EndedInv, Undisturbed
<1>5. CASE TokensExpire \/ UNCHANGED vars \/ \E p \in Proc : Logout(p)
  <2>1. /\ UNCHANGED <<users, pc, at, faults, crashes>>
        /\ sessions' \subseteq sessions /\ halfway' \subseteq halfway
    BY <1>5 DEF TokensExpire, vars, Logout, DeleteByTokenHash
  <2>2. EraKept /\ LiveKept
    BY <2>1 DEF EraKept, LiveKept, Live, Exists
  <2> QED
    BY <2>1, <2>2, RestEnded DEF EndedInv, Undisturbed
<1>6. ASSUME NEW i \in Ids, Lapse(i) PROVE Ended'
  BY <1>6, LapseShape, LapseLive, RestEnded DEF Lapse, tokens, EndedInv, Undisturbed
<1>7. CASE Purge
  BY <1>7, PurgeRow, PurgeLive, RestEnded DEF Purge, EndedInv, Undisturbed
<1>8. CASE Crash
  BY <1>1, <1>8 DEF Crash
<1> QED
  BY <1>2, <1>3, <1>4, <1>5, <1>6, <1>7, <1>8 DEF Next, Request, Begins

LEMMA EndedInit ==
  ASSUME Init
  PROVE  EndedInv
<1>1. sessions = {} /\ halfway = {} /\ \A p \in Proc : pc[p] = "idle"
  BY DEF Init
<1> QED
  BY <1>1 DEF EndedInv, Ended, SessionsFresh, HalfwayFresh, SessionsLive, ClosingLate, CallFresh,
              LiveCall, Opening

-------------------------------------------------------------------------------
(* A token is exchanged by requests that ran at the same time.             *)
LEMMA RequestsCounted ==
  ASSUME NEW S \in SUBSET Proc
  PROVE  /\ IsFiniteSet(S) /\ Cardinality(S) \in Nat
         /\ Cardinality(Proc) \in Nat /\ Cardinality(S) <= Cardinality(Proc)
BY AuthBounds, FS_Subset, FS_CardinalityType

LEMMA TokensCounted ==
  ASSUME NEW b \in Seq(Nat), NEW t
  PROVE  IsFiniteSet(From(b, t)) /\ Cardinality(From(b, t)) \in Nat
<1>1. Len(b) \in Nat /\ DOMAIN b = 1 .. Len(b)
  OBVIOUS
<1>2. IsFiniteSet(1 .. Len(b))
  BY <1>1, FS_Interval
<1>3. From(b, t) \in SUBSET (1 .. Len(b))
  BY <1>1 DEF From
<1> QED
  BY <1>2, <1>3, FS_Subset, FS_CardinalityType

LEMMA TokenAppended ==
  ASSUME NEW b \in Seq(Nat), NEW u \in Nat, NEW t
  PROVE  /\ u = t => Cardinality(From(Append(b, u), t)) = Cardinality(From(b, t)) + 1
         /\ u # t => Cardinality(From(Append(b, u), t)) = Cardinality(From(b, t))
<1> PICK a : a = Append(b, u)
  OBVIOUS
<1>1. /\ Len(b) \in Nat /\ DOMAIN b = 1 .. Len(b) /\ DOMAIN a = 1 .. Len(b) + 1
      /\ \A n \in 1 .. Len(b) : a[n] = b[n]
      /\ a[Len(b) + 1] = u
  OBVIOUS
<1>2. CASE u = t
  <2>1. From(a, t) = From(b, t) \cup {Len(b) + 1} /\ Len(b) + 1 \notin From(b, t)
    BY <1>1, <1>2 DEF From
  <2> QED
    BY <1>2, <2>1, TokensCounted, FS_AddElement
<1>3. CASE u # t
  <2>1. From(a, t) = From(b, t)
    BY <1>1, <1>3 DEF From
  <2> QED
    BY <1>3, <2>1
<1> QED
  BY <1>2, <1>3

(* What is counted in a state.                                             *)
LEMMA Counted ==
  ASSUME Shape, NEW t
  PROVE  /\ Cardinality(Children(t)) \in Nat /\ Cardinality(Proc) \in Nat /\ faults \in Nat
         /\ Cardinality(Exchanging(t)) \in Nat
         /\ Cardinality(Exchanging(t)) <= Cardinality(Proc)
         /\ Cardinality(Exchanged(t)) \in Nat
         /\ Cardinality(Exchanged(t)) <= Cardinality(Exchanging(t))
<1>1. Cardinality(Children(t)) \in Nat
  BY TokensCounted DEF Children, From, Shape, TokensOK
<1>2. /\ Exchanging(t) \in SUBSET Proc /\ Exchanged(t) \in SUBSET Proc
      /\ Exchanged(t) \in SUBSET Exchanging(t)
  BY DEF Exchanging, Exchanged
<1>3. IsFiniteSet(Exchanging(t))
  BY <1>2, RequestsCounted
<1> QED
  BY <1>1, <1>2, <1>3, RequestsCounted, FS_Subset DEF Shape, CountsOK

(* Requests only stop to hold their token.                                 *)
TokKept ==
  \A q \in Proc : at'[q].tok # 0 =>
    at'[q].tok = at[q].tok /\ (pc'[q] = "open" => pc[q] = "open")

LEMMA HoldersKept ==
  ASSUME TokKept, NEW t, t # 0
  PROVE  /\ Cardinality(Exchanging(t)') \in Nat /\ Cardinality(Exchanged(t)') \in Nat
         /\ Cardinality(Exchanging(t)') <= Cardinality(Exchanging(t))
         /\ Cardinality(Exchanged(t)') <= Cardinality(Exchanged(t))
<1>1. PICK A, B, C, D : /\ A = Exchanging(t) /\ B = Exchanged(t)
                        /\ C = Exchanging(t)' /\ D = Exchanged(t)'
  OBVIOUS
<1>2. A \in SUBSET Proc /\ B \in SUBSET Proc /\ C \in SUBSET A /\ D \in SUBSET B
  BY <1>1 DEF Exchanging, Exchanged, TokKept, Is
<1>3. C \in SUBSET Proc /\ D \in SUBSET Proc
  BY <1>2
<1>4. IsFiniteSet(A) /\ IsFiniteSet(B) /\ Cardinality(C) \in Nat /\ Cardinality(D) \in Nat
  BY <1>2, <1>3, RequestsCounted
<1>5. Cardinality(C) <= Cardinality(A) /\ Cardinality(D) <= Cardinality(B)
  BY <1>2, <1>4, FS_Subset
<1> QED
  BY <1>1, <1>4, <1>5

LEMMA TokenStep ==
  ASSUME Shape, TokenInv, TokKept, UNCHANGED born, sessions' \subseteq sessions,
         faults' \in Nat, faults <= faults'
  PROVE  TokenInv'
<1> SUFFICES ASSUME NEW t \in DOMAIN born
             PROVE  /\ Cardinality(Children(t)') + Cardinality(Exchanging(t)')
                         <= Cardinality(Proc) + faults'
                    /\ (\E s \in sessions' : s.tok = t)
                         => Cardinality(Children(t)') + Cardinality(Exchanged(t)') <= faults'
  BY DEF TokenInv
<1>1. t # 0 /\ Children(t)' = Children(t)
  BY DEF Children, From, Shape, TokensOK
<1>2. /\ Cardinality(Children(t)) + Cardinality(Exchanging(t)) <= Cardinality(Proc) + faults
      /\ (\E s \in sessions : s.tok = t)
           => Cardinality(Children(t)) + Cardinality(Exchanged(t)) <= faults
  BY DEF TokenInv
<1> QED
  BY <1>1, <1>2, Counted, HoldersKept

(* A request that arrives reads a session before the token is exchanged.   *)
LEMMA BeginsToken ==
  ASSUME Shape, TokenInv, NEW p \in Proc, Begins(p)
  PROVE  TokenInv'
<1>1. PICK l, c : Go(p, l, c) /\ Arrived(l, c)
  BY RequestReads
<1>2. /\ pc'[p] = l /\ at'[p] = c
      /\ \A q \in Proc \ {p} : pc'[q] = pc[q] /\ at'[q] = at[q]
  BY <1>1, GoOthers
<1>3. UNCHANGED <<sessions, born, faults>> /\ faults \in Nat
  BY BeginsUsers DEF Shape, CountsOK
<1>4. CASE c.tok = 0
  <2>1. TokKept
    BY <1>2, <1>4 DEF TokKept
  <2> QED
    BY <1>3, <2>1, TokenStep
<1>5. CASE c.tok # 0
  <2>1. l = "drop" /\ \E s \in sessions : c.tok = s.tok
    BY <1>1, <1>5 DEF Arrived, ReadNoRow, ReadHalfway, ReadRow, ReadSession
  <2> SUFFICES ASSUME NEW t \in DOMAIN born
               PROVE  /\ Cardinality(Children(t)') + Cardinality(Exchanging(t)')
                           <= Cardinality(Proc) + faults
                      /\ (\E s \in sessions : s.tok = t)
                           => Cardinality(Children(t)') + Cardinality(Exchanged(t)') <= faults
    BY <1>3 DEF TokenInv
  <2>2. Children(t)' = Children(t) /\ t # 0
    BY <1>3 DEF Children, From, Shape, TokensOK
  <2>3. /\ Cardinality(Children(t)) + Cardinality(Exchanging(t)) <= Cardinality(Proc) + faults
        /\ (\E s \in sessions : s.tok = t)
             => Cardinality(Children(t)) + Cardinality(Exchanged(t)) <= faults
    BY DEF TokenInv
  <2>4. Exchanging(t)' \in SUBSET Proc /\ Exchanged(t)' \in SUBSET Exchanged(t)
    BY <1>2, <2>1 DEF Exchanging, Exchanged, Is
  <2>5. Exchanged(t) \in SUBSET Proc
    BY DEF Exchanged
  <2>6. /\ Cardinality(Exchanging(t)') \in Nat
        /\ Cardinality(Exchanging(t)') <= Cardinality(Proc)
    BY <2>4, RequestsCounted
  <2>7. /\ Cardinality(Exchanged(t)') \in Nat
        /\ Cardinality(Exchanged(t)') <= Cardinality(Exchanged(t))
    <3>1. IsFiniteSet(Exchanged(t))
      BY <2>5, RequestsCounted
    <3>2. Exchanged(t)' \in SUBSET Proc
      BY <2>4, <2>5
    <3> QED
      BY <2>4, <3>1, <3>2, FS_Subset, RequestsCounted
  <2>8. CASE c.tok = t
    <3>1. Cardinality(Children(t)) + Cardinality(Exchanged(t)) <= faults
      BY <2>1, <2>3, <2>8
    <3>2. Cardinality(Children(t)) <= faults
      BY <3>1, Counted
    <3>3. Cardinality(Children(t)') + Cardinality(Exchanging(t)') <= Cardinality(Proc) + faults
      BY <2>2, <2>6, <3>2, Counted
    <3>4. Cardinality(Children(t)') + Cardinality(Exchanged(t)') <= faults
      BY <2>2, <2>7, <3>1, Counted
    <3> QED
      BY <3>3, <3>4
  <2>9. CASE c.tok # t
    <3>1. Exchanging(t)' \in SUBSET Exchanging(t)
      BY <1>2, <2>9 DEF Exchanging
    <3>2. Exchanging(t) \in SUBSET Proc
      BY DEF Exchanging
    <3>3. IsFiniteSet(Exchanging(t))
      BY <3>2, RequestsCounted
    <3>4. Cardinality(Exchanging(t)') <= Cardinality(Exchanging(t))
      BY <3>1, <3>3, FS_Subset
    <3> QED
      BY <2>2, <2>3, <2>6, <2>7, <3>4, Counted
  <2> QED
    BY <2>8, <2>9
<1> QED
  BY <1>4, <1>5


(* A request that ends leaves one holder less.                             *)
LEMMA HolderGone ==
  ASSUME NEW p \in Proc, NEW t, t # 0, at[p].tok = t, pc[p] = "open",
         pc'[p] = "idle", at'[p] = NoCall,
         \A q \in Proc \ {p} : pc'[q] = pc[q] /\ at'[q] = at[q]
  PROVE  /\ Cardinality(Exchanging(t)') <= Cardinality(Exchanging(t)) - 1
         /\ Cardinality(Exchanged(t)') <= Cardinality(Exchanged(t)) - 1
<1>1. PICK A, B, C, D : /\ A = Exchanging(t) /\ B = Exchanged(t)
                        /\ C = Exchanging(t)' /\ D = Exchanged(t)'
  OBVIOUS
<1>2. C = A \ {p} /\ p \in A /\ D = B \ {p} /\ p \in B
  BY <1>1, NoCallType DEF Exchanging, Exchanged, Is
<1>3. A \in SUBSET Proc /\ B \in SUBSET Proc
  BY <1>1 DEF Exchanging, Exchanged
<1>4. IsFiniteSet(A) /\ Cardinality(A) \in Nat /\ IsFiniteSet(B) /\ Cardinality(B) \in Nat
  BY <1>3, RequestsCounted
<1>5. Cardinality(C) = Cardinality(A) - 1
  BY <1>2, <1>4, FS_RemoveElement
<1>6. Cardinality(D) = Cardinality(B) - 1
  BY <1>2, <1>4, FS_RemoveElement
<1> QED
  BY <1>1, <1>4, <1>5, <1>6

(* createSession stores a session that has a token of its own.             *)
LEMMA OpenToken ==
  ASSUME Shape, TokenInv, NEW p \in Proc, Open(p)
  PROVE  TokenInv'
<1>1. PICK u : u = at[p].tok
  OBVIOUS
<1>2. /\ pc[p] = "open" /\ pc'[p] = "idle" /\ at'[p] = NoCall
      /\ \A q \in Proc \ {p} : pc'[q] = pc[q] /\ at'[q] = at[q]
  BY GoOthers DEF Open, Is, Done
<1>3. TokKept
  BY <1>2, NoCallType DEF TokKept
<1>4. u \in Nat /\ born \in Seq(Nat) /\ Len(born) \in Nat /\ faults \in Nat
  BY <1>1, Running, Fields DEF Shape, TokensOK, CountsOK
<1>5. CASE UNCHANGED <<born, sessions>>
  <2>1. faults' \in Nat /\ faults <= faults'
    BY <1>4 DEF Open, NoEffect, Fault
  <2> QED
    BY <1>3, <1>5, <2>1, TokenStep
<1>6. CASE ~UNCHANGED <<born, sessions>>
  <2>1. /\ UNCHANGED faults /\ born' = Append(born, u)
        /\ \A s \in sessions' : s \in sessions \/ s.tok = Len(born) + 1
    BY <1>1, <1>6 DEF Open
  <2> SUFFICES ASSUME NEW t \in DOMAIN born'
               PROVE  /\ Cardinality(Children(t)') + Cardinality(Exchanging(t)')
                           <= Cardinality(Proc) + faults
                      /\ (\E s \in sessions' : s.tok = t)
                           => Cardinality(Children(t)') + Cardinality(Exchanged(t)') <= faults
    BY <2>1 DEF TokenInv
  <2>2. t \in 1 .. Len(born) + 1 /\ t # 0
    BY <1>4, <2>1
  <2>3. /\ u = t => Cardinality(Children(t)') = Cardinality(Children(t)) + 1
        /\ u # t => Cardinality(Children(t)') = Cardinality(Children(t))
    <3>1. /\ u = t => Cardinality(From(Append(born, u), t)) = Cardinality(From(born, t)) + 1
          /\ u # t => Cardinality(From(Append(born, u), t)) = Cardinality(From(born, t))
      BY <1>4, TokenAppended
    <3> QED
      BY <2>1, <3>1 DEF Children
  <2>4. CASE t = Len(born) + 1
    <3>1. Children(t) = {} /\ Exchanging(t) = {} /\ Exchanged(t) = {} /\ u # t
      <4>1. \A n \in 1 .. Len(born) : born[n] # t
        BY <1>4, <2>4 DEF Shape, TokensOK
      <4>2. \A q \in Proc : at[q].tok # t
        BY <1>4, <2>4, Running DEF RequestOK
      <4> QED
        BY <1>1, <1>4, <4>1, <4>2 DEF Children, From, Exchanging, Exchanged
    <3>2. /\ Cardinality(Children(t)) = 0 /\ Cardinality(Exchanging(t)) = 0
          /\ Cardinality(Exchanged(t)) = 0
      BY <3>1, FS_EmptySet
    <3>3. Cardinality(Children(t)') = 0
      BY <2>3, <3>1, <3>2
    <3> QED
      BY <1>3, <1>4, <2>2, <3>2, <3>3, HoldersKept, Counted
  <2>5. CASE t # Len(born) + 1
    <3>1. t \in DOMAIN born
      BY <1>4, <2>2, <2>5
    <3>2. /\ Cardinality(Children(t)) + Cardinality(Exchanging(t)) <= Cardinality(Proc) + faults
          /\ (\E s \in sessions : s.tok = t)
               => Cardinality(Children(t)) + Cardinality(Exchanged(t)) <= faults
      BY <3>1 DEF TokenInv
    <3>3. (\E s \in sessions' : s.tok = t) => \E s \in sessions : s.tok = t
      BY <2>1, <2>5
    <3>4. CASE u # t
      <4>1. Cardinality(Children(t)') = Cardinality(Children(t))
        BY <2>3, <3>4
      <4>2. /\ Cardinality(Exchanging(t)') \in Nat /\ Cardinality(Exchanged(t)') \in Nat
            /\ Cardinality(Exchanging(t)') <= Cardinality(Exchanging(t))
            /\ Cardinality(Exchanged(t)') <= Cardinality(Exchanged(t))
        BY <1>3, <2>2, HoldersKept
      <4>3. Cardinality(Children(t)') + Cardinality(Exchanging(t)') <= Cardinality(Proc) + faults
        BY <3>2, <4>1, <4>2, Counted
      <4>4. (\E s \in sessions' : s.tok = t)
              => Cardinality(Children(t)') + Cardinality(Exchanged(t)') <= faults
        BY <3>2, <3>3, <4>1, <4>2, Counted
      <4> QED
        BY <4>3, <4>4
    <3>5. CASE u = t
      <4>1. /\ Cardinality(Exchanging(t)') <= Cardinality(Exchanging(t)) - 1
            /\ Cardinality(Exchanged(t)') <= Cardinality(Exchanged(t)) - 1
        BY <1>1, <1>2, <2>2, <3>5, HolderGone
      <4>2. Cardinality(Children(t)') = Cardinality(Children(t)) + 1
        BY <2>3, <3>5
      <4>3. Cardinality(Exchanging(t)') \in Nat /\ Cardinality(Exchanged(t)') \in Nat
        BY <1>3, <2>2, HoldersKept
      <4>4. Cardinality(Children(t)') + Cardinality(Exchanging(t)') <= Cardinality(Proc) + faults
        BY <3>2, <4>1, <4>2, <4>3, Counted
      <4>5. (\E s \in sessions' : s.tok = t)
              => Cardinality(Children(t)') + Cardinality(Exchanged(t)') <= faults
        BY <3>2, <3>3, <4>1, <4>2, <4>3, Counted
      <4> QED
        BY <4>4, <4>5
    <3> QED
      BY <3>4, <3>5
  <2> QED
    BY <2>4, <2>5
<1> QED
  BY <1>5, <1>6

(* RefreshTokens goes on to createSession after it deleted the session, or *)
(* did not: that is a fault.                                               *)
LEMMA DropToken ==
  ASSUME Shape, TokenInv, NEW p \in Proc, Drop(p)
  PROVE  TokenInv'
<1>1. PICK u : u = at[p].tok
  OBVIOUS
<1>2. /\ pc[p] = "drop"
      /\ \A q \in Proc \ {p} : pc'[q] = pc[q] /\ at'[q] = at[q]
      /\ \/ pc'[p] = "idle" /\ at'[p] = NoCall
         \/ pc'[p] = "open" /\ at'[p] = at[p]
  BY GoOthers DEF Drop, Is, Done, Step
<1>3. UNCHANGED born /\ sessions' \subseteq sessions
  BY DEF Drop, DeleteByTokenHash
<1>4. /\ faults \in Nat /\ faults' \in Nat
      /\ \/ faults' = faults /\ \A s \in sessions' : s.tok # u
         \/ faults' = faults + 1
  BY <1>1 DEF Drop, DeleteByTokenHash, Fault, Shape, CountsOK
<1>5. CASE TokKept
  BY <1>3, <1>4, <1>5, TokenStep
<1>6. CASE ~TokKept
  <2>1. pc'[p] = "open" /\ at'[p] = at[p] /\ u # 0
    BY <1>1, <1>2, <1>6, NoCallType DEF TokKept
  <2> SUFFICES ASSUME NEW t \in DOMAIN born
               PROVE  /\ Cardinality(Children(t)') + Cardinality(Exchanging(t)')
                           <= Cardinality(Proc) + faults'
                      /\ (\E s \in sessions' : s.tok = t)
                           => Cardinality(Children(t)') + Cardinality(Exchanged(t)') <= faults'
    BY <1>3 DEF TokenInv
  <2>2. t # 0 /\ Children(t)' = Children(t)
    BY <1>3 DEF Children, From, Shape, TokensOK
  <2>3. /\ Cardinality(Children(t)) + Cardinality(Exchanging(t)) <= Cardinality(Proc) + faults
        /\ (\E s \in sessions : s.tok = t)
             => Cardinality(Children(t)) + Cardinality(Exchanged(t)) <= faults
    BY DEF TokenInv
  <2>4. Exchanging(t)' = Exchanging(t)
    BY <1>2, <2>1 DEF Exchanging
  <2>5. /\ u # t => Exchanged(t)' = Exchanged(t)
        /\ u = t => Exchanged(t)' = Exchanged(t) \cup {p} /\ p \notin Exchanged(t)
    BY <1>1, <1>2, <2>1 DEF Exchanged, Is
  <2>6. CASE u # t
    BY <1>3, <1>4, <2>2, <2>3, <2>4, <2>5, <2>6, Counted
  <2>7. CASE u = t
    <3>1. IsFiniteSet(Exchanged(t))
      BY RequestsCounted DEF Exchanged
    <3>2. Cardinality(Exchanged(t)') = Cardinality(Exchanged(t)) + 1
      BY <2>5, <2>7, <3>1, FS_AddElement
    <3>3. CASE faults' = faults + 1
      BY <1>3, <1>4, <2>2, <2>3, <2>4, <3>2, <3>3, Counted
    <3>4. CASE faults' = faults /\ \A s \in sessions' : s.tok # u
      BY <2>2, <2>3, <2>4, <2>7, <3>4
    <3> QED
      BY <1>4, <3>3, <3>4
  <2> QED
    BY <2>6, <2>7
<1> QED
  BY <1>5, <1>6


LEMMA TokenNext ==
  ASSUME Shape, TokenInv, [Next]_vars
  PROVE  TokenInv'
<1>1. faults \in Nat
  BY DEF Shape, CountsOK
<1>2. CASE UNCHANGED <<born, faults, pc, at>> /\ sessions' \subseteq sessions
  <2>1. TokKept
    BY <1>2 DEF TokKept
  <2> QED
    BY <1>1, <1>2, <2>1, TokenStep
<1>3. ASSUME NEW p \in Proc, Continue(p), ~Open(p), ~Drop(p) PROVE TokenInv'
  <2>1. UNCHANGED born /\ sessions' \subseteq sessions /\ (UNCHANGED faults \/ Fault)
    BY <1>3 DEF Continue, RegisterCreate, GoogleCreate, Create, Restore, Mfa, GoogleRestored,
                Dismiss, Clear, Details, Link, SetOn, SetOff, UpdateMFA, Update, Wipe, Soft,
                DeleteAllByUserID, NoEffect, tokens
  <2>2. faults' \in Nat /\ faults <= faults'
    BY <1>1, <2>1 DEF Fault
  <2>3. pc[p] \notin {"open", "drop"}
    BY <1>3 DEF Continue, RegisterCreate, GoogleCreate, Restore, Mfa, GoogleRestored, Dismiss,
                Clear, Details, Link, SetOn, SetOff, Update, Wipe, Soft, Is
  <2>4. at'[p].tok = 0
    <3>1. PICK c, d : c = at[p] /\ d = at'[p]
      OBVIOUS
    <3>2. c \in CallType /\ c.tok = 0
      BY <2>3, <3>1, Running DEF RequestOK
    <3>3. \/ Ends(p) \/ Keeps(p) \/ d = [c EXCEPT !.era = @ + 1]
          \/ \E i : d = [c EXCEPT !.id = i]
      BY <1>3, <3>1, ContinueSelf
    <3>4. d.tok = 0
      BY <3>1, <3>2, <3>3, NoCallType DEF Ends, Keeps, CallType
    <3> QED
      BY <3>1, <3>4
  <2>5. TokKept
    <3> SUFFICES ASSUME NEW q \in Proc, at'[q].tok # 0
                 PROVE  at'[q].tok = at[q].tok /\ pc'[q] = pc[q]
      BY DEF TokKept
    <3>1. q # p /\ OthersStay(p)
      BY <1>3, <2>4, ContinueSelf
    <3> QED
      BY <3>1 DEF OthersStay, Same
  <2> QED
    BY <2>1, <2>2, <2>5, TokenStep
<1>4. ASSUME NEW p \in Proc, Logout(p) PROVE TokenInv'
  BY <1>2, <1>4 DEF Logout, DeleteByTokenHash
<1>5. ASSUME NEW r \in rehashes, Rehash(r) PROVE TokenInv'
  <2>1. TokKept /\ UNCHANGED <<born, sessions>>
    BY <1>5 DEF Rehash, tokens, TokKept
  <2>2. faults' \in Nat /\ faults <= faults'
    BY <1>1, <1>5 DEF Rehash, NoEffect, Fault
  <2> QED
    BY <2>1, <2>2, TokenStep
<1>6. CASE TokensExpire \/ (\E i \in Ids : Lapse(i)) \/ Purge \/ UNCHANGED vars
  BY <1>2, <1>6 DEF TokensExpire, Lapse, Purge, tokens, vars
<1>7. CASE Crash
  <2>1. TokKept
    BY <1>7, NoCallType DEF Crash, TokKept
  <2> QED
    BY <1>1, <1>7, <2>1, TokenStep DEF Crash, tokens
<1> QED
  BY <1>3, <1>4, <1>5, <1>6, <1>7, BeginsToken, OpenToken, DropToken
  DEF Next, Request, Begins

LEMMA TokenInit ==
  ASSUME Init
  PROVE  TokenInv
BY DEF Init, TokenInv

-------------------------------------------------------------------------------
LEMMA SessionsHeld ==
  ASSUME Shape, EndedInv, TokenInv
  PROVE  SessionsHold
<1>1. StaleIsLate
  <2> SUFFICES ASSUME NEW s \in sessions, s.era < users[s.id].era, ~s.late, Undisturbed
               PROVE  \E p \in Proc : at[p].id = s.id /\ Is(p, "wipe")
    BY DEF StaleIsLate
  <2>1. Exists(s.id)
    BY DEF Shape, TokensOK
  <2> QED
    BY <2>1 DEF EndedInv, Ended, SessionsFresh, Fresh, Wiping
<1>2. DeletedHasOnlyLate
  BY DEF DeletedHasOnlyLate, EndedInv, Ended, SessionsLive
<1>3. ExchangedOnce
  <2> SUFFICES ASSUME NEW t \in DOMAIN born
               PROVE  Cardinality(Children(t)) <= Cardinality(Proc) + faults
    BY DEF ExchangedOnce, Children, From
  <2>1. Cardinality(Children(t)) + Cardinality(Exchanging(t)) <= Cardinality(Proc) + faults
    BY DEF TokenInv
  <2> QED
    BY <2>1, Counted
<1> QED
  BY <1>1, <1>2, <1>3 DEF SessionsHold

(* No session outlives the password, the account or the token it was       *)
(* opened on, but for the requests that ran when the sessions were ended,  *)
(* logins by a linked Google account, and a statement that failed; a       *)
(* refresh token is exchanged by requests that run at the same time only,  *)
(* so at most once per request that can run.                               *)
THEOREM SessionsAreEnded == Spec => []SessionsHold
<1>1. Init => EndedInv /\ TokenInv
  BY EndedInit, TokenInit
<1>2. Shape /\ EndedInv /\ TokenInv /\ [Next]_vars => EndedInv' /\ TokenInv'
  BY EndedNext, TokenNext
<1>3. Shape /\ EndedInv /\ TokenInv => SessionsHold
  BY SessionsHeld
<1> QED
  BY <1>1, <1>2, <1>3, ShapeInvariant, PTL DEF Spec

(* Whoever logs in by password while the second factor is on all along is  *)
(* asked for a code, unless the factor could not be read (Login goes on    *)
(* when GetMFAFields fails); and a factor that is on has a secret somebody *)
(* has shown a code of, however set-ups and EnableMFA interleave.          *)
THEOREM FactorIsHeld == Spec => []FactorHolds
<1>1. Init => FactorInv
  BY FactorInit
<1>2. Shape /\ FactorInv /\ [Next]_vars => FactorInv'
  BY FactorNext
<1>3. FactorInv => FactorHolds
  BY DEF FactorInv
<1> QED
  BY <1>1, <1>2, <1>3, ShapeInvariant, PTL DEF Spec

(* The password of an account is the one chosen last: the goroutine of     *)
(* Login that stores its hash again undoes no change, unless the password  *)
(* was changed while the goroutine or its login held the former one.       *)
THEOREM PasswordIsLatest == Spec => []LatestPassword
<1>1. Init => WordInv
  BY WordInit
<1>2. Shape /\ WordInv /\ [Next]_vars => WordInv'
  BY WordNext
<1>3. WordInv => LatestPassword
  BY DEF WordInv
<1> QED
  BY <1>1, <1>2, <1>3, ShapeInvariant, PTL DEF Spec

=============================================================================
