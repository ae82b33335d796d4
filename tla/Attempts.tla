------------------------------- MODULE Attempts -------------------------------
(***************************************************************************)
(* Counted attempts: one-time codes for one e-mail address and one purpose *)
(* (notification_service.go, the OTP keys of queue/redis.go and            *)
(* email_verification_repository.go), and the counters that limit how often*)
(* a caller may ask for a code, try one, or try the passcode of an upload  *)
(* invite.                                                                 *)
(*                                                                         *)
(* A code lives twice: in Redis, where every attempt is GET, compare and   *)
(* SET or DEL, and in a row of PostgreSQL, which answers when Redis has no *)
(* key.  A process of Proc is one request; bg are the goroutines that tell *)
(* the database of an acceptance by Redis.  What an accepted code is good  *)
(* for (a session, a new password) is in Auth.tla.                         *)
(***************************************************************************)
EXTENDS Integers, Sequences, FiniteSets

CONSTANTS Code, NoCode,
          Watched,       \* the code whose guesses and acceptances are counted: any of Code
          Wrong,         \* a guess that is no code
          Proc,          \* requests that may run at the same time
          Purpose,       \* what is tried: codes for a "registration" or a "password_reset",
                         \* the "passcode" of an invite
          MaxTries,      \* max_attempts of a code
          Limit,         \* requests per window of a counter
          MaxEvents      \* bound on requests, failed statements and crashes together

ASSUME AttemptBounds ==
    /\ {MaxTries, Limit} \subseteq Nat \ {0} /\ MaxEvents \in Nat
    /\ Purpose \subseteq {"registration", "password_reset", "passcode"} /\ Purpose # {}
    /\ NoCode \notin Code /\ Wrong \notin Code /\ Watched \in Code
    /\ IsFiniteSet(Proc) /\ IsFiniteSet(Code)

VARIABLES
    purpose,   \* what is tried
    key,       \* Redis: the code, its attempts, and the code whose lifetime ends the key
    rows,      \* email_verifications, oldest first
    hits,      \* Redis: the counters and whether they will expire
    pc, at,    \* the requests
    bg,        \* the goroutines: to look for a row, rows to mark, the user to mark
    verified,  \* users.is_verified
    stored,    \* history: the codes stored in Redis, oldest first
    accepted,  \* history: how often the watched code was accepted
    guesses,   \* history: wrong guesses compared with each copy of the watched code
    passed,    \* history: requests let through in the window of a counter
    lost,      \* history: writes that hit something else than what was read
    requests, faults, crashes

vars == <<purpose, key, rows, hits, pc, at, bg, verified,
          stored, accepted, guesses, passed, lost, requests, faults, crashes>>

otp     == <<key, rows>>
counter == <<hits, passed>>
history == <<accepted, guesses, lost>>

Counter == {"forgot", "reset", "passcode"}
Forever == "forever"   \* a key that never expires
Keep    == "keep"      \* SET with KEEPTTL
NoKey   == [code |-> NoCode, tries |-> 0, until |-> NoCode]
NoCall  == [kind |-> "none", guess |-> NoCode, read |-> NoKey, until |-> NoCode, row |-> 0]
Quiet   == [find |-> 0, mark |-> {}, user |-> FALSE]

\* The two copies of a code.
Copy == {"redis", "row"}

\* Where a request may be: the next command or statement.
PC == {"idle", "arm", "compare", "store", "insert", "get", "drop", "del", "ttl", "set",
       "find", "bump", "use", "user"}

Row     == [code : Code, tries : Nat, live : BOOLEAN]
KeyRow  == [code : Code \cup {NoCode}, tries : 0..MaxTries, until : Code \cup {NoCode, Forever}]
CallRow == [kind : Counter \cup {"none", "verify", "issue"}, guess : Code \cup {NoCode, Wrong},
            read : KeyRow, until : Code \cup {NoCode, Forever, Keep}, row : Nat]

TypeOK ==
    /\ purpose \in Purpose
    /\ key \in KeyRow
    /\ rows \in Seq(Row)
    /\ hits \in [Counter -> [n : Nat, armed : BOOLEAN]]
    /\ pc \in [Proc -> PC] /\ at \in [Proc -> CallRow]
    /\ bg \in [find : Nat, mark : SUBSET DOMAIN rows, user : BOOLEAN]
    /\ verified \in BOOLEAN /\ stored \in Seq(Code)
    /\ guesses \in [Copy -> Nat] /\ passed \in [Counter -> Nat]
    /\ {accepted, lost, requests, faults, crashes} \subseteq Nat

Init ==
    /\ purpose \in Purpose
    /\ key = NoKey /\ rows = <<>>
    /\ hits = [k \in Counter |-> [n |-> 0, armed |-> FALSE]]
    /\ pc = [p \in Proc |-> "idle"] /\ at = [p \in Proc |-> NoCall]
    /\ bg = Quiet
    /\ verified = FALSE
    /\ stored = <<>>
    /\ accepted = 0 /\ guesses = [d \in Copy |-> 0]
    /\ passed = [k \in Counter |-> 0]
    /\ lost = 0 /\ requests = 0 /\ faults = 0 /\ crashes = 0

-------------------------------------------------------------------------------
Is(p, l)    == pc[p] = l
Go(p, l, c) == pc' = [pc EXCEPT ![p] = l] /\ at' = [at EXCEPT ![p] = c]
Step(p, l)  == Go(p, l, at[p])
Done(p)     == Go(p, "idle", NoCall)

\* The bound of the model.
MayHappen == requests + faults + crashes < MaxEvents

\* A statement or command fails.
Fault == MayHappen /\ faults' = faults + 1

\* One request more.
Arrives == MayHappen /\ requests' = requests + 1

Accept(c)   == accepted' = IF c = Watched THEN accepted + 1 ELSE accepted
Guess(d, c) == guesses' = IF c = Watched THEN [guesses EXCEPT ![d] = @ + 1] ELSE guesses
Pass(k)     == passed' = [passed EXCEPT ![k] = @ + 1]
LostIf(b)   == lost' = IF b THEN lost + 1 ELSE lost

Issued  == {rows[i].code : i \in DOMAIN rows}
InHand  == {at[p].guess : p \in {q \in Proc : at[q].kind \in {"issue", "forgot"}}}
\* a new code is like no other
Fresh   == Code \ (Issued \cup InHand \cup {stored[i] : i \in DOMAIN stored})

-------------------------------------------------------------------------------

\* The counters: CheckRateLimit.

\* What follows a request that is let through.
After(k) == CASE k = "forgot" -> "store" [] k = "reset" -> "get" [] k = "passcode" -> "compare"

\* Mutant of Within: one request more is let through
WithinOneMore(n) == n <= Limit + 1

\* "count > 3", "attempts > 5": refused
Within(n) == n <= Limit

ArmsAt(n) == n = 1

\* ForgotPassword, ResetPassword and VerifyPasscode begin with INCR.  Without Redis a
\* request for a code passes, a passcode does not.
Incr(p, k, g) ==
    /\ Arrives /\ Is(p, "idle")
    /\ purpose = (IF k = "passcode" THEN "passcode" ELSE "password_reset")
    /\ LET n == hits[k].n + 1   c == [NoCall EXCEPT !.kind = k, !.guess = g] IN
       \/ /\ hits' = [hits EXCEPT ![k].n = n]
          /\ IF Within(n) THEN Pass(k) ELSE UNCHANGED passed
          /\ IF ArmsAt(n) THEN Go(p, "arm", c)
             ELSE IF Within(n) THEN Go(p, After(k), c) ELSE Done(p)
          /\ UNCHANGED faults
       \/ /\ Fault
          /\ IF k = "passcode" THEN Done(p) /\ UNCHANGED passed
             ELSE Go(p, After(k), c) /\ Pass(k)
          /\ UNCHANGED hits
    /\ UNCHANGED <<purpose, otp, bg, verified, stored, history, crashes>>

AskForReset(p)  == \E c \in Fresh : Incr(p, "forgot", c)
TryReset(p)     == \E g \in Issued \cup {Wrong} : Incr(p, "reset", g)
TryPasscode(p)  == Incr(p, "passcode", Wrong)

\* EXPIRE, a second command; its error is ignored.
Arm(p) ==
    /\ Is(p, "arm")
    /\ LET k == at[p].kind IN
       /\ \/ hits' = [hits EXCEPT ![k].armed = hits[k].n > 0] /\ UNCHANGED faults
          \/ Fault /\ UNCHANGED hits
       /\ IF Within(1) THEN Step(p, After(k)) ELSE Done(p)
    /\ UNCHANGED <<purpose, otp, passed, bg, verified, stored, history, requests, crashes>>

\* VerifyPasscode compares the passcode and stores a session of an hour for the guest.
Compare(p) ==
    /\ Is(p, "compare")
    /\ Done(p)
    /\ UNCHANGED <<purpose, otp, counter, bg, verified, stored, history, requests, faults, crashes>>

\* Redis ends the window of a counter.
WindowEnds(k) ==
    /\ hits[k].armed
    /\ hits' = [hits EXCEPT ![k] = [n |-> 0, armed |-> FALSE]]
    /\ passed' = [passed EXCEPT ![k] = 0]
    /\ UNCHANGED <<purpose, otp, pc, at, bg, verified, stored, history, requests, faults, crashes>>

-------------------------------------------------------------------------------
\* GenerateAndSendOTP: after ForgotPassword's counter, or for a registration, a login
\* and ResendOTP of an address that is not verified.

\* StoreOTP, over whatever is there.  Without Redis the code is in the database only.
StoreOTP(c) ==
    \/ /\ key' = [code |-> c, tries |-> 0, until |-> c] /\ stored' = Append(stored, c) /\ UNCHANGED faults
    \/ Fault /\ UNCHANGED <<key, stored>>

Issue(p) ==
    /\ Arrives /\ Is(p, "idle") /\ purpose = "registration" /\ ~verified
    /\ \E c \in Fresh :
         StoreOTP(c) /\ Go(p, "insert", [NoCall EXCEPT !.kind = "issue", !.guess = c])
    /\ UNCHANGED <<purpose, rows, counter, bg, verified, history, crashes>>

Store(p) ==
    /\ Is(p, "store")
    /\ StoreOTP(at[p].guess)
    /\ Step(p, "insert")
    /\ UNCHANGED <<purpose, rows, counter, bg, verified, history, requests, crashes>>

\* verifyRepo.Create, then the mail: without the row nobody learns the code.
Insert(p) ==
    /\ Is(p, "insert")
    /\ \/ /\ rows' = Append(rows, [code |-> at[p].guess, tries |-> 0, live |-> TRUE])
          /\ UNCHANGED faults
       \/ Fault /\ UNCHANGED rows
    /\ Done(p)
    /\ UNCHANGED <<purpose, key, counter, bg, verified, stored, history, requests, crashes>>

-------------------------------------------------------------------------------
\* VerifyOTP in Redis.

\* Mutant of Exhausted: one attempt more
ExhaustedOneLate(n) == n > MaxTries

Exhausted(n) == n >= MaxTries

\* GET and what is decided on it: no key or no Redis, too many attempts, the code, another.
Look(p, call) ==
    LET c == [call EXCEPT !.read = key] IN
    \/ /\ UNCHANGED faults
       /\ IF key = NoKey               THEN Go(p, "find", call) /\ UNCHANGED guesses
          ELSE IF Exhausted(key.tries) THEN Go(p, "drop", c) /\ UNCHANGED guesses
          ELSE IF key.code = c.guess    THEN Go(p, "del", c) /\ UNCHANGED guesses
          ELSE Go(p, "ttl", c) /\ Guess("redis", key.code)
    \/ Fault /\ Go(p, "find", call) /\ UNCHANGED guesses

TryCode(p) ==
    /\ Arrives /\ Is(p, "idle") /\ purpose = "registration"
    /\ \E g \in Issued \cup {Wrong} : Look(p, [NoCall EXCEPT !.kind = "verify", !.guess = g])
    /\ UNCHANGED <<purpose, otp, counter, bg, verified, stored, accepted, lost, crashes>>

Get(p) ==
    /\ Is(p, "get")
    /\ Look(p, at[p])
    /\ UNCHANGED <<purpose, otp, counter, bg, verified, stored, accepted, lost, requests, crashes>>

\* DEL: the key, whichever code it holds by now; an error is ignored.
DeleteKey == \/ key' = NoKey /\ UNCHANGED faults
             \/ Fault /\ UNCHANGED key

Drop(p) ==
    /\ Is(p, "drop")
    /\ DeleteKey /\ LostIf(key # at[p].read)
    /\ Done(p)
    /\ UNCHANGED <<purpose, rows, counter, bg, verified, stored, accepted, guesses, requests, crashes>>

\* Mutant of Del: the accepted code is left in Redis
DelForgotten(p) ==
    /\ Is(p, "del")
    /\ Accept(at[p].guess)
    /\ bg' = [bg EXCEPT !.find = 1]
    /\ Done(p)
    /\ UNCHANGED <<purpose, otp, counter, verified, stored, guesses, lost, requests, faults, crashes>>

\* An accepted code: the key goes, a goroutine is started, the request goes on.
Del(p) ==
    /\ Is(p, "del")
    /\ DeleteKey /\ LostIf(key # at[p].read)
    /\ Accept(at[p].guess)
    /\ bg' = [bg EXCEPT !.find = @ + 1]
    /\ Done(p)
    /\ UNCHANGED <<purpose, rows, counter, verified, stored, guesses, requests, crashes>>

\* What SET makes of the answer to TTL: -2 and no expiry for a key that is gone, -1 and
\* KEEPTTL for one that does not expire.
LeftToLive == IF key = NoKey THEN Forever ELSE IF key.until = Forever THEN Keep ELSE key.until

Ttl(p) ==
    /\ Is(p, "ttl")
    /\ Go(p, "set", [at[p] EXCEPT !.until = LeftToLive])
    /\ UNCHANGED <<purpose, otp, counter, bg, verified, stored, history, requests, faults, crashes>>

\* Mutant of OneMore: the attempt is not counted
OneMoreForgotten(n) == n

OneMore(n) == n + 1

\* SET of what was read with one attempt more; an error is ignored.
Set(p) ==
    /\ Is(p, "set")
    /\ LET c == at[p] IN
       /\ \/ /\ key' = [code |-> c.read.code, tries |-> OneMore(c.read.tries),
                        until |-> IF c.until # Keep THEN c.until
                                  ELSE IF key = NoKey THEN Forever ELSE key.until]
             /\ UNCHANGED faults
          \/ Fault /\ UNCHANGED key
       /\ LostIf(key # c.read)
    /\ Done(p)
    /\ UNCHANGED <<purpose, rows, counter, bg, verified, stored, accepted, guesses, requests, crashes>>

-------------------------------------------------------------------------------
\* VerifyOTP in the database, when Redis has no key.

Unused == {i \in DOMAIN rows : rows[i].live}

\* FindLatestByEmail: the newest row that is not used; 0 for none
FindLatest == IF Unused = {} THEN 0 ELSE CHOOSE i \in Unused : \A j \in Unused : j <= i

Find(p) ==
    /\ Is(p, "find")
    /\ LET i == FindLatest   c == [at[p] EXCEPT !.row = i] IN
       IF i = 0 \/ Exhausted(rows[i].tries)
       THEN Done(p) /\ UNCHANGED guesses
       ELSE IF rows[i].code = c.guess
            THEN Go(p, "use", c) /\ UNCHANGED guesses
            ELSE Go(p, "bump", c) /\ Guess("row", rows[i].code)
    /\ UNCHANGED <<purpose, otp, counter, bg, verified, stored, accepted, lost, requests, faults, crashes>>

\* IncrementAttempts, its error ignored
Bump(p) ==
    /\ Is(p, "bump")
    /\ \/ rows' = [rows EXCEPT ![at[p].row].tries = @ + 1] /\ UNCHANGED faults
       \/ Fault /\ UNCHANGED rows
    /\ Done(p)
    /\ UNCHANGED <<purpose, key, counter, bg, verified, stored, history, requests, crashes>>

\* MarkUsed: the code is accepted
Use(p) ==
    /\ Is(p, "use")
    /\ LET i == at[p].row IN
       \/ /\ rows' = [rows EXCEPT ![i].live = FALSE]
          /\ LostIf(~rows[i].live)
          /\ Accept(rows[i].code)
          /\ IF purpose = "registration" THEN Step(p, "user") ELSE Done(p)
          /\ UNCHANGED faults
       \/ Fault /\ Done(p) /\ UNCHANGED <<rows, lost, accepted>>
    /\ UNCHANGED <<purpose, key, counter, bg, verified, stored, guesses, requests, crashes>>

\* MarkVerified
User(p) ==
    /\ Is(p, "user")
    /\ \/ verified' = TRUE /\ UNCHANGED faults
       \/ Fault /\ UNCHANGED verified
    /\ Done(p)
    /\ UNCHANGED <<purpose, otp, counter, bg, stored, history, requests, crashes>>

-------------------------------------------------------------------------------
\* The goroutine of an acceptance by Redis: it finds the newest unused row, whichever code
\* it is of, marks it used, and marks the user verified; errors are ignored.

BgFind ==
    /\ bg.find > 0
    /\ \/ /\ FindLatest # 0
          /\ bg' = [bg EXCEPT !.find = @ - 1, !.mark = @ \cup {FindLatest}]
          /\ UNCHANGED faults
       \/ /\ \/ FindLatest = 0 /\ UNCHANGED faults
             \/ Fault
          /\ bg' = [bg EXCEPT !.find = @ - 1, !.user = TRUE]
    /\ UNCHANGED <<purpose, otp, counter, pc, at, verified, stored, history, requests, crashes>>

BgMark(i) ==
    /\ i \in bg.mark
    /\ bg' = [bg EXCEPT !.mark = @ \ {i}, !.user = TRUE]
    /\ \/ rows' = [rows EXCEPT ![i].live = FALSE] /\ UNCHANGED faults
       \/ Fault /\ UNCHANGED rows
    /\ UNCHANGED <<purpose, key, counter, pc, at, verified, stored, history, requests, crashes>>

BgUser ==
    /\ bg.user
    /\ bg' = [bg EXCEPT !.user = FALSE]
    /\ \/ verified' = (verified \/ purpose = "registration") /\ UNCHANGED faults
       \/ Fault /\ UNCHANGED verified
    /\ UNCHANGED <<purpose, otp, counter, pc, at, stored, history, requests, crashes>>

-------------------------------------------------------------------------------
\* Time and crashes.

\* Redis ends a key that has a lifetime.
KeyExpires ==
    /\ key.until \in Code
    /\ key' = NoKey
    /\ UNCHANGED <<purpose, rows, counter, pc, at, bg, verified, stored, history, requests, faults, crashes>>

\* A row is ten minutes old, the older ones and the key of its code before it: it answers
\* like one that is used.
RowExpires(i) ==
    /\ rows[i].live
    /\ \A j \in 1..(i - 1) : ~rows[j].live
    /\ key.until # rows[i].code
    /\ rows' = [rows EXCEPT ![i].live = FALSE]
    /\ UNCHANGED <<purpose, key, counter, pc, at, bg, verified, stored, history, requests, faults, crashes>>

\* A crash that interrupts something.
Crash ==
    /\ (\E p \in Proc : ~Is(p, "idle")) \/ bg # Quiet
    /\ MayHappen /\ crashes' = crashes + 1
    /\ pc' = [p \in Proc |-> "idle"] /\ at' = [p \in Proc |-> NoCall]
    /\ bg' = Quiet
    /\ UNCHANGED <<purpose, otp, counter, verified, stored, history, requests, faults>>

Request(p) ==
    \/ Issue(p) \/ TryCode(p)
    \/ AskForReset(p) \/ TryReset(p) \/ TryPasscode(p)

Continue(p) ==
    \/ Arm(p) \/ Compare(p)
    \/ Store(p) \/ Insert(p)
    \/ Get(p) \/ Drop(p) \/ Del(p) \/ Ttl(p) \/ Set(p)
    \/ Find(p) \/ Bump(p) \/ Use(p) \/ User(p)

Background == \/ BgFind \/ BgUser
              \/ \E i \in DOMAIN rows : BgMark(i)

Next ==
    \/ \E p \in Proc : Request(p) \/ Continue(p)
    \/ Background
    \/ \E k \in Counter : WindowEnds(k)
    \/ KeyExpires
    \/ \E i \in DOMAIN rows : RowExpires(i)
    \/ Crash

Spec == Init /\ [][Next]_vars

-------------------------------------------------------------------------------
\* Each copy of a code is compared with no more wrong guesses than its attempts and one for
\* each other request that read them before they were counted.  (VerifyOTP reads the
\* attempts and writes them back.)  In Redis, requests that overwrite each other may start
\* the count again; a count may fail or be lost with the server.
GuessesBounded ==
    \A d \in Copy :
        guesses[d] <= MaxTries + (Cardinality(Proc) - 1) + faults + crashes * Cardinality(Proc)
                          + (IF d = "redis" THEN lost * MaxTries ELSE 0)

\* A code is accepted once by Redis and once by the row the goroutine has not marked yet;
\* more often only after requests overwrote each other or a write failed.
ConsumedUnlessRaced == accepted <= 2 + lost + faults

\* In a window no more requests pass than the limit says, however they interleave; without
\* Redis the e-mail routes are not limited and the passcode is.
PassedPerWindow ==
    \A k \in Counter : passed[k] <= Limit + (IF k = "passcode" THEN 0 ELSE faults)

\* A counter that counts will expire, so that nobody is locked out for good, unless the
\* server or the command failed between INCR and EXPIRE.
CounterExpires ==
    \A k \in Counter :
        hits[k].n > 0 /\ ~hits[k].armed =>
            faults > 0 \/ crashes > 0 \/ \E p \in Proc : Is(p, "arm") /\ at[p].kind = k

\* A rate limit holds: its window lets no more through and ends.
WindowHolds == PassedPerWindow /\ CounterExpires
===============================================================================
