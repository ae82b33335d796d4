--------------------------------- MODULE Auth ---------------------------------
(***************************************************************************)
(* The accounts of one e-mail address, their sessions and their second     *)
(* factor (auth_service.go, the account routes of user_routes.go,          *)
(* ResetPassword of notification_service.go, DeleteUser of                 *)
(* admin_handler.go, and the purge of the scheduler).                      *)
(*                                                                         *)
(* users.email has no unique index, so one address may have several rows,  *)
(* and a query by e-mail may return any that fits.  A process of Proc is   *)
(* one request; rehashes are the goroutines of Login that store a cheaper  *)
(* hash of the password.  That a one-time code is right is Attempts.tla.   *)
(***************************************************************************)
EXTENDS Integers, Sequences, FiniteSets

CONSTANTS Word,       \* passwords
          NoWord,     \* users.password IS NULL, and a password nobody knows
          NoUser,     \* no row yet
          Erased,     \* a row that was purged: its id is not used again
          Start,      \* the accounts a run may start from: rows or NoUser
          MaxUsers,   \* rows there may be in a run
          Proc,       \* requests that may run at the same time
          MaxEvents   \* bound on requests, failed statements and crashes together

ASSUME AuthBounds ==
    /\ MaxUsers \in Nat \ {0} /\ MaxEvents \in Nat /\ IsFiniteSet(Proc)
    /\ NoWord \notin Word /\ Start # {}

VARIABLES
    users,      \* 1..MaxUsers -> row or NoUser, with the history of its password
    sessions,   \* sessions
    halfway,    \* MFA tokens that have not expired
    access,     \* users with an access token that has not expired
    rehashes,   \* goroutines that will store a hash again
    pc, at,     \* the requests
    born,       \* history: the token each session was refreshed from, 0 for none
    secrets,    \* history: secrets drawn for the second factor
    proved,     \* history: secrets somebody has shown a code of
    requests, faults, crashes

vars == <<users, sessions, halfway, access, rehashes, pc, at, born, secrets, proved,
          requests, faults, crashes>>

tokens  == <<sessions, halfway, access, born>>
factor  == <<secrets, proved>>

Ids     == 1..MaxUsers
NoCall  == [kind |-> "none", id |-> 0, era |-> 0, tok |-> 0, word |-> NoWord,
            old |-> FALSE, on |-> FALSE, late |-> FALSE, verified |-> FALSE, secret |-> 0]

\* del: "no", "pending" (by the user), "lapsed" (pending for 30 days), "inactive" (by the
\* admin).  old: the hash has a high cost.  History: era counts the changes of the
\* password, latest is the last word the user chose, raced: it was chosen while a request
\* or goroutine held another one.
Row == [del : {"no", "pending", "lapsed", "inactive"}, word : Word \cup {NoWord}, old : BOOLEAN,
        verified : BOOLEAN, mfa : BOOLEAN, secret : Nat, linked : BOOLEAN,
        era : Nat, latest : Word \cup {NoWord}, raced : BOOLEAN]

\* An account starts with the password chosen last, and a factor that is on has a secret.
ASSUME AccountAssumption ==
    /\ NoUser \notin Row /\ Erased \notin Row /\ NoUser # Erased
    /\ \A r \in Start : r \in Row \cup {NoUser}
    /\ \A r \in Start \ {NoUser} : r.mfa => r.secret # 0
    /\ \A r \in Start \ {NoUser} : r.word = r.latest \/ r.raced

Exists(i) == users[i] \notin {NoUser, Erased}
\* deleted_at IS NULL
Live(i)   == Exists(i) /\ users[i].del = "no"

\* A session belongs to a row (foreign key), however late it is stored.
TypeOK ==
    /\ users \in [Ids -> Row \cup {NoUser, Erased}]
    /\ \A s \in sessions :
         /\ s.id \in Ids /\ Exists(s.id)
         /\ s.tok \in DOMAIN born
    /\ halfway \subseteq [id : Ids, era : Nat, late : BOOLEAN]
    /\ access \subseteq Ids
    /\ rehashes \subseteq [id : Ids, word : Word]
    /\ DOMAIN pc = Proc /\ DOMAIN at = Proc
    /\ born \in Seq(Nat) /\ secrets \in Nat /\ proved \subseteq 1..secrets
    /\ {requests, faults, crashes} \subseteq Nat

Init ==
    /\ \E r \in Start :
         /\ users = [i \in Ids |-> IF i = 1 THEN r ELSE NoUser]
         /\ secrets = IF r = NoUser THEN 0 ELSE r.secret
    /\ proved = 1..secrets
    /\ sessions = {} /\ halfway = {} /\ access = {} /\ rehashes = {}
    /\ pc = [p \in Proc |-> "idle"] /\ at = [p \in Proc |-> NoCall]
    /\ born = <<>>
    /\ requests = 0 /\ faults = 0 /\ crashes = 0

-------------------------------------------------------------------------------
Is(p, l)    == pc[p] = l
Go(p, l, c) == pc' = [pc EXCEPT ![p] = l] /\ at' = [at EXCEPT ![p] = c]
Step(p, l)  == Go(p, l, at[p])
Done(p)     == Go(p, "idle", NoCall)

\* The bound of the model.
MayHappen == requests + faults + crashes < MaxEvents

\* A statement fails.
Fault == MayHappen /\ faults' = faults + 1

\* A statement that finds nothing, or fails.
NoEffect(nothing) == (nothing /\ UNCHANGED faults) \/ Fault

\* One request more.
Arrives(p) == Is(p, "idle") /\ MayHappen /\ requests' = requests + 1

FindByEmail        == {i \in Ids : Live(i)}
FindByEmailForAuth == {i \in Ids : Exists(i)}

\* The call of a request that has read row i.
Call(k, i) == [NoCall EXCEPT !.kind = k, !.id = i, !.era = users[i].era]

\* Mutant of Matches: the error of an expensive hash is taken for a match
MatchesUnlessOld(i, w) == w # NoWord /\ (users[i].word = w \/ users[i].old)

\* bcrypt.CompareHashAndPassword
Matches(i, w) == w # NoWord /\ users[i].word = w

\* p ends the sessions of row i: the requests that run now and the MFA tokens given out
\* are late, and so are sessions stored until p has closed the account.
Overtake(p, i, l, c) ==
    /\ pc' = [pc EXCEPT ![p] = l]
    /\ at' = [q \in Proc |-> IF q = p THEN c
                             ELSE IF at[q].id = i THEN [at[q] EXCEPT !.late = TRUE] ELSE at[q]]
    /\ halfway' = {IF t.id = i THEN [t EXCEPT !.late = TRUE] ELSE t : t \in halfway}

Closing(i) == \E q \in Proc : at[q].id = i /\ pc[q] \in {"clear", "soft"}

\* A password is chosen for row i while a request or goroutine holds another one.
Raced(i, w) ==
    \/ \E r \in rehashes : r.id = i /\ r.word # w
    \/ \E q \in Proc : at[q].id = i /\ at[q].old

\* The new row of Create: an id that was never used
NewId == CHOOSE i \in Ids : users[i] = NoUser
Room  == \E i \in Ids : users[i] = NoUser

-------------------------------------------------------------------------------
\* Sessions: createSession, RefreshTokens, Logout.

\* createSession.  Without the row the foreign key refuses the session.
Open(p) ==
    /\ Is(p, "open")
    /\ LET c == at[p] IN
       \/ /\ Exists(c.id)
          /\ born' = Append(born, c.tok)
          /\ sessions' = sessions \cup
               {[tok |-> Len(born) + 1, id |-> c.id, era |-> c.era, on |-> c.on,
                 late |-> c.late \/ Closing(c.id), linked |-> c.kind = "linked"]}
          /\ access' = access \cup {c.id}
          /\ UNCHANGED faults
       \/ /\ NoEffect(~Exists(c.id))
          /\ UNCHANGED <<born, sessions, access>>
    /\ Done(p)
    /\ UNCHANGED <<users, halfway, rehashes, factor, requests, crashes>>

\* RefreshTokens finds the session; one that has expired is only deleted.
Refresh(p) ==
    /\ Arrives(p)
    /\ \E s \in sessions :
       \E k \in {"refresh", "expired"} :
         Go(p, "drop", [NoCall EXCEPT !.kind = IF s.linked /\ k = "refresh" THEN "linked" ELSE k,
                                      !.id = s.id, !.era = s.era, !.tok = s.tok, !.late = s.late])
    /\ UNCHANGED <<users, tokens, rehashes, factor, faults, crashes>>

DeleteByTokenHash(t) == sessions' = {s \in sessions : s.tok # t}

\* The old token is deleted, whether or not it is still there; an error is ignored.
Drop(p) ==
    /\ Is(p, "drop")
    /\ \/ DeleteByTokenHash(at[p].tok) /\ UNCHANGED faults
       \/ Fault /\ UNCHANGED sessions
    /\ IF at[p].kind = "expired" THEN Done(p) ELSE Step(p, "open")
    /\ UNCHANGED <<users, halfway, access, born, rehashes, factor, requests, crashes>>

Logout(p) ==
    /\ Arrives(p)
    /\ \E s \in sessions : DeleteByTokenHash(s.tok)
    /\ UNCHANGED <<users, halfway, access, born, rehashes, pc, at, factor, faults, crashes>>

\* Access tokens and MFA tokens are not stored: they last until they expire.
TokensExpire ==
    /\ access # {} \/ halfway # {}
    /\ access' = {} /\ halfway' = {}
    /\ UNCHANGED <<users, sessions, born, rehashes, pc, at, factor, requests, faults, crashes>>

-------------------------------------------------------------------------------
\* Register, Login, VerifyEmail.

\* userRepo.Create, and the role, whose errors are ignored
Create(p, w, verified, l) ==
    /\ \/ /\ Room
          /\ users' = [users EXCEPT ![NewId] =
                         [del |-> "no", word |-> w, old |-> FALSE, verified |-> verified,
                          mfa |-> FALSE, secret |-> 0, linked |-> FALSE,
                          era |-> 0, latest |-> w, raced |-> FALSE]]
          /\ Go(p, l, [at[p] EXCEPT !.id = NewId])
          /\ UNCHANGED faults
       \/ Fault /\ Done(p) /\ UNCHANGED users
    /\ UNCHANGED <<tokens, rehashes, factor, requests, crashes>>

\* The address has no live account: it may have a deleted one.
Register(p) ==
    /\ Arrives(p)
    /\ FindByEmail = {} /\ Room
    /\ \E w \in Word : Go(p, "register", [NoCall EXCEPT !.kind = "register", !.word = w])
    /\ UNCHANGED <<users, tokens, rehashes, factor, faults, crashes>>

RegisterCreate(p) == Is(p, "register") /\ Create(p, at[p].word, FALSE, "open")

\* Login reads the row and compares the password; a deleted account is let in while it is
\* pending.
Login(p) ==
    /\ Arrives(p)
    /\ \E i \in FindByEmailForAuth, w \in Word :
         /\ Matches(i, w)
         /\ users[i].del \in {"no", "pending"}
         /\ Go(p, IF users[i].del = "pending" THEN "restore" ELSE "mfa",
               [Call("login", i) EXCEPT !.word = w, !.old = users[i].old, !.on = users[i].mfa])
    /\ UNCHANGED <<users, tokens, rehashes, factor, faults, crashes>>

\* What follows the restoring of an account.
Restored == [login |-> "mfa", google |-> "google"]

\* RestoreUser: whatever deleted the row in the meantime; an account that is not deleted
\* any more fails the request.
Restore(p) ==
    /\ Is(p, "restore")
    /\ LET c == at[p] IN
       \/ /\ Exists(c.id) /\ ~Live(c.id)
          /\ users' = [users EXCEPT ![c.id].del = "no"]
          /\ Step(p, Restored[c.kind])
          /\ UNCHANGED faults
       \/ /\ NoEffect(Live(c.id) \/ ~Exists(c.id))
          /\ Done(p) /\ UNCHANGED users
    /\ UNCHANGED <<tokens, rehashes, factor, requests, crashes>>

\* Mutant of SecondFactor: what was read with the password is asked for
SecondFactorForgotten(i) == FALSE

\* mfa_enabled of GetMFAFields, which finds live rows only
SecondFactor(i) == Live(i) /\ users[i].mfa

\* Login asks for a code, or starts the rehash of an old hash and goes on to the session;
\* if the second factor cannot be read, it goes on.
Mfa(p) ==
    /\ Is(p, "mfa")
    /\ LET c == at[p] IN
       \/ /\ SecondFactor(c.id)
          /\ halfway' = halfway \cup {[id |-> c.id, era |-> c.era, late |-> c.late]}
          /\ Done(p)
          /\ UNCHANGED <<rehashes, faults>>
       \/ /\ NoEffect(~SecondFactor(c.id))
          /\ rehashes' = IF c.old THEN rehashes \cup {[id |-> c.id, word |-> c.word]} ELSE rehashes
          /\ Step(p, "open")
          /\ UNCHANGED halfway
    /\ UNCHANGED <<users, sessions, access, born, factor, requests, crashes>>

\* The goroutine stores the password it was given; UpdatePassword changes live rows only.
Rehash(r) ==
    /\ r \in rehashes
    /\ rehashes' = rehashes \ {r}
    /\ \/ /\ Live(r.id)
          /\ users' = [users EXCEPT ![r.id].word = r.word, ![r.id].old = FALSE]
          /\ UNCHANGED faults
       \/ /\ NoEffect(~Live(r.id))
          /\ UNCHANGED users
    /\ UNCHANGED <<tokens, pc, at, factor, requests, crashes>>

\* VerifyEmail: a code of the registration was right, the row is marked, and a session
\* follows at once.
VerifyEmail(p) ==
    /\ Arrives(p)
    /\ \E i \in FindByEmail :
         /\ ~users[i].verified
         /\ users' = [users EXCEPT ![i].verified = TRUE]
         /\ Go(p, "open", Call("verify", i))
    /\ UNCHANGED <<tokens, rehashes, factor, faults, crashes>>

-------------------------------------------------------------------------------
\* GoogleLogin of a Google account with this address.

Linked == {i \in Ids : Exists(i) /\ users[i].linked}

\* STEP A: a linked row, deleted or not, gets its session.  STEP B: a row of the address.
Google(p) ==
    /\ Arrives(p)
    /\ IF Linked # {} THEN \E i \in Linked : Go(p, "open", Call("linked", i))
       ELSE IF FindByEmailForAuth = {} THEN Room /\ Go(p, "create", [NoCall EXCEPT !.kind = "google"])
       ELSE \E i \in FindByEmailForAuth :
              LET c == [Call("google", i) EXCEPT !.verified = users[i].verified] IN
              \/ users[i].del = "no" /\ Go(p, IF c.verified THEN "link" ELSE "dismiss", c)
              \/ users[i].del = "pending" /\ Go(p, "restore", c)
    /\ UNCHANGED <<users, tokens, rehashes, factor, faults, crashes>>

\* STEP C
GoogleCreate(p) == Is(p, "create") /\ Create(p, NoWord, TRUE, "link")

\* STEP D after RestoreUser, on what was read before
GoogleRestored(p) ==
    /\ Is(p, "google")
    /\ Step(p, IF at[p].verified THEN "link" ELSE "dismiss")
    /\ UNCHANGED <<users, tokens, rehashes, factor, requests, faults, crashes>>

\* An address that was not verified: whoever registered it loses the sessions ...
Dismiss(p) ==
    /\ Is(p, "dismiss")
    /\ LET i == at[p].id IN
       /\ Overtake(p, i, "clear", at[p])
       /\ \/ sessions' = {s \in sessions : s.id # i} /\ UNCHANGED faults
          \/ Fault /\ UNCHANGED sessions
    /\ UNCHANGED <<users, access, born, rehashes, factor, requests, crashes>>

\* ... and the password.
Clear(p) ==
    /\ Is(p, "clear")
    /\ LET i == at[p].id IN
       /\ Overtake(p, i, "details", [at[p] EXCEPT !.era = @ + 1])
       /\ \/ /\ Live(i)
             /\ users' = [users EXCEPT ![i].word = NoWord, ![i].old = FALSE, ![i].latest = NoWord,
                                       ![i].era = @ + 1, ![i].raced = @ \/ Raced(i, NoWord)]
             /\ UNCHANGED faults
          \/ /\ NoEffect(~Live(i))
             /\ UNCHANGED users
    /\ UNCHANGED <<sessions, access, born, rehashes, factor, requests, crashes>>

\* UpdateDetails with is_verified
Details(p) ==
    /\ Is(p, "details")
    /\ LET i == at[p].id IN
       \/ Live(i) /\ users' = [users EXCEPT ![i].verified = TRUE] /\ UNCHANGED faults
       \/ NoEffect(~Live(i)) /\ UNCHANGED users
    /\ Step(p, "link")
    /\ UNCHANGED <<tokens, rehashes, factor, requests, crashes>>

\* The link, whose error is ignored: a user has one per provider.
Link(p) ==
    /\ Is(p, "link")
    /\ LET i == at[p].id IN
       \/ Exists(i) /\ users' = [users EXCEPT ![i].linked = TRUE] /\ UNCHANGED faults
       \/ NoEffect(~Exists(i)) /\ UNCHANGED users
    /\ Step(p, "open")
    /\ UNCHANGED <<tokens, rehashes, factor, requests, crashes>>

\* VerifyMFALogin: an MFA token and a code of the secret of the row as it is now, enabled or
\* not.
MfaLogin(p) ==
    /\ Arrives(p)
    /\ \E t \in halfway :
         /\ Live(t.id) /\ users[t.id].secret # 0
         /\ proved' = proved \cup {users[t.id].secret}
         /\ Go(p, "open", [NoCall EXCEPT !.kind = "code", !.id = t.id, !.era = t.era, !.late = t.late])
    /\ UNCHANGED <<users, tokens, rehashes, secrets, faults, crashes>>

-------------------------------------------------------------------------------
\* The second factor: SetupMFA, EnableMFA, DisableMFA.

\* UpdateMFA changes live rows only.  History: who logs in meanwhile has seen it off.
UpdateMFA(p, i, on, secret) ==
    /\ \/ /\ Live(i)
          /\ users' = [users EXCEPT ![i].mfa = on, ![i].secret = secret]
          /\ at' = [q \in Proc |-> IF q = p THEN NoCall
                                   ELSE IF at[q].id = i /\ ~on THEN [at[q] EXCEPT !.on = FALSE] ELSE at[q]]
          /\ UNCHANGED faults
       \/ /\ NoEffect(~Live(i))
          /\ at' = [at EXCEPT ![p] = NoCall]
          /\ UNCHANGED users
    /\ pc' = [pc EXCEPT ![p] = "idle"]

\* SetupMFA stores a new secret and "off", also over a factor that is on.
SetupMFA(p) ==
    /\ Arrives(p)
    /\ \E i \in access :
         /\ Live(i)
         /\ secrets' = secrets + 1
         /\ Go(p, "off", [Call("setup", i) EXCEPT !.secret = secrets + 1])
    /\ UNCHANGED <<users, tokens, rehashes, proved, faults, crashes>>

\* EnableMFA and DisableMFA read the secret and check a code of it.
EnableMFA(p) ==
    /\ Arrives(p)
    /\ \E i \in access :
         /\ Live(i) /\ users[i].secret # 0
         /\ proved' = proved \cup {users[i].secret}
         /\ Go(p, "on", [Call("enable", i) EXCEPT !.secret = users[i].secret])
    /\ UNCHANGED <<users, tokens, rehashes, secrets, faults, crashes>>

DisableMFA(p) ==
    /\ Arrives(p)
    /\ \E i \in access :
         /\ Live(i) /\ users[i].mfa
         /\ proved' = proved \cup {users[i].secret}
         /\ Go(p, "off", Call("disable", i))
    /\ UNCHANGED <<users, tokens, rehashes, secrets, faults, crashes>>

SetOn(p) ==
    /\ Is(p, "on")
    /\ UpdateMFA(p, at[p].id, TRUE, at[p].secret)
    /\ UNCHANGED <<tokens, rehashes, factor, requests, crashes>>

SetOff(p) ==
    /\ Is(p, "off")
    /\ UpdateMFA(p, at[p].id, FALSE, at[p].secret)
    /\ UNCHANGED <<tokens, rehashes, factor, requests, crashes>>

-------------------------------------------------------------------------------
\* What ends sessions: a new password, the end of the account.

\* change-password compares the current password; a row without one is refused.
ChangePassword(p) ==
    /\ Arrives(p)
    /\ \E i \in access, w \in Word :
         /\ Live(i) /\ users[i].word # NoWord /\ w # users[i].word
         /\ Go(p, "update", [Call("change", i) EXCEPT !.word = w])
    /\ UNCHANGED <<users, tokens, rehashes, factor, faults, crashes>>

\* ResetPassword, once its code was right, finds a row of the address.
ResetPassword(p) ==
    /\ Arrives(p)
    /\ \E i \in FindByEmail, w \in Word :
         Go(p, "update", [Call("reset", i) EXCEPT !.word = w])
    /\ UNCHANGED <<users, tokens, rehashes, factor, faults, crashes>>

\* Mutant of AfterUpdate: the sessions are left
AfterUpdateDone == "idle"

\* What follows the new password

AfterUpdate == "wipe"

\* UpdatePassword
Update(p) ==
    /\ Is(p, "update")
    /\ LET c == at[p]   i == c.id IN
       \/ /\ Live(i)
          /\ users' = [users EXCEPT ![i].word = c.word, ![i].old = FALSE, ![i].latest = c.word,
                                    ![i].era = @ + 1, ![i].raced = @ \/ Raced(i, c.word)]
          /\ Step(p, AfterUpdate)
          /\ UNCHANGED faults
       \/ ~Live(i) /\ Step(p, AfterUpdate) /\ UNCHANGED <<users, faults>>
       \/ Fault /\ Done(p) /\ UNCHANGED users
    /\ UNCHANGED <<tokens, rehashes, factor, requests, crashes>>

\* DELETE /me: the password is confirmed, unless there is none.
DeleteMe(p) ==
    /\ Arrives(p)
    /\ \E i \in access : Live(i) /\ Go(p, "wipe", Call("leave", i))
    /\ UNCHANGED <<users, tokens, rehashes, factor, faults, crashes>>

\* DeleteUser of the admin
DeleteUser(p) ==
    /\ Arrives(p)
    /\ \E i \in FindByEmailForAuth : Go(p, "wipe", Call("expel", i))
    /\ UNCHANGED <<users, tokens, rehashes, factor, faults, crashes>>

DeleteAllByUserID(i) == sessions' = {s \in sessions : s.id # i}

\* An error is ignored.
Wipe(p) ==
    /\ Is(p, "wipe")
    /\ LET c == at[p]   l == IF c.kind \in {"leave", "expel"} THEN "soft" ELSE "idle" IN
       /\ Overtake(p, c.id, l, IF l = "idle" THEN NoCall ELSE c)
       /\ \/ DeleteAllByUserID(c.id) /\ UNCHANGED faults
          \/ Fault /\ UNCHANGED sessions
    /\ UNCHANGED <<users, access, born, rehashes, factor, requests, crashes>>

\* SoftDeletePending, SoftDelete: a row that is deleted stays as it is.
Soft(p) ==
    /\ Is(p, "soft")
    /\ LET c == at[p] IN
       /\ Overtake(p, c.id, "idle", NoCall)
       /\ \/ /\ Live(c.id)
             /\ users' = [users EXCEPT ![c.id].del = IF c.kind = "leave" THEN "pending" ELSE "inactive"]
             /\ UNCHANGED faults
          \/ NoEffect(~Live(c.id)) /\ UNCHANGED users
    /\ UNCHANGED <<sessions, access, born, rehashes, factor, requests, crashes>>

\* Thirty days pass.
Lapse(i) ==
    /\ Exists(i) /\ users[i].del = "pending"
    /\ users' = [users EXCEPT ![i].del = "lapsed"]
    /\ UNCHANGED <<tokens, rehashes, pc, at, factor, requests, faults, crashes>>

\* PurgeExpiredPendingDeletionUsers: one DELETE for all lapsed rows, with their sessions.
\* auth_providers does not cascade: one linked row refuses the statement.
Gone == {i \in Ids : Exists(i) /\ users[i].del = "lapsed"}

\* Mutant of Purge: the sessions do not cascade
PurgeRowsOnly ==
    /\ Gone # {} /\ \A i \in Gone : ~users[i].linked
    /\ users' = [i \in Ids |-> IF i \in Gone THEN Erased ELSE users[i]]
    /\ UNCHANGED <<tokens, rehashes, pc, at, factor, requests, faults, crashes>>

Purge ==
    /\ Gone # {} /\ \A i \in Gone : ~users[i].linked
    /\ users' = [i \in Ids |-> IF i \in Gone THEN Erased ELSE users[i]]
    /\ sessions' = {s \in sessions : s.id \notin Gone}
    /\ UNCHANGED <<halfway, access, born, rehashes, pc, at, factor, requests, faults, crashes>>

Crash ==
    /\ (\E p \in Proc : ~Is(p, "idle")) \/ rehashes # {}
    /\ MayHappen /\ crashes' = crashes + 1
    /\ pc' = [p \in Proc |-> "idle"] /\ at' = [p \in Proc |-> NoCall]
    /\ rehashes' = {}
    /\ UNCHANGED <<users, tokens, factor, requests, faults>>

Request(p) ==
    \/ Refresh(p) \/ Logout(p)
    \/ Register(p) \/ Login(p) \/ VerifyEmail(p) \/ Google(p) \/ MfaLogin(p)
    \/ SetupMFA(p) \/ EnableMFA(p) \/ DisableMFA(p)
    \/ ChangePassword(p) \/ ResetPassword(p) \/ DeleteMe(p) \/ DeleteUser(p)

Continue(p) ==
    \/ Open(p) \/ Drop(p)
    \/ RegisterCreate(p) \/ Restore(p) \/ Mfa(p)
    \/ GoogleCreate(p) \/ GoogleRestored(p)
    \/ Dismiss(p) \/ Clear(p) \/ Details(p) \/ Link(p)
    \/ SetOn(p) \/ SetOff(p)
    \/ Update(p) \/ Wipe(p) \/ Soft(p)

Next ==
    \/ \E p \in Proc : Request(p) \/ Continue(p)
    \/ \E r \in rehashes : Rehash(r)
    \/ TokensExpire
    \/ \E i \in Ids : Lapse(i)
    \/ Purge
    \/ Crash

\* Requests run on, goroutines end, and the scheduler purges every hour.
Fairness ==
    /\ \A p \in Proc : WF_vars(Continue(p))
    /\ WF_vars(\E r \in rehashes : Rehash(r))
    /\ WF_vars(Purge)

Spec == Init /\ [][Next]_vars /\ Fairness

-------------------------------------------------------------------------------
Undisturbed == faults = 0 /\ crashes = 0

\* After a password was changed, reset or cleared, no session is left that was opened with
\* the former one, except by requests that were running when the sessions were ended.
\* ("Invalidate all existing sessions on password reset", notification_service.go.)
StaleIsLate ==
    \A s \in sessions :
        s.era < users[s.id].era =>
            s.late \/ ~Undisturbed \/ \E p \in Proc : at[p].id = s.id /\ Is(p, "wipe")

\* A deleted account has no sessions but those of requests its deletion overtook, and of
\* logins by a linked Google account, which do not look at deleted_at.
DeletedHasOnlyLate ==
    \A s \in sessions : users[s.id].del # "no" => s.late \/ s.linked \/ ~Undisturbed

\* A token is exchanged once, and more often only by requests that run at the same time:
\* RefreshTokens reads the session before it deletes it.
ExchangedOnce ==
    \A t \in DOMAIN born :
        Cardinality({n \in DOMAIN born : born[n] = t}) <= Cardinality(Proc) + faults

\* Who logs in by password while the second factor is on all along shows a code, unless
\* the factor could not be read.
SecondFactorAsked == \A s \in sessions : s.on => s.late \/ faults > 0

\* A factor that is on has a secret somebody has shown a code of: a set-up that runs at the
\* same time does not lock the user out.
EnabledWasProved == \A i \in Ids : Exists(i) /\ users[i].mfa => users[i].secret \in proved

\* The password is the one chosen last, unless a rehash of a former one was under way when
\* it was chosen.
LatestPassword == \A i \in Ids : Exists(i) => users[i].word = users[i].latest \/ users[i].raced

\* Sessions end with what they were opened on: the password, the account, the token.
SessionsHold == StaleIsLate /\ DeletedHasOnlyLate /\ ExchangedOnce

\* The second factor is asked for, and can be given.
FactorHolds == SecondFactorAsked /\ EnabledWasProved

\* An account is purged after its thirty days.
\* ("foreign key CASCADE removes related database rows", user_repository.go.)
LapsedIsPurged ==
    \A i \in Ids : (Exists(i) /\ users[i].del = "lapsed") ~> ~Exists(i)
===============================================================================
