----------------------------- MODULE UploadInvite -----------------------------
(***************************************************************************)
(* Upload invites: links by which a guest without an account uploads into  *)
(* a folder of the owner, under the owner's quota, up to a number of files *)
(* and of bytes, until the invite expires or is revoked                    *)
(* (upload_invite_service.go and its repository).  The optional passcode   *)
(* is modelled with the other counted attempts, in Attempts.tla.           *)
(*                                                                         *)
(* A process of Proc is one HTTP request in the API server: pc is the next *)
(* statement it runs against PostgreSQL or Redis, at holds its locals.     *)
(* The scheduler's jobs and the debounce timer are actions of their own.   *)
(* A fault is one failed statement; a crash ends every request, timer and  *)
(* job at once and leaves the database and Redis as they are.              *)
(***************************************************************************)
EXTENDS Integers, FiniteSetsExt

CONSTANTS Invite,          \* tokens of invites of one owner
          Known,           \* the invites that are used; the others only count for the cap
          File,            \* rows of the files table that guests may create
          Proc,            \* requests that may run at the same time
          NoInvite, NoFile,
          Size,            \* [File -> Nat]: bytes announced by the guest
          Requested,       \* the values of max_files an owner asks for
          DefaultFiles,    \* DefaultInviteMaxFiles
          MaxFiles,        \* MaxInviteMaxFiles
          MaxBytes,        \* max_total_bytes of every invite
          MaxActive,       \* MaxActiveInvitesPerUser
          MaxPerAddress,   \* MaxGuestUploadsPerIP24h; all guests share one address
          Quota,           \* storage limit of the owner
          MaxFailures,     \* bound on failed statements and crashes together
          MaxOverlaps      \* bound on completions that begin beside another of the same file

ASSUME InviteBounds ==
    /\ {DefaultFiles, MaxFiles, MaxActive, MaxPerAddress} \subseteq Nat \ {0}
    /\ DefaultFiles <= MaxFiles
    /\ {MaxBytes, Quota, MaxFailures, MaxOverlaps} \subseteq Nat
    /\ Size \in [File -> Nat \ {0}]
    /\ Requested \subseteq Int
    /\ Known \subseteq Invite
    /\ IsFiniteSet(File) /\ IsFiniteSet(Proc) /\ IsFiniteSet(Invite)
    /\ NoFile \notin File /\ NoInvite \notin Invite

VARIABLES
    invite,    \* rows of upload_invites
    past,      \* the invites whose expires_at is before now
    file,      \* status and invite of the rows of files
    recorded,  \* rows of upload_invite_files: the files known to belong to an invite
    timer,     \* memory: invites with a debounce timer running
    flying,    \* memory: files taken from the counter and not yet announced
    told,      \* files announced to the owner, per invite
    rows,      \* locals of the cleanup job: the stale files it has listed
    claimed,   \* the file the cleanup job has claimed and not yet released
    pc, at,    \* the requests
    overlaps,  \* history: how often a completion or the cleanup of a file that is
               \* UPLOADING began beside another completion of it
    faults, crashes

vars == <<invite, past, file, recorded,
          timer, flying, told, rows, claimed, pc, at, overlaps, faults, crashes>>

notice == <<timer, flying, told>>
job    == <<rows, claimed>>

InviteStatus == {"none", "active", "revoked", "expired"}
FileStatus   == {"none", "UPLOADING", "PENDING_SCAN", "READY", "FAILED"}
PC == {"idle", "folder", "insert", "revoke", "expire", "reserve", "quota", "create", "record",
       "unrecord", "failnew", "release", "finish", "discard", "commit", "notify"}
NoCall == [i |-> NoInvite, f |-> NoFile, seen |-> "none", op |-> "none"]

TypeOK ==
    /\ invite \in [Invite -> [status : InviteStatus, max : 0..MaxFiles,
                              files : 0..MaxFiles, bytes : 0..MaxBytes, pending : Nat]]
    /\ past \subseteq Invite
    /\ file \in [File -> [status : FileStatus, i : Invite \cup {NoInvite}]]
    /\ recorded \subseteq File
    /\ timer \subseteq Invite
    /\ flying \in [Invite -> Nat] /\ told \in [Invite -> Nat]
    /\ rows \subseteq File /\ claimed \in File \cup {NoFile}
    /\ at \in [Proc -> [i : Invite \cup {NoInvite}, f : File \cup {NoFile},
                        seen : InviteStatus, op : {"none", "create", "guest"}]]
    /\ pc \in [Proc -> PC]
    /\ {faults, crashes} \subseteq 0..MaxFailures /\ overlaps \in 0..(MaxOverlaps + Cardinality(File))

Init ==
    /\ invite = [i \in Invite |-> [status |-> "none", max |-> 0, files |-> 0,
                                   bytes |-> 0, pending |-> 0]]
    /\ past = {}
    /\ file = [f \in File |-> [status |-> "none", i |-> NoInvite]]
    /\ recorded = {}
    /\ timer = {} /\ flying = [i \in Invite |-> 0] /\ told = [i \in Invite |-> 0]
    /\ rows = {} /\ claimed = NoFile
    /\ pc = [p \in Proc |-> "idle"] /\ at = [p \in Proc |-> NoCall]
    /\ overlaps = 0 /\ faults = 0 /\ crashes = 0

-------------------------------------------------------------------------------
\* The statements of the repository.

FindByToken(i)  == invite[i]
FindByID(i)     == invite[i]
FindByFileID(f) == file[f].i

Active == {i \in Invite : invite[i].status = "active"}

\* CountActiveByOwner
CountActiveByOwner == Cardinality(Active \ past)

\* UpdateStatus: whatever the status is by now
UpdateStatus(i, s) == invite' = [invite EXCEPT ![i].status = s]

\* The WHERE of ReserveUsage.
CanReserve(i, n) ==
    /\ i \in Active \ past
    /\ invite[i].bytes + n <= MaxBytes
    /\ invite[i].files + 1 <= invite[i].max

Monus(a, b) == IF a >= b THEN a - b ELSE 0

\* ReleaseUsage
Released(i, n) == [invite EXCEPT ![i].bytes = Monus(@, n), ![i].files = Monus(@, 1)]

\* RecordFile ties a file to the invite and to the address.
RecordFile(f) == recorded' = recorded \cup {f}

\* IncrementPendingNotify
IncrementPendingNotify(i) == invite' = [invite EXCEPT ![i].pending = @ + 1]

\* CountUploadsByIPInWindow: the files recorded for the guests' address
CountUploadsByIPInWindow == Cardinality(recorded)

\* Mutant of ListStaleUploads: only uploads of invites that are still active are listed
ListStaleOfActive == {f \in recorded : file[f].status = "UPLOADING" /\ file[f].i \in Active}

\* ListStaleUploads: of these, the ones two hours old.
ListStaleUploads == {f \in recorded : file[f].status = "UPLOADING"}

\* GetUserStorageUsed counts READY and UPLOADING files, not those being scanned.
GetUserStorageUsed ==
    MapThenSumSet(LAMBDA f : Size[f],
                  {f \in File : file[f].status \in {"READY", "UPLOADING"}})

\* validateFile: the quota check; type and size of one file are taken to be allowed.
UnderQuota(f) == GetUserStorageUsed + Size[f] <= Quota

\* A request goes on at l with the locals c, or ends.
Go(p, l, c) == pc' = [pc EXCEPT ![p] = l] /\ at' = [at EXCEPT ![p] = c]
Step(p, l)  == Go(p, l, at[p])
Done(p)     == Go(p, "idle", NoCall)
Is(p, l)    == pc[p] = l

\* f is being completed by a request; Beside(f) counts what begins beside it.
Finishing(f) == \E p \in Proc : at[p].f = f /\ at[p].op = "none"
Beside(f) ==
    overlaps' = IF Finishing(f) /\ file[f].status = "UPLOADING" THEN overlaps + 1 ELSE overlaps

\* A statement fails, or the server does: the bound is the model's.
MayHappen == faults + crashes < MaxFailures
Fault     == MayHappen /\ faults' = faults + 1

-------------------------------------------------------------------------------
\* CreateInvite by the owner (upload_invite_service.go:157-247).

\* Mutant of Clamp: the upper bound is forgotten
ClampDefault(n, default, max) == IF n <= 0 THEN default ELSE n

\* The clamp of a requested limit to 1..max, with a default for none.
Clamp(n, default, max) == IF n <= 0 THEN default ELSE IF n > max THEN max ELSE n

\* Mutant of BelowActiveCap: the cap is not looked at
NoActiveCap == TRUE

BelowActiveCap == CountActiveByOwner < MaxActive

\* The cap on active invites is read here and the row inserted by CreateInsert.
CreateCount(p, i) ==
    /\ Is(p, "idle") /\ invite[i].status = "none"
    /\ \A q \in Proc : at[q].i # i
    /\ BelowActiveCap
    /\ Go(p, "folder", [NoCall EXCEPT !.i = i, !.op = "create"])
    /\ UNCHANGED <<invite, past, file, recorded, notice, job, overlaps, faults, crashes>>

\* ensureReceivedFolder, ensureSubFolder: the target folder is found by its name or
\* created.  (FolderTree has the race of two requests that create one folder.)
EnsureFolder(p) ==
    /\ Is(p, "folder")
    /\ \/ Step(p, IF at[p].op = "create" THEN "insert" ELSE "reserve") /\ UNCHANGED faults
       \/ Fault /\ Done(p)
    /\ UNCHANGED <<invite, past, file, recorded, notice, job, overlaps, crashes>>

CreateInsert(p) ==
    /\ Is(p, "insert")
    /\ \E n \in Requested :
         invite' = [invite EXCEPT ![at[p].i] =
            [status |-> "active", max |-> Clamp(n, DefaultFiles, MaxFiles),
             files |-> 0, bytes |-> 0, pending |-> 0]]
    /\ Done(p)
    /\ UNCHANGED <<past, file, recorded, notice, job, overlaps, faults, crashes>>

\* RevokeInvite: the status is read, then overwritten.
RevokeRead(p, i) ==
    /\ Is(p, "idle") /\ i \in Known /\ FindByID(i).status = "active"
    /\ Go(p, "revoke", [NoCall EXCEPT !.i = i])
    /\ UNCHANGED <<invite, past, file, recorded, notice, job, overlaps, faults, crashes>>

RevokeWrite(p) ==
    /\ Is(p, "revoke")
    /\ UpdateStatus(at[p].i, "revoked")
    /\ Done(p)
    /\ UNCHANGED <<past, file, recorded, notice, job, overlaps, faults, crashes>>

-------------------------------------------------------------------------------
\* What a guest reads, and the passcode.

\* GetInviteInfo, VerifyPasscode and GuestCreateUploadSession find an active
\* invite past its time and are about to write "expired" over its status.
SeesExpired(p, i) ==
    /\ Is(p, "idle") /\ i \in Known \cap past /\ FindByToken(i).status = "active"
    /\ Go(p, "expire", [NoCall EXCEPT !.i = i])
    /\ UNCHANGED <<invite, past, file, recorded, notice, job, overlaps, faults, crashes>>

WriteExpired(p) ==
    /\ Is(p, "expire")
    /\ UpdateStatus(at[p].i, "expired")
    /\ Done(p)
    /\ UNCHANGED <<past, file, recorded, notice, job, overlaps, faults, crashes>>

-------------------------------------------------------------------------------
\* GuestCreateUploadSession.

BelowAddressCap == CountUploadsByIPInWindow < MaxPerAddress

\* Steps 1 to 5: the invite, the session token, the uploads of the address and the target
\* folder are read.  A target folder the owner has deleted meanwhile is made again.
GuestRead(p, i, f) ==
    /\ Is(p, "idle") /\ i \in Known \ past /\ FindByToken(i).status = "active"
    /\ file[f].status = "none" /\ \A q \in Proc : at[q].f # f
    /\ BelowAddressCap
    /\ \E l \in {"reserve", "folder"} : Go(p, l, [NoCall EXCEPT !.i = i, !.f = f, !.op = "guest"])
    /\ UNCHANGED <<invite, past, file, recorded, notice, job, overlaps, faults, crashes>>

\* Step 6: ReserveUsage, one conditional UPDATE.
GuestReserve(p) ==
    /\ Is(p, "reserve")
    /\ LET i == at[p].i   n == Size[at[p].f] IN
         IF CanReserve(i, n)
         THEN /\ invite' = [invite EXCEPT ![i].bytes = @ + n, ![i].files = @ + 1]
              /\ Step(p, "quota")
         ELSE Done(p) /\ UNCHANGED invite
    /\ UNCHANGED <<past, file, recorded, notice, job, overlaps, faults, crashes>>

\* Step 7: FileService.CreateUploadSession reads the owner's quota ...
GuestQuota(p) ==
    /\ Is(p, "quota")
    /\ Step(p, IF UnderQuota(at[p].f) THEN "create" ELSE "release")
    /\ UNCHANGED <<invite, past, file, recorded, notice, job, overlaps, faults, crashes>>

\* ... and later inserts the row.
GuestCreate(p) ==
    /\ Is(p, "create")
    /\ \/ /\ file' = [file EXCEPT ![at[p].f] = [status |-> "UPLOADING", i |-> at[p].i]]
          /\ Step(p, "record") /\ UNCHANGED faults
       \/ Fault /\ Step(p, "release") /\ UNCHANGED file
    /\ UNCHANGED <<invite, past, recorded, notice, job, overlaps, crashes>>

\* Step 8: RecordFile.
GuestRecord(p) ==
    /\ Is(p, "record")
    /\ \/ RecordFile(at[p].f) /\ Done(p) /\ UNCHANGED faults
       \/ Fault /\ Step(p, "unrecord") /\ UNCHANGED recorded
    /\ UNCHANGED <<invite, past, file, notice, job, overlaps, crashes>>

\* A session that could not be recorded: the capacity is released and the file FAILED.
GuestUnrecord(p) ==
    /\ Is(p, "unrecord")
    /\ invite' = Released(at[p].i, Size[at[p].f])
    /\ Step(p, "failnew")
    /\ UNCHANGED <<past, file, recorded, notice, job, overlaps, faults, crashes>>

GuestFailNew(p) ==
    /\ Is(p, "failnew")
    /\ \/ file' = [file EXCEPT ![at[p].f].status = "FAILED"] /\ UNCHANGED faults
       \/ Fault /\ UNCHANGED file
    /\ Done(p)
    /\ UNCHANGED <<invite, past, recorded, notice, job, overlaps, crashes>>

\* ReleaseUsage at the end of a request; its error is ignored.
Release(p) ==
    /\ Is(p, "release")
    /\ \/ invite' = Released(at[p].i, Size[at[p].f]) /\ UNCHANGED faults
       \/ Fault /\ UNCHANGED invite
    /\ Done(p)
    /\ UNCHANGED <<past, file, recorded, notice, job, overlaps, crashes>>

-------------------------------------------------------------------------------
\* GuestCompleteUpload.

\* Steps 1 and 2: the invite and the row that ties the file to it.
CompleteRead(p, f) ==
    /\ Is(p, "idle") /\ f \in recorded
    /\ Go(p, "finish", [NoCall EXCEPT !.i = FindByFileID(f), !.f = f,
                                      !.seen = FindByToken(FindByFileID(f)).status])
    /\ Finishing(f) => overlaps < MaxOverlaps
    /\ Beside(f)
    /\ UNCHANGED <<invite, past, file, recorded, notice, job, faults, crashes>>

\* Steps 3 and 4: the file is UPLOADING; the invite was read revoked, active or expired.
\* CompleteUpload then accepts or rejects the header of the object.
CompleteFile(p) ==
    /\ Is(p, "finish")
    /\ LET c == at[p] IN
         IF file[c.f].status # "UPLOADING" THEN Done(p)
         ELSE IF c.seen = "revoked" THEN Go(p, "discard", [c EXCEPT !.seen = "none"])
         ELSE IF c.seen # "active" \/ c.i \in past THEN Done(p)
         ELSE \E l \in {"commit", "discard"} : Go(p, l, [c EXCEPT !.seen = "none"])
    /\ UNCHANGED <<invite, past, file, recorded, notice, job, overlaps, faults, crashes>>

\* The object is deleted and the file FAILED: of a revoked invite, or rejected
\* by the validation in CompleteUpload.
Discard(p) ==
    /\ Is(p, "discard")
    /\ \/ file' = [file EXCEPT ![at[p].f].status = "FAILED"] /\ UNCHANGED faults
       \/ Fault /\ UNCHANGED file
    /\ Step(p, "release")
    /\ UNCHANGED <<invite, past, recorded, notice, job, overlaps, crashes>>

\* CompleteUpload: the status becomes PENDING_SCAN, whatever it is by now.
Commit(p) ==
    /\ Is(p, "commit")
    /\ \/ /\ file' = [file EXCEPT ![at[p].f].status = "PENDING_SCAN"]
          /\ Step(p, "notify") /\ UNCHANGED faults
       \/ Fault /\ Step(p, "release") /\ UNCHANGED file
    /\ UNCHANGED <<invite, past, recorded, notice, job, overlaps, crashes>>

\* Step 6: IncrementPendingNotify, its error ignored, and the debounce timer set again.
Notify(p) ==
    /\ Is(p, "notify")
    /\ \/ IncrementPendingNotify(at[p].i) /\ UNCHANGED faults
       \/ Fault /\ UNCHANGED invite
    /\ timer' = timer \cup {at[p].i}
    /\ Done(p)
    /\ UNCHANGED <<past, file, recorded, flying, told, job, overlaps, crashes>>

-------------------------------------------------------------------------------
\* Announcing the files to the owner.

\* Mutant of Flush: the counters are read and reset by two statements, and the reset is lost
FlushKeepsCount(S) ==
    /\ flying' = [i \in Invite |-> IF i \in S THEN flying[i] + invite[i].pending ELSE flying[i]]
    /\ \A i \in S : flying[i] = 0
    /\ UNCHANGED invite

\* Mutant of Flush: the counters are reset before they are read
FlushResetsFirst(S) ==
    /\ invite' = [i \in Invite |-> IF i \in S THEN [invite[i] EXCEPT !.pending = 0] ELSE invite[i]]
    /\ UNCHANGED flying

\* FlushPendingNotifications: counters read and reset by one statement.
Flush(S) ==
    /\ flying' = [i \in Invite |-> IF i \in S THEN flying[i] + invite[i].pending ELSE flying[i]]
    /\ invite' = [i \in Invite |-> IF i \in S THEN [invite[i] EXCEPT !.pending = 0] ELSE invite[i]]

\* FlushPendingForInvite: the same for one invite.
FlushPendingForInvite(i) == Flush({i})

\* The timer's function: flushSingleInviteNotification.
TimerFires(i) ==
    /\ i \in timer
    /\ timer' = timer \ {i}
    /\ FlushPendingForInvite(i)
    /\ UNCHANGED <<past, file, recorded, told, job, pc, at, overlaps, faults, crashes>>

\* The scheduler flushes every counter whose last announcement is two minutes old:
\* S of those that are not 0.
SchedulerFlush(S) ==
    /\ S # {} /\ \A i \in S : invite[i].pending > 0
    /\ Flush(S)
    /\ UNCHANGED <<past, file, recorded, timer, told, job, pc, at, overlaps, faults, crashes>>

\* sendBatchNotification: push, in-app and e-mail jobs.
Send(i) ==
    /\ flying[i] > 0
    /\ told' = [told EXCEPT ![i] = @ + flying[i]]
    /\ flying' = [flying EXCEPT ![i] = 0]
    /\ UNCHANGED <<invite, past, file, recorded, timer, job, pc, at, overlaps, faults, crashes>>

-------------------------------------------------------------------------------
\* The scheduler's jobs.

\* ExpireStaleInvites
ExpireStaleInvites ==
    /\ Active \cap past # {}
    /\ invite' = [i \in Invite |-> IF i \in Active \cap past
                                   THEN [invite[i] EXCEPT !.status = "expired"] ELSE invite[i]]
    /\ UNCHANGED <<past, file, recorded, notice, job, pc, at, overlaps, faults, crashes>>

\* CleanupAbandonedUploads lists ...
CleanupList(S) ==
    /\ rows = {} /\ claimed = NoFile
    /\ S # {} /\ S \subseteq ListStaleUploads
    /\ rows' = S
    /\ UNCHANGED <<invite, past, file, recorded, notice, claimed, pc, at, overlaps, faults, crashes>>

\* Mutant of CleanupClaim: capacity is released without looking at the claim
ReleaseUnclaimed(f) ==
    /\ f \in rows /\ claimed = NoFile
    /\ Beside(f)
    /\ rows' = rows \ {f}
    /\ file' = IF file[f].status = "UPLOADING" THEN [file EXCEPT ![f].status = "FAILED"] ELSE file
    /\ claimed' = f
    /\ UNCHANGED <<invite, past, recorded, notice, pc, at, faults, crashes>>

\* ... claims each file that is still UPLOADING, deletes its object ...
CleanupClaim(f) ==
    /\ f \in rows /\ claimed = NoFile
    /\ Beside(f)
    /\ rows' = rows \ {f}
    /\ IF file[f].status = "UPLOADING"
       THEN file' = [file EXCEPT ![f].status = "FAILED"] /\ claimed' = f
       ELSE UNCHANGED <<file, claimed>>
    /\ UNCHANGED <<invite, past, recorded, notice, pc, at, faults, crashes>>

\* ... and releases its capacity, an error being ignored.
CleanupRelease ==
    /\ claimed # NoFile
    /\ \/ invite' = Released(file[claimed].i, Size[claimed]) /\ UNCHANGED faults
       \/ Fault /\ UNCHANGED invite
    /\ claimed' = NoFile
    /\ UNCHANGED <<past, file, recorded, notice, rows, pc, at, overlaps, crashes>>

-------------------------------------------------------------------------------
\* The environment: time, the media worker, the owner's folders, crashes.

PassExpiry(i) ==
    /\ invite[i].status # "none" /\ i \in Known \ past
    /\ past' = past \cup {i}
    /\ UNCHANGED <<invite, file, recorded, notice, job, pc, at, overlaps, faults, crashes>>

\* The media worker accepts a scanned file (FileLifecycle models the scan).
Scanned(f) ==
    /\ file[f].status = "PENDING_SCAN"
    /\ file' = [file EXCEPT ![f].status = "READY"]
    /\ UNCHANGED <<invite, past, recorded, notice, job, pc, at, overlaps, faults, crashes>>

Crash ==
    /\ MayHappen /\ crashes' = crashes + 1
    /\ pc' = [p \in Proc |-> "idle"] /\ at' = [p \in Proc |-> NoCall]
    /\ timer' = {} /\ flying' = [i \in Invite |-> 0]
    /\ rows' = {} /\ claimed' = NoFile
    /\ UNCHANGED <<invite, past, file, recorded, told, overlaps, faults>>

OwnerRequest(p) == \E i \in Invite : CreateCount(p, i) \/ RevokeRead(p, i)
GuestReads(p)   == \E i \in Invite : SeesExpired(p, i)
GuestRequest(p) ==
    \/ \E i \in Invite, f \in File : GuestRead(p, i, f)
    \/ \E f \in File : CompleteRead(p, f)

Continue(p) ==
    \/ EnsureFolder(p) \/ CreateInsert(p)
    \/ RevokeWrite(p) \/ WriteExpired(p)
    \/ GuestReserve(p) \/ GuestQuota(p)
    \/ GuestCreate(p) \/ GuestRecord(p) \/ GuestUnrecord(p) \/ GuestFailNew(p) \/ Release(p)
    \/ CompleteFile(p) \/ Discard(p) \/ Commit(p) \/ Notify(p)

Environment ==
    \/ \E i \in Invite : PassExpiry(i)
    \/ \E f \in File : Scanned(f)
    \/ Crash

Cleanup ==
    \/ \E S \in SUBSET File : CleanupList(S)
    \/ (\E f \in File : CleanupClaim(f))
    \/ CleanupRelease

Next ==
    \/ \E p \in Proc : OwnerRequest(p) \/ GuestReads(p) \/ GuestRequest(p) \/ Continue(p)
    \/ \E i \in Invite : TimerFires(i) \/ Send(i)
    \/ \E S \in SUBSET Invite : SchedulerFlush(S)
    \/ ExpireStaleInvites \/ Cleanup
    \/ Environment

\* Requests and jobs run on, the scheduler's jobs come round, and time passes.
Fairness ==
    /\ \A p \in Proc : WF_vars(Continue(p))
    /\ \A i \in Invite : /\ WF_vars(Send(i))
                         /\ WF_vars(\E S \in SUBSET Invite : i \in S /\ SchedulerFlush(S))
    /\ WF_vars(CleanupRelease)
    /\ \A f \in File : /\ WF_vars(\E S \in SUBSET File : f \in S /\ CleanupList(S))
                       /\ WF_vars(CleanupClaim(f))

Spec == Init /\ [][Next]_vars /\ Fairness

-------------------------------------------------------------------------------
Live(i)     == {f \in File : file[f].i = i /\ file[f].status \in {"UPLOADING", "PENDING_SCAN", "READY"}}
Accepted(i) == {f \in File : file[f].i = i /\ file[f].status \in {"PENDING_SCAN", "READY"}}

\* The capacity counted as used by an invite covers the files guests have open or
\* have delivered through it: crashes leak capacity and never give it twice, and a
\* failed statement, or a request that completes or cleans up a file another is
\* completing, gives at most one file away.  So guests deliver no more files than the
\* owner allowed.  (ReserveUsage, ReleaseUsage and the five places that call it.)
CapacityCovered ==
    \A i \in Invite :
        /\ Cardinality(Live(i)) <= invite[i].files + faults + overlaps
        /\ Cardinality(Live(i)) <= invite[i].max + faults + overlaps

\* The limits that are a SELECT and a later INSERT -- active invites per owner, uploads
\* per address -- are overrun by no more than the requests that run at the same time.
\* (CreateInvite and step 4 of GuestCreateUploadSession.)
OvershootByConcurrency ==
    LET others == Cardinality(Proc) - 1 IN
    /\ CountActiveByOwner <= MaxActive + others
    /\ CountUploadsByIPInWindow <= MaxPerAddress + others

\* No file is announced twice to the owner, though the timer and the scheduler both
\* flush the counter of an invite; only completions side by side are both announced.
AnnouncedOnce ==
    \A i \in Invite :
        told[i] + flying[i] + invite[i].pending <= Cardinality(Accepted(i)) + overlaps

\* An upload a guest abandons ends, even across crashes, once it was recorded.
AbandonedUploadsEnd ==
    \A f \in File : f \in recorded /\ file[f].status = "UPLOADING" ~> file[f].status # "UPLOADING"

\* Every accepted file is announced in the end, unless the announcement was in memory
\* when the server crashed or a statement failed.
EveryFileIsAnnounced ==
    <>[](\A i \in Invite : told[i] >= Cardinality(Accepted(i)) \/ crashes > 0 \/ faults > 0)
===============================================================================
