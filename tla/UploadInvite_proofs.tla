------------------------- MODULE UploadInvite_proofs -------------------------
(***************************************************************************)
(* Proofs about UploadInvite, for all sets of invites, files and requests  *)
(* and all limits.                                                         *)
(***************************************************************************)
EXTENDS UploadInvite, FiniteSetTheorems, TLAPS

-----------------------------------------------------------------------------
(* What a request works on, by the kind of request.                        *)

GuestPC == {"folder", "reserve", "quota", "create", "record", "unrecord",
            "failnew", "release"}
CompletePC == {"finish", "discard", "commit", "release", "notify"}

CallAt(p) ==
  \/ pc[p] = "idle" /\ at[p] = NoCall
  \/ /\ at[p].op = "create" /\ pc[p] \in {"folder", "insert"}
     /\ at[p].i \in Invite /\ at[p].f = NoFile
  \/ /\ at[p].op = "none" /\ pc[p] \in {"revoke", "expire"}
     /\ at[p].i \in Invite /\ at[p].f = NoFile
  \/ /\ at[p].op = "guest" /\ pc[p] \in GuestPC
     /\ at[p].i \in Invite /\ at[p].f \in File
  \/ /\ at[p].op = "none" /\ pc[p] \in CompletePC
     /\ at[p].i \in Invite /\ at[p].f \in recorded
     /\ file[at[p].f].i = at[p].i

CallOK == \A p \in Proc : CallAt(p)

(* A row of files belongs to an invite that exists; what is recorded, and  *)
(* so what the cleanup lists and claims, is such a row.                    *)
FileOK ==
  /\ \A f \in File :
       file[f].status # "none" =>
         file[f].i \in Invite /\ invite[file[f].i].status # "none"
  /\ \A f \in recorded : file[f].status # "none"
  /\ rows \subseteq recorded
  /\ claimed # NoFile => claimed \in recorded

(* Nobody else touches the file a guest is creating before it is recorded, *)
(* nor the invite an owner is creating before it is inserted.              *)
GuestAt(p) ==
  at[p].op = "guest" =>
    /\ at[p].f \notin recorded
    /\ \A q \in Proc : at[q].f = at[p].f => q = p
    /\ pc[p] \in {"folder", "reserve", "quota", "create", "release"} =>
         file[at[p].f].status = "none"
    /\ pc[p] \in {"record", "unrecord", "failnew"} =>
         file[at[p].f].status = "UPLOADING" /\ file[at[p].f].i = at[p].i

GuestOK == \A p \in Proc : GuestAt(p)

CreateOK ==
  \A p \in Proc :
    /\ at[p].op = "create" =>
         /\ invite[at[p].i].status = "none"
         /\ \A q \in Proc : at[q].i = at[p].i => q = p
    /\ at[p].op # "create" /\ at[p].i \in Invite =>
         invite[at[p].i].status # "none"

Ended == {f \in File : file[f].status \notin {"none", "UPLOADING"}}

OverlapOK == overlaps <= MaxOverlaps + Cardinality(Ended)

MaxOK == \A i \in Invite : invite[i].files <= invite[i].max

Shape ==
  TypeOK /\ CallOK /\ FileOK /\ GuestOK /\ CreateOK /\ OverlapOK /\ MaxOK

-----------------------------------------------------------------------------
(* Who may still give back a file's share of an invite's capacity: the     *)
(* requests that hold a reservation without a row, or are about to release *)
(* one (Held); the claim of the cleanup (Claimed); and the completions     *)
(* that may yet end either way (Completing), of which one per open file    *)
(* (Open) is the file's own.                                               *)

Held(i) ==
  {p \in Proc : at[p].i = i /\ pc[p] \in {"quota", "create", "release", "unrecord"}}
Claimed(i) == {f \in File : f = claimed /\ file[f].i = i}
Completes(p) ==
  /\ at[p].op = "none" /\ pc[p] \in {"finish", "discard", "commit"}
  /\ file[at[p].f].status = "UPLOADING" \/ pc[p] # "finish"
Completing(i) == {p \in Proc : at[p].i = i /\ Completes(p)}
Open(i) ==
  {f \in File : /\ file[f].i = i /\ file[f].status = "UPLOADING"
                /\ \E p \in Proc : at[p].f = f /\ Completes(p)}
Excess(i) == Cardinality(Completing(i)) - Cardinality(Open(i))

CapacityAt(i) ==
  Cardinality(Live(i)) + Cardinality(Held(i)) + Cardinality(Claimed(i)) + Excess(i)
    <= invite[i].files + faults + overlaps
CapacityInv == \A i \in Invite : CapacityAt(i)

(* The announcements still to come of files that were accepted.            *)
Notifying(i) == {p \in Proc : at[p].i = i /\ pc[p] = "notify"}

AnnounceAt(i) ==
  told[i] + flying[i] + invite[i].pending + Cardinality(Notifying(i)) + Excess(i)
    <= Cardinality(Accepted(i)) + overlaps
AnnounceInv == \A i \in Invite : AnnounceAt(i)

(* The requests that have passed one of the two caps and have not used it. *)
Creating == {p \in Proc : at[p].op = "create"}
Guests == {p \in Proc : at[p].op = "guest"}

CapInv ==
  /\ Cardinality(Active \ past) + Cardinality(Creating)
       < MaxActive + Cardinality(Proc)
  /\ Cardinality(recorded) + Cardinality(Guests)
       < MaxPerAddress + Cardinality(Proc)

Call == [i : Invite \cup {NoInvite}, f : File \cup {NoFile},
         seen : InviteStatus, op : {"none", "create", "guest"}]

LEMMA GoType ==
  ASSUME Shape, NEW p \in Proc, NEW l \in PC, NEW c \in Call, Go(p, l, c)
  PROVE  /\ pc' \in [Proc -> PC] /\ at' \in [Proc -> Call]
         /\ pc'[p] = l /\ at'[p] = c
         /\ \A q \in Proc \ {p} : pc'[q] = pc[q] /\ at'[q] = at[q]
BY DEF Shape, TypeOK, Go, Call

LEMMA ShapeCall ==
  ASSUME Shape, NEW p \in Proc
  PROVE  at[p] \in Call /\ pc[p] \in PC
BY DEF Shape, TypeOK, Call

LEMMA NoCallType == NoCall \in Call /\ "idle" \in PC
BY DEF NoCall, Call, InviteStatus, PC

LEMMA FaultType ==
  ASSUME Shape, Fault
  PROVE  faults' \in 0 .. MaxFailures
BY InviteBounds DEF Shape, TypeOK, Fault, MayHappen

(* What a write changes, row by row.                                       *)
LEMMA FileWrite ==
  ASSUME Shape, NEW f \in File, NEW s \in FileStatus,
         file' = [file EXCEPT ![f].status = s]
  PROVE  /\ \A g \in File : file'[g].i = file[g].i
         /\ \A g \in File \ {f} : file'[g].status = file[g].status
         /\ file'[f].status = s
         /\ file' \in [File -> [status : FileStatus, i : Invite \cup {NoInvite}]]
BY DEF Shape, TypeOK

LEMMA StatusWrite ==
  ASSUME Shape, NEW i \in Invite, NEW s \in InviteStatus, UpdateStatus(i, s)
  PROVE  /\ \A j \in Invite : /\ invite'[j].files = invite[j].files
                              /\ invite'[j].max = invite[j].max
                              /\ invite'[j].bytes = invite[j].bytes
                              /\ invite'[j].pending = invite[j].pending
         /\ \A j \in Invite \ {i} : invite'[j].status = invite[j].status
         /\ invite'[i].status = s
BY DEF Shape, TypeOK, UpdateStatus

LEMMA ReleaseWrite ==
  ASSUME Shape, NEW i \in Invite, NEW n \in Nat, invite' = Released(i, n)
  PROVE  /\ \A j \in Invite : /\ invite'[j].status = invite[j].status
                              /\ invite'[j].max = invite[j].max
                              /\ invite'[j].pending = invite[j].pending
         /\ \A j \in Invite \ {i} : invite'[j].files = invite[j].files
         /\ invite'[i].files =
              IF invite[i].files = 0 THEN 0 ELSE invite[i].files - 1
BY InviteBounds DEF Shape, TypeOK, Released, Monus

(* What every step keeps but the two that insert rows: a row stays a row,  *)
(* a file stays with its invite, and a file that is recorded stays so.     *)
Kept(newFiles, newInvites) ==
  /\ recorded \subseteq recorded'
  /\ \A f \in File \ newFiles :
       /\ file'[f].status = "none" <=> file[f].status = "none"
       /\ file'[f].i = file[f].i
  /\ \A i \in Invite \ newInvites :
       invite'[i].status = "none" <=> invite[i].status = "none"

LEMMA NextKept ==
  ASSUME Shape, [Next]_vars
  PROVE  \/ Kept({}, {})
         \/ \E p \in Proc : CreateInsert(p) \/ GuestCreate(p)
<1>. USE DEF Shape, TypeOK, InviteStatus, FileStatus, PC, NoCall, CallOK,
             CallAt, GuestPC, CompletePC, FileOK, GuestOK, GuestAt, Kept, notice, job
<1>1. ASSUME NEW p \in Proc, NEW i \in Invite, CreateCount(p, i)
      PROVE  Kept({}, {})
  BY <1>1 DEF CreateCount, Go, Is
<1>2. ASSUME NEW p \in Proc, NEW i \in Invite, RevokeRead(p, i)
      PROVE  Kept({}, {})
  BY <1>2 DEF RevokeRead, Go, Is, FindByID
<1>3. ASSUME NEW p \in Proc, NEW i \in Invite, SeesExpired(p, i)
      PROVE  Kept({}, {})
  BY <1>3 DEF SeesExpired, Go, Is, FindByToken
<1>4. ASSUME NEW p \in Proc, NEW i \in Invite, NEW f \in File, GuestRead(p, i, f)
      PROVE  Kept({}, {})
  BY <1>4 DEF GuestRead, Go, Is, FindByToken
<1>5. ASSUME NEW p \in Proc, NEW f \in File, CompleteRead(p, f)
      PROVE  Kept({}, {})
  BY <1>5 DEF CompleteRead, Go, Is, FindByToken, FindByFileID, Beside
<1>6. ASSUME NEW p \in Proc, EnsureFolder(p)
      PROVE  Kept({}, {})
  BY <1>6 DEF EnsureFolder, Step, Done, Go, Is, Fault, MayHappen
<1>7. ASSUME NEW p \in Proc, RevokeWrite(p)
      PROVE  Kept({}, {})
  <2>1. at[p].i \in Invite /\ invite[at[p].i].status # "none"
    BY <1>7 DEF RevokeWrite, Is, CreateOK
  <2>2. UpdateStatus(at[p].i, "revoked") /\ UNCHANGED <<recorded, file>>
    BY <1>7 DEF RevokeWrite
  <2>3. /\ \A j \in Invite \ {at[p].i} : invite'[j].status = invite[j].status
        /\ invite'[at[p].i].status = "revoked"
    BY <2>1, <2>2, StatusWrite
  <2>. QED
    BY <2>1, <2>2, <2>3
<1>8. ASSUME NEW p \in Proc, WriteExpired(p)
      PROVE  Kept({}, {})
  <2>1. at[p].i \in Invite /\ invite[at[p].i].status # "none"
    BY <1>8 DEF WriteExpired, Is, CreateOK
  <2>2. UpdateStatus(at[p].i, "expired") /\ UNCHANGED <<recorded, file>>
    BY <1>8 DEF WriteExpired
  <2>3. /\ \A j \in Invite \ {at[p].i} : invite'[j].status = invite[j].status
        /\ invite'[at[p].i].status = "expired"
    BY <2>1, <2>2, StatusWrite
  <2>. QED
    BY <2>1, <2>2, <2>3
<1>9. ASSUME NEW p \in Proc, GuestReserve(p)
      PROVE  Kept({}, {})
  BY <1>9 DEF GuestReserve, Step, Done, Go, Is, CanReserve
<1>10. ASSUME NEW p \in Proc, GuestQuota(p)
      PROVE  Kept({}, {})
  BY <1>10 DEF GuestQuota, Step, Go, Is
<1>11. ASSUME NEW p \in Proc, GuestRecord(p)
      PROVE  Kept({}, {})
  BY <1>11 DEF GuestRecord, Step, Done, Go, Is, Fault, MayHappen, RecordFile
<1>12. ASSUME NEW p \in Proc, GuestUnrecord(p)
      PROVE  Kept({}, {})
  <2>1. UNCHANGED <<recorded, file>>
    BY <1>12 DEF GuestUnrecord
  <2>2. CASE invite' = Released(at[p].i, Size[at[p].f])
    <3>1. at[p].i \in Invite /\ Size[at[p].f] \in Nat
      BY <1>12, InviteBounds DEF GuestUnrecord, Is
    <3>. QED
      BY <2>1, <2>2, <3>1, ReleaseWrite
  <2>. QED
    BY <1>12, <2>1, <2>2 DEF GuestUnrecord
<1>13. ASSUME NEW p \in Proc, GuestFailNew(p)
      PROVE  Kept({}, {})
  <2>1. at[p].f \in File /\ file[at[p].f].status # "none"
    BY <1>13 DEF GuestFailNew, Is
  <2>2. UNCHANGED <<recorded, invite>>
    BY <1>13 DEF GuestFailNew
  <2>3. CASE file' = [file EXCEPT ![at[p].f].status = "FAILED"]
    BY <2>1, <2>2, <2>3, FileWrite
  <2>. QED
    BY <1>13, <2>2, <2>3 DEF GuestFailNew
<1>14. ASSUME NEW p \in Proc, Release(p)
      PROVE  Kept({}, {})
  <2>1. UNCHANGED <<recorded, file>>
    BY <1>14 DEF Release
  <2>2. CASE invite' = Released(at[p].i, Size[at[p].f])
    <3>1. at[p].i \in Invite /\ Size[at[p].f] \in Nat
      BY <1>14, InviteBounds DEF Release, Is
    <3>. QED
      BY <2>1, <2>2, <3>1, ReleaseWrite
  <2>. QED
    BY <1>14, <2>1, <2>2 DEF Release
<1>15. ASSUME NEW p \in Proc, CompleteFile(p)
      PROVE  Kept({}, {})
  BY <1>15 DEF CompleteFile, Done, Go, Is
<1>16. ASSUME NEW p \in Proc, Discard(p)
      PROVE  Kept({}, {})
  <2>1. at[p].f \in File /\ file[at[p].f].status # "none"
    BY <1>16 DEF Discard, Is
  <2>2. UNCHANGED <<recorded, invite>>
    BY <1>16 DEF Discard
  <2>3. CASE file' = [file EXCEPT ![at[p].f].status = "FAILED"]
    BY <2>1, <2>2, <2>3, FileWrite
  <2>. QED
    BY <1>16, <2>2, <2>3 DEF Discard
<1>17. ASSUME NEW p \in Proc, Commit(p)
      PROVE  Kept({}, {})
  <2>1. at[p].f \in File /\ file[at[p].f].status # "none"
    BY <1>17 DEF Commit, Is
  <2>2. UNCHANGED <<recorded, invite>>
    BY <1>17 DEF Commit
  <2>3. CASE file' = [file EXCEPT ![at[p].f].status = "PENDING_SCAN"]
    BY <2>1, <2>2, <2>3, FileWrite
  <2>. QED
    BY <1>17, <2>2, <2>3 DEF Commit
<1>18. ASSUME NEW p \in Proc, Notify(p)
      PROVE  Kept({}, {})
  BY SMTT(30), <1>18 DEF Notify, Done, Go, Is, Fault, MayHappen, IncrementPendingNotify
<1>19. ASSUME NEW i \in Invite, TimerFires(i)
      PROVE  Kept({}, {})
  BY <1>19 DEF TimerFires, FlushPendingForInvite, Flush
<1>20. ASSUME NEW i \in Invite, Send(i)
      PROVE  Kept({}, {})
  BY <1>20 DEF Send
<1>21. ASSUME NEW S \in SUBSET Invite, SchedulerFlush(S)
      PROVE  Kept({}, {})
  BY <1>21 DEF SchedulerFlush, Flush
<1>22. ASSUME ExpireStaleInvites
      PROVE  Kept({}, {})
  BY <1>22 DEF ExpireStaleInvites, Active
<1>23. ASSUME NEW S \in SUBSET File, CleanupList(S)
      PROVE  Kept({}, {})
  BY <1>23 DEF CleanupList, ListStaleUploads
<1>24. ASSUME NEW f \in File, CleanupClaim(f)
      PROVE  Kept({}, {})
  BY <1>24 DEF CleanupClaim, Beside
<1>25. ASSUME CleanupRelease
      PROVE  Kept({}, {})
  <2>1. UNCHANGED <<recorded, file>>
    BY <1>25 DEF CleanupRelease
  <2>2. CASE invite' = Released(file[claimed].i, Size[claimed])
    <3>1. file[claimed].i \in Invite /\ Size[claimed] \in Nat
      BY <1>25, InviteBounds DEF CleanupRelease, Is
    <3>. QED
      BY <2>1, <2>2, <3>1, ReleaseWrite
  <2>. QED
    BY <1>25, <2>1, <2>2 DEF CleanupRelease
<1>26. ASSUME NEW i \in Invite, PassExpiry(i)
      PROVE  Kept({}, {})
  BY <1>26 DEF PassExpiry
<1>27. ASSUME NEW f \in File, Scanned(f)
      PROVE  Kept({}, {})
  BY <1>27 DEF Scanned
<1>28. ASSUME Crash
      PROVE  Kept({}, {})
  BY <1>28 DEF Crash, MayHappen
<1>29. CASE UNCHANGED vars
  BY <1>29 DEF vars
<1>. QED
  BY <1>1, <1>2, <1>3, <1>4, <1>5, <1>6, <1>7, <1>8, <1>9, <1>10, <1>11,
     <1>12, <1>13, <1>14, <1>15, <1>16, <1>17, <1>18, <1>19, <1>20, <1>21,
     <1>22, <1>23, <1>24, <1>25, <1>26, <1>27, <1>28, <1>29
  DEF Next, OwnerRequest, GuestReads, GuestRequest, Continue, Environment,
      Cleanup

(* Only the steps of p move p.                                             *)
Moves(p) ==
  \A q \in Proc \ {p} : pc'[q] = pc[q] /\ at'[q] = at[q]

LEMMA OthersCall ==
  ASSUME Shape, NEW q \in Proc, pc'[q] = pc[q], at'[q] = at[q],
         recorded \subseteq recorded',
         \A f \in recorded : file'[f].i = file[f].i
  PROVE  CallAt(q)'
BY DEF Shape, CallOK, CallAt

LEMMA NextCall ==
  ASSUME Shape, [Next]_vars
  PROVE  CallOK'
<1>. USE InviteBounds
    DEF Shape, TypeOK, InviteStatus, FileStatus, PC, NoCall, CallOK, CallAt,
        FileOK, GuestOK, GuestAt, CreateOK, GuestPC, CompletePC, notice, job
<1>1. ASSUME NEW p \in Proc, NEW i \in Invite, CreateCount(p, i)
      PROVE  CallOK'
  BY <1>1 DEF CreateCount, Go, Is
<1>2. ASSUME NEW p \in Proc, NEW i \in Invite, RevokeRead(p, i)
      PROVE  CallOK'
  BY <1>2 DEF RevokeRead, Go, Is, FindByID
<1>3. ASSUME NEW p \in Proc, NEW i \in Invite, SeesExpired(p, i)
      PROVE  CallOK'
  BY <1>3 DEF SeesExpired, Go, Is, FindByToken
<1>4. ASSUME NEW p \in Proc, NEW i \in Invite, NEW f \in File, GuestRead(p, i, f)
      PROVE  CallOK'
  BY <1>4 DEF GuestRead, Go, Is, FindByToken
<1>5. ASSUME NEW p \in Proc, NEW f \in File, CompleteRead(p, f)
      PROVE  CallOK'
  BY <1>5 DEF CompleteRead, Go, Is, FindByToken, FindByFileID, Beside
<1>6. ASSUME NEW p \in Proc, EnsureFolder(p)
      PROVE  CallOK'
  BY <1>6 DEF EnsureFolder, Step, Done, Go, Is, Fault, MayHappen
<1>7. ASSUME NEW p \in Proc, CreateInsert(p)
      PROVE  CallOK'
  BY <1>7 DEF CreateInsert, Done, Go, Is, Clamp
<1>8. ASSUME NEW p \in Proc, RevokeWrite(p)
      PROVE  CallOK'
  BY <1>8 DEF RevokeWrite, Done, Go, Is, UpdateStatus
<1>9. ASSUME NEW p \in Proc, WriteExpired(p)
      PROVE  CallOK'
  BY <1>9 DEF WriteExpired, Done, Go, Is, UpdateStatus
<1>10. ASSUME NEW p \in Proc, GuestReserve(p)
      PROVE  CallOK'
  BY SMTT(30), <1>10 DEF GuestReserve, Step, Done, Go, Is, CanReserve
<1>11. ASSUME NEW p \in Proc, GuestQuota(p)
      PROVE  CallOK'
  BY <1>11 DEF GuestQuota, Step, Go, Is
<1>12. ASSUME NEW p \in Proc, GuestCreate(p)
      PROVE  CallOK'
  BY SMTT(30), <1>12 DEF GuestCreate, Step, Go, Is, Fault, MayHappen
<1>13. ASSUME NEW p \in Proc, GuestRecord(p)
      PROVE  CallOK'
  BY <1>13 DEF GuestRecord, Step, Done, Go, Is, Fault, MayHappen, RecordFile
<1>14. ASSUME NEW p \in Proc, GuestUnrecord(p)
      PROVE  CallOK'
  BY <1>14 DEF GuestUnrecord, Step, Go, Is, Released, Monus
<1>15. ASSUME NEW p \in Proc, GuestFailNew(p)
      PROVE  CallOK'
  BY <1>15 DEF GuestFailNew, Done, Go, Is, Fault, MayHappen
<1>16. ASSUME NEW p \in Proc, Release(p)
      PROVE  CallOK'
  BY <1>16 DEF Release, Done, Go, Is, Fault, MayHappen, Released, Monus
<1>17. ASSUME NEW p \in Proc, CompleteFile(p)
      PROVE  CallOK'
  <2>1. Moves(p) /\ UNCHANGED <<recorded, file>>
    BY <1>17 DEF CompleteFile, Done, Go, Moves
  <2>2. CASE pc'[p] = "idle" /\ at'[p] = NoCall
    BY <2>1, <2>2, OthersCall DEF Moves
  <2>3. CASE /\ pc'[p] \in {"discard", "commit"}
             /\ at'[p] = [at[p] EXCEPT !.seen = "none"]
    <3>1. /\ at[p].op = "none" /\ at[p].i \in Invite /\ at[p].f \in recorded
          /\ file[at[p].f].i = at[p].i
      BY <1>17 DEF CompleteFile, Is
    <3>2. CallAt(p)'
      BY <2>1, <2>3, <3>1
    <3>. QED
      BY <2>1, <3>2, OthersCall DEF Moves
  <2>. QED
    BY <1>17, <2>2, <2>3 DEF CompleteFile, Done, Go, Is
<1>18. ASSUME NEW p \in Proc, Discard(p)
      PROVE  CallOK'
  BY <1>18 DEF Discard, Step, Go, Is, Fault, MayHappen
<1>19. ASSUME NEW p \in Proc, Commit(p)
      PROVE  CallOK'
  <2>1. /\ at[p].op = "none" /\ at[p].i \in Invite /\ at[p].f \in recorded
        /\ file[at[p].f].i = at[p].i /\ at[p].f \in File
    BY <1>19 DEF Commit, Is
  <2>2. \A f \in File : file'[f].i = file[f].i
    <3>1. CASE file' = [file EXCEPT ![at[p].f].status = "PENDING_SCAN"]
      BY <2>1, <3>1, FileWrite
    <3>. QED
      BY <1>19, <3>1 DEF Commit
  <2>3. /\ Moves(p) /\ UNCHANGED recorded
        /\ pc'[p] \in {"notify", "release"} /\ at'[p] = at[p]
    BY <1>19 DEF Commit, Step, Go, Moves
  <2>4. CallAt(p)'
    BY <2>1, <2>2, <2>3
  <2>. QED
    BY <2>2, <2>3, <2>4, OthersCall DEF Moves
<1>20. ASSUME NEW p \in Proc, Notify(p)
      PROVE  CallOK'
  BY <1>20 DEF Notify, Done, Go, Is, Fault, MayHappen, IncrementPendingNotify
<1>21. ASSUME NEW i \in Invite, TimerFires(i)
      PROVE  CallOK'
  BY <1>21 DEF TimerFires, FlushPendingForInvite, Flush
<1>22. ASSUME NEW i \in Invite, Send(i)
      PROVE  CallOK'
  BY <1>22 DEF Send
<1>23. ASSUME NEW S \in SUBSET Invite, SchedulerFlush(S)
      PROVE  CallOK'
  BY <1>23 DEF SchedulerFlush, Flush
<1>24. ASSUME ExpireStaleInvites
      PROVE  CallOK'
  BY <1>24 DEF ExpireStaleInvites
<1>25. ASSUME NEW S \in SUBSET File, CleanupList(S)
      PROVE  CallOK'
  BY <1>25 DEF CleanupList, ListStaleUploads
<1>26. ASSUME NEW f \in File, CleanupClaim(f)
      PROVE  CallOK'
  <2>1. /\ UNCHANGED <<recorded, pc, at>>
        /\ \A f2 \in recorded : file'[f2].i = file[f2].i
    BY <1>26 DEF CleanupClaim
  <2>. QED
    BY <2>1, OthersCall
<1>27. ASSUME CleanupRelease
      PROVE  CallOK'
  BY <1>27 DEF CleanupRelease, Fault, MayHappen, Released, Monus
<1>28. ASSUME NEW i \in Invite, PassExpiry(i)
      PROVE  CallOK'
  BY <1>28 DEF PassExpiry
<1>29. ASSUME NEW f \in File, Scanned(f)
      PROVE  CallOK'
  BY <1>29 DEF Scanned
<1>30. ASSUME Crash
      PROVE  CallOK'
  BY <1>30 DEF Crash, MayHappen
<1>31. CASE UNCHANGED vars
  BY <1>31 DEF vars
<1>. QED
  BY <1>1, <1>2, <1>3, <1>4, <1>5, <1>6, <1>7, <1>8, <1>9, <1>10, <1>11,
     <1>12, <1>13, <1>14, <1>15, <1>16, <1>17, <1>18, <1>19, <1>20, <1>21,
     <1>22, <1>23, <1>24, <1>25, <1>26, <1>27, <1>28, <1>29, <1>30, <1>31
  DEF Next, OwnerRequest, GuestReads, GuestRequest, Continue, Environment,
      Cleanup

(* Who records, lists and claims files, and who counts what runs side by   *)
(* side.                                                                   *)
LEMMA WhoRecords ==
  ASSUME [Next]_vars
  PROVE  \/ UNCHANGED recorded
         \/ \E p \in Proc : GuestRecord(p)
BY DEF Next, OwnerRequest, GuestReads, GuestRequest, Continue, Environment,
       Cleanup, notice, job, vars, CreateCount, RevokeRead, SeesExpired,
       GuestRead, CompleteRead, EnsureFolder, CreateInsert, RevokeWrite,
       WriteExpired, GuestReserve, GuestQuota, GuestCreate, GuestUnrecord,
       GuestFailNew, Release, CompleteFile, Discard, Commit, Notify,
       TimerFires, Send, SchedulerFlush, ExpireStaleInvites, CleanupList,
       CleanupClaim, CleanupRelease, PassExpiry, Scanned, Crash

LEMMA WhoLists ==
  ASSUME [Next]_vars
  PROVE  \/ UNCHANGED <<rows, claimed>>
         \/ \E S \in SUBSET File : CleanupList(S)
         \/ \E f \in File : CleanupClaim(f)
         \/ CleanupRelease \/ Crash
BY ZenonT(60) DEF Next, OwnerRequest, GuestReads, GuestRequest, Continue, Environment,
       Cleanup, notice, job, vars, CreateCount, RevokeRead, SeesExpired,
       GuestRead, CompleteRead, EnsureFolder, CreateInsert, RevokeWrite,
       WriteExpired, GuestReserve, GuestQuota, GuestCreate, GuestRecord,
       GuestUnrecord, GuestFailNew, Release, CompleteFile, Discard, Commit,
       Notify, TimerFires, Send, SchedulerFlush, ExpireStaleInvites,
       PassExpiry, Scanned

LEMMA WhoOverlaps ==
  ASSUME [Next]_vars
  PROVE  \/ UNCHANGED overlaps
         \/ \E p \in Proc, f \in File : CompleteRead(p, f)
         \/ \E f \in File : CleanupClaim(f)
BY DEF Next, OwnerRequest, GuestReads, GuestRequest, Continue, Environment,
       Cleanup, notice, job, vars, CreateCount, RevokeRead, SeesExpired,
       GuestRead, EnsureFolder, CreateInsert, RevokeWrite, WriteExpired,
       GuestReserve, GuestQuota, GuestCreate, GuestRecord, GuestUnrecord,
       GuestFailNew, Release, CompleteFile, Discard, Commit, Notify,
       TimerFires, Send, SchedulerFlush, ExpireStaleInvites, CleanupList,
       CleanupRelease, PassExpiry, Scanned, Crash

LEMMA NextFile ==
  ASSUME Shape, [Next]_vars
  PROVE  FileOK'
<1>. USE DEF Shape, TypeOK, FileOK
<1>1. ASSUME NEW p \in Proc, GuestCreate(p)
      PROVE  FileOK'
  <2>1. /\ at[p].i \in Invite /\ at[p].f \in File /\ at[p].f \notin recorded
        /\ invite[at[p].i].status # "none"
    BY <1>1 DEF GuestCreate, Is, CallOK, CallAt, NoCall, CompletePC, GuestOK,
                GuestAt,
                CreateOK
  <2>2. \A f \in File \ {at[p].f} : file'[f] = file[f]
    BY <1>1 DEF GuestCreate
  <2>3. file'[at[p].f].i = at[p].i \/ file' = file
    BY <1>1, <2>1 DEF GuestCreate
  <2>. QED
    BY <1>1, <2>1, <2>2, <2>3 DEF GuestCreate, notice, job
<1>2. ASSUME NEW p \in Proc, CreateInsert(p)
      PROVE  FileOK'
  <2>1. \A i \in Invite : invite[i].status # "none" => invite'[i].status # "none"
    BY <1>2 DEF CreateInsert
  <2>. QED
    BY <1>2, <2>1 DEF CreateInsert, notice, job
<1>3. ASSUME Kept({}, {})
      PROVE  FileOK'
  <2>1. ASSUME NEW f \in File, file'[f].status # "none"
        PROVE  file'[f].i \in Invite /\ invite'[file'[f].i].status # "none"
    BY <1>3, <2>1 DEF Kept
  <2>2. \A f \in recorded' : file'[f].status # "none"
    <3>1. CASE UNCHANGED recorded
      BY <1>3, <3>1 DEF Kept
    <3>2. ASSUME NEW p \in Proc, GuestRecord(p)
          PROVE  \A f \in recorded' : file'[f].status # "none"
      <4>1. at[p].f \in File /\ file[at[p].f].status = "UPLOADING"
        BY <3>2 DEF GuestRecord, Is, CallOK, CallAt, NoCall, CompletePC, GuestOK,
                GuestAt
      <4>. QED
        BY <3>2, <4>1 DEF GuestRecord, RecordFile
    <3>. QED
      BY <3>1, <3>2, WhoRecords
  <2>3. rows' \subseteq recorded' /\ (claimed' # NoFile => claimed' \in recorded')
    <3>. USE <1>3 DEF Kept
    <3>1. CASE UNCHANGED <<rows, claimed>>
      BY <3>1
    <3>2. ASSUME NEW S \in SUBSET File, CleanupList(S)
          PROVE  rows' \subseteq recorded' /\ claimed' = claimed
      BY <3>2 DEF CleanupList, ListStaleUploads
    <3>3. ASSUME NEW f \in File, CleanupClaim(f)
          PROVE  rows' \subseteq recorded' /\ claimed' \in {f, claimed}
                 /\ f \in recorded
      BY <3>3 DEF CleanupClaim
    <3>4. CASE CleanupRelease
      BY <3>4 DEF CleanupRelease
    <3>5. CASE Crash
      BY <3>5 DEF Crash
    <3>. QED
      BY <3>1, <3>2, <3>3, <3>4, <3>5, WhoLists
  <2>. QED
    BY <2>1, <2>2, <2>3
<1>. QED
  BY <1>1, <1>2, <1>3, NextKept

LEMMA StepGuest ==
  ASSUME Shape, NEW p \in Proc, Moves(p),
         at'[p] = NoCall \/ (at'[p].f = at[p].f /\ at'[p].op = at[p].op),
         \A f \in File \ {at[p].f} : file'[f] = file[f],
         recorded' \subseteq recorded \cup {at[p].f},
         at'[p].op = "guest" => GuestAt(p)'
  PROVE  GuestOK'
<1>. USE DEF Shape, GuestOK, GuestAt, Moves
<1>1. ASSUME NEW q \in Proc \ {p}, at[q].op = "guest"
      PROVE  GuestAt(q)'
  <2>1. at[q].f \in File /\ at[p].f # at[q].f /\ NoFile # at[q].f
    BY <1>1, InviteBounds DEF CallOK, CallAt, NoCall
  <2>2. at'[p].f # at[q].f
    BY <2>1 DEF NoCall
  <2>. QED
    BY <1>1, <2>1, <2>2
<1>. QED
  BY <1>1

LEMMA NextGuest ==
  ASSUME Shape, [Next]_vars
  PROVE  GuestOK'
<1>. USE InviteBounds
    DEF Shape, TypeOK, InviteStatus, FileStatus, PC, NoCall, CallOK, CallAt,
        GuestPC, CompletePC, FileOK, GuestOK, GuestAt, notice, job
<1>1. ASSUME NEW p \in Proc, NEW i \in Invite, CreateCount(p, i)
      PROVE  GuestOK'
  BY <1>1 DEF CreateCount, Go, Is
<1>2. ASSUME NEW p \in Proc, NEW i \in Invite, RevokeRead(p, i)
      PROVE  GuestOK'
  BY <1>2 DEF RevokeRead, Go, Is, FindByID
<1>3. ASSUME NEW p \in Proc, NEW i \in Invite, SeesExpired(p, i)
      PROVE  GuestOK'
  BY <1>3 DEF SeesExpired, Go, Is, FindByToken
<1>4. ASSUME NEW p \in Proc, NEW i \in Invite, NEW f \in File, GuestRead(p, i, f)
      PROVE  GuestOK'
  BY <1>4 DEF GuestRead, Go, Is, FindByToken
<1>5. ASSUME NEW p \in Proc, NEW f \in File, CompleteRead(p, f)
      PROVE  GuestOK'
  BY <1>5 DEF CompleteRead, Go, Is, FindByToken, FindByFileID, Beside
<1>6. ASSUME NEW p \in Proc, EnsureFolder(p)
      PROVE  GuestOK'
  <2>1. Moves(p) /\ UNCHANGED <<recorded, file>>
    BY <1>6 DEF EnsureFolder, Step, Done, Go, Moves
  <2>2. CASE at'[p] = NoCall
    BY <2>1, <2>2, StepGuest
  <2>3. CASE at'[p] = at[p] /\ (at[p].op = "guest" => pc'[p] = "reserve")
    <3>1. at[p].op = "guest" => GuestAt(p)'
      BY <1>6, <2>1, <2>3 DEF EnsureFolder, Is, Moves
    <3>. QED
      BY <2>1, <2>3, <3>1, StepGuest
  <2>. QED
    BY <1>6, <2>2, <2>3 DEF EnsureFolder, Step, Done, Go, Is
<1>7. ASSUME NEW p \in Proc, CreateInsert(p)
      PROVE  GuestOK'
  BY <1>7 DEF CreateInsert, Done, Go, Is, Clamp
<1>8. ASSUME NEW p \in Proc, RevokeWrite(p)
      PROVE  GuestOK'
  BY <1>8 DEF RevokeWrite, Done, Go, Is, UpdateStatus
<1>9. ASSUME NEW p \in Proc, WriteExpired(p)
      PROVE  GuestOK'
  BY <1>9 DEF WriteExpired, Done, Go, Is, UpdateStatus
<1>10. ASSUME NEW p \in Proc, GuestReserve(p)
      PROVE  GuestOK'
  <2>1. Moves(p) /\ UNCHANGED <<recorded, file>>
    BY <1>10 DEF GuestReserve, Step, Done, Go, Moves
  <2>2. CASE at'[p] = NoCall
    BY <2>1, <2>2, StepGuest
  <2>3. CASE at'[p] = at[p] /\ pc'[p] = "quota"
    <3>1. at[p].op = "guest" => GuestAt(p)'
      BY <1>10, <2>1, <2>3 DEF GuestReserve, Is, Moves
    <3>. QED
      BY <2>1, <2>3, <3>1, StepGuest
  <2>. QED
    BY <1>10, <2>2, <2>3 DEF GuestReserve, Step, Done, Go, Is
<1>11. ASSUME NEW p \in Proc, GuestQuota(p)
      PROVE  GuestOK'
  BY <1>11 DEF GuestQuota, Step, Go, Is
<1>12. ASSUME NEW p \in Proc, GuestCreate(p)
      PROVE  GuestOK'
  BY <1>12 DEF GuestCreate, Step, Go, Is, Fault, MayHappen
<1>13. ASSUME NEW p \in Proc, GuestRecord(p)
      PROVE  GuestOK'
  <2>1. Moves(p) /\ UNCHANGED file /\ at[p].f \in File
    BY <1>13 DEF GuestRecord, Step, Done, Go, Moves, Is
  <2>2. CASE at'[p] = NoCall /\ recorded' = recorded \cup {at[p].f}
    BY <2>1, <2>2, StepGuest
  <2>3. CASE at'[p] = at[p] /\ pc'[p] = "unrecord" /\ recorded' = recorded
    <3>1. at[p].op = "guest" => GuestAt(p)'
      BY <1>13, <2>1, <2>3 DEF GuestRecord, Is, Moves
    <3>. QED
      BY <2>1, <2>3, <3>1, StepGuest
  <2>. QED
    BY <1>13, <2>2, <2>3 DEF GuestRecord, RecordFile, Step, Done, Go, Is
<1>14. ASSUME NEW p \in Proc, GuestUnrecord(p)
      PROVE  GuestOK'
  BY <1>14 DEF GuestUnrecord, Step, Go, Is, Released, Monus
<1>15. ASSUME NEW p \in Proc, GuestFailNew(p)
      PROVE  GuestOK'
  BY <1>15 DEF GuestFailNew, Done, Go, Is, Fault, MayHappen
<1>16. ASSUME NEW p \in Proc, Release(p)
      PROVE  GuestOK'
  BY <1>16 DEF Release, Done, Go, Is, Fault, MayHappen, Released, Monus
<1>17. ASSUME NEW p \in Proc, CompleteFile(p)
      PROVE  GuestOK'
  <2>1. Moves(p) /\ UNCHANGED <<recorded, file>>
    BY <1>17 DEF CompleteFile, Done, Go, Moves
  <2>2. CASE at'[p] = NoCall
    BY <2>1, <2>2, StepGuest
  <2>3. CASE at'[p] = [at[p] EXCEPT !.seen = "none"]
    <3>1. at'[p].f = at[p].f /\ at'[p].op = at[p].op /\ at[p].op # "guest"
      BY <1>17, <2>3 DEF CompleteFile, Is
    <3>. QED
      BY <2>1, <3>1, StepGuest
  <2>. QED
    BY <1>17, <2>2, <2>3 DEF CompleteFile, Done, Go, Is
<1>18. ASSUME NEW p \in Proc, Discard(p)
      PROVE  GuestOK'
  BY <1>18 DEF Discard, Step, Go, Is, Fault, MayHappen
<1>19. ASSUME NEW p \in Proc, Commit(p)
      PROVE  GuestOK'
  BY <1>19 DEF Commit, Step, Go, Is, Fault, MayHappen
<1>20. ASSUME NEW p \in Proc, Notify(p)
      PROVE  GuestOK'
  BY <1>20 DEF Notify, Done, Go, Is, Fault, MayHappen, IncrementPendingNotify
<1>21. ASSUME NEW i \in Invite, TimerFires(i)
      PROVE  GuestOK'
  BY <1>21 DEF TimerFires, FlushPendingForInvite, Flush
<1>22. ASSUME NEW i \in Invite, Send(i)
      PROVE  GuestOK'
  BY <1>22 DEF Send
<1>23. ASSUME NEW S \in SUBSET Invite, SchedulerFlush(S)
      PROVE  GuestOK'
  BY <1>23 DEF SchedulerFlush, Flush
<1>24. ASSUME ExpireStaleInvites
      PROVE  GuestOK'
  BY <1>24 DEF ExpireStaleInvites
<1>25. ASSUME NEW S \in SUBSET File, CleanupList(S)
      PROVE  GuestOK'
  BY <1>25 DEF CleanupList, ListStaleUploads
<1>26. ASSUME NEW f \in File, CleanupClaim(f)
      PROVE  GuestOK'
  BY <1>26 DEF CleanupClaim, Beside
<1>27. ASSUME CleanupRelease
      PROVE  GuestOK'
  BY <1>27 DEF CleanupRelease, Fault, MayHappen, Released, Monus
<1>28. ASSUME NEW i \in Invite, PassExpiry(i)
      PROVE  GuestOK'
  BY <1>28 DEF PassExpiry
<1>29. ASSUME NEW f \in File, Scanned(f)
      PROVE  GuestOK'
  BY <1>29 DEF Scanned
<1>30. ASSUME Crash
      PROVE  GuestOK'
  BY <1>30 DEF Crash, MayHappen
<1>31. CASE UNCHANGED vars
  BY <1>31 DEF vars
<1>. QED
  BY <1>1, <1>2, <1>3, <1>4, <1>5, <1>6, <1>7, <1>8, <1>9, <1>10, <1>11,
     <1>12, <1>13, <1>14, <1>15, <1>16, <1>17, <1>18, <1>19, <1>20, <1>21,
     <1>22, <1>23, <1>24, <1>25, <1>26, <1>27, <1>28, <1>29, <1>30, <1>31
  DEF Next, OwnerRequest, GuestReads, GuestRequest, Continue, Environment,
      Cleanup

LEMMA StepCreate ==
  ASSUME Shape,
         \A q \in Proc : \/ at'[q] = NoCall
                        \/ at'[q] = at[q]
                        \/ at'[q] = [at[q] EXCEPT !.seen = "none"],
         \A i \in Invite : invite'[i].status = "none" <=> invite[i].status = "none"
  PROVE  CreateOK'
<1>1. ASSUME NEW q \in Proc
      PROVE  at'[q] = NoCall \/ (at'[q].i = at[q].i /\ at'[q].op = at[q].op)
  <2>1. CASE at'[q] = at[q]
    BY <2>1
  <2>2. CASE at'[q] = [at[q] EXCEPT !.seen = "none"]
    BY <2>2 DEF Shape, TypeOK
  <2>. QED
    BY <2>1, <2>2
<1>. QED
  BY <1>1, InviteBounds DEF Shape, TypeOK, CreateOK, CallOK, CallAt, NoCall

LEMMA StepMoves ==
  ASSUME Shape, NEW p \in Proc, NEW l, Step(p, l) \/ Done(p)
  PROVE  \A q \in Proc : at'[q] = NoCall \/ at'[q] = at[q]
BY DEF Shape, TypeOK, Step, Done, Go

LEMMA NextCreate ==
  ASSUME Shape, [Next]_vars
  PROVE  CreateOK'
<1>. USE InviteBounds
    DEF Shape, TypeOK, InviteStatus, FileStatus, PC, NoCall, CallOK, CallAt,
        GuestPC, CompletePC, FileOK, CreateOK, notice, job
<1>1. ASSUME NEW p \in Proc, NEW i \in Invite, CreateCount(p, i)
      PROVE  CreateOK'
  BY <1>1 DEF CreateCount, Go, Is
<1>2. ASSUME NEW p \in Proc, NEW i \in Invite, RevokeRead(p, i)
      PROVE  CreateOK'
  BY <1>2 DEF RevokeRead, Go, Is, FindByID
<1>3. ASSUME NEW p \in Proc, NEW i \in Invite, SeesExpired(p, i)
      PROVE  CreateOK'
  BY <1>3 DEF SeesExpired, Go, Is, FindByToken
<1>4. ASSUME NEW p \in Proc, NEW i \in Invite, NEW f \in File, GuestRead(p, i, f)
      PROVE  CreateOK'
  BY <1>4 DEF GuestRead, Go, Is, FindByToken
<1>5. ASSUME NEW p \in Proc, NEW f \in File, CompleteRead(p, f)
      PROVE  CreateOK'
  BY <1>5 DEF CompleteRead, Go, Is, FindByToken, FindByFileID, Beside
<1>6. ASSUME NEW p \in Proc, EnsureFolder(p)
      PROVE  CreateOK'
  <2>1. \A q \in Proc : at'[q] = NoCall \/ at'[q] = at[q]
    BY <1>6, StepMoves DEF EnsureFolder
  <2>2. \A i \in Invite : invite'[i].status = invite[i].status
    BY <1>6 DEF EnsureFolder, Step, Done, Go
  <2>. QED
    BY <2>1, <2>2, StepCreate
<1>7. ASSUME NEW p \in Proc, CreateInsert(p)
      PROVE  CreateOK'
  BY <1>7 DEF CreateInsert, Done, Go, Is, Clamp
<1>8. ASSUME NEW p \in Proc, RevokeWrite(p)
      PROVE  CreateOK'
  BY <1>8 DEF RevokeWrite, Done, Go, Is, UpdateStatus
<1>9. ASSUME NEW p \in Proc, WriteExpired(p)
      PROVE  CreateOK'
  BY <1>9 DEF WriteExpired, Done, Go, Is, UpdateStatus
<1>10. ASSUME NEW p \in Proc, GuestReserve(p)
      PROVE  CreateOK'
  <2>1. \A q \in Proc : at'[q] = NoCall \/ at'[q] = at[q]
    BY <1>10, StepMoves DEF GuestReserve
  <2>2. \A i \in Invite : invite'[i].status = invite[i].status
    BY <1>10 DEF GuestReserve, Step, Done, Go, CanReserve
  <2>. QED
    BY <2>1, <2>2, StepCreate
<1>11. ASSUME NEW p \in Proc, GuestQuota(p)
      PROVE  CreateOK'
  BY <1>11 DEF GuestQuota, Step, Go, Is
<1>12. ASSUME NEW p \in Proc, GuestCreate(p)
      PROVE  CreateOK'
  BY SMTT(30), <1>12 DEF GuestCreate, Step, Go, Is, Fault, MayHappen
<1>13. ASSUME NEW p \in Proc, GuestRecord(p)
      PROVE  CreateOK'
  <2>1. \A q \in Proc : at'[q] = NoCall \/ at'[q] = at[q]
    BY <1>13, StepMoves DEF GuestRecord
  <2>2. \A i \in Invite : invite'[i].status = invite[i].status
    BY <1>13 DEF GuestRecord, Step, Done, Go
  <2>. QED
    BY <2>1, <2>2, StepCreate
<1>14. ASSUME NEW p \in Proc, GuestUnrecord(p)
      PROVE  CreateOK'
  <2>1. \A q \in Proc : at'[q] = NoCall \/ at'[q] = at[q]
    BY <1>14, StepMoves DEF GuestUnrecord
  <2>2. \A i \in Invite : invite'[i].status = invite[i].status
    <3>1. at[p].i \in Invite /\ Size[at[p].f] \in Nat
      BY <1>14 DEF GuestUnrecord, Is
    <3>. QED
      BY <1>14, <3>1, ReleaseWrite DEF GuestUnrecord
  <2>. QED
    BY <2>1, <2>2, StepCreate
<1>15. ASSUME NEW p \in Proc, GuestFailNew(p)
      PROVE  CreateOK'
  BY <1>15 DEF GuestFailNew, Done, Go, Is, Fault, MayHappen
<1>16. ASSUME NEW p \in Proc, Release(p)
      PROVE  CreateOK'
  <2>1. \A q \in Proc : at'[q] = NoCall \/ at'[q] = at[q]
    BY <1>16, StepMoves DEF Release
  <2>2. \A i \in Invite : invite'[i].status = invite[i].status
    <3>1. at[p].i \in Invite /\ Size[at[p].f] \in Nat
      BY <1>16 DEF Release, Is
    <3>. QED
      BY <1>16, <3>1, ReleaseWrite DEF Release
  <2>. QED
    BY <2>1, <2>2, StepCreate
<1>17. ASSUME NEW p \in Proc, CompleteFile(p)
      PROVE  CreateOK'
  <2>1. \A q \in Proc : \/ at'[q] = NoCall
                      \/ at'[q] = at[q]
                      \/ at'[q] = [at[q] EXCEPT !.seen = "none"]
    <3>1. CASE Done(p)
      BY <3>1, StepMoves
    <3>2. CASE \E l \in {"commit", "discard"} :
                 Go(p, l, [at[p] EXCEPT !.seen = "none"])
      BY <3>2 DEF Go
    <3>3. \/ Done(p)
          \/ Go(p, "discard", [at[p] EXCEPT !.seen = "none"])
          \/ \E l \in {"commit", "discard"} :
               Go(p, l, [at[p] EXCEPT !.seen = "none"])
      BY ONLY <1>17 DEF CompleteFile
    <3>. QED
      BY <3>1, <3>2, <3>3
  <2>2. \A i \in Invite : invite'[i].status = invite[i].status
    BY <1>17 DEF CompleteFile, Step, Done, Go
  <2>. QED
    BY <2>1, <2>2, StepCreate
<1>18. ASSUME NEW p \in Proc, Discard(p)
      PROVE  CreateOK'
  BY <1>18 DEF Discard, Step, Go, Is, Fault, MayHappen
<1>19. ASSUME NEW p \in Proc, Commit(p)
      PROVE  CreateOK'
  BY <1>19 DEF Commit, Step, Go, Is, Fault, MayHappen
<1>20. ASSUME NEW p \in Proc, Notify(p)
      PROVE  CreateOK'
  BY <1>20 DEF Notify, Done, Go, Is, Fault, MayHappen, IncrementPendingNotify
<1>21. ASSUME NEW i \in Invite, TimerFires(i)
      PROVE  CreateOK'
  BY <1>21 DEF TimerFires, FlushPendingForInvite, Flush
<1>22. ASSUME NEW i \in Invite, Send(i)
      PROVE  CreateOK'
  BY <1>22 DEF Send
<1>23. ASSUME NEW S \in SUBSET Invite, SchedulerFlush(S)
      PROVE  CreateOK'
  BY <1>23 DEF SchedulerFlush, Flush
<1>24. ASSUME ExpireStaleInvites
      PROVE  CreateOK'
  <2>1. UNCHANGED at
    BY <1>24 DEF ExpireStaleInvites
  <2>2. \A i \in Invite : invite'[i].status = "none" <=> invite[i].status = "none"
    BY <1>24 DEF ExpireStaleInvites, Active
  <2>. QED
    BY <2>1, <2>2, StepCreate
<1>25. ASSUME NEW S \in SUBSET File, CleanupList(S)
      PROVE  CreateOK'
  BY <1>25 DEF CleanupList, ListStaleUploads
<1>26. ASSUME NEW f \in File, CleanupClaim(f)
      PROVE  CreateOK'
  BY <1>26 DEF CleanupClaim, Beside
<1>27. ASSUME CleanupRelease
      PROVE  CreateOK'
  <2>1. UNCHANGED at
    BY <1>27 DEF CleanupRelease
  <2>2. \A i \in Invite : invite'[i].status = invite[i].status
    <3>1. file[claimed].i \in Invite /\ Size[claimed] \in Nat
      BY <1>27 DEF CleanupRelease
    <3>. QED
      BY <1>27, <3>1, ReleaseWrite DEF CleanupRelease
  <2>. QED
    BY <2>1, <2>2, StepCreate
<1>28. ASSUME NEW i \in Invite, PassExpiry(i)
      PROVE  CreateOK'
  BY <1>28 DEF PassExpiry
<1>29. ASSUME NEW f \in File, Scanned(f)
      PROVE  CreateOK'
  BY <1>29 DEF Scanned
<1>30. ASSUME Crash
      PROVE  CreateOK'
  BY <1>30 DEF Crash, MayHappen
<1>31. CASE UNCHANGED vars
  BY <1>31 DEF vars
<1>. QED
  BY <1>1, <1>2, <1>3, <1>4, <1>5, <1>6, <1>7, <1>8, <1>9, <1>10, <1>11,
     <1>12, <1>13, <1>14, <1>15, <1>16, <1>17, <1>18, <1>19, <1>20, <1>21,
     <1>22, <1>23, <1>24, <1>25, <1>26, <1>27, <1>28, <1>29, <1>30, <1>31
  DEF Next, OwnerRequest, GuestReads, GuestRequest, Continue, Environment,
      Cleanup

LEMMA NextMax ==
  ASSUME Shape, [Next]_vars
  PROVE  MaxOK'
<1>. USE InviteBounds
    DEF Shape, TypeOK, InviteStatus, FileStatus, PC, NoCall, CallOK, CallAt,
        GuestPC, CompletePC, MaxOK, notice, job
<1>1. ASSUME NEW p \in Proc, NEW i \in Invite, CreateCount(p, i)
      PROVE  MaxOK'
  BY <1>1 DEF CreateCount, Go, Is
<1>2. ASSUME NEW p \in Proc, NEW i \in Invite, RevokeRead(p, i)
      PROVE  MaxOK'
  BY <1>2 DEF RevokeRead, Go, Is, FindByID
<1>3. ASSUME NEW p \in Proc, NEW i \in Invite, SeesExpired(p, i)
      PROVE  MaxOK'
  BY <1>3 DEF SeesExpired, Go, Is, FindByToken
<1>4. ASSUME NEW p \in Proc, NEW i \in Invite, NEW f \in File, GuestRead(p, i, f)
      PROVE  MaxOK'
  BY <1>4 DEF GuestRead, Go, Is, FindByToken
<1>5. ASSUME NEW p \in Proc, NEW f \in File, CompleteRead(p, f)
      PROVE  MaxOK'
  BY <1>5 DEF CompleteRead, Go, Is, FindByToken, FindByFileID, Beside
<1>6. ASSUME NEW p \in Proc, EnsureFolder(p)
      PROVE  MaxOK'
  BY <1>6 DEF EnsureFolder, Step, Done, Go, Is, Fault, MayHappen
<1>7. ASSUME NEW p \in Proc, CreateInsert(p)
      PROVE  MaxOK'
  BY <1>7 DEF CreateInsert, Done, Go, Is, Clamp
<1>8. ASSUME NEW p \in Proc, RevokeWrite(p)
      PROVE  MaxOK'
  BY <1>8 DEF RevokeWrite, Done, Go, Is, UpdateStatus
<1>9. ASSUME NEW p \in Proc, WriteExpired(p)
      PROVE  MaxOK'
  BY <1>9 DEF WriteExpired, Done, Go, Is, UpdateStatus
<1>10. ASSUME NEW p \in Proc, GuestReserve(p)
      PROVE  MaxOK'
  BY <1>10 DEF GuestReserve, Step, Done, Go, Is, CanReserve
<1>11. ASSUME NEW p \in Proc, GuestQuota(p)
      PROVE  MaxOK'
  BY <1>11 DEF GuestQuota, Step, Go, Is
<1>12. ASSUME NEW p \in Proc, GuestCreate(p)
      PROVE  MaxOK'
  BY <1>12 DEF GuestCreate, Step, Go, Is, Fault, MayHappen
<1>13. ASSUME NEW p \in Proc, GuestRecord(p)
      PROVE  MaxOK'
  BY <1>13 DEF GuestRecord, Step, Done, Go, Is, Fault, MayHappen, RecordFile
<1>14. ASSUME NEW p \in Proc, GuestUnrecord(p)
      PROVE  MaxOK'
  BY <1>14 DEF GuestUnrecord, Step, Go, Is, Released, Monus
<1>15. ASSUME NEW p \in Proc, GuestFailNew(p)
      PROVE  MaxOK'
  BY <1>15 DEF GuestFailNew, Done, Go, Is, Fault, MayHappen
<1>16. ASSUME NEW p \in Proc, Release(p)
      PROVE  MaxOK'
  BY <1>16 DEF Release, Done, Go, Is, Fault, MayHappen, Released, Monus
<1>17. ASSUME NEW p \in Proc, CompleteFile(p)
      PROVE  MaxOK'
  BY <1>17 DEF CompleteFile, Done, Go, Is
<1>18. ASSUME NEW p \in Proc, Discard(p)
      PROVE  MaxOK'
  BY <1>18 DEF Discard, Step, Go, Is, Fault, MayHappen
<1>19. ASSUME NEW p \in Proc, Commit(p)
      PROVE  MaxOK'
  BY <1>19 DEF Commit, Step, Go, Is, Fault, MayHappen
<1>20. ASSUME NEW p \in Proc, Notify(p)
      PROVE  MaxOK'
  BY SMTT(30), <1>20 DEF Notify, Done, Go, Is, Fault, MayHappen, IncrementPendingNotify
<1>21. ASSUME NEW i \in Invite, TimerFires(i)
      PROVE  MaxOK'
  BY <1>21 DEF TimerFires, FlushPendingForInvite, Flush
<1>22. ASSUME NEW i \in Invite, Send(i)
      PROVE  MaxOK'
  BY <1>22 DEF Send
<1>23. ASSUME NEW S \in SUBSET Invite, SchedulerFlush(S)
      PROVE  MaxOK'
  BY <1>23 DEF SchedulerFlush, Flush
<1>24. ASSUME ExpireStaleInvites
      PROVE  MaxOK'
  BY <1>24 DEF ExpireStaleInvites
<1>25. ASSUME NEW S \in SUBSET File, CleanupList(S)
      PROVE  MaxOK'
  BY <1>25 DEF CleanupList, ListStaleUploads
<1>26. ASSUME NEW f \in File, CleanupClaim(f)
      PROVE  MaxOK'
  BY <1>26 DEF CleanupClaim, Beside
<1>27. ASSUME CleanupRelease
      PROVE  MaxOK'
  BY <1>27 DEF CleanupRelease, Fault, MayHappen, Released, Monus
<1>28. ASSUME NEW i \in Invite, PassExpiry(i)
      PROVE  MaxOK'
  BY <1>28 DEF PassExpiry
<1>29. ASSUME NEW f \in File, Scanned(f)
      PROVE  MaxOK'
  BY <1>29 DEF Scanned
<1>30. ASSUME Crash
      PROVE  MaxOK'
  BY <1>30 DEF Crash, MayHappen
<1>31. CASE UNCHANGED vars
  BY <1>31 DEF vars
<1>. QED
  BY <1>1, <1>2, <1>3, <1>4, <1>5, <1>6, <1>7, <1>8, <1>9, <1>10, <1>11,
     <1>12, <1>13, <1>14, <1>15, <1>16, <1>17, <1>18, <1>19, <1>20, <1>21,
     <1>22, <1>23, <1>24, <1>25, <1>26, <1>27, <1>28, <1>29, <1>30, <1>31
  DEF Next, OwnerRequest, GuestReads, GuestRequest, Continue, Environment,
      Cleanup

(* A file that has ended stays ended, and the cleanup ends the file it      *)
(* claims, so no more than one claim of a file is counted.                 *)
LEMMA NextEnded ==
  ASSUME Shape, [Next]_vars
  PROVE  Ended \subseteq Ended'
<1>. USE DEF Shape, TypeOK, InviteStatus, FileStatus, PC, NoCall, CallOK,
             CallAt, GuestPC, CompletePC, FileOK, GuestOK, GuestAt, Ended,
             notice, job
<1>1. ASSUME NEW p \in Proc, NEW i \in Invite, CreateCount(p, i)
      PROVE  Ended \subseteq Ended'
  BY <1>1 DEF CreateCount, Go, Is
<1>2. ASSUME NEW p \in Proc, NEW i \in Invite, RevokeRead(p, i)
      PROVE  Ended \subseteq Ended'
  BY <1>2 DEF RevokeRead, Go, Is, FindByID
<1>3. ASSUME NEW p \in Proc, NEW i \in Invite, SeesExpired(p, i)
      PROVE  Ended \subseteq Ended'
  BY <1>3 DEF SeesExpired, Go, Is, FindByToken
<1>4. ASSUME NEW p \in Proc, NEW i \in Invite, NEW f \in File, GuestRead(p, i, f)
      PROVE  Ended \subseteq Ended'
  BY <1>4 DEF GuestRead, Go, Is, FindByToken
<1>5. ASSUME NEW p \in Proc, NEW f \in File, CompleteRead(p, f)
      PROVE  Ended \subseteq Ended'
  BY <1>5 DEF CompleteRead, Go, Is, FindByToken, FindByFileID, Beside
<1>6. ASSUME NEW p \in Proc, EnsureFolder(p)
      PROVE  Ended \subseteq Ended'
  BY <1>6 DEF EnsureFolder, Step, Done, Go, Is, Fault, MayHappen
<1>7. ASSUME NEW p \in Proc, CreateInsert(p)
      PROVE  Ended \subseteq Ended'
  BY <1>7 DEF CreateInsert, Done, Go, Is, Clamp
<1>8. ASSUME NEW p \in Proc, RevokeWrite(p)
      PROVE  Ended \subseteq Ended'
  BY <1>8 DEF RevokeWrite, Done, Go, Is, UpdateStatus
<1>9. ASSUME NEW p \in Proc, WriteExpired(p)
      PROVE  Ended \subseteq Ended'
  BY <1>9 DEF WriteExpired, Done, Go, Is, UpdateStatus
<1>10. ASSUME NEW p \in Proc, GuestReserve(p)
      PROVE  Ended \subseteq Ended'
  BY <1>10 DEF GuestReserve, Step, Done, Go, Is, CanReserve
<1>11. ASSUME NEW p \in Proc, GuestQuota(p)
      PROVE  Ended \subseteq Ended'
  BY <1>11 DEF GuestQuota, Step, Go, Is
<1>12. ASSUME NEW p \in Proc, GuestCreate(p)
      PROVE  Ended \subseteq Ended'
  BY <1>12 DEF GuestCreate, Step, Go, Is, Fault, MayHappen
<1>13. ASSUME NEW p \in Proc, GuestRecord(p)
      PROVE  Ended \subseteq Ended'
  BY <1>13 DEF GuestRecord, Step, Done, Go, Is, Fault, MayHappen, RecordFile
<1>14. ASSUME NEW p \in Proc, GuestUnrecord(p)
      PROVE  Ended \subseteq Ended'
  BY <1>14 DEF GuestUnrecord, Step, Go, Is, Released, Monus
<1>15. ASSUME NEW p \in Proc, GuestFailNew(p)
      PROVE  Ended \subseteq Ended'
  <2>1. at[p].f \in File
    BY <1>15 DEF GuestFailNew, Is
  <2>2. CASE file' = [file EXCEPT ![at[p].f].status = "FAILED"]
    BY <2>1, <2>2, FileWrite
  <2>. QED
    BY <1>15, <2>2 DEF GuestFailNew
<1>16. ASSUME NEW p \in Proc, Release(p)
      PROVE  Ended \subseteq Ended'
  BY <1>16 DEF Release, Done, Go, Is, Fault, MayHappen, Released, Monus
<1>17. ASSUME NEW p \in Proc, CompleteFile(p)
      PROVE  Ended \subseteq Ended'
  BY <1>17 DEF CompleteFile, Done, Go, Is
<1>18. ASSUME NEW p \in Proc, Discard(p)
      PROVE  Ended \subseteq Ended'
  <2>1. at[p].f \in File
    BY <1>18 DEF Discard, Is
  <2>2. CASE file' = [file EXCEPT ![at[p].f].status = "FAILED"]
    BY <2>1, <2>2, FileWrite
  <2>. QED
    BY <1>18, <2>2 DEF Discard
<1>19. ASSUME NEW p \in Proc, Commit(p)
      PROVE  Ended \subseteq Ended'
  <2>1. at[p].f \in File
    BY <1>19 DEF Commit, Is
  <2>2. CASE file' = [file EXCEPT ![at[p].f].status = "PENDING_SCAN"]
    BY <2>1, <2>2, FileWrite
  <2>. QED
    BY <1>19, <2>2 DEF Commit
<1>20. ASSUME NEW p \in Proc, Notify(p)
      PROVE  Ended \subseteq Ended'
  BY <1>20 DEF Notify, Done, Go, Is, Fault, MayHappen, IncrementPendingNotify
<1>21. ASSUME NEW i \in Invite, TimerFires(i)
      PROVE  Ended \subseteq Ended'
  BY <1>21 DEF TimerFires, FlushPendingForInvite, Flush
<1>22. ASSUME NEW i \in Invite, Send(i)
      PROVE  Ended \subseteq Ended'
  BY <1>22 DEF Send
<1>23. ASSUME NEW S \in SUBSET Invite, SchedulerFlush(S)
      PROVE  Ended \subseteq Ended'
  BY <1>23 DEF SchedulerFlush, Flush
<1>24. ASSUME ExpireStaleInvites
      PROVE  Ended \subseteq Ended'
  BY <1>24 DEF ExpireStaleInvites
<1>25. ASSUME NEW S \in SUBSET File, CleanupList(S)
      PROVE  Ended \subseteq Ended'
  BY <1>25 DEF CleanupList, ListStaleUploads
<1>26. ASSUME NEW f \in File, CleanupClaim(f)
      PROVE  Ended \subseteq Ended'
  BY <1>26 DEF CleanupClaim, Beside
<1>27. ASSUME CleanupRelease
      PROVE  Ended \subseteq Ended'
  BY <1>27 DEF CleanupRelease, Fault, MayHappen, Released, Monus
<1>28. ASSUME NEW i \in Invite, PassExpiry(i)
      PROVE  Ended \subseteq Ended'
  BY <1>28 DEF PassExpiry
<1>29. ASSUME NEW f \in File, Scanned(f)
      PROVE  Ended \subseteq Ended'
  BY <1>29 DEF Scanned
<1>30. ASSUME Crash
      PROVE  Ended \subseteq Ended'
  BY <1>30 DEF Crash, MayHappen
<1>31. CASE UNCHANGED vars
  BY <1>31 DEF vars
<1>. QED
  BY <1>1, <1>2, <1>3, <1>4, <1>5, <1>6, <1>7, <1>8, <1>9, <1>10, <1>11,
     <1>12, <1>13, <1>14, <1>15, <1>16, <1>17, <1>18, <1>19, <1>20, <1>21,
     <1>22, <1>23, <1>24, <1>25, <1>26, <1>27, <1>28, <1>29, <1>30, <1>31
  DEF Next, OwnerRequest, GuestReads, GuestRequest, Continue, Environment,
      Cleanup

LEMMA NextOverlap ==
  ASSUME Shape, [Next]_vars
  PROVE  OverlapOK'
<1>1. /\ IsFiniteSet(Ended') /\ Cardinality(Ended) \in Nat
      /\ Cardinality(Ended') \in Nat /\ Cardinality(Ended) <= Cardinality(Ended')
      /\ IsFiniteSet(Ended)
  <2>1. Ended \subseteq Ended'
    BY NextEnded
  <2>2. Ended \subseteq File /\ Ended' \subseteq File
    BY DEF Ended
  <2>3. IsFiniteSet(Ended) /\ IsFiniteSet(Ended')
    BY <2>2, InviteBounds, FS_Subset
  <2>. QED
    BY <2>1, <2>3, FS_Subset, FS_CardinalityType
<1>2. overlaps \in Nat /\ overlaps <= MaxOverlaps + Cardinality(Ended)
  <2>1. Cardinality(File) \in Nat
    BY InviteBounds, FS_CardinalityType
  <2>. QED
    BY <2>1, InviteBounds DEF Shape, TypeOK, OverlapOK
<1>3. CASE UNCHANGED overlaps
  BY <1>1, <1>2, <1>3, InviteBounds DEF OverlapOK
<1>4. ASSUME NEW p \in Proc, NEW f \in File, CompleteRead(p, f)
      PROVE  OverlapOK'
  <2>1. overlaps' = overlaps \/ (overlaps < MaxOverlaps /\ overlaps' = overlaps + 1)
    BY <1>4 DEF CompleteRead, Beside
  <2>. QED
    BY <1>1, <1>2, <2>1, InviteBounds DEF OverlapOK
<1>5. ASSUME NEW f \in File, CleanupClaim(f)
      PROVE  OverlapOK'
  <2>1. CASE overlaps' = overlaps
    BY <1>1, <1>2, <2>1, InviteBounds DEF OverlapOK
  <2>2. CASE overlaps' = overlaps + 1 /\ file[f].status = "UPLOADING"
    <3>1. f \in Ended' /\ f \notin Ended
      BY <1>5, <2>2 DEF CleanupClaim, Ended, Shape, TypeOK
    <3>2. Cardinality(Ended \cup {f}) = Cardinality(Ended) + 1
      BY <1>1, <3>1, FS_AddElement
    <3>3. Ended \cup {f} \subseteq Ended'
      BY <3>1, NextEnded
    <3>4. Cardinality(Ended \cup {f}) <= Cardinality(Ended')
      BY <1>1, <3>3, FS_Subset
    <3>. QED
      BY <1>1, <1>2, <2>2, <3>2, <3>4, InviteBounds DEF OverlapOK
  <2>. QED
    BY <1>5, <2>1, <2>2 DEF CleanupClaim, Beside
<1>. QED
  BY <1>3, <1>4, <1>5, WhoOverlaps

InviteRow ==
  [status : InviteStatus, max : 0 .. MaxFiles, files : 0 .. MaxFiles,
   bytes : 0 .. MaxBytes, pending : Nat]
FileRow == [status : FileStatus, i : Invite \cup {NoInvite}]

LEMMA WriteTypes ==
  ASSUME Shape, NEW i \in Invite
  PROVE  /\ \A s \in InviteStatus :
              UpdateStatus(i, s) => invite' \in [Invite -> InviteRow]
         /\ \A n \in Nat :
              invite' = Released(i, n) => invite' \in [Invite -> InviteRow]
         /\ IncrementPendingNotify(i) => invite' \in [Invite -> InviteRow]
<1>. USE InviteBounds DEF Shape, TypeOK, InviteRow
<1>1. ASSUME NEW s \in InviteStatus, UpdateStatus(i, s)
      PROVE  invite' \in [Invite -> InviteRow]
  BY SMTT(30), <1>1 DEF UpdateStatus
<1>2. ASSUME NEW n \in Nat, invite' = Released(i, n)
      PROVE  invite' \in [Invite -> InviteRow]
  <2>. DEFINE r == [invite[i] EXCEPT !.bytes = Monus(@, n), !.files = Monus(@, 1)]
  <2>1. /\ Monus(invite[i].bytes, n) \in 0 .. MaxBytes
        /\ Monus(invite[i].files, 1) \in 0 .. MaxFiles
    BY DEF Monus
  <2>2. r \in InviteRow
    BY ZenonT(60), <2>1
  <2>3. invite' = [invite EXCEPT ![i] = r]
    BY <1>2 DEF Released
  <2>. HIDE DEF r
  <2>. QED
    BY <2>2, <2>3
<1>3. ASSUME IncrementPendingNotify(i)
      PROVE  invite' \in [Invite -> InviteRow]
  BY <1>3 DEF IncrementPendingNotify
<1>. QED
  BY <1>1, <1>2, <1>3

LEMMA FlushType ==
  ASSUME Shape, NEW S, Flush(S)
  PROVE  invite' \in [Invite -> InviteRow]
<1>1. \A j \in Invite : /\ invite[j] \in InviteRow
                       /\ [invite[j] EXCEPT !.pending = 0] \in InviteRow
  BY DEF Shape, TypeOK, InviteRow
<1>2. invite' = [j \in Invite |-> IF j \in S THEN [invite[j] EXCEPT !.pending = 0]
                                           ELSE invite[j]]
  BY DEF Flush
<1>. QED
  BY <1>1, <1>2

LEMMA StepType ==
  ASSUME Shape, NEW p \in Proc
  PROVE  /\ \A l \in PC : Step(p, l) => pc' \in [Proc -> PC] /\ at' \in [Proc -> Call]
         /\ Done(p) => pc' \in [Proc -> PC] /\ at' \in [Proc -> Call]
BY ShapeCall, NoCallType, GoType DEF Step, Done

LEMMA NextInviteType ==
  ASSUME Shape, [Next]_vars
  PROVE  invite' \in [Invite -> InviteRow]
<1>. USE InviteBounds
    DEF Shape, TypeOK, InviteStatus, FileStatus, PC, NoCall, CallOK, CallAt,
        GuestPC, CompletePC, FileOK, MaxOK, InviteRow, notice, job
<1>1. ASSUME NEW p \in Proc, NEW i \in Invite, CreateCount(p, i)
      PROVE  invite' \in [Invite -> InviteRow]
  BY <1>1 DEF CreateCount, Go, Is
<1>2. ASSUME NEW p \in Proc, NEW i \in Invite, RevokeRead(p, i)
      PROVE  invite' \in [Invite -> InviteRow]
  BY <1>2 DEF RevokeRead, Go, Is, FindByID
<1>3. ASSUME NEW p \in Proc, NEW i \in Invite, SeesExpired(p, i)
      PROVE  invite' \in [Invite -> InviteRow]
  BY <1>3 DEF SeesExpired, Go, Is, FindByToken
<1>4. ASSUME NEW p \in Proc, NEW i \in Invite, NEW f \in File, GuestRead(p, i, f)
      PROVE  invite' \in [Invite -> InviteRow]
  BY <1>4 DEF GuestRead, Go, Is, FindByToken
<1>5. ASSUME NEW p \in Proc, NEW f \in File, CompleteRead(p, f)
      PROVE  invite' \in [Invite -> InviteRow]
  BY <1>5 DEF CompleteRead, Go, Is, FindByToken, FindByFileID, Beside
<1>6. ASSUME NEW p \in Proc, EnsureFolder(p)
      PROVE  invite' \in [Invite -> InviteRow]
  BY <1>6 DEF EnsureFolder, Step, Done, Go, Is, Fault, MayHappen
<1>7. ASSUME NEW p \in Proc, CreateInsert(p)
      PROVE  invite' \in [Invite -> InviteRow]
  BY <1>7 DEF CreateInsert, Done, Go, Is, Clamp
<1>8. ASSUME NEW p \in Proc, RevokeWrite(p)
      PROVE  invite' \in [Invite -> InviteRow]
  <2>1. at[p].i \in Invite /\ UpdateStatus(at[p].i, "revoked")
    BY <1>8 DEF RevokeWrite, Is
  <2>. QED
    BY <2>1, WriteTypes
<1>9. ASSUME NEW p \in Proc, WriteExpired(p)
      PROVE  invite' \in [Invite -> InviteRow]
  <2>1. at[p].i \in Invite /\ UpdateStatus(at[p].i, "expired")
    BY <1>9 DEF WriteExpired, Is
  <2>. QED
    BY <2>1, WriteTypes
<1>10. ASSUME NEW p \in Proc, GuestReserve(p)
      PROVE  invite' \in [Invite -> InviteRow]
  BY SMTT(30), <1>10 DEF GuestReserve, Step, Done, Go, Is, CanReserve
<1>11. ASSUME NEW p \in Proc, GuestQuota(p)
      PROVE  invite' \in [Invite -> InviteRow]
  BY <1>11 DEF GuestQuota, Step, Go, Is
<1>12. ASSUME NEW p \in Proc, GuestCreate(p)
      PROVE  invite' \in [Invite -> InviteRow]
  BY <1>12 DEF GuestCreate, Step, Go, Is, Fault, MayHappen
<1>13. ASSUME NEW p \in Proc, GuestRecord(p)
      PROVE  invite' \in [Invite -> InviteRow]
  BY <1>13 DEF GuestRecord, Step, Done, Go, Is, Fault, MayHappen, RecordFile
<1>14. ASSUME NEW p \in Proc, GuestUnrecord(p)
      PROVE  invite' \in [Invite -> InviteRow]
  BY SMTT(30), <1>14 DEF GuestUnrecord, Step, Go, Is, Released, Monus
<1>15. ASSUME NEW p \in Proc, GuestFailNew(p)
      PROVE  invite' \in [Invite -> InviteRow]
  BY <1>15 DEF GuestFailNew, Done, Go, Is, Fault, MayHappen
<1>16. ASSUME NEW p \in Proc, Release(p)
      PROVE  invite' \in [Invite -> InviteRow]
  <2>1. at[p].i \in Invite /\ Size[at[p].f] \in Nat
    BY <1>16 DEF Release, Is
  <2>2. invite' = invite \/ invite' = Released(at[p].i, Size[at[p].f])
    BY <1>16 DEF Release
  <2>. QED
    BY <2>1, <2>2, WriteTypes
<1>17. ASSUME NEW p \in Proc, CompleteFile(p)
      PROVE  invite' \in [Invite -> InviteRow]
  BY <1>17 DEF CompleteFile, Done, Go, Is
<1>18. ASSUME NEW p \in Proc, Discard(p)
      PROVE  invite' \in [Invite -> InviteRow]
  BY <1>18 DEF Discard, Step, Go, Is, Fault, MayHappen
<1>19. ASSUME NEW p \in Proc, Commit(p)
      PROVE  invite' \in [Invite -> InviteRow]
  BY <1>19 DEF Commit, Step, Go, Is, Fault, MayHappen
<1>20. ASSUME NEW p \in Proc, Notify(p)
      PROVE  invite' \in [Invite -> InviteRow]
  <2>1. at[p].i \in Invite
    BY <1>20 DEF Notify, Is
  <2>2. invite' = invite \/ IncrementPendingNotify(at[p].i)
    BY <1>20 DEF Notify
  <2>. QED
    BY <2>1, <2>2, WriteTypes
<1>21. ASSUME NEW i \in Invite, TimerFires(i)
      PROVE  invite' \in [Invite -> InviteRow]
  BY <1>21, FlushType DEF TimerFires, FlushPendingForInvite
<1>22. ASSUME NEW i \in Invite, Send(i)
      PROVE  invite' \in [Invite -> InviteRow]
  BY <1>22 DEF Send
<1>23. ASSUME NEW S \in SUBSET Invite, SchedulerFlush(S)
      PROVE  invite' \in [Invite -> InviteRow]
  BY <1>23, FlushType DEF SchedulerFlush
<1>24. ASSUME ExpireStaleInvites
      PROVE  invite' \in [Invite -> InviteRow]
  BY <1>24 DEF ExpireStaleInvites
<1>25. ASSUME NEW S \in SUBSET File, CleanupList(S)
      PROVE  invite' \in [Invite -> InviteRow]
  BY <1>25 DEF CleanupList, ListStaleUploads
<1>26. ASSUME NEW f \in File, CleanupClaim(f)
      PROVE  invite' \in [Invite -> InviteRow]
  BY <1>26 DEF CleanupClaim, Beside
<1>27. ASSUME CleanupRelease
      PROVE  invite' \in [Invite -> InviteRow]
  BY <1>27 DEF CleanupRelease, Fault, MayHappen, Released, Monus
<1>28. ASSUME NEW i \in Invite, PassExpiry(i)
      PROVE  invite' \in [Invite -> InviteRow]
  BY <1>28 DEF PassExpiry
<1>29. ASSUME NEW f \in File, Scanned(f)
      PROVE  invite' \in [Invite -> InviteRow]
  BY <1>29 DEF Scanned
<1>30. ASSUME Crash
      PROVE  invite' \in [Invite -> InviteRow]
  BY <1>30 DEF Crash, MayHappen
<1>31. CASE UNCHANGED vars
  BY <1>31 DEF vars
<1>. QED
  BY <1>1, <1>2, <1>3, <1>4, <1>5, <1>6, <1>7, <1>8, <1>9, <1>10, <1>11,
     <1>12, <1>13, <1>14, <1>15, <1>16, <1>17, <1>18, <1>19, <1>20, <1>21,
     <1>22, <1>23, <1>24, <1>25, <1>26, <1>27, <1>28, <1>29, <1>30, <1>31
  DEF Next, OwnerRequest, GuestReads, GuestRequest, Continue, Environment,
      Cleanup

LEMMA NextFileType ==
  ASSUME Shape, [Next]_vars
  PROVE  file' \in [File -> FileRow]
<1>. USE DEF Shape, TypeOK, InviteStatus, FileStatus, PC, NoCall, CallOK,
             CallAt, GuestPC, CompletePC, FileOK, FileRow, notice, job
<1>1. ASSUME NEW p \in Proc, NEW i \in Invite, CreateCount(p, i)
      PROVE  file' \in [File -> FileRow]
  BY <1>1 DEF CreateCount, Go, Is
<1>2. ASSUME NEW p \in Proc, NEW i \in Invite, RevokeRead(p, i)
      PROVE  file' \in [File -> FileRow]
  BY <1>2 DEF RevokeRead, Go, Is, FindByID
<1>3. ASSUME NEW p \in Proc, NEW i \in Invite, SeesExpired(p, i)
      PROVE  file' \in [File -> FileRow]
  BY <1>3 DEF SeesExpired, Go, Is, FindByToken
<1>4. ASSUME NEW p \in Proc, NEW i \in Invite, NEW f \in File, GuestRead(p, i, f)
      PROVE  file' \in [File -> FileRow]
  BY <1>4 DEF GuestRead, Go, Is, FindByToken
<1>5. ASSUME NEW p \in Proc, NEW f \in File, CompleteRead(p, f)
      PROVE  file' \in [File -> FileRow]
  BY <1>5 DEF CompleteRead, Go, Is, FindByToken, FindByFileID, Beside
<1>6. ASSUME NEW p \in Proc, EnsureFolder(p)
      PROVE  file' \in [File -> FileRow]
  BY <1>6 DEF EnsureFolder, Step, Done, Go, Is, Fault, MayHappen
<1>7. ASSUME NEW p \in Proc, CreateInsert(p)
      PROVE  file' \in [File -> FileRow]
  BY <1>7 DEF CreateInsert, Done, Go, Is, Clamp
<1>8. ASSUME NEW p \in Proc, RevokeWrite(p)
      PROVE  file' \in [File -> FileRow]
  BY <1>8 DEF RevokeWrite, Done, Go, Is, UpdateStatus
<1>9. ASSUME NEW p \in Proc, WriteExpired(p)
      PROVE  file' \in [File -> FileRow]
  BY <1>9 DEF WriteExpired, Done, Go, Is, UpdateStatus
<1>10. ASSUME NEW p \in Proc, GuestReserve(p)
      PROVE  file' \in [File -> FileRow]
  BY <1>10 DEF GuestReserve, Step, Done, Go, Is, CanReserve
<1>11. ASSUME NEW p \in Proc, GuestQuota(p)
      PROVE  file' \in [File -> FileRow]
  BY <1>11 DEF GuestQuota, Step, Go, Is
<1>12. ASSUME NEW p \in Proc, GuestCreate(p)
      PROVE  file' \in [File -> FileRow]
  BY <1>12 DEF GuestCreate, Step, Go, Is, Fault, MayHappen
<1>13. ASSUME NEW p \in Proc, GuestRecord(p)
      PROVE  file' \in [File -> FileRow]
  BY <1>13 DEF GuestRecord, Step, Done, Go, Is, Fault, MayHappen, RecordFile
<1>14. ASSUME NEW p \in Proc, GuestUnrecord(p)
      PROVE  file' \in [File -> FileRow]
  BY <1>14 DEF GuestUnrecord, Step, Go, Is, Released, Monus
<1>15. ASSUME NEW p \in Proc, GuestFailNew(p)
      PROVE  file' \in [File -> FileRow]
  BY <1>15 DEF GuestFailNew, Done, Go, Is, Fault, MayHappen
<1>16. ASSUME NEW p \in Proc, Release(p)
      PROVE  file' \in [File -> FileRow]
  BY <1>16 DEF Release, Done, Go, Is, Fault, MayHappen, Released, Monus
<1>17. ASSUME NEW p \in Proc, CompleteFile(p)
      PROVE  file' \in [File -> FileRow]
  BY <1>17 DEF CompleteFile, Done, Go, Is
<1>18. ASSUME NEW p \in Proc, Discard(p)
      PROVE  file' \in [File -> FileRow]
  BY <1>18 DEF Discard, Step, Go, Is, Fault, MayHappen
<1>19. ASSUME NEW p \in Proc, Commit(p)
      PROVE  file' \in [File -> FileRow]
  BY SMTT(30), <1>19 DEF Commit, Step, Go, Is, Fault, MayHappen
<1>20. ASSUME NEW p \in Proc, Notify(p)
      PROVE  file' \in [File -> FileRow]
  BY <1>20 DEF Notify, Done, Go, Is, Fault, MayHappen, IncrementPendingNotify
<1>21. ASSUME NEW i \in Invite, TimerFires(i)
      PROVE  file' \in [File -> FileRow]
  BY <1>21 DEF TimerFires, FlushPendingForInvite, Flush
<1>22. ASSUME NEW i \in Invite, Send(i)
      PROVE  file' \in [File -> FileRow]
  BY <1>22 DEF Send
<1>23. ASSUME NEW S \in SUBSET Invite, SchedulerFlush(S)
      PROVE  file' \in [File -> FileRow]
  BY <1>23 DEF SchedulerFlush, Flush
<1>24. ASSUME ExpireStaleInvites
      PROVE  file' \in [File -> FileRow]
  BY <1>24 DEF ExpireStaleInvites
<1>25. ASSUME NEW S \in SUBSET File, CleanupList(S)
      PROVE  file' \in [File -> FileRow]
  BY <1>25 DEF CleanupList, ListStaleUploads
<1>26. ASSUME NEW f \in File, CleanupClaim(f)
      PROVE  file' \in [File -> FileRow]
  BY <1>26 DEF CleanupClaim, Beside
<1>27. ASSUME CleanupRelease
      PROVE  file' \in [File -> FileRow]
  BY <1>27 DEF CleanupRelease, Fault, MayHappen, Released, Monus
<1>28. ASSUME NEW i \in Invite, PassExpiry(i)
      PROVE  file' \in [File -> FileRow]
  BY <1>28 DEF PassExpiry
<1>29. ASSUME NEW f \in File, Scanned(f)
      PROVE  file' \in [File -> FileRow]
  BY <1>29 DEF Scanned
<1>30. ASSUME Crash
      PROVE  file' \in [File -> FileRow]
  BY <1>30 DEF Crash, MayHappen
<1>31. CASE UNCHANGED vars
  BY <1>31 DEF vars
<1>. QED
  BY <1>1, <1>2, <1>3, <1>4, <1>5, <1>6, <1>7, <1>8, <1>9, <1>10, <1>11,
     <1>12, <1>13, <1>14, <1>15, <1>16, <1>17, <1>18, <1>19, <1>20, <1>21,
     <1>22, <1>23, <1>24, <1>25, <1>26, <1>27, <1>28, <1>29, <1>30, <1>31
  DEF Next, OwnerRequest, GuestReads, GuestRequest, Continue, Environment,
      Cleanup

LEMMA NextProcType ==
  ASSUME Shape, [Next]_vars
  PROVE  pc' \in [Proc -> PC] /\ at' \in [Proc -> Call]
<1>. USE DEF Shape, TypeOK, InviteStatus, FileStatus, PC, NoCall, CallOK,
             CallAt, GuestPC, CompletePC, FileOK, Call, notice, job
<1>1. ASSUME NEW p \in Proc, NEW i \in Invite, CreateCount(p, i)
      PROVE  pc' \in [Proc -> PC] /\ at' \in [Proc -> Call]
  BY <1>1 DEF CreateCount, Go, Is
<1>2. ASSUME NEW p \in Proc, NEW i \in Invite, RevokeRead(p, i)
      PROVE  pc' \in [Proc -> PC] /\ at' \in [Proc -> Call]
  BY <1>2 DEF RevokeRead, Go, Is, FindByID
<1>3. ASSUME NEW p \in Proc, NEW i \in Invite, SeesExpired(p, i)
      PROVE  pc' \in [Proc -> PC] /\ at' \in [Proc -> Call]
  BY <1>3 DEF SeesExpired, Go, Is, FindByToken
<1>4. ASSUME NEW p \in Proc, NEW i \in Invite, NEW f \in File, GuestRead(p, i, f)
      PROVE  pc' \in [Proc -> PC] /\ at' \in [Proc -> Call]
  <2>. DEFINE c == [NoCall EXCEPT !.i = i, !.f = f, !.op = "guest"]
  <2>1. c \in Call
    OBVIOUS
  <2>2. PICK l \in PC : Go(p, l, c)
    BY <1>4 DEF GuestRead
  <2>. HIDE DEF c, Call
  <2>. QED
    BY <2>1, <2>2, GoType
<1>5. ASSUME NEW p \in Proc, NEW f \in File, CompleteRead(p, f)
      PROVE  pc' \in [Proc -> PC] /\ at' \in [Proc -> Call]
  BY <1>5 DEF CompleteRead, Go, Is, FindByToken, FindByFileID, Beside
<1>6. ASSUME NEW p \in Proc, EnsureFolder(p)
      PROVE  pc' \in [Proc -> PC] /\ at' \in [Proc -> Call]
  <2>1. \E l \in PC : Step(p, l) \/ Done(p)
    BY <1>6 DEF EnsureFolder
  <2>. QED
    BY <2>1, StepType
<1>7. ASSUME NEW p \in Proc, CreateInsert(p)
      PROVE  pc' \in [Proc -> PC] /\ at' \in [Proc -> Call]
  BY <1>7 DEF CreateInsert, Done, Go, Is, Clamp
<1>8. ASSUME NEW p \in Proc, RevokeWrite(p)
      PROVE  pc' \in [Proc -> PC] /\ at' \in [Proc -> Call]
  BY <1>8 DEF RevokeWrite, Done, Go, Is, UpdateStatus
<1>9. ASSUME NEW p \in Proc, WriteExpired(p)
      PROVE  pc' \in [Proc -> PC] /\ at' \in [Proc -> Call]
  BY <1>9 DEF WriteExpired, Done, Go, Is, UpdateStatus
<1>10. ASSUME NEW p \in Proc, GuestReserve(p)
      PROVE  pc' \in [Proc -> PC] /\ at' \in [Proc -> Call]
  <2>1. \E l \in PC : Step(p, l) \/ Done(p)
    BY <1>10 DEF GuestReserve
  <2>. QED
    BY <2>1, StepType
<1>11. ASSUME NEW p \in Proc, GuestQuota(p)
      PROVE  pc' \in [Proc -> PC] /\ at' \in [Proc -> Call]
  BY <1>11 DEF GuestQuota, Step, Go, Is
<1>12. ASSUME NEW p \in Proc, GuestCreate(p)
      PROVE  pc' \in [Proc -> PC] /\ at' \in [Proc -> Call]
  BY ZenonT(60), <1>12 DEF GuestCreate, Step, Go, Is, Fault, MayHappen
<1>13. ASSUME NEW p \in Proc, GuestRecord(p)
      PROVE  pc' \in [Proc -> PC] /\ at' \in [Proc -> Call]
  <2>1. \E l \in PC : Step(p, l) \/ Done(p)
    BY <1>13 DEF GuestRecord
  <2>. QED
    BY <2>1, StepType
<1>14. ASSUME NEW p \in Proc, GuestUnrecord(p)
      PROVE  pc' \in [Proc -> PC] /\ at' \in [Proc -> Call]
  BY <1>14 DEF GuestUnrecord, Step, Go, Is, Released, Monus
<1>15. ASSUME NEW p \in Proc, GuestFailNew(p)
      PROVE  pc' \in [Proc -> PC] /\ at' \in [Proc -> Call]
  BY <1>15 DEF GuestFailNew, Done, Go, Is, Fault, MayHappen
<1>16. ASSUME NEW p \in Proc, Release(p)
      PROVE  pc' \in [Proc -> PC] /\ at' \in [Proc -> Call]
  BY <1>16 DEF Release, Done, Go, Is, Fault, MayHappen, Released, Monus
<1>17. ASSUME NEW p \in Proc, CompleteFile(p)
      PROVE  pc' \in [Proc -> PC] /\ at' \in [Proc -> Call]
  <2>1. \/ Done(p)
        \/ Go(p, "discard", [at[p] EXCEPT !.seen = "none"])
        \/ \E l \in {"commit", "discard"} :
             Go(p, l, [at[p] EXCEPT !.seen = "none"])
    BY ONLY <1>17 DEF CompleteFile
  <2>2. [at[p] EXCEPT !.seen = "none"] \in Call
    BY ShapeCall
  <2>. QED
    BY <2>1, <2>2, GoType, StepType
<1>18. ASSUME NEW p \in Proc, Discard(p)
      PROVE  pc' \in [Proc -> PC] /\ at' \in [Proc -> Call]
  BY <1>18 DEF Discard, Step, Go, Is, Fault, MayHappen
<1>19. ASSUME NEW p \in Proc, Commit(p)
      PROVE  pc' \in [Proc -> PC] /\ at' \in [Proc -> Call]
  BY ZenonT(60), <1>19 DEF Commit, Step, Go, Is, Fault, MayHappen
<1>20. ASSUME NEW p \in Proc, Notify(p)
      PROVE  pc' \in [Proc -> PC] /\ at' \in [Proc -> Call]
  BY <1>20 DEF Notify, Done, Go, Is, Fault, MayHappen, IncrementPendingNotify
<1>21. ASSUME NEW i \in Invite, TimerFires(i)
      PROVE  pc' \in [Proc -> PC] /\ at' \in [Proc -> Call]
  BY <1>21 DEF TimerFires, FlushPendingForInvite, Flush
<1>22. ASSUME NEW i \in Invite, Send(i)
      PROVE  pc' \in [Proc -> PC] /\ at' \in [Proc -> Call]
  BY <1>22 DEF Send
<1>23. ASSUME NEW S \in SUBSET Invite, SchedulerFlush(S)
      PROVE  pc' \in [Proc -> PC] /\ at' \in [Proc -> Call]
  BY <1>23 DEF SchedulerFlush, Flush
<1>24. ASSUME ExpireStaleInvites
      PROVE  pc' \in [Proc -> PC] /\ at' \in [Proc -> Call]
  BY <1>24 DEF ExpireStaleInvites
<1>25. ASSUME NEW S \in SUBSET File, CleanupList(S)
      PROVE  pc' \in [Proc -> PC] /\ at' \in [Proc -> Call]
  BY <1>25 DEF CleanupList, ListStaleUploads
<1>26. ASSUME NEW f \in File, CleanupClaim(f)
      PROVE  pc' \in [Proc -> PC] /\ at' \in [Proc -> Call]
  BY <1>26 DEF CleanupClaim, Beside
<1>27. ASSUME CleanupRelease
      PROVE  pc' \in [Proc -> PC] /\ at' \in [Proc -> Call]
  BY <1>27 DEF CleanupRelease, Fault, MayHappen, Released, Monus
<1>28. ASSUME NEW i \in Invite, PassExpiry(i)
      PROVE  pc' \in [Proc -> PC] /\ at' \in [Proc -> Call]
  BY <1>28 DEF PassExpiry
<1>29. ASSUME NEW f \in File, Scanned(f)
      PROVE  pc' \in [Proc -> PC] /\ at' \in [Proc -> Call]
  BY <1>29 DEF Scanned
<1>30. ASSUME Crash
      PROVE  pc' \in [Proc -> PC] /\ at' \in [Proc -> Call]
  BY <1>30 DEF Crash, MayHappen
<1>31. CASE UNCHANGED vars
  BY <1>31 DEF vars
<1>. QED
  BY <1>1, <1>2, <1>3, <1>4, <1>5, <1>6, <1>7, <1>8, <1>9, <1>10, <1>11,
     <1>12, <1>13, <1>14, <1>15, <1>16, <1>17, <1>18, <1>19, <1>20, <1>21,
     <1>22, <1>23, <1>24, <1>25, <1>26, <1>27, <1>28, <1>29, <1>30, <1>31
  DEF Next, OwnerRequest, GuestReads, GuestRequest, Continue, Environment,
      Cleanup

RestType ==
  /\ past \subseteq Invite /\ recorded \subseteq File
  /\ timer \subseteq Invite /\ rows \subseteq File
  /\ claimed \in File \cup {NoFile}
  /\ flying \in [Invite -> Nat] /\ told \in [Invite -> Nat]
  /\ {faults, crashes} \subseteq 0 .. MaxFailures

LEMMA NextRestType ==
  ASSUME Shape, [Next]_vars
  PROVE  RestType'
<1>. USE InviteBounds
    DEF Shape, TypeOK, InviteStatus, FileStatus, PC, NoCall, CallOK, CallAt,
        GuestPC, CompletePC, FileOK, RestType, notice, job
<1>1. ASSUME NEW p \in Proc, NEW i \in Invite, CreateCount(p, i)
      PROVE  RestType'
  BY <1>1 DEF CreateCount, Go, Is
<1>2. ASSUME NEW p \in Proc, NEW i \in Invite, RevokeRead(p, i)
      PROVE  RestType'
  BY <1>2 DEF RevokeRead, Go, Is, FindByID
<1>3. ASSUME NEW p \in Proc, NEW i \in Invite, SeesExpired(p, i)
      PROVE  RestType'
  BY <1>3 DEF SeesExpired, Go, Is, FindByToken
<1>4. ASSUME NEW p \in Proc, NEW i \in Invite, NEW f \in File, GuestRead(p, i, f)
      PROVE  RestType'
  BY <1>4 DEF GuestRead, Go, Is, FindByToken
<1>5. ASSUME NEW p \in Proc, NEW f \in File, CompleteRead(p, f)
      PROVE  RestType'
  BY <1>5 DEF CompleteRead, Go, Is, FindByToken, FindByFileID, Beside
<1>6. ASSUME NEW p \in Proc, EnsureFolder(p)
      PROVE  RestType'
  BY <1>6 DEF EnsureFolder, Step, Done, Go, Is, Fault, MayHappen
<1>7. ASSUME NEW p \in Proc, CreateInsert(p)
      PROVE  RestType'
  BY <1>7 DEF CreateInsert, Done, Go, Is, Clamp
<1>8. ASSUME NEW p \in Proc, RevokeWrite(p)
      PROVE  RestType'
  BY <1>8 DEF RevokeWrite, Done, Go, Is, UpdateStatus
<1>9. ASSUME NEW p \in Proc, WriteExpired(p)
      PROVE  RestType'
  BY <1>9 DEF WriteExpired, Done, Go, Is, UpdateStatus
<1>10. ASSUME NEW p \in Proc, GuestReserve(p)
      PROVE  RestType'
  BY <1>10 DEF GuestReserve, Step, Done, Go, Is, CanReserve
<1>11. ASSUME NEW p \in Proc, GuestQuota(p)
      PROVE  RestType'
  BY <1>11 DEF GuestQuota, Step, Go, Is
<1>12. ASSUME NEW p \in Proc, GuestCreate(p)
      PROVE  RestType'
  BY <1>12 DEF GuestCreate, Step, Go, Is, Fault, MayHappen
<1>13. ASSUME NEW p \in Proc, GuestRecord(p)
      PROVE  RestType'
  BY <1>13 DEF GuestRecord, Step, Done, Go, Is, Fault, MayHappen, RecordFile
<1>14. ASSUME NEW p \in Proc, GuestUnrecord(p)
      PROVE  RestType'
  BY <1>14 DEF GuestUnrecord, Step, Go, Is, Released, Monus
<1>15. ASSUME NEW p \in Proc, GuestFailNew(p)
      PROVE  RestType'
  BY <1>15 DEF GuestFailNew, Done, Go, Is, Fault, MayHappen
<1>16. ASSUME NEW p \in Proc, Release(p)
      PROVE  RestType'
  BY <1>16 DEF Release, Done, Go, Is, Fault, MayHappen, Released, Monus
<1>17. ASSUME NEW p \in Proc, CompleteFile(p)
      PROVE  RestType'
  BY <1>17 DEF CompleteFile, Done, Go, Is
<1>18. ASSUME NEW p \in Proc, Discard(p)
      PROVE  RestType'
  BY <1>18 DEF Discard, Step, Go, Is, Fault, MayHappen
<1>19. ASSUME NEW p \in Proc, Commit(p)
      PROVE  RestType'
  BY <1>19 DEF Commit, Step, Go, Is, Fault, MayHappen
<1>20. ASSUME NEW p \in Proc, Notify(p)
      PROVE  RestType'
  BY <1>20 DEF Notify, Done, Go, Is, Fault, MayHappen, IncrementPendingNotify
<1>21. ASSUME NEW i \in Invite, TimerFires(i)
      PROVE  RestType'
  BY <1>21 DEF TimerFires, FlushPendingForInvite, Flush
<1>22. ASSUME NEW i \in Invite, Send(i)
      PROVE  RestType'
  BY <1>22 DEF Send
<1>23. ASSUME NEW S \in SUBSET Invite, SchedulerFlush(S)
      PROVE  RestType'
  BY <1>23 DEF SchedulerFlush, Flush
<1>24. ASSUME ExpireStaleInvites
      PROVE  RestType'
  BY <1>24 DEF ExpireStaleInvites
<1>25. ASSUME NEW S \in SUBSET File, CleanupList(S)
      PROVE  RestType'
  BY <1>25 DEF CleanupList, ListStaleUploads
<1>26. ASSUME NEW f \in File, CleanupClaim(f)
      PROVE  RestType'
  BY <1>26 DEF CleanupClaim, Beside
<1>27. ASSUME CleanupRelease
      PROVE  RestType'
  BY <1>27 DEF CleanupRelease, Fault, MayHappen, Released, Monus
<1>28. ASSUME NEW i \in Invite, PassExpiry(i)
      PROVE  RestType'
  BY <1>28 DEF PassExpiry
<1>29. ASSUME NEW f \in File, Scanned(f)
      PROVE  RestType'
  BY <1>29 DEF Scanned
<1>30. ASSUME Crash
      PROVE  RestType'
  BY <1>30 DEF Crash, MayHappen
<1>31. CASE UNCHANGED vars
  BY <1>31 DEF vars
<1>. QED
  BY <1>1, <1>2, <1>3, <1>4, <1>5, <1>6, <1>7, <1>8, <1>9, <1>10, <1>11,
     <1>12, <1>13, <1>14, <1>15, <1>16, <1>17, <1>18, <1>19, <1>20, <1>21,
     <1>22, <1>23, <1>24, <1>25, <1>26, <1>27, <1>28, <1>29, <1>30, <1>31
  DEF Next, OwnerRequest, GuestReads, GuestRequest, Continue, Environment,
      Cleanup

LEMMA InitShape == Init => Shape
<1>. SUFFICES ASSUME Init
     PROVE  Shape
  OBVIOUS
<1>. USE InviteBounds DEF Init, NoCall
<1>1. Cardinality(File) \in Nat /\ Cardinality({}) = 0 /\ Ended = {}
  BY FS_CardinalityType, FS_EmptySet DEF Ended
<1>2. TypeOK
  BY <1>1 DEF TypeOK, InviteStatus, FileStatus, PC
<1>3. CallOK /\ FileOK /\ GuestOK /\ CreateOK /\ MaxOK
  BY DEF CallOK, CallAt, FileOK, GuestOK, GuestAt, CreateOK, MaxOK
<1>4. OverlapOK
  BY <1>1 DEF OverlapOK
<1>. QED
  BY <1>2, <1>3, <1>4 DEF Shape

LEMMA NextShape ==
  ASSUME Shape, [Next]_vars
  PROVE  Shape'
<1>1. CallOK' /\ FileOK' /\ GuestOK' /\ CreateOK' /\ OverlapOK' /\ MaxOK'
  BY NextCall, NextFile, NextGuest, NextCreate, NextOverlap, NextMax
<1>2. TypeOK'
  <2>1. overlaps' \in 0 .. (MaxOverlaps + Cardinality(File))
    <3>1. overlaps' \in Nat
      <4>1. overlaps \in Nat
        BY InviteBounds, FS_CardinalityType DEF Shape, TypeOK
      <4>2. overlaps' \in {overlaps, overlaps + 1}
        <5>1. CASE UNCHANGED overlaps
          BY <5>1
        <5>2. ASSUME NEW f \in File, Beside(f)
              PROVE  overlaps' \in {overlaps, overlaps + 1}
          BY <5>2 DEF Beside
        <5>. QED
          BY <5>1, <5>2, WhoOverlaps DEF CompleteRead, CleanupClaim
      <4>. QED
        BY <4>1, <4>2
    <3>2. Ended' \subseteq File
      BY DEF Ended
    <3>3. /\ Cardinality(Ended') <= Cardinality(File)
          /\ Cardinality(Ended') \in Nat /\ Cardinality(File) \in Nat
      BY <3>2, InviteBounds, FS_Subset, FS_CardinalityType
    <3>. QED
      BY <1>1, <3>1, <3>3, InviteBounds DEF OverlapOK
  <2>. QED
    BY <2>1, NextInviteType, NextFileType, NextProcType, NextRestType
    DEF TypeOK, InviteRow, FileRow, Call, RestType
<1>. QED
  BY <1>1, <1>2 DEF Shape

(* Every variable keeps its type, whatever fails and whenever it crashes.  *)
THEOREM TypeCorrect == Spec => []TypeOK
<1>1. Shape /\ [Next]_vars => Shape'
  BY NextShape
<1>2. Spec => []Shape
  BY <1>1, InitShape, PTL DEF Spec
<1>. QED
  BY <1>2, PTL DEF Shape

-----------------------------------------------------------------------------
(* The two caps.  A request counts what there is, finds it below the cap,  *)
(* and adds one later: what is counted and the requests on their way to    *)
(* add to it are together fewer than the cap and the requests there are.   *)

LEMMA Shrink ==
  ASSUME NEW A, NEW A1, NEW C, NEW C1, NEW n \in Nat,
         IsFiniteSet(A), IsFiniteSet(C), A1 \subseteq A, C1 \subseteq C,
         Cardinality(A) + Cardinality(C) < n
  PROVE  Cardinality(A1) + Cardinality(C1) < n
<1>1. /\ IsFiniteSet(A1) /\ Cardinality(A1) <= Cardinality(A)
      /\ IsFiniteSet(C1) /\ Cardinality(C1) <= Cardinality(C)
  BY FS_Subset
<1>. QED
  BY <1>1, FS_CardinalityType

LEMMA Enter ==
  ASSUME NEW A, NEW A1, NEW C1, NEW m \in Nat,
         IsFiniteSet(A), A1 \subseteq A, C1 \subseteq Proc, Cardinality(A) < m
  PROVE  Cardinality(A1) + Cardinality(C1) < m + Cardinality(Proc)
<1>1. /\ IsFiniteSet(A1) /\ Cardinality(A1) <= Cardinality(A)
      /\ IsFiniteSet(C1) /\ Cardinality(C1) <= Cardinality(Proc)
  BY FS_Subset, InviteBounds
<1>. QED
  BY <1>1, FS_CardinalityType, InviteBounds

LEMMA AddCount ==
  ASSUME NEW A, NEW x, IsFiniteSet(A)
  PROVE  /\ IsFiniteSet(A \cup {x}) /\ Cardinality(A) \in Nat
         /\ Cardinality(A \cup {x}) \in Nat
         /\ Cardinality(A \cup {x}) <= Cardinality(A) + 1
<1>1. IsFiniteSet(A \cup {x}) /\ Cardinality(A) \in Nat
  BY FS_AddElement, FS_CardinalityType
<1>2. CASE x \in A
  <2>1. A \cup {x} = A
    BY <1>2
  <2>2. Cardinality(A \cup {x}) = Cardinality(A)
    BY <2>1
  <2>. QED
    BY <1>1, <2>2
<1>3. CASE x \notin A
  BY <1>1, <1>3, FS_AddElement
<1>. QED
  BY <1>1, <1>2, <1>3, FS_CardinalityType

LEMMA RemoveCount ==
  ASSUME NEW C, NEW x \in C, IsFiniteSet(C)
  PROVE  /\ IsFiniteSet(C \ {x}) /\ Cardinality(C) \in Nat
         /\ Cardinality(C \ {x}) \in Nat
         /\ Cardinality(C \ {x}) = Cardinality(C) - 1
BY FS_RemoveElement, FS_CardinalityType

Unexpired == Active \ past

ActiveCase ==
  \/ Unexpired' \subseteq Unexpired /\ Creating' \subseteq Creating
  \/ Unexpired' \subseteq Unexpired /\ BelowActiveCap
  \/ \E p \in Creating, i \in Invite :
       Unexpired' \subseteq Unexpired \cup {i} /\ Creating' \subseteq Creating \ {p}

AddressCase ==
  \/ recorded' \subseteq recorded /\ Guests' \subseteq Guests
  \/ recorded' \subseteq recorded /\ BelowAddressCap
  \/ \E p \in Guests, f \in File :
       recorded' \subseteq recorded \cup {f} /\ Guests' \subseteq Guests \ {p}

LEMMA NextActive ==
  ASSUME Shape, [Next]_vars
  PROVE  ActiveCase
<1>. USE DEF Shape, TypeOK, InviteStatus, FileStatus, PC, NoCall, CallOK,
             CallAt, GuestPC, CompletePC, ActiveCase, Unexpired, Creating,
             Active, notice, job
<1>1. ASSUME NEW p \in Proc, NEW i \in Invite, CreateCount(p, i)
      PROVE  ActiveCase
  BY <1>1 DEF CreateCount, Go, Is
<1>2. ASSUME NEW p \in Proc, NEW i \in Invite, RevokeRead(p, i)
      PROVE  ActiveCase
  BY <1>2 DEF RevokeRead, Go, Is, FindByID
<1>3. ASSUME NEW p \in Proc, NEW i \in Invite, SeesExpired(p, i)
      PROVE  ActiveCase
  BY <1>3 DEF SeesExpired, Go, Is, FindByToken
<1>4. ASSUME NEW p \in Proc, NEW i \in Invite, NEW f \in File, GuestRead(p, i, f)
      PROVE  ActiveCase
  BY <1>4 DEF GuestRead, Go, Is, FindByToken
<1>5. ASSUME NEW p \in Proc, NEW f \in File, CompleteRead(p, f)
      PROVE  ActiveCase
  BY <1>5 DEF CompleteRead, Go, Is, FindByToken, FindByFileID, Beside
<1>6. ASSUME NEW p \in Proc, EnsureFolder(p)
      PROVE  ActiveCase
  BY <1>6 DEF EnsureFolder, Step, Done, Go, Is, Fault, MayHappen
<1>7. ASSUME NEW p \in Proc, CreateInsert(p)
      PROVE  ActiveCase
  <2>1. p \in Creating /\ at[p].i \in Invite
    BY <1>7 DEF CreateInsert, Is
  <2>2. Creating' \subseteq Creating \ {p}
    BY <1>7 DEF CreateInsert, Done, Go
  <2>3. \A j \in Invite \ {at[p].i} : invite'[j] = invite[j]
    BY <1>7 DEF CreateInsert
  <2>4. Unexpired' \subseteq Unexpired \cup {at[p].i}
    BY <1>7, <2>3 DEF CreateInsert
  <2>. QED
    BY <2>1, <2>2, <2>4
<1>8. ASSUME NEW p \in Proc, RevokeWrite(p)
      PROVE  ActiveCase
  BY <1>8 DEF RevokeWrite, Done, Go, Is, UpdateStatus
<1>9. ASSUME NEW p \in Proc, WriteExpired(p)
      PROVE  ActiveCase
  BY <1>9 DEF WriteExpired, Done, Go, Is, UpdateStatus
<1>10. ASSUME NEW p \in Proc, GuestReserve(p)
      PROVE  ActiveCase
  <2>1. \A j \in Invite : invite'[j].status = invite[j].status
    BY <1>10 DEF GuestReserve
  <2>2. \A q \in Proc : at'[q] = NoCall \/ at'[q] = at[q]
    BY <1>10, StepMoves DEF GuestReserve
  <2>3. Creating' \subseteq Creating
    BY <2>2
  <2>4. Unexpired' \subseteq Unexpired
    BY <1>10, <2>1 DEF GuestReserve
  <2>. QED
    BY <2>3, <2>4
<1>11. ASSUME NEW p \in Proc, GuestQuota(p)
      PROVE  ActiveCase
  BY <1>11 DEF GuestQuota, Step, Go, Is
<1>12. ASSUME NEW p \in Proc, GuestCreate(p)
      PROVE  ActiveCase
  BY <1>12 DEF GuestCreate, Step, Go, Is, Fault, MayHappen
<1>13. ASSUME NEW p \in Proc, GuestRecord(p)
      PROVE  ActiveCase
  BY <1>13 DEF GuestRecord, Step, Done, Go, Is, Fault, MayHappen, RecordFile
<1>14. ASSUME NEW p \in Proc, GuestUnrecord(p)
      PROVE  ActiveCase
  BY SMTT(30), <1>14 DEF GuestUnrecord, Step, Go, Is, Released, Monus
<1>15. ASSUME NEW p \in Proc, GuestFailNew(p)
      PROVE  ActiveCase
  BY <1>15 DEF GuestFailNew, Done, Go, Is, Fault, MayHappen
<1>16. ASSUME NEW p \in Proc, Release(p)
      PROVE  ActiveCase
  BY <1>16 DEF Release, Done, Go, Is, Fault, MayHappen, Released, Monus
<1>17. ASSUME NEW p \in Proc, CompleteFile(p)
      PROVE  ActiveCase
  <2>1. \A q \in Proc : at'[q].op = at[q].op \/ at'[q] = NoCall
    <3>1. CASE Done(p)
      BY <3>1, StepMoves
    <3>2. CASE \E l \in {"commit", "discard"} :
                 Go(p, l, [at[p] EXCEPT !.seen = "none"])
      BY <3>2 DEF Go
    <3>3. \/ Done(p)
          \/ Go(p, "discard", [at[p] EXCEPT !.seen = "none"])
          \/ \E l \in {"commit", "discard"} :
               Go(p, l, [at[p] EXCEPT !.seen = "none"])
      BY ONLY <1>17 DEF CompleteFile
    <3>. QED
      BY <3>1, <3>2, <3>3
  <2>. QED
    BY <1>17, <2>1 DEF CompleteFile
<1>18. ASSUME NEW p \in Proc, Discard(p)
      PROVE  ActiveCase
  BY <1>18 DEF Discard, Step, Go, Is, Fault, MayHappen
<1>19. ASSUME NEW p \in Proc, Commit(p)
      PROVE  ActiveCase
  BY <1>19 DEF Commit, Step, Go, Is, Fault, MayHappen
<1>20. ASSUME NEW p \in Proc, Notify(p)
      PROVE  ActiveCase
  <2>1. \A j \in Invite : invite'[j].status = invite[j].status
    BY <1>20 DEF Notify, IncrementPendingNotify
  <2>2. \A q \in Proc : at'[q] = NoCall \/ at'[q] = at[q]
    BY <1>20, StepMoves DEF Notify
  <2>. QED
    BY <1>20, <2>1, <2>2 DEF Notify
<1>21. ASSUME NEW i \in Invite, TimerFires(i)
      PROVE  ActiveCase
  BY <1>21 DEF TimerFires, FlushPendingForInvite, Flush
<1>22. ASSUME NEW i \in Invite, Send(i)
      PROVE  ActiveCase
  BY <1>22 DEF Send
<1>23. ASSUME NEW S \in SUBSET Invite, SchedulerFlush(S)
      PROVE  ActiveCase
  BY <1>23 DEF SchedulerFlush, Flush
<1>24. ASSUME ExpireStaleInvites
      PROVE  ActiveCase
  BY <1>24 DEF ExpireStaleInvites
<1>25. ASSUME NEW S \in SUBSET File, CleanupList(S)
      PROVE  ActiveCase
  BY <1>25 DEF CleanupList, ListStaleUploads
<1>26. ASSUME NEW f \in File, CleanupClaim(f)
      PROVE  ActiveCase
  BY <1>26 DEF CleanupClaim, Beside
<1>27. ASSUME CleanupRelease
      PROVE  ActiveCase
  BY <1>27 DEF CleanupRelease, Fault, MayHappen, Released, Monus
<1>28. ASSUME NEW i \in Invite, PassExpiry(i)
      PROVE  ActiveCase
  BY <1>28 DEF PassExpiry
<1>29. ASSUME NEW f \in File, Scanned(f)
      PROVE  ActiveCase
  BY <1>29 DEF Scanned
<1>30. ASSUME Crash
      PROVE  ActiveCase
  BY <1>30 DEF Crash, MayHappen
<1>31. CASE UNCHANGED vars
  BY <1>31 DEF vars
<1>. QED
  BY <1>1, <1>2, <1>3, <1>4, <1>5, <1>6, <1>7, <1>8, <1>9, <1>10, <1>11,
     <1>12, <1>13, <1>14, <1>15, <1>16, <1>17, <1>18, <1>19, <1>20, <1>21,
     <1>22, <1>23, <1>24, <1>25, <1>26, <1>27, <1>28, <1>29, <1>30, <1>31
  DEF Next, OwnerRequest, GuestReads, GuestRequest, Continue, Environment,
      Cleanup

LEMMA NextAddress ==
  ASSUME Shape, [Next]_vars
  PROVE  AddressCase
<1>. USE DEF Shape, TypeOK, InviteStatus, FileStatus, PC, NoCall, CallOK,
             CallAt, GuestPC, CompletePC, AddressCase, Guests, notice, job
<1>1. ASSUME NEW p \in Proc, NEW i \in Invite, CreateCount(p, i)
      PROVE  AddressCase
  BY <1>1 DEF CreateCount, Go, Is
<1>2. ASSUME NEW p \in Proc, NEW i \in Invite, RevokeRead(p, i)
      PROVE  AddressCase
  BY <1>2 DEF RevokeRead, Go, Is, FindByID
<1>3. ASSUME NEW p \in Proc, NEW i \in Invite, SeesExpired(p, i)
      PROVE  AddressCase
  BY <1>3 DEF SeesExpired, Go, Is, FindByToken
<1>4. ASSUME NEW p \in Proc, NEW i \in Invite, NEW f \in File, GuestRead(p, i, f)
      PROVE  AddressCase
  BY <1>4 DEF GuestRead, Go, Is, FindByToken
<1>5. ASSUME NEW p \in Proc, NEW f \in File, CompleteRead(p, f)
      PROVE  AddressCase
  BY <1>5 DEF CompleteRead, Go, Is, FindByToken, FindByFileID, Beside
<1>6. ASSUME NEW p \in Proc, EnsureFolder(p)
      PROVE  AddressCase
  BY <1>6 DEF EnsureFolder, Step, Done, Go, Is, Fault, MayHappen
<1>7. ASSUME NEW p \in Proc, CreateInsert(p)
      PROVE  AddressCase
  BY <1>7 DEF CreateInsert, Done, Go, Is, Clamp
<1>8. ASSUME NEW p \in Proc, RevokeWrite(p)
      PROVE  AddressCase
  BY <1>8 DEF RevokeWrite, Done, Go, Is, UpdateStatus
<1>9. ASSUME NEW p \in Proc, WriteExpired(p)
      PROVE  AddressCase
  BY <1>9 DEF WriteExpired, Done, Go, Is, UpdateStatus
<1>10. ASSUME NEW p \in Proc, GuestReserve(p)
      PROVE  AddressCase
  BY SMTT(30), <1>10 DEF GuestReserve, Step, Done, Go, Is, CanReserve
<1>11. ASSUME NEW p \in Proc, GuestQuota(p)
      PROVE  AddressCase
  BY <1>11 DEF GuestQuota, Step, Go, Is
<1>12. ASSUME NEW p \in Proc, GuestCreate(p)
      PROVE  AddressCase
  BY <1>12 DEF GuestCreate, Step, Go, Is, Fault, MayHappen
<1>13. ASSUME NEW p \in Proc, GuestRecord(p)
      PROVE  AddressCase
  <2>1. p \in Guests /\ at[p].f \in File
    BY <1>13 DEF GuestRecord, Is
  <2>2. CASE RecordFile(at[p].f) /\ Done(p)
    <3>1. Guests' \subseteq Guests \ {p}
      BY <2>2 DEF Done, Go
    <3>. QED
      BY <2>1, <2>2, <3>1 DEF RecordFile
  <2>3. CASE Step(p, "unrecord") /\ UNCHANGED recorded
    BY <2>3 DEF Step, Go
  <2>. QED
    BY <1>13, <2>2, <2>3 DEF GuestRecord
<1>14. ASSUME NEW p \in Proc, GuestUnrecord(p)
      PROVE  AddressCase
  BY <1>14 DEF GuestUnrecord, Step, Go, Is, Released, Monus
<1>15. ASSUME NEW p \in Proc, GuestFailNew(p)
      PROVE  AddressCase
  BY <1>15 DEF GuestFailNew, Done, Go, Is, Fault, MayHappen
<1>16. ASSUME NEW p \in Proc, Release(p)
      PROVE  AddressCase
  BY <1>16 DEF Release, Done, Go, Is, Fault, MayHappen, Released, Monus
<1>17. ASSUME NEW p \in Proc, CompleteFile(p)
      PROVE  AddressCase
  <2>1. \A q \in Proc : at'[q].op = at[q].op \/ at'[q] = NoCall
    <3>1. CASE Done(p)
      BY <3>1, StepMoves
    <3>2. CASE \E l \in {"commit", "discard"} :
                 Go(p, l, [at[p] EXCEPT !.seen = "none"])
      BY <3>2 DEF Go
    <3>3. \/ Done(p)
          \/ Go(p, "discard", [at[p] EXCEPT !.seen = "none"])
          \/ \E l \in {"commit", "discard"} :
               Go(p, l, [at[p] EXCEPT !.seen = "none"])
      BY ONLY <1>17 DEF CompleteFile
    <3>. QED
      BY <3>1, <3>2, <3>3
  <2>. QED
    BY <1>17, <2>1 DEF CompleteFile
<1>18. ASSUME NEW p \in Proc, Discard(p)
      PROVE  AddressCase
  BY <1>18 DEF Discard, Step, Go, Is, Fault, MayHappen
<1>19. ASSUME NEW p \in Proc, Commit(p)
      PROVE  AddressCase
  BY <1>19 DEF Commit, Step, Go, Is, Fault, MayHappen
<1>20. ASSUME NEW p \in Proc, Notify(p)
      PROVE  AddressCase
  BY <1>20 DEF Notify, Done, Go, Is, Fault, MayHappen, IncrementPendingNotify
<1>21. ASSUME NEW i \in Invite, TimerFires(i)
      PROVE  AddressCase
  BY <1>21 DEF TimerFires, FlushPendingForInvite, Flush
<1>22. ASSUME NEW i \in Invite, Send(i)
      PROVE  AddressCase
  BY <1>22 DEF Send
<1>23. ASSUME NEW S \in SUBSET Invite, SchedulerFlush(S)
      PROVE  AddressCase
  BY <1>23 DEF SchedulerFlush, Flush
<1>24. ASSUME ExpireStaleInvites
      PROVE  AddressCase
  BY <1>24 DEF ExpireStaleInvites
<1>25. ASSUME NEW S \in SUBSET File, CleanupList(S)
      PROVE  AddressCase
  BY <1>25 DEF CleanupList, ListStaleUploads
<1>26. ASSUME NEW f \in File, CleanupClaim(f)
      PROVE  AddressCase
  BY <1>26 DEF CleanupClaim, Beside
<1>27. ASSUME CleanupRelease
      PROVE  AddressCase
  BY <1>27 DEF CleanupRelease, Fault, MayHappen, Released, Monus
<1>28. ASSUME NEW i \in Invite, PassExpiry(i)
      PROVE  AddressCase
  BY <1>28 DEF PassExpiry
<1>29. ASSUME NEW f \in File, Scanned(f)
      PROVE  AddressCase
  BY <1>29 DEF Scanned
<1>30. ASSUME Crash
      PROVE  AddressCase
  BY <1>30 DEF Crash, MayHappen
<1>31. CASE UNCHANGED vars
  BY <1>31 DEF vars
<1>. QED
  BY <1>1, <1>2, <1>3, <1>4, <1>5, <1>6, <1>7, <1>8, <1>9, <1>10, <1>11,
     <1>12, <1>13, <1>14, <1>15, <1>16, <1>17, <1>18, <1>19, <1>20, <1>21,
     <1>22, <1>23, <1>24, <1>25, <1>26, <1>27, <1>28, <1>29, <1>30, <1>31
  DEF Next, OwnerRequest, GuestReads, GuestRequest, Continue, Environment,
      Cleanup

LEMMA NextCap ==
  ASSUME Shape, CapInv, [Next]_vars
  PROVE  CapInv'
<1>1. /\ IsFiniteSet(Unexpired) /\ IsFiniteSet(Creating) /\ Creating' \subseteq Proc
      /\ IsFiniteSet(recorded) /\ IsFiniteSet(Guests) /\ Guests' \subseteq Proc
  <2>1. /\ Unexpired \subseteq Invite /\ Creating \subseteq Proc
        /\ recorded \subseteq File /\ Guests \subseteq Proc
    BY DEF Shape, TypeOK, Unexpired, Active, Creating, Guests
  <2>. QED
    BY <2>1, InviteBounds, FS_Subset DEF Creating, Guests
<1>2. /\ MaxActive \in Nat /\ MaxPerAddress \in Nat /\ Cardinality(Proc) \in Nat
      /\ MaxActive + Cardinality(Proc) \in Nat
      /\ MaxPerAddress + Cardinality(Proc) \in Nat
  BY InviteBounds, FS_CardinalityType
<1>3. Cardinality(Unexpired') + Cardinality(Creating') < MaxActive + Cardinality(Proc)
  <2>1. Cardinality(Unexpired) + Cardinality(Creating)
          < MaxActive + Cardinality(Proc)
    BY DEF CapInv, Unexpired
  <2>2. CASE Unexpired' \subseteq Unexpired /\ Creating' \subseteq Creating
    BY <1>1, <1>2, <2>1, <2>2, Shrink
  <2>3. CASE Unexpired' \subseteq Unexpired /\ BelowActiveCap
    <3>1. Cardinality(Unexpired) < MaxActive
      BY <2>3 DEF BelowActiveCap, CountActiveByOwner, Unexpired
    <3>. QED
      BY <1>1, <1>2, <2>3, <3>1, Enter
  <2>4. ASSUME NEW p \in Creating, NEW i \in Invite,
               Unexpired' \subseteq Unexpired \cup {i}, Creating' \subseteq Creating \ {p}
        PROVE  Cardinality(Unexpired') + Cardinality(Creating')
                 < MaxActive + Cardinality(Proc)
    <3>. DEFINE B == Unexpired \cup {i}
                D == Creating \ {p}
    <3>1. IsFiniteSet(B) /\ IsFiniteSet(D) /\ Unexpired' \subseteq B /\ Creating' \subseteq D
      BY <1>1, <2>4, AddCount, RemoveCount
    <3>2. Cardinality(B) + Cardinality(D) < MaxActive + Cardinality(Proc)
      <4>1. /\ Cardinality(B) \in Nat /\ Cardinality(Unexpired) \in Nat
            /\ Cardinality(B) <= Cardinality(Unexpired) + 1
        BY <1>1, AddCount
      <4>2. /\ Cardinality(D) \in Nat /\ Cardinality(Creating) \in Nat
            /\ Cardinality(D) = Cardinality(Creating) - 1
        BY <1>1, RemoveCount
      <4>. HIDE DEF B, D
      <4>. QED
        BY <1>2, <2>1, <4>1, <4>2
    <3>. HIDE DEF B, D
    <3>. QED
      BY <1>2, <3>1, <3>2, Shrink
  <2>. QED
    BY <2>2, <2>3, <2>4, NextActive DEF ActiveCase
<1>4. Cardinality(recorded') + Cardinality(Guests') < MaxPerAddress + Cardinality(Proc)
  <2>1. Cardinality(recorded) + Cardinality(Guests) < MaxPerAddress + Cardinality(Proc)
    BY DEF CapInv
  <2>2. CASE recorded' \subseteq recorded /\ Guests' \subseteq Guests
    BY <1>1, <1>2, <2>1, <2>2, Shrink
  <2>3. CASE recorded' \subseteq recorded /\ BelowAddressCap
    <3>1. Cardinality(recorded) < MaxPerAddress
      BY <2>3 DEF BelowAddressCap, CountUploadsByIPInWindow
    <3>. QED
      BY <1>1, <1>2, <2>3, <3>1, Enter
  <2>4. ASSUME NEW p \in Guests, NEW f \in File,
               recorded' \subseteq recorded \cup {f}, Guests' \subseteq Guests \ {p}
        PROVE  Cardinality(recorded') + Cardinality(Guests')
                 < MaxPerAddress + Cardinality(Proc)
    <3>. DEFINE B == recorded \cup {f}
                D == Guests \ {p}
    <3>1. IsFiniteSet(B) /\ IsFiniteSet(D) /\ recorded' \subseteq B /\ Guests' \subseteq D
      BY <1>1, <2>4, AddCount, RemoveCount
    <3>2. Cardinality(B) + Cardinality(D) < MaxPerAddress + Cardinality(Proc)
      <4>1. /\ Cardinality(B) \in Nat /\ Cardinality(recorded) \in Nat
            /\ Cardinality(B) <= Cardinality(recorded) + 1
        BY <1>1, AddCount
      <4>2. /\ Cardinality(D) \in Nat /\ Cardinality(Guests) \in Nat
            /\ Cardinality(D) = Cardinality(Guests) - 1
        BY <1>1, RemoveCount
      <4>. HIDE DEF B, D
      <4>. QED
        BY <1>2, <2>1, <4>1, <4>2
    <3>. HIDE DEF B, D
    <3>. QED
      BY <1>2, <3>1, <3>2, Shrink
  <2>. QED
    BY <2>2, <2>3, <2>4, NextAddress DEF AddressCase
<1>. QED
  BY <1>3, <1>4 DEF CapInv, Unexpired

LEMMA InitCap == Init => CapInv
<1>. SUFFICES ASSUME Init
     PROVE  CapInv
  OBVIOUS
<1>1. Active \ past = {} /\ Creating = {} /\ recorded = {} /\ Guests = {}
  BY DEF Init, Active, Creating, Guests, NoCall
<1>2. Cardinality({}) = 0 /\ Cardinality(Proc) \in Nat
  BY InviteBounds, FS_EmptySet, FS_CardinalityType
<1>. QED
  BY <1>1, <1>2, InviteBounds DEF CapInv

(* However many requests of the owner and of guests run at the same time,  *)
(* and whatever they do between reading a count and adding to it, a cap is *)
(* exceeded by fewer than there are requests at work.                      *)
THEOREM OvershootIsBounded == Spec => []OvershootByConcurrency
<1>1. Shape /\ CapInv /\ [Next]_vars => Shape' /\ CapInv'
  BY NextShape, NextCap
<1>2. Shape /\ CapInv => OvershootByConcurrency
  <2>. SUFFICES ASSUME Shape, CapInv
       PROVE  OvershootByConcurrency
    OBVIOUS
  <2>1. /\ Active \ past \subseteq Invite /\ Creating \subseteq Proc
        /\ recorded \subseteq File /\ Guests \subseteq Proc
    BY DEF Shape, TypeOK, Active, Creating, Guests
  <2>2. /\ Cardinality(Active \ past) \in Nat /\ Cardinality(Creating) \in Nat
        /\ Cardinality(recorded) \in Nat /\ Cardinality(Guests) \in Nat
        /\ Cardinality(Proc) \in Nat
    BY <2>1, InviteBounds, FS_Subset, FS_CardinalityType
  <2>. QED
    BY <2>2, InviteBounds
    DEF CapInv, OvershootByConcurrency, CountActiveByOwner, CountUploadsByIPInWindow
<1>3. Spec => [](Shape /\ CapInv)
  BY <1>1, InitShape, InitCap, PTL DEF Spec
<1>. QED
  BY <1>2, <1>3, PTL

-----------------------------------------------------------------------------
(* Capacity and announcements.  Both invariants count sets of files and of *)
(* requests; first how the completions of an invite's files and the files  *)
(* they complete change with a step.                                       *)

Sized(A) == IsFiniteSet(A) /\ Cardinality(A) \in Nat

LEMMA SubsetCount ==
  ASSUME NEW A, NEW B, Sized(A), B \subseteq A
  PROVE  Sized(B) /\ Cardinality(B) <= Cardinality(A)
BY FS_Subset, FS_CardinalityType DEF Sized

LEMMA Sizes ==
  ASSUME NEW i
  PROVE  /\ Sized(Live(i)) /\ Sized(Accepted(i)) /\ Sized(Claimed(i)) /\ Sized(Open(i))
         /\ Sized(Held(i)) /\ Sized(Completing(i)) /\ Sized(Notifying(i))
         /\ Sized(Live(i)') /\ Sized(Accepted(i)') /\ Sized(Claimed(i)')
         /\ Sized(Open(i)') /\ Sized(Held(i)') /\ Sized(Completing(i)')
         /\ Sized(Notifying(i)')
<1>1. Sized(File) /\ Sized(Proc)
  BY InviteBounds, FS_CardinalityType DEF Sized
<1>2. /\ Live(i) \subseteq File /\ Accepted(i) \subseteq File
      /\ Claimed(i) \subseteq File /\ Open(i) \subseteq File
      /\ Held(i) \subseteq Proc /\ Completing(i) \subseteq Proc
      /\ Notifying(i) \subseteq Proc
  BY DEF Live, Accepted, Claimed, Open, Held, Completing, Notifying
<1>3. /\ Live(i)' \subseteq File /\ Accepted(i)' \subseteq File
      /\ Claimed(i)' \subseteq File /\ Open(i)' \subseteq File
      /\ Held(i)' \subseteq Proc /\ Completing(i)' \subseteq Proc
      /\ Notifying(i)' \subseteq Proc
  BY DEF Live, Accepted, Claimed, Open, Held, Completing, Notifying
<1>. QED
  BY <1>1, <1>2, <1>3, SubsetCount

LEMMA AddSize ==
  ASSUME NEW A, NEW B, NEW x, Sized(A), Sized(B), B \subseteq A \cup {x}
  PROVE  Cardinality(B) <= Cardinality(A) + 1
<1>1. Sized(A \cup {x}) /\ Cardinality(A \cup {x}) <= Cardinality(A) + 1
  BY AddCount DEF Sized
<1>2. Cardinality(B) <= Cardinality(A \cup {x})
  BY <1>1, SubsetCount
<1>. QED
  BY <1>1, <1>2 DEF Sized

LEMMA RemoveSize ==
  ASSUME NEW A, NEW B, NEW x, x \in A, Sized(A), Sized(B), B \subseteq A \ {x}
  PROVE  Cardinality(B) + 1 <= Cardinality(A)
<1>1. Sized(A \ {x}) /\ Cardinality(A \ {x}) = Cardinality(A) - 1
  BY RemoveCount DEF Sized
<1>2. Cardinality(B) <= Cardinality(A \ {x})
  BY <1>1, SubsetCount
<1>. QED
  BY <1>1, <1>2 DEF Sized

(* The completions of a file beyond the first do not get fewer files than  *)
(* requests, and change as the requests come, go and end the file.         *)
LEMMA ExcessType ==
  ASSUME NEW i
  PROVE  Excess(i) \in Int /\ Excess(i)' \in Int
BY Sizes DEF Excess, Sized

LEMMA ExcessStay ==
  ASSUME NEW i, Completing(i)' \subseteq Completing(i), Open(i) \subseteq Open(i)'
  PROVE  Excess(i)' <= Excess(i)
<1>1. /\ Cardinality(Completing(i)') <= Cardinality(Completing(i))
      /\ Cardinality(Open(i)) <= Cardinality(Open(i)')
  BY Sizes, SubsetCount
<1>. QED
  BY <1>1, Sizes DEF Excess, Sized

LEMMA ExcessLeave ==
  ASSUME NEW i, NEW p \in Completing(i), NEW f,
         Completing(i)' \subseteq Completing(i) \ {p}, Open(i) \subseteq Open(i)' \cup {f}
  PROVE  Excess(i)' <= Excess(i)
<1>1. Cardinality(Completing(i)') + 1 <= Cardinality(Completing(i))
  BY Sizes, RemoveSize
<1>2. Cardinality(Open(i)) <= Cardinality(Open(i)') + 1
  BY Sizes, AddSize
<1>. QED
  BY <1>1, <1>2, Sizes DEF Excess, Sized

LEMMA ExcessLate ==
  ASSUME NEW i, NEW p \in Completing(i),
         Completing(i)' \subseteq Completing(i) \ {p}, Open(i) \subseteq Open(i)'
  PROVE  Excess(i)' + 1 <= Excess(i)
<1>1. Cardinality(Completing(i)') + 1 <= Cardinality(Completing(i))
  BY Sizes, RemoveSize
<1>2. Cardinality(Open(i)) <= Cardinality(Open(i)')
  BY Sizes, SubsetCount
<1>. QED
  BY <1>1, <1>2, Sizes DEF Excess, Sized

LEMMA ExcessEnd ==
  ASSUME NEW i, NEW f,
         Completing(i)' \subseteq Completing(i), Open(i) \subseteq Open(i)' \cup {f}
  PROVE  Excess(i)' <= Excess(i) + 1
<1>1. Cardinality(Completing(i)') <= Cardinality(Completing(i))
  BY Sizes, SubsetCount
<1>2. Cardinality(Open(i)) <= Cardinality(Open(i)') + 1
  BY Sizes, AddSize
<1>. QED
  BY <1>1, <1>2, Sizes DEF Excess, Sized

LEMMA ExcessJoin ==
  ASSUME NEW i, NEW p,
         Completing(i)' \subseteq Completing(i) \cup {p}, Open(i) \subseteq Open(i)'
  PROVE  Excess(i)' <= Excess(i) + 1
<1>1. Cardinality(Completing(i)') <= Cardinality(Completing(i)) + 1
  BY Sizes, AddSize
<1>2. Cardinality(Open(i)) <= Cardinality(Open(i)')
  BY Sizes, SubsetCount
<1>. QED
  BY <1>1, <1>2, Sizes DEF Excess, Sized

LEMMA ExcessFirst ==
  ASSUME NEW i, NEW p, NEW f \in Open(i)',
         Completing(i)' \subseteq Completing(i) \cup {p}, Open(i) \subseteq Open(i)' \ {f}
  PROVE  Excess(i)' <= Excess(i)
<1>1. Cardinality(Completing(i)') <= Cardinality(Completing(i)) + 1
  BY Sizes, AddSize
<1>2. Cardinality(Open(i)) + 1 <= Cardinality(Open(i)')
  BY Sizes, RemoveSize
<1>. QED
  BY <1>1, <1>2, Sizes DEF Excess, Sized

LEMMA ExcessNat ==
  ASSUME Shape, NEW i \in Invite
  PROVE  0 <= Excess(i)
<1>1. \A p \in Proc : Completes(p) => file[at[p].f].i = at[p].i
  BY DEF Shape, CallOK, CallAt, Completes, NoCall, GuestPC, CompletePC
<1>2. \A f \in Open(i) : \E p \in Completing(i) : at[p].f = f
  BY <1>1 DEF Open, Completing
<1>. DEFINE U == Open(i)
            g == [p \in Completing(i) |->
                    IF at[p].f \in U THEN at[p].f ELSE CHOOSE f \in U : TRUE]
<1>3. CASE U = {}
  BY <1>3, Sizes, FS_EmptySet DEF Excess, Sized
<1>4. CASE U # {}
  <2>1. g \in Surjection(Completing(i), U)
    <3>1. (CHOOSE f \in U : TRUE) \in U
      BY <1>4
    <3>2. g \in [Completing(i) -> U]
      BY <3>1
    <3>3. \A f \in U : \E p \in Completing(i) : g[p] = f
      BY <1>2
    <3>. QED
      BY <3>2, <3>3 DEF Surjection
  <2>2. IsFiniteSet(Completing(i))
    BY Sizes DEF Sized
  <2>3. Cardinality(U) <= Cardinality(Completing(i))
    <3>. HIDE DEF g, U
    <3>. QED
      BY <2>1, <2>2, FS_Surjection
  <2>. QED
    BY <2>3, Sizes DEF Excess, Sized
<1>. QED
  BY <1>3, <1>4

(* Steps that leave the completions alone.                                 *)
Quiet == \A i \in Invite : Completing(i)' = Completing(i) /\ Open(i)' = Open(i)

LEMMA StepQuiet ==
  ASSUME Shape,
         \/ pc' = pc /\ at' = at
         \/ \E p \in Proc : Moves(p) /\ ~Completes(p) /\ ~Completes(p)',
         \A f \in recorded :
            /\ file'[f].i = file[f].i
            /\ file'[f].status = "UPLOADING" <=> file[f].status = "UPLOADING"
  PROVE  Quiet
<1>. DEFINE same(q) == pc'[q] = pc[q] /\ at'[q] = at[q]
<1>0. \A q \in Proc : same(q) \/ (~Completes(q) /\ ~Completes(q)')
  BY DEF Moves
<1>1. \A q \in Proc : Completes(q) => at[q].f \in recorded /\ at[q].f \in File
  BY DEF Shape, TypeOK, CallOK, CallAt, Completes, NoCall, GuestPC, CompletePC
<1>2. ASSUME NEW q \in Proc
      PROVE  Completes(q)' <=> Completes(q)
  <2>1. CASE same(q)
    BY <1>1, <2>1 DEF Completes, Shape, CallOK, CallAt, NoCall, GuestPC, CompletePC
  <2>. QED
    BY <1>0, <2>1
<1>3. \A q \in Proc : Completes(q) => at'[q] = at[q]
  BY <1>0
<1>4. ASSUME NEW i \in Invite
      PROVE  Completing(i)' = Completing(i)
  BY <1>2, <1>3 DEF Completing
<1>5. ASSUME NEW i \in Invite
      PROVE  Open(i)' = Open(i)
  <2>1. ASSUME NEW f \in File
        PROVE  f \in Open(i)' <=> f \in Open(i)
    <3>1. (\E q \in Proc : at'[q].f = f /\ Completes(q)')
             <=> (\E q \in Proc : at[q].f = f /\ Completes(q))
      BY <1>2, <1>3
    <3>2. CASE f \in recorded
      BY <3>1, <3>2 DEF Open
    <3>3. CASE f \notin recorded
      BY <1>1, <3>1, <3>3 DEF Open
    <3>. QED
      BY <3>2, <3>3
  <2>. QED
    BY <2>1 DEF Open
<1>. QED
  BY <1>4, <1>5 DEF Quiet

LEMMA NextQuiet ==
  ASSUME Shape, [Next]_vars
  PROVE  \/ Quiet
         \/ \E p \in Proc :
              \/ \E f \in File : CompleteRead(p, f)
              \/ CompleteFile(p) \/ Discard(p) \/ Commit(p)
         \/ (\E f \in File : CleanupClaim(f)) \/ Crash
<1>. USE DEF Shape, TypeOK, notice, job
<1>1. ASSUME NEW p \in Proc, NEW i \in Invite, CreateCount(p, i)
      PROVE  Quiet
  <2>1. /\ Moves(p)
        /\ {pc[p], pc'[p]} \cap {"finish", "discard", "commit"} = {}
    BY <1>1 DEF CreateCount, Go, Is, Moves
  <2>2. ~Completes(p) /\ ~Completes(p)'
    BY <2>1 DEF Completes
  <2>3. file' = file
    BY <1>1 DEF CreateCount
  <2>. QED
    BY <2>1, <2>2, <2>3, StepQuiet
<1>2. ASSUME NEW p \in Proc, NEW i \in Invite, RevokeRead(p, i)
      PROVE  Quiet
  <2>1. /\ Moves(p)
        /\ {pc[p], pc'[p]} \cap {"finish", "discard", "commit"} = {}
    BY <1>2 DEF RevokeRead, Go, Is, Moves
  <2>2. ~Completes(p) /\ ~Completes(p)'
    BY <2>1 DEF Completes
  <2>3. file' = file
    BY <1>2 DEF RevokeRead
  <2>. QED
    BY <2>1, <2>2, <2>3, StepQuiet
<1>3. ASSUME NEW p \in Proc, NEW i \in Invite, SeesExpired(p, i)
      PROVE  Quiet
  <2>1. /\ Moves(p)
        /\ {pc[p], pc'[p]} \cap {"finish", "discard", "commit"} = {}
    BY <1>3 DEF SeesExpired, Go, Is, Moves
  <2>2. ~Completes(p) /\ ~Completes(p)'
    BY <2>1 DEF Completes
  <2>3. file' = file
    BY <1>3 DEF SeesExpired
  <2>. QED
    BY <2>1, <2>2, <2>3, StepQuiet
<1>4. ASSUME NEW p \in Proc, NEW i \in Invite, NEW f \in File, GuestRead(p, i, f)
      PROVE  Quiet
  <2>1. /\ Moves(p)
        /\ {pc[p], pc'[p]} \cap {"finish", "discard", "commit"} = {}
    BY <1>4 DEF GuestRead, Go, Is, Moves
  <2>2. ~Completes(p) /\ ~Completes(p)'
    BY <2>1 DEF Completes
  <2>3. file' = file
    BY <1>4 DEF GuestRead
  <2>. QED
    BY <2>1, <2>2, <2>3, StepQuiet
<1>5. ASSUME NEW p \in Proc, EnsureFolder(p)
      PROVE  Quiet
  <2>1. /\ Moves(p)
        /\ {pc[p], pc'[p]} \cap {"finish", "discard", "commit"} = {}
    BY <1>5 DEF EnsureFolder, Step, Done, Go, Is, Moves
  <2>2. ~Completes(p) /\ ~Completes(p)'
    BY <2>1 DEF Completes
  <2>3. file' = file
    BY <1>5 DEF EnsureFolder
  <2>. QED
    BY <2>1, <2>2, <2>3, StepQuiet
<1>6. ASSUME NEW p \in Proc, CreateInsert(p)
      PROVE  Quiet
  <2>1. /\ Moves(p)
        /\ {pc[p], pc'[p]} \cap {"finish", "discard", "commit"} = {}
    BY <1>6 DEF CreateInsert, Done, Go, Is, Moves
  <2>2. ~Completes(p) /\ ~Completes(p)'
    BY <2>1 DEF Completes
  <2>3. file' = file
    BY <1>6 DEF CreateInsert
  <2>. QED
    BY <2>1, <2>2, <2>3, StepQuiet
<1>7. ASSUME NEW p \in Proc, RevokeWrite(p)
      PROVE  Quiet
  <2>1. /\ Moves(p)
        /\ {pc[p], pc'[p]} \cap {"finish", "discard", "commit"} = {}
    BY <1>7 DEF RevokeWrite, Done, Go, Is, Moves
  <2>2. ~Completes(p) /\ ~Completes(p)'
    BY <2>1 DEF Completes
  <2>3. file' = file
    BY <1>7 DEF RevokeWrite
  <2>. QED
    BY <2>1, <2>2, <2>3, StepQuiet
<1>8. ASSUME NEW p \in Proc, WriteExpired(p)
      PROVE  Quiet
  <2>1. /\ Moves(p)
        /\ {pc[p], pc'[p]} \cap {"finish", "discard", "commit"} = {}
    BY <1>8 DEF WriteExpired, Done, Go, Is, Moves
  <2>2. ~Completes(p) /\ ~Completes(p)'
    BY <2>1 DEF Completes
  <2>3. file' = file
    BY <1>8 DEF WriteExpired
  <2>. QED
    BY <2>1, <2>2, <2>3, StepQuiet
<1>9. ASSUME NEW p \in Proc, GuestReserve(p)
      PROVE  Quiet
  <2>1. /\ Moves(p)
        /\ {pc[p], pc'[p]} \cap {"finish", "discard", "commit"} = {}
    BY <1>9 DEF GuestReserve, Step, Done, Go, Is, Moves
  <2>2. ~Completes(p) /\ ~Completes(p)'
    BY <2>1 DEF Completes
  <2>3. file' = file
    BY <1>9 DEF GuestReserve
  <2>. QED
    BY <2>1, <2>2, <2>3, StepQuiet
<1>10. ASSUME NEW p \in Proc, GuestQuota(p)
      PROVE  Quiet
  <2>1. /\ Moves(p)
        /\ {pc[p], pc'[p]} \cap {"finish", "discard", "commit"} = {}
    BY <1>10 DEF GuestQuota, Step, Go, Is, Moves
  <2>2. ~Completes(p) /\ ~Completes(p)'
    BY <2>1 DEF Completes
  <2>3. file' = file
    BY <1>10 DEF GuestQuota
  <2>. QED
    BY <2>1, <2>2, <2>3, StepQuiet
<1>11. ASSUME NEW p \in Proc, GuestCreate(p)
      PROVE  Quiet
  <2>1. /\ Moves(p)
        /\ {pc[p], pc'[p]} \cap {"finish", "discard", "commit"} = {}
    BY <1>11 DEF GuestCreate, Step, Go, Is, Moves
  <2>2. ~Completes(p) /\ ~Completes(p)'
    BY <2>1 DEF Completes
  <2>3. at[p].f \in File /\ at[p].f \notin recorded
    BY <1>11 DEF GuestCreate, Is, CallOK, CallAt, NoCall, CompletePC, GuestOK, GuestAt
  <2>4. \A f \in recorded : file'[f] = file[f]
    BY <1>11, <2>3 DEF GuestCreate
  <2>. QED
    BY <2>1, <2>2, <2>4, StepQuiet
<1>12. ASSUME NEW p \in Proc, GuestRecord(p)
      PROVE  Quiet
  <2>1. /\ Moves(p)
        /\ {pc[p], pc'[p]} \cap {"finish", "discard", "commit"} = {}
    BY <1>12 DEF GuestRecord, Step, Done, Go, Is, Moves
  <2>2. ~Completes(p) /\ ~Completes(p)'
    BY <2>1 DEF Completes
  <2>3. file' = file
    BY <1>12 DEF GuestRecord
  <2>. QED
    BY <2>1, <2>2, <2>3, StepQuiet
<1>13. ASSUME NEW p \in Proc, GuestUnrecord(p)
      PROVE  Quiet
  <2>1. /\ Moves(p)
        /\ {pc[p], pc'[p]} \cap {"finish", "discard", "commit"} = {}
    BY <1>13 DEF GuestUnrecord, Step, Go, Is, Moves
  <2>2. ~Completes(p) /\ ~Completes(p)'
    BY <2>1 DEF Completes
  <2>3. file' = file
    BY <1>13 DEF GuestUnrecord
  <2>. QED
    BY <2>1, <2>2, <2>3, StepQuiet
<1>14. ASSUME NEW p \in Proc, GuestFailNew(p)
      PROVE  Quiet
  <2>1. /\ Moves(p)
        /\ {pc[p], pc'[p]} \cap {"finish", "discard", "commit"} = {}
    BY <1>14 DEF GuestFailNew, Done, Go, Is, Moves
  <2>2. ~Completes(p) /\ ~Completes(p)'
    BY <2>1 DEF Completes
  <2>3. at[p].f \in File /\ at[p].f \notin recorded
    BY <1>14 DEF GuestFailNew, Is, CallOK, CallAt, NoCall, CompletePC, GuestOK, GuestAt
  <2>4. file' = file \/ file' = [file EXCEPT ![at[p].f].status = "FAILED"]
    BY <1>14 DEF GuestFailNew
  <2>5. \A f \in recorded : file'[f] = file[f]
    BY <2>3, <2>4
  <2>. QED
    BY <2>1, <2>2, <2>5, StepQuiet
<1>15. ASSUME NEW p \in Proc, Release(p)
      PROVE  Quiet
  <2>1. /\ Moves(p)
        /\ {pc[p], pc'[p]} \cap {"finish", "discard", "commit"} = {}
    BY <1>15 DEF Release, Done, Go, Is, Moves
  <2>2. ~Completes(p) /\ ~Completes(p)'
    BY <2>1 DEF Completes
  <2>3. file' = file
    BY <1>15 DEF Release
  <2>. QED
    BY <2>1, <2>2, <2>3, StepQuiet
<1>16. ASSUME NEW p \in Proc, Notify(p)
      PROVE  Quiet
  <2>1. /\ Moves(p)
        /\ {pc[p], pc'[p]} \cap {"finish", "discard", "commit"} = {}
    BY <1>16 DEF Notify, Done, Go, Is, Moves
  <2>2. ~Completes(p) /\ ~Completes(p)'
    BY <2>1 DEF Completes
  <2>3. file' = file
    BY <1>16 DEF Notify
  <2>. QED
    BY <2>1, <2>2, <2>3, StepQuiet
<1>17. ASSUME NEW i \in Invite, TimerFires(i)
      PROVE  Quiet
  BY <1>17, StepQuiet DEF TimerFires
<1>18. ASSUME NEW i \in Invite, Send(i)
      PROVE  Quiet
  BY <1>18, StepQuiet DEF Send
<1>19. ASSUME NEW S \in SUBSET Invite, SchedulerFlush(S)
      PROVE  Quiet
  BY <1>19, StepQuiet DEF SchedulerFlush
<1>20. ASSUME ExpireStaleInvites
      PROVE  Quiet
  BY <1>20, StepQuiet DEF ExpireStaleInvites
<1>21. ASSUME NEW S \in SUBSET File, CleanupList(S)
      PROVE  Quiet
  BY <1>21, StepQuiet DEF CleanupList
<1>22. ASSUME CleanupRelease
      PROVE  Quiet
  BY <1>22, StepQuiet DEF CleanupRelease
<1>23. ASSUME NEW i \in Invite, PassExpiry(i)
      PROVE  Quiet
  BY <1>23, StepQuiet DEF PassExpiry
<1>24. ASSUME NEW f \in File, Scanned(f)
      PROVE  Quiet
  <2>1. \A x \in File :
          /\ file'[x].i = file[x].i
          /\ file'[x].status = "UPLOADING" <=> file[x].status = "UPLOADING"
    BY <1>24 DEF Scanned, FileStatus
  <2>. QED
    BY <1>24, <2>1, StepQuiet DEF Scanned
<1>25. CASE UNCHANGED vars
  BY <1>25, StepQuiet DEF vars
<1>. QED
  BY <1>1, <1>2, <1>3, <1>4, <1>5, <1>6, <1>7, <1>8, <1>9, <1>10, <1>11,
     <1>12, <1>13, <1>14, <1>15, <1>16, <1>17, <1>18, <1>19, <1>20, <1>21,
     <1>22, <1>23, <1>24, <1>25
  DEF Next, OwnerRequest, GuestReads, GuestRequest, Continue, Environment,
      Cleanup

(* A completion joins the others of its file, and counts as an overlap     *)
(* unless it is the only one.                                              *)
LEMMA ReadExcess ==
  ASSUME Shape, NEW p \in Proc, NEW f \in File, CompleteRead(p, f), NEW i \in Invite
  PROVE  Excess(i)' + overlaps <= Excess(i) + overlaps'
<1>. USE DEF Completes
<1>1. /\ pc[p] = "idle" /\ f \in recorded /\ file' = file
      /\ pc'[p] = "finish" /\ at'[p].f = f /\ at'[p].op = "none" /\ at'[p].i = file[f].i
      /\ \A q \in Proc \ {p} : pc'[q] = pc[q] /\ at'[q] = at[q]
  BY DEF CompleteRead, Is, Go, NoCall, FindByFileID, Shape, TypeOK
<1>2. Open(i) \subseteq Open(i)' /\ Completing(i)' \subseteq Completing(i) \cup {p}
  BY <1>1 DEF Open, Completing
<1>3. overlaps \in Int
  BY InviteBounds, FS_CardinalityType DEF Shape, TypeOK
<1>4. CASE overlaps' = overlaps + 1
  <2>1. Excess(i)' <= Excess(i) + 1
    BY <1>2, ExcessJoin
  <2>. QED
    BY <1>3, <1>4, <2>1, ExcessType
<1>5. CASE file[f].status # "UPLOADING" \/ file[f].i # i
  <2>1. Completing(i)' \subseteq Completing(i)
    BY <1>1, <1>5 DEF Completing
  <2>2. overlaps' = overlaps \/ overlaps' = overlaps + 1
    BY DEF CompleteRead, Beside
  <2>. QED
    BY <1>2, <1>3, <2>1, <2>2, ExcessStay, ExcessType
<1>6. CASE ~Finishing(f) /\ file[f].status = "UPLOADING" /\ file[f].i = i
  <2>1. f \in Open(i)'
    BY <1>1, <1>6 DEF Open
  <2>2. f \notin Open(i)
    BY <1>6 DEF Open, Finishing
  <2>3. Open(i) \subseteq Open(i)' \ {f}
    BY <1>2, <2>2
  <2>4. overlaps' = overlaps
    BY <1>6 DEF CompleteRead, Beside
  <2>5. Excess(i)' <= Excess(i)
    BY <1>2, <2>1, <2>3, ExcessFirst
  <2>. QED
    BY <1>3, <2>4, <2>5, ExcessType
<1>. QED
  BY <1>4, <1>5, <1>6 DEF CompleteRead, Beside

LEMMA FileExcess ==
  ASSUME Shape, NEW p \in Proc, CompleteFile(p), NEW i \in Invite
  PROVE  Excess(i)' <= Excess(i)
<1>. USE DEF Completes
<1>1. /\ pc[p] = "finish" /\ file' = file
      /\ \A q \in Proc \ {p} : pc'[q] = pc[q] /\ at'[q] = at[q]
  BY DEF CompleteFile, Is, Go, Done, Shape, TypeOK
<1>2. CASE Done(p)
  <2>1. Completing(i)' \subseteq Completing(i) \ {p}
    BY <1>1, <1>2 DEF Done, Go, NoCall, Completing, Shape, TypeOK
  <2>2. Open(i) \subseteq Open(i)' \cup {at[p].f}
    BY <1>1 DEF Open
  <2>3. CASE p \in Completing(i)
    BY <2>1, <2>2, <2>3, ExcessLeave
  <2>4. CASE p \notin Completing(i)
    <3>1. Open(i) \subseteq Open(i)'
      <4>1. Completes(p) => file[at[p].f].i = at[p].i
        BY <1>1 DEF Shape, CallOK, CallAt, GuestPC, NoCall
      <4>2. \A f \in Open(i) : \E q \in Proc \ {p} : at[q].f = f /\ Completes(q)
        BY <2>4, <4>1 DEF Open, Completing
      <4>. QED
        BY <1>1, <4>2 DEF Open
    <3>. QED
      BY <2>1, <3>1, ExcessStay
  <2>. QED
    BY <2>3, <2>4
<1>3. CASE /\ pc'[p] \in {"commit", "discard"} /\ file[at[p].f].status = "UPLOADING"
           /\ at'[p] = [at[p] EXCEPT !.seen = "none"]
  <2>1. at'[p].i = at[p].i /\ at'[p].f = at[p].f /\ at'[p].op = at[p].op
    BY <1>3 DEF Shape, TypeOK
  <2>2. at[p].op = "none"
    BY <1>1 DEF Shape, CallOK, CallAt, GuestPC, NoCall
  <2>3. \A q \in Proc : Completes(q)' <=> Completes(q)
    BY <1>1, <1>3, <2>1, <2>2
  <2>4. \A q \in Proc : at'[q].i = at[q].i /\ at'[q].f = at[q].f
    BY <1>1, <2>1
  <2>5. Completing(i)' \subseteq Completing(i) /\ Open(i) \subseteq Open(i)'
    BY <1>1, <2>3, <2>4 DEF Completing, Open
  <2>. QED
    BY <2>5, ExcessStay
<1>4. \/ Done(p)
      \/ /\ file[at[p].f].status = "UPLOADING"
         /\ \/ Go(p, "discard", [at[p] EXCEPT !.seen = "none"])
            \/ \E l \in {"commit", "discard"} :
                 Go(p, l, [at[p] EXCEPT !.seen = "none"])
  BY DEF CompleteFile
<1>. QED
  BY <1>2, <1>3, <1>4 DEF Go, Shape, TypeOK

(* A completion that has been decided leaves; late, when the file had      *)
(* ended already, it was one too many.                                     *)
LEMMA LeaveExcess ==
  ASSUME Shape, NEW p \in Proc, NEW s \in FileStatus \ {"UPLOADING"},
         pc[p] \in {"discard", "commit"}, pc'[p] \in {"release", "notify"}, Moves(p),
         file' = file \/ file' = [file EXCEPT ![at[p].f].status = s],
         NEW i \in Invite
  PROVE  /\ Excess(i)' <= Excess(i)
         /\ file[at[p].f].status # "UPLOADING" /\ i = at[p].i =>
              Excess(i)' + 1 <= Excess(i)
<1>. USE DEF Completes
<1>1. /\ at[p].op = "none" /\ at[p].f \in File /\ file[at[p].f].i = at[p].i
  BY DEF Shape, TypeOK, CallOK, CallAt, NoCall, GuestPC, CompletePC
<1>2. /\ \A g \in File : file'[g].i = file[g].i
      /\ \A g \in File \ {at[p].f} : file'[g].status = file[g].status
      /\ file'[at[p].f].status \in {s, file[at[p].f].status}
  BY <1>1, FileWrite
<1>3. \A q \in Proc \ {p} : pc'[q] = pc[q] /\ at'[q] = at[q]
  BY DEF Moves
<1>4. \A q \in Proc : Completes(q) => at[q].f \in File /\ file[at[q].f].i = at[q].i
  BY DEF Shape, TypeOK, CallOK, CallAt, NoCall, GuestPC, CompletePC
<1>5. ASSUME NEW q \in Proc, Completes(q)'
      PROVE  q # p /\ Completes(q)
  <2>1. q # p
    BY <1>5
  <2>2. at[q].f \in File
    BY <1>3, <1>5, <2>1 DEF Shape, TypeOK, CallOK, CallAt, NoCall, GuestPC, CompletePC
  <2>. QED
    BY <1>2, <1>3, <1>5, <2>1, <2>2
<1>6. Completing(i)' \subseteq Completing(i) \ {p}
  BY <1>3, <1>5 DEF Completing
<1>7. \A g \in Open(i) : g # at[p].f => g \in Open(i)'
  <2>. SUFFICES ASSUME NEW g \in File, g \in Open(i), g # at[p].f
       PROVE  g \in Open(i)'
    BY DEF Open
  <2>1. PICK q \in Proc : at[q].f = g /\ Completes(q)
    BY DEF Open
  <2>2. q # p /\ file'[g].status = "UPLOADING" /\ file'[g].i = i
    BY <1>2, <2>1 DEF Open
  <2>3. at'[q].f = g /\ Completes(q)'
    BY <1>3, <2>1, <2>2
  <2>. QED
    BY <2>2, <2>3 DEF Open
<1>8. CASE i = at[p].i
  <2>1. p \in Completing(i)
    BY <1>1, <1>8 DEF Completing
  <2>2. Open(i) \subseteq Open(i)' \cup {at[p].f}
    BY <1>7
  <2>3. Excess(i)' <= Excess(i)
    BY <1>6, <2>1, <2>2, ExcessLeave
  <2>4. ASSUME file[at[p].f].status # "UPLOADING"
        PROVE  Excess(i)' + 1 <= Excess(i)
    <3>1. Open(i) \subseteq Open(i)'
      BY <1>7, <2>4 DEF Open
    <3>. QED
      BY <1>6, <2>1, <3>1, ExcessLate
  <2>. QED
    BY <2>3, <2>4
<1>9. CASE i # at[p].i
  <2>1. Open(i) \subseteq Open(i)'
    BY <1>1, <1>7, <1>9 DEF Open
  <2>2. Completing(i)' \subseteq Completing(i)
    BY <1>6
  <2>3. Excess(i)' <= Excess(i)
    BY <2>1, <2>2, ExcessStay
  <2>. QED
    BY <1>9, <2>3
<1>. QED
  BY <1>8, <1>9

LEMMA ClaimExcess ==
  ASSUME Shape, NEW f \in File, CleanupClaim(f), NEW i \in Invite
  PROVE  Excess(i)' + overlaps <= Excess(i) + overlaps'
<1>. USE DEF Completes
<1>1. overlaps \in Int /\ pc' = pc /\ at' = at
  BY InviteBounds, FS_CardinalityType DEF Shape, TypeOK, CleanupClaim
<1>2. /\ \A g \in File : file'[g].i = file[g].i
      /\ \A g \in File \ {f} : file'[g].status = file[g].status
      /\ file'[f].status # "UPLOADING"
  BY DEF CleanupClaim, Shape, TypeOK
<1>3. \A q \in Proc : Completes(q) => at[q].f \in File /\ at[q].op = "none"
  BY DEF Shape, TypeOK, CallOK, CallAt, NoCall, GuestPC, CompletePC
<1>4. ASSUME NEW q \in Proc, Completes(q)'
      PROVE  Completes(q)
  <2>1. at[q].f \in File
    BY <1>1, <1>4 DEF Shape, TypeOK, CallOK, CallAt, NoCall, GuestPC, CompletePC
  <2>. QED
    BY <1>1, <1>2, <1>4, <2>1
<1>5. Completing(i)' \subseteq Completing(i)
  BY <1>1, <1>4 DEF Completing
<1>6. \A g \in Open(i) : g # f => g \in Open(i)'
  <2>. SUFFICES ASSUME NEW g \in File, g \in Open(i), g # f
       PROVE  g \in Open(i)'
    BY DEF Open
  <2>1. PICK q \in Proc : at[q].f = g /\ Completes(q)
    BY DEF Open
  <2>2. file'[g].status = "UPLOADING" /\ file'[g].i = i
    BY <1>2 DEF Open
  <2>3. at'[q].f = g /\ Completes(q)'
    BY <1>1, <2>1, <2>2
  <2>. QED
    BY <2>2, <2>3 DEF Open
<1>7. CASE overlaps' = overlaps + 1
  <2>1. Open(i) \subseteq Open(i)' \cup {f}
    BY <1>6
  <2>2. Excess(i)' <= Excess(i) + 1
    BY <1>5, <2>1, ExcessEnd
  <2>. QED
    BY <1>1, <1>7, <2>2, ExcessType
<1>8. CASE f \notin Open(i)
  <2>1. Open(i) \subseteq Open(i)'
    BY <1>6, <1>8
  <2>2. Excess(i)' <= Excess(i)
    BY <1>5, <2>1, ExcessStay
  <2>3. overlaps' \in {overlaps, overlaps + 1}
    BY DEF CleanupClaim, Beside
  <2>. QED
    BY <1>1, <2>2, <2>3, ExcessType
<1>9. CASE f \in Open(i)
  <2>1. Finishing(f) /\ file[f].status = "UPLOADING"
    BY <1>3, <1>9 DEF Open, Finishing
  <2>. QED
    BY <1>7, <2>1 DEF CleanupClaim, Beside
<1>. QED
  BY <1>8, <1>9

(* No step lets more completions run beside others than it counts.         *)
LEMMA NextExcess ==
  ASSUME Shape, [Next]_vars, NEW i \in Invite
  PROVE  Excess(i)' + overlaps <= Excess(i) + overlaps'
<1>1. overlaps \in Int /\ overlaps' \in {overlaps, overlaps + 1}
  <2>1. overlaps \in Int
    BY InviteBounds, FS_CardinalityType DEF Shape, TypeOK
  <2>2. ASSUME NEW f \in File, Beside(f)
        PROVE  overlaps' \in {overlaps, overlaps + 1}
    BY <2>2 DEF Beside
  <2>. QED
    BY <2>1, <2>2, WhoOverlaps DEF CompleteRead, CleanupClaim
<1>2. CASE Excess(i)' <= Excess(i)
  BY <1>1, <1>2, ExcessType
<1>3. CASE Quiet
  BY <1>2, <1>3, ExcessStay DEF Quiet
<1>4. ASSUME NEW p \in Proc, NEW f \in File, CompleteRead(p, f)
      PROVE  Excess(i)' + overlaps <= Excess(i) + overlaps'
  BY <1>4, ReadExcess
<1>5. ASSUME NEW p \in Proc, CompleteFile(p)
      PROVE  Excess(i)' + overlaps <= Excess(i) + overlaps'
  BY <1>2, <1>5, FileExcess
<1>6. ASSUME NEW p \in Proc, Discard(p) \/ Commit(p)
      PROVE  Excess(i)' + overlaps <= Excess(i) + overlaps'
  <2>1. /\ pc[p] \in {"discard", "commit"} /\ pc'[p] \in {"release", "notify"} /\ Moves(p)
        /\ \E s \in {"FAILED", "PENDING_SCAN"} :
             file' = file \/ file' = [file EXCEPT ![at[p].f].status = s]
    BY <1>6 DEF Discard, Commit, Step, Go, Is, Moves, Shape, TypeOK
  <2>2. {"FAILED", "PENDING_SCAN"} \subseteq FileStatus \ {"UPLOADING"}
    BY DEF FileStatus
  <2>3. Excess(i)' <= Excess(i)
    BY <2>1, <2>2, LeaveExcess
  <2>. QED
    BY <1>2, <2>3
<1>7. ASSUME NEW f \in File, CleanupClaim(f)
      PROVE  Excess(i)' + overlaps <= Excess(i) + overlaps'
  BY <1>7, ClaimExcess
<1>8. CASE Crash
  <2>1. Completing(i)' = {} /\ Cardinality({}) = 0
    BY <1>8, FS_EmptySet DEF Crash, Completing, Completes
  <2>2. Excess(i)' <= Excess(i)
    BY <2>1, ExcessNat, ExcessType, Sizes DEF Excess, Sized
  <2>. QED
    BY <1>2, <2>2
<1>. QED
  BY <1>3, <1>4, <1>5, <1>6, <1>7, <1>8, NextQuiet

(* The capacity in use.  Most steps take nothing away from what covers the *)
(* files (Calm); of the others each is balanced.                           *)
Calm(i) ==
  /\ Live(i)' \subseteq Live(i) /\ Held(i)' \subseteq Held(i)
  /\ Claimed(i)' \subseteq Claimed(i)
  /\ invite[i].files <= invite'[i].files /\ faults <= faults'

Balanced(i) ==
  Cardinality(Live(i)') + Cardinality(Held(i)') + Cardinality(Claimed(i)')
      + Excess(i)' + invite[i].files + faults + overlaps
    <= Cardinality(Live(i)) + Cardinality(Held(i)) + Cardinality(Claimed(i))
         + Excess(i) + invite'[i].files + faults' + overlaps'

LEMMA Numbers ==
  ASSUME Shape, Shape', NEW i \in Invite
  PROVE  /\ {invite[i].files, invite[i].pending, faults, overlaps} \subseteq Nat
         /\ {invite'[i].files, invite'[i].pending, faults', overlaps'} \subseteq Nat
         /\ {told[i], flying[i], told'[i], flying'[i]} \subseteq Nat
<1>1. Cardinality(File) \in Nat
  BY InviteBounds, FS_CardinalityType
<1>2. invite[i] \in InviteRow /\ invite'[i] \in InviteRow
  BY DEF Shape, TypeOK, InviteRow
<1>3. {invite[i].files, invite[i].pending, invite'[i].files, invite'[i].pending} \subseteq Nat
  BY <1>2, InviteBounds DEF InviteRow
<1>4. {faults, overlaps, faults', overlaps'} \subseteq Nat
  BY <1>1, InviteBounds DEF Shape, TypeOK
<1>5. {told[i], flying[i], told'[i], flying'[i]} \subseteq Nat
  BY DEF Shape, TypeOK
<1>. QED
  BY <1>3, <1>4, <1>5

LEMMA BalancedCapacity ==
  ASSUME Shape, Shape', NEW i \in Invite, CapacityAt(i), Balanced(i)
  PROVE  CapacityAt(i)'
<1>1. CapacityAt(i)' <=>
        Cardinality(Live(i)') + Cardinality(Held(i)') + Cardinality(Claimed(i)')
           + Excess(i)' <= invite'[i].files + faults' + overlaps'
  BY DEF CapacityAt
<1>. QED
  BY <1>1, Numbers, Sizes, ExcessType DEF CapacityAt, Balanced, Sized

LEMMA CalmBalanced ==
  ASSUME Shape, Shape', NEW i \in Invite, Calm(i),
         Excess(i)' + overlaps <= Excess(i) + overlaps'
  PROVE  Balanced(i)
<1>1. /\ Cardinality(Live(i)') <= Cardinality(Live(i))
      /\ Cardinality(Held(i)') <= Cardinality(Held(i))
      /\ Cardinality(Claimed(i)') <= Cardinality(Claimed(i))
  BY Sizes, SubsetCount DEF Calm
<1>. QED
  BY <1>1, Numbers, Sizes, ExcessType DEF Balanced, Calm, Sized

LEMMA NextCalm ==
  ASSUME Shape, [Next]_vars
  PROVE  \/ \A i \in Invite : Calm(i)
         \/ \E p \in Proc :
              \/ CreateInsert(p) \/ GuestReserve(p) \/ GuestCreate(p)
              \/ GuestRecord(p) \/ GuestUnrecord(p) \/ Release(p)
              \/ Discard(p) \/ Commit(p)
         \/ (\E f \in File : CleanupClaim(f)) \/ CleanupRelease
<1>. USE InviteBounds DEF Shape, TypeOK, InviteStatus, FileStatus, PC, NoCall,
                          Calm, Live, Held, Claimed, notice, job
<1>1. ASSUME NEW p \in Proc, NEW i \in Invite, CreateCount(p, i)
      PROVE  \A j \in Invite : Calm(j)
  BY <1>1 DEF CreateCount, Go, Is
<1>2. ASSUME NEW p \in Proc, NEW i \in Invite, RevokeRead(p, i)
      PROVE  \A j \in Invite : Calm(j)
  BY <1>2 DEF RevokeRead, Go, Is, FindByID
<1>3. ASSUME NEW p \in Proc, NEW i \in Invite, SeesExpired(p, i)
      PROVE  \A j \in Invite : Calm(j)
  BY <1>3 DEF SeesExpired, Go, Is, FindByToken
<1>4. ASSUME NEW p \in Proc, NEW i \in Invite, NEW f \in File, GuestRead(p, i, f)
      PROVE  \A j \in Invite : Calm(j)
  BY <1>4 DEF GuestRead, Go, Is, FindByToken
<1>5. ASSUME NEW p \in Proc, NEW f \in File, CompleteRead(p, f)
      PROVE  \A j \in Invite : Calm(j)
  BY <1>5 DEF CompleteRead, Go, Is, FindByToken, FindByFileID, Beside
<1>6. ASSUME NEW p \in Proc, EnsureFolder(p)
      PROVE  \A j \in Invite : Calm(j)
  BY <1>6 DEF EnsureFolder, Step, Done, Go, Is, Fault, MayHappen
<1>7. ASSUME NEW p \in Proc, RevokeWrite(p)
      PROVE  \A j \in Invite : Calm(j)
  BY <1>7
  DEF RevokeWrite, Done, Go, Is, UpdateStatus, CallOK, CallAt, GuestPC,
      CompletePC
<1>8. ASSUME NEW p \in Proc, WriteExpired(p)
      PROVE  \A j \in Invite : Calm(j)
  BY <1>8
  DEF WriteExpired, Done, Go, Is, UpdateStatus, CallOK, CallAt, GuestPC,
      CompletePC
<1>9. ASSUME NEW p \in Proc, GuestQuota(p)
      PROVE  \A j \in Invite : Calm(j)
  BY <1>9 DEF GuestQuota, Step, Go, Is
<1>10. ASSUME NEW p \in Proc, GuestFailNew(p)
      PROVE  \A j \in Invite : Calm(j)
  <2>1. /\ Moves(p) /\ pc'[p] = "idle" /\ faults <= faults'
        /\ UNCHANGED <<invite, claimed, overlaps>> /\ pc[p] = "failnew"
    BY <1>10 DEF GuestFailNew, Done, Go, Is, Moves, Fault, MayHappen
  <2>2. at[p].f \in File
    BY <2>1 DEF CallOK, CallAt, CompletePC
  <2>3. file' = file \/ file' = [file EXCEPT ![at[p].f].status = "FAILED"]
    BY <1>10 DEF GuestFailNew
  <2>4. \A g \in File : /\ file'[g].i = file[g].i
                        /\ file'[g].status \in {file[g].status, "FAILED"}
    BY <2>2, <2>3, FileWrite
  <2>. QED
    BY <2>1, <2>4 DEF Moves
<1>11. ASSUME NEW p \in Proc, CompleteFile(p)
      PROVE  \A j \in Invite : Calm(j)
  <2>1. /\ Moves(p) /\ pc'[p] \in {"idle", "commit", "discard"}
        /\ UNCHANGED <<invite, file, claimed, faults, overlaps>>
    BY <1>11 DEF CompleteFile, Done, Go, Moves
  <2>. QED
    BY <2>1 DEF Moves
<1>12. ASSUME NEW p \in Proc, Notify(p)
      PROVE  \A j \in Invite : Calm(j)
  <2>1. /\ Moves(p) /\ pc'[p] = "idle" /\ faults <= faults'
        /\ UNCHANGED <<file, claimed, overlaps>>
    BY <1>12 DEF Notify, Done, Go, Moves, Fault, MayHappen
  <2>2. \A j \in Invite : invite'[j].files = invite[j].files
    BY <1>12 DEF Notify, IncrementPendingNotify
  <2>. QED
    BY <2>1, <2>2 DEF Moves
<1>13. ASSUME NEW i \in Invite, TimerFires(i)
      PROVE  \A j \in Invite : Calm(j)
  BY <1>13 DEF TimerFires, FlushPendingForInvite, Flush
<1>14. ASSUME NEW i \in Invite, Send(i)
      PROVE  \A j \in Invite : Calm(j)
  BY <1>14 DEF Send
<1>15. ASSUME NEW S \in SUBSET Invite, SchedulerFlush(S)
      PROVE  \A j \in Invite : Calm(j)
  BY <1>15 DEF SchedulerFlush, Flush
<1>16. ASSUME ExpireStaleInvites
      PROVE  \A j \in Invite : Calm(j)
  BY <1>16 DEF ExpireStaleInvites
<1>17. ASSUME NEW S \in SUBSET File, CleanupList(S)
      PROVE  \A j \in Invite : Calm(j)
  BY <1>17 DEF CleanupList, ListStaleUploads
<1>18. ASSUME NEW i \in Invite, PassExpiry(i)
      PROVE  \A j \in Invite : Calm(j)
  BY <1>18 DEF PassExpiry
<1>19. ASSUME NEW f \in File, Scanned(f)
      PROVE  \A j \in Invite : Calm(j)
  BY <1>19 DEF Scanned
<1>20. ASSUME Crash
      PROVE  \A j \in Invite : Calm(j)
  BY <1>20 DEF Crash, MayHappen
<1>21. CASE UNCHANGED vars
  BY <1>21 DEF vars
<1>. QED
  BY <1>1, <1>2, <1>3, <1>4, <1>5, <1>6, <1>7, <1>8, <1>9, <1>10, <1>11,
     <1>12, <1>13, <1>14, <1>15, <1>16, <1>17, <1>18, <1>19, <1>20, <1>21
  DEF Next, OwnerRequest, GuestReads, GuestRequest, Continue, Environment,
      Cleanup

LEMMA HeldIn ==
  ASSUME NEW p \in Proc, Moves(p), at'[p].i = at[p].i, NEW i
  PROVE  /\ Held(i)' \subseteq Held(i) \cup {p}
         /\ i # at[p].i => Held(i)' \subseteq Held(i)
BY DEF Held, Moves

LEMMA HeldOut ==
  ASSUME NEW p \in Proc, Moves(p), pc'[p] \notin {"quota", "create", "release", "unrecord"},
         NEW i
  PROVE  Held(i)' \subseteq Held(i) \ {p}
BY DEF Held, Moves

LEMMA SameFiles ==
  ASSUME file' = file, claimed' = claimed, NEW i
  PROVE  Live(i)' = Live(i) /\ Claimed(i)' = Claimed(i)
BY DEF Live, Claimed

LEMMA ReserveBalanced ==
  ASSUME Shape, Shape', NEW p \in Proc, GuestReserve(p), NEW i \in Invite,
         Excess(i)' + overlaps <= Excess(i) + overlaps'
  PROVE  Balanced(i)
<1>1. at[p].i \in Invite /\ pc[p] = "reserve"
  BY DEF GuestReserve, Is, Shape, CallOK, CallAt, NoCall, CompletePC
<1>2. Live(i)' = Live(i) /\ Claimed(i)' = Claimed(i) /\ faults' = faults
  BY SameFiles DEF GuestReserve, job
<1>3. CASE Done(p) /\ UNCHANGED invite
  <2>1. Held(i)' \subseteq Held(i) \ {p}
    BY <1>3, HeldOut DEF Done, Go, Moves, Shape, TypeOK
  <2>. QED
    BY <1>2, <1>3, <2>1, CalmBalanced, Numbers DEF Calm
<1>4. CASE /\ invite' = [invite EXCEPT ![at[p].i].bytes = @ + Size[at[p].f],
                                      ![at[p].i].files = @ + 1]
           /\ Step(p, "quota")
  <2>1. Moves(p) /\ at'[p].i = at[p].i
    BY <1>4 DEF Step, Go, Moves, Shape, TypeOK
  <2>2. CASE i # at[p].i
    <3>1. invite'[i] = invite[i]
      BY <1>4, <2>2 DEF Shape, TypeOK
    <3>2. Held(i)' \subseteq Held(i)
      BY <2>1, <2>2, HeldIn
    <3>. QED
      BY <1>2, <3>1, <3>2, CalmBalanced, Numbers DEF Calm
  <2>3. CASE i = at[p].i
    <3>1. invite'[i].files = invite[i].files + 1
      BY ZenonT(60), <1>4, <2>3 DEF Shape, TypeOK
    <3>2. Cardinality(Held(i)') <= Cardinality(Held(i)) + 1
      BY <2>1, HeldIn, Sizes, AddSize
    <3>. QED
      BY <1>2, <3>1, <3>2, Numbers, Sizes, ExcessType DEF Balanced, Sized
  <2>. QED
    BY <2>2, <2>3
<1>. QED
  BY <1>3, <1>4 DEF GuestReserve

LEMMA CreateBalanced ==
  ASSUME Shape, Shape', NEW p \in Proc, GuestCreate(p), NEW i \in Invite,
         Excess(i)' + overlaps <= Excess(i) + overlaps'
  PROVE  Balanced(i)
<1>1. /\ at[p].i \in Invite /\ at[p].f \in File /\ pc[p] = "create"
      /\ at[p].f \notin recorded
  BY DEF GuestCreate, Is, Shape, CallOK, CallAt, NoCall, CompletePC, GuestOK, GuestAt
<1>2. invite' = invite /\ claimed' = claimed
  BY DEF GuestCreate, job
<1>3. CASE Fault /\ Step(p, "release") /\ UNCHANGED file
  <2>1. Held(i)' \subseteq Held(i)
    BY <1>1, <1>3 DEF Step, Go, Held, Shape, TypeOK
  <2>2. faults <= faults'
    BY <1>3, Numbers DEF Fault
  <2>. QED
    BY <1>2, <1>3, <2>1, <2>2, SameFiles, CalmBalanced, Numbers DEF Calm
<1>4. CASE /\ file' = [file EXCEPT ![at[p].f] = [status |-> "UPLOADING", i |-> at[p].i]]
           /\ Step(p, "record") /\ UNCHANGED faults
  <2>1. Held(i)' \subseteq Held(i) \ {p}
    BY <1>4, HeldOut DEF Step, Go, Moves, Shape, TypeOK
  <2>2. Claimed(i)' \subseteq Claimed(i)
    <3>1. claimed # at[p].f
      BY <1>1, InviteBounds DEF Shape, FileOK
    <3>2. \A g \in File \ {at[p].f} : file'[g] = file[g]
      BY <1>4 DEF Shape, TypeOK
    <3>. QED
      BY <1>2, <3>1, <3>2 DEF Claimed
  <2>3. \A g \in File \ {at[p].f} : file'[g] = file[g]
    BY <1>4 DEF Shape, TypeOK
  <2>4. CASE i # at[p].i
    <3>1. file'[at[p].f].i # i
      BY <1>1, <1>4, <2>4 DEF Shape, TypeOK
    <3>2. Live(i)' \subseteq Live(i)
      BY <2>3, <3>1 DEF Live
    <3>. QED
      BY <1>2, <1>4, <2>1, <2>2, <3>2, CalmBalanced, Numbers DEF Calm
  <2>5. CASE i = at[p].i
    <3>1. p \in Held(i)
      BY <1>1, <2>5 DEF Held
    <3>2. Cardinality(Held(i)') + 1 <= Cardinality(Held(i))
      BY <2>1, <3>1, Sizes, RemoveSize
    <3>3. Live(i)' \subseteq Live(i) \cup {at[p].f}
      BY <2>3 DEF Live
    <3>4. Cardinality(Live(i)') <= Cardinality(Live(i)) + 1
      BY <3>3, Sizes, AddSize
    <3>5. Cardinality(Claimed(i)') <= Cardinality(Claimed(i))
      BY <2>2, Sizes, SubsetCount
    <3>. QED
      BY <1>2, <1>4, <3>2, <3>4, <3>5, Numbers, Sizes, ExcessType DEF Balanced, Sized
  <2>. QED
    BY <2>4, <2>5
<1>. QED
  BY <1>3, <1>4 DEF GuestCreate

LEMMA RecordBalanced ==
  ASSUME Shape, Shape', NEW p \in Proc, GuestRecord(p), NEW i \in Invite,
         Excess(i)' + overlaps <= Excess(i) + overlaps'
  PROVE  Balanced(i)
<1>1. invite' = invite /\ Live(i)' = Live(i) /\ Claimed(i)' = Claimed(i)
  BY SameFiles DEF GuestRecord, job
<1>2. CASE Done(p) /\ UNCHANGED faults
  <2>1. Held(i)' \subseteq Held(i) \ {p}
    BY <1>2, HeldOut DEF Done, Go, Moves, Shape, TypeOK
  <2>. QED
    BY <1>1, <1>2, <2>1, CalmBalanced, Numbers DEF Calm
<1>3. CASE Fault /\ Step(p, "unrecord")
  <2>1. Moves(p) /\ at'[p].i = at[p].i
    BY <1>3 DEF Step, Go, Moves, Shape, TypeOK
  <2>2. Cardinality(Held(i)') <= Cardinality(Held(i)) + 1
    BY <2>1, HeldIn, Sizes, AddSize
  <2>3. faults' = faults + 1
    BY <1>3 DEF Fault
  <2>. QED
    BY <1>1, <2>2, <2>3, Numbers, Sizes, ExcessType DEF Balanced, Sized
<1>. QED
  BY <1>2, <1>3 DEF GuestRecord

LEMMA ReleaseBalanced ==
  ASSUME Shape, Shape', NEW p \in Proc, pc[p] \in {"unrecord", "release"},
         pc'[p] \in {"failnew", "idle"}, Moves(p), at[p].f \in File, at[p].i \in Invite,
         file' = file, claimed' = claimed,
         \/ invite' = Released(at[p].i, Size[at[p].f]) /\ UNCHANGED faults
         \/ Fault /\ UNCHANGED invite, NEW i \in Invite,
         Excess(i)' + overlaps <= Excess(i) + overlaps'
  PROVE  Balanced(i)
<1>1. Live(i)' = Live(i) /\ Claimed(i)' = Claimed(i)
  BY SameFiles
<1>2. Held(i)' \subseteq Held(i) \ {p}
  BY HeldOut
<1>3. CASE Fault /\ UNCHANGED invite
  <2>1. faults <= faults'
    BY <1>3, Numbers DEF Fault
  <2>. QED
    BY <1>1, <1>2, <1>3, <2>1, CalmBalanced, Numbers DEF Calm
<1>4. CASE invite' = Released(at[p].i, Size[at[p].f]) /\ UNCHANGED faults
  <2>1. Size[at[p].f] \in Nat
    BY InviteBounds
  <2>2. CASE i # at[p].i
    <3>1. invite'[i].files = invite[i].files
      BY <1>4, <2>1, <2>2, ReleaseWrite
    <3>. QED
      BY <1>1, <1>2, <1>4, <3>1, CalmBalanced, Numbers DEF Calm
  <2>3. CASE i = at[p].i
    <3>1. invite[i].files <= invite'[i].files + 1
      BY <1>4, <2>1, <2>3, ReleaseWrite, Numbers
    <3>2. p \in Held(i)
      BY <2>3 DEF Held
    <3>3. Cardinality(Held(i)') + 1 <= Cardinality(Held(i))
      BY <1>2, <3>2, Sizes, RemoveSize
    <3>. QED
      BY <1>1, <1>4, <3>1, <3>3, Numbers, Sizes, ExcessType DEF Balanced, Sized
  <2>. QED
    BY <2>2, <2>3
<1>. QED
  BY <1>3, <1>4

LEMMA CleanupReleaseBalanced ==
  ASSUME Shape, Shape', CleanupRelease, NEW i \in Invite,
         Excess(i)' + overlaps <= Excess(i) + overlaps'
  PROVE  Balanced(i)
<1>1. claimed \in File /\ file[claimed].i \in Invite /\ Size[claimed] \in Nat
  BY InviteBounds DEF CleanupRelease, Shape, TypeOK, FileOK
<1>2. Live(i)' = Live(i) /\ Held(i)' = Held(i) /\ Claimed(i)' = {}
  BY InviteBounds DEF CleanupRelease, Live, Held, Claimed
<1>3. CASE Fault /\ UNCHANGED invite
  <2>1. faults <= faults'
    BY <1>3, Numbers DEF Fault
  <2>. QED
    BY <1>2, <1>3, <2>1, CalmBalanced, Numbers DEF Calm
<1>4. CASE invite' = Released(file[claimed].i, Size[claimed]) /\ UNCHANGED faults
  <2>1. CASE i # file[claimed].i
    <3>1. invite'[i].files = invite[i].files
      BY <1>1, <1>4, <2>1, ReleaseWrite
    <3>. QED
      BY <1>2, <1>4, <3>1, CalmBalanced, Numbers DEF Calm
  <2>2. CASE i = file[claimed].i
    <3>1. invite[i].files <= invite'[i].files + 1
      BY <1>1, <1>4, <2>2, ReleaseWrite, Numbers
    <3>2. claimed \in Claimed(i)
      BY <1>1, <2>2 DEF Claimed
    <3>3. Cardinality(Claimed(i)') + 1 <= Cardinality(Claimed(i))
      BY <1>2, <3>2, Sizes, RemoveSize
    <3>. QED
      <4>1. /\ Cardinality(Live(i)') = Cardinality(Live(i))
            /\ Cardinality(Held(i)') = Cardinality(Held(i))
            /\ overlaps' = overlaps
        BY <1>2 DEF CleanupRelease
      <4>. QED
        BY <1>4, <3>1, <3>3, <4>1, Numbers, Sizes, ExcessType DEF Balanced, Sized
  <2>. QED
    BY <2>1, <2>2
<1>. QED
  BY <1>3, <1>4 DEF CleanupRelease

(* What a decided completion of invite at[p].i changes.                    *)
LEMMA Decided ==
  ASSUME Shape, NEW p \in Proc, pc[p] \in {"discard", "commit"}
  PROVE  /\ at[p].f \in recorded /\ at[p].f \in File /\ at[p].i \in Invite
         /\ file[at[p].f].i = at[p].i /\ file[at[p].f].status # "none"
BY DEF Shape, TypeOK, CallOK, CallAt, NoCall, GuestPC, FileOK

LEMMA DiscardBalanced ==
  ASSUME Shape, Shape', NEW p \in Proc, Discard(p), NEW i \in Invite,
         Excess(i)' + overlaps <= Excess(i) + overlaps'
  PROVE  Balanced(i)
<1>1. /\ at[p].f \in File /\ at[p].i \in Invite /\ file[at[p].f].i = at[p].i
      /\ file[at[p].f].status # "none" /\ pc[p] = "discard"
  BY Decided DEF Discard, Is
<1>2. invite' = invite /\ claimed' = claimed /\ overlaps' = overlaps
  BY DEF Discard, job
<1>3. /\ Moves(p) /\ at'[p] = at[p] /\ pc'[p] \in {"release", "notify"}
  BY DEF Discard, Step, Go, Moves, Shape, TypeOK
<1>4. file' = file \/ file' = [file EXCEPT ![at[p].f].status = "FAILED"]
  BY DEF Discard
<1>5. /\ \A g \in File : file'[g].i = file[g].i
      /\ \A g \in File \ {at[p].f} : file'[g].status = file[g].status
  BY <1>1, <1>4, FileWrite DEF FileStatus
<1>6. Claimed(i)' = Claimed(i)
  BY <1>2, <1>5 DEF Claimed
<1>7. Held(i)' \subseteq Held(i) \cup {p} /\ (i # at[p].i => Held(i)' \subseteq Held(i))
  BY <1>3, HeldIn
<1>8. faults' = faults \/ faults' = faults + 1
  BY DEF Discard, Fault
<1>9. CASE i # at[p].i
  <2>1. Live(i)' \subseteq Live(i)
    BY <1>1, <1>5, <1>9 DEF Live
  <2>. QED
    BY <1>2, <1>6, <1>7, <1>8, <1>9, <2>1, CalmBalanced, Numbers DEF Calm
<1>10. Cardinality(Held(i)') <= Cardinality(Held(i)) + 1
  BY <1>7, Sizes, AddSize
<1>11. Live(i)' \subseteq Live(i)
  BY <1>1, <1>4, <1>5, FileWrite DEF Live, FileStatus
<1>12. Cardinality(Live(i)') <= Cardinality(Live(i))
  BY <1>11, Sizes, SubsetCount
<1>13. CASE faults' = faults + 1
  BY <1>2, <1>6, <1>10, <1>12, <1>13, Numbers, Sizes, ExcessType DEF Balanced, Sized
<1>14. CASE /\ i = at[p].i /\ file' = [file EXCEPT ![at[p].f].status = "FAILED"]
            /\ faults' = faults
  <2>1. CASE file[at[p].f].status = "UPLOADING"
    <3>1. at[p].f \in Live(i)
      BY <1>1, <1>14, <2>1 DEF Live
    <3>2. Live(i)' \subseteq Live(i) \ {at[p].f}
      BY <1>1, <1>11, <1>14, FileWrite DEF Live, FileStatus
    <3>3. Cardinality(Live(i)') + 1 <= Cardinality(Live(i))
      BY <3>1, <3>2, Sizes, RemoveSize
    <3>. QED
      BY <1>2, <1>6, <1>10, <1>14, <3>3, Numbers, Sizes, ExcessType DEF Balanced, Sized
  <2>2. CASE file[at[p].f].status # "UPLOADING"
    <3>1. "FAILED" \in FileStatus \ {"UPLOADING"}
      BY DEF FileStatus
    <3>2. Excess(i)' + 1 <= Excess(i)
      BY <1>1, <1>3, <1>4, <1>14, <2>2, <3>1, LeaveExcess
    <3>. QED
      BY <1>2, <1>6, <1>10, <1>12, <1>14, <3>2, Numbers, Sizes, ExcessType DEF Balanced, Sized
  <2>. QED
    BY <2>1, <2>2
<1>. QED
  BY <1>9, <1>13, <1>14 DEF Discard, Fault

LEMMA CommitBalanced ==
  ASSUME Shape, Shape', NEW p \in Proc, Commit(p), NEW i \in Invite,
         Excess(i)' + overlaps <= Excess(i) + overlaps'
  PROVE  Balanced(i)
<1>1. /\ at[p].f \in File /\ at[p].i \in Invite /\ file[at[p].f].i = at[p].i
      /\ file[at[p].f].status # "none" /\ pc[p] = "commit"
  BY Decided DEF Commit, Is
<1>2. invite' = invite /\ claimed' = claimed /\ overlaps' = overlaps
  BY DEF Commit, job
<1>3. /\ Moves(p) /\ at'[p] = at[p] /\ pc'[p] \in {"release", "notify"}
  BY DEF Commit, Step, Go, Moves, Shape, TypeOK
<1>4. file' = file \/ file' = [file EXCEPT ![at[p].f].status = "PENDING_SCAN"]
  BY DEF Commit
<1>5. /\ \A g \in File : file'[g].i = file[g].i
      /\ \A g \in File \ {at[p].f} : file'[g].status = file[g].status
  BY <1>1, <1>4, FileWrite DEF FileStatus
<1>6. Claimed(i)' = Claimed(i)
  BY <1>2, <1>5 DEF Claimed
<1>7. Held(i)' \subseteq Held(i) \cup {p} /\ (i # at[p].i => Held(i)' \subseteq Held(i))
  BY <1>3, HeldIn
<1>8. faults' = faults \/ faults' = faults + 1
  BY DEF Commit, Fault
<1>9. CASE i # at[p].i
  <2>1. Live(i)' \subseteq Live(i)
    BY <1>1, <1>5, <1>9 DEF Live
  <2>. QED
    BY <1>2, <1>6, <1>7, <1>8, <1>9, <2>1, CalmBalanced, Numbers DEF Calm
<1>10. Cardinality(Held(i)') <= Cardinality(Held(i)) + 1
  BY <1>7, Sizes, AddSize
<1>11. CASE Fault /\ UNCHANGED file
  <2>1. Live(i)' = Live(i)
    BY <1>11 DEF Live
  <2>2. faults' = faults + 1
    BY <1>11 DEF Fault
  <2>. QED
    BY <1>2, <1>6, <1>10, <2>1, <2>2, Numbers, Sizes, ExcessType DEF Balanced, Sized
<1>12. CASE /\ i = at[p].i /\ file' = [file EXCEPT ![at[p].f].status = "PENDING_SCAN"]
            /\ pc'[p] = "notify" /\ faults' = faults
  <2>1. Held(i)' \subseteq Held(i) \ {p}
    BY <1>3, <1>12, HeldOut
  <2>2. Cardinality(Held(i)') <= Cardinality(Held(i))
    BY <2>1, Sizes, SubsetCount
  <2>3. CASE file[at[p].f].status = "UPLOADING"
    <3>1. Live(i)' \subseteq Live(i)
      BY <1>1, <1>5, <1>12, <2>3 DEF Live
    <3>. QED
      BY <1>2, <1>6, <1>12, <2>1, <3>1, CalmBalanced, Numbers DEF Calm
  <2>4. CASE file[at[p].f].status # "UPLOADING"
    <3>1. "PENDING_SCAN" \in FileStatus \ {"UPLOADING"}
      BY DEF FileStatus
    <3>2. Excess(i)' + 1 <= Excess(i)
      BY <1>1, <1>3, <1>4, <1>12, <2>4, <3>1, LeaveExcess
    <3>3. Live(i)' \subseteq Live(i) \cup {at[p].f}
      BY <1>5 DEF Live
    <3>4. Cardinality(Live(i)') <= Cardinality(Live(i)) + 1
      BY <3>3, Sizes, AddSize
    <3>. QED
      BY <1>2, <1>6, <1>12, <2>2, <3>2, <3>4, Numbers, Sizes, ExcessType DEF Balanced, Sized
  <2>. QED
    BY <2>3, <2>4
<1>. QED
  BY <1>9, <1>11, <1>12 DEF Commit, Step, Go, Shape, TypeOK

LEMMA ClaimBalanced ==
  ASSUME Shape, Shape', NEW f \in File, CleanupClaim(f), NEW i \in Invite,
         Excess(i)' + overlaps <= Excess(i) + overlaps'
  PROVE  Balanced(i)
<1>1. /\ invite' = invite /\ faults' = faults /\ pc' = pc /\ at' = at
      /\ f \in rows /\ claimed = NoFile
  BY DEF CleanupClaim
<1>2. Held(i)' = Held(i)
  BY <1>1 DEF Held
<1>3. CASE UNCHANGED <<file, claimed>>
  BY <1>1, <1>2, <1>3, SameFiles, CalmBalanced, Numbers DEF Calm
<1>4. CASE /\ file[f].status = "UPLOADING" /\ claimed' = f
           /\ file' = [file EXCEPT ![f].status = "FAILED"]
  <2>1. /\ \A g \in File : file'[g].i = file[g].i
        /\ \A g \in File \ {f} : file'[g].status = file[g].status
        /\ file'[f].status = "FAILED"
    BY <1>4, FileWrite DEF FileStatus
  <2>2. Live(i)' \subseteq Live(i) \ {f}
    BY <2>1 DEF Live
  <2>3. CASE file[f].i # i
    <3>1. Claimed(i)' \subseteq Claimed(i)
      BY <1>4, <2>1, <2>3 DEF Claimed
    <3>. QED
      BY <1>1, <1>2, <2>2, <3>1, CalmBalanced, Numbers DEF Calm
  <2>4. CASE file[f].i = i
    <3>1. f \in Live(i)
      BY <1>4, <2>4 DEF Live
    <3>2. Cardinality(Live(i)') + 1 <= Cardinality(Live(i))
      BY <2>2, <3>1, Sizes, RemoveSize
    <3>3. Claimed(i)' \subseteq Claimed(i) \cup {f}
      BY <1>4 DEF Claimed
    <3>4. Cardinality(Claimed(i)') <= Cardinality(Claimed(i)) + 1
      BY <3>3, Sizes, AddSize
    <3>. QED
      BY <1>1, <1>2, <3>2, <3>4, Numbers, Sizes, ExcessType DEF Balanced, Sized
  <2>. QED
    BY <2>3, <2>4
<1>. QED
  BY <1>3, <1>4 DEF CleanupClaim

(* An invite that is being created has no files, and nobody at work on it. *)
LEMMA InsertCapacity ==
  ASSUME Shape, Shape', NEW p \in Proc, CreateInsert(p), NEW i \in Invite, CapacityAt(i),
         Excess(i)' + overlaps <= Excess(i) + overlaps'
  PROVE  CapacityAt(i)'
<1>1. /\ pc[p] = "insert" /\ at[p].op = "create" /\ at[p].i \in Invite
      /\ invite[at[p].i].status = "none"
      /\ \A q \in Proc : at[q].i = at[p].i => q = p
  BY DEF CreateInsert, Is, Shape, CallOK, CallAt, NoCall, GuestPC, CompletePC, CreateOK
<1>2. Live(i)' = Live(i) /\ Claimed(i)' = Claimed(i) /\ faults' = faults
  BY SameFiles DEF CreateInsert, job
<1>3. /\ Moves(p) /\ pc'[p] = "idle" /\ at'[p] = NoCall
  BY DEF CreateInsert, Done, Go, Moves, Shape, TypeOK
<1>4. Held(i)' \subseteq Held(i) \ {p}
  BY <1>3, HeldOut
<1>5. CASE i # at[p].i
  <2>1. invite'[i] = invite[i]
    BY <1>5 DEF CreateInsert
  <2>2. Balanced(i)
    BY <1>2, <1>4, <2>1, CalmBalanced, Numbers DEF Calm
  <2>. QED
    BY <2>2, BalancedCapacity
<1>6. CASE i = at[p].i
  <2>1. Live(i)' = {} /\ Claimed(i)' = {}
    <3>1. \A f \in File : file[f].i = i => file[f].status = "none"
      BY <1>1, <1>6 DEF Shape, FileOK
    <3>2. Live(i) = {}
      BY <3>1 DEF Live
    <3>3. Claimed(i) = {}
      BY <3>1, InviteBounds DEF Claimed, Shape, FileOK
    <3>. QED
      BY <1>2, <3>2, <3>3
  <2>2. Held(i)' = {} /\ Completing(i)' = {}
    BY <1>1, <1>3, <1>6, InviteBounds DEF Held, Completing, Moves, NoCall
  <2>3. Cardinality({}) = 0
    BY FS_EmptySet
  <2>4. Excess(i)' <= 0
    BY <2>2, <2>3, Sizes DEF Excess, Sized
  <2>5. /\ Cardinality(Live(i)') = 0 /\ Cardinality(Claimed(i)') = 0
        /\ Cardinality(Held(i)') = 0
    BY <2>1, <2>2, <2>3
  <2>6. CapacityAt(i)' <=>
          Cardinality(Live(i)') + Cardinality(Held(i)') + Cardinality(Claimed(i)')
             + Excess(i)' <= invite'[i].files + faults' + overlaps'
    BY DEF CapacityAt
  <2>. QED
    BY <2>4, <2>5, <2>6, Numbers, ExcessType
<1>. QED
  BY <1>5, <1>6

LEMMA NextCapacity ==
  ASSUME Shape, CapacityInv, [Next]_vars
  PROVE  CapacityInv'
<1>. SUFFICES ASSUME NEW i \in Invite
     PROVE  CapacityAt(i)'
  BY DEF CapacityInv
<1>1. Shape' /\ CapacityAt(i) /\ Excess(i)' + overlaps <= Excess(i) + overlaps'
  BY NextShape, NextExcess DEF CapacityInv
<1>2. CASE Balanced(i)
  BY <1>1, <1>2, BalancedCapacity
<1>3. CASE Calm(i)
  BY <1>1, <1>2, <1>3, CalmBalanced
<1>4. ASSUME NEW p \in Proc, CreateInsert(p)
      PROVE  CapacityAt(i)'
  BY <1>1, <1>4, InsertCapacity
<1>5. ASSUME NEW p \in Proc, GuestReserve(p)
      PROVE  CapacityAt(i)'
  BY <1>1, <1>2, <1>5, ReserveBalanced
<1>6. ASSUME NEW p \in Proc, GuestCreate(p)
      PROVE  CapacityAt(i)'
  BY <1>1, <1>2, <1>6, CreateBalanced
<1>7. ASSUME NEW p \in Proc, GuestRecord(p)
      PROVE  CapacityAt(i)'
  BY <1>1, <1>2, <1>7, RecordBalanced
<1>8. ASSUME NEW p \in Proc, GuestUnrecord(p) \/ Release(p)
      PROVE  CapacityAt(i)'
  <2>1. /\ pc[p] \in {"unrecord", "release"} /\ pc'[p] \in {"failnew", "idle"} /\ Moves(p)
        /\ file' = file /\ claimed' = claimed
        /\ \/ invite' = Released(at[p].i, Size[at[p].f]) /\ UNCHANGED faults
           \/ Fault /\ UNCHANGED invite
    BY <1>8 DEF GuestUnrecord, Release, Step, Done, Go, Is, Moves, job, Shape, TypeOK
  <2>2. at[p].f \in File /\ at[p].i \in Invite
    BY <2>1 DEF Shape, TypeOK, CallOK, CallAt
  <2>. QED
    BY <1>1, <1>2, <2>1, <2>2, ReleaseBalanced
<1>9. ASSUME NEW p \in Proc, Discard(p)
      PROVE  CapacityAt(i)'
  BY <1>1, <1>2, <1>9, DiscardBalanced
<1>10. ASSUME NEW p \in Proc, Commit(p)
       PROVE  CapacityAt(i)'
  BY <1>1, <1>2, <1>10, CommitBalanced
<1>11. ASSUME NEW f \in File, CleanupClaim(f)
       PROVE  CapacityAt(i)'
  BY <1>1, <1>2, <1>11, ClaimBalanced
<1>12. CASE CleanupRelease
  BY <1>1, <1>2, <1>12, CleanupReleaseBalanced
<1>. QED
  BY <1>3, <1>4, <1>5, <1>6, <1>7, <1>8, <1>9, <1>10, <1>11, <1>12, NextCalm

LEMMA InitCapacity == Init => CapacityInv
<1>. SUFFICES ASSUME Init, NEW i \in Invite
     PROVE  CapacityAt(i)
  BY DEF CapacityInv
<1>1. /\ Live(i) = {} /\ Held(i) = {} /\ Claimed(i) = {} /\ Completing(i) = {}
      /\ Open(i) = {}
  BY InviteBounds DEF Init, NoCall, Live, Held, Claimed, Completing, Open, Completes
<1>2. Cardinality({}) = 0
  BY FS_EmptySet
<1>3. invite[i].files = 0 /\ faults = 0 /\ overlaps = 0
  BY DEF Init
<1>. QED
  BY <1>1, <1>2, <1>3 DEF CapacityAt, Excess

(* Guests have no more files open or delivered through an invite than its  *)
(* counter says, and its owner allowed, beyond one for each failed         *)
(* statement and for each completion or cleanup that ran beside another:   *)
(* the statements that reserve and release capacity give none of it twice. *)
THEOREM CapacityIsCovered == Spec => []CapacityCovered
<1>1. Shape /\ CapacityInv /\ [Next]_vars => Shape' /\ CapacityInv'
  BY NextShape, NextCapacity
<1>2. Shape /\ CapacityInv => CapacityCovered
  <2>. SUFFICES ASSUME Shape, CapacityInv, NEW i \in Invite
       PROVE  /\ Cardinality(Live(i)) <= invite[i].files + faults + overlaps
              /\ Cardinality(Live(i)) <= invite[i].max + faults + overlaps
    BY DEF CapacityCovered
  <2>1. /\ invite[i].files \in Nat /\ invite[i].max \in Nat /\ faults \in Nat
        /\ overlaps \in Nat /\ invite[i].files <= invite[i].max
    BY InviteBounds, FS_CardinalityType DEF Shape, TypeOK, MaxOK
  <2>2. CapacityAt(i)
    BY DEF CapacityInv
  <2>. QED
    BY <2>1, <2>2, ExcessNat, ExcessType, Sizes DEF CapacityAt, Sized
<1>3. Spec => [](Shape /\ CapacityInv)
  BY <1>1, InitShape, InitCapacity, PTL DEF Spec
<1>. QED
  BY <1>2, <1>3, PTL

(* The announcements.                                                      *)
Heard(i) == told[i] + flying[i] + invite[i].pending

NoNews(i) ==
  /\ Heard(i)' <= Heard(i) /\ Notifying(i)' \subseteq Notifying(i)
  /\ Accepted(i) \subseteq Accepted(i)'

Announced(i) ==
  Heard(i)' + Cardinality(Notifying(i)') + Excess(i)' + Cardinality(Accepted(i)) + overlaps
    <= Heard(i) + Cardinality(Notifying(i)) + Excess(i) + Cardinality(Accepted(i)')
         + overlaps'

LEMMA HeardType ==
  ASSUME Shape, Shape', NEW i \in Invite
  PROVE  Heard(i) \in Nat /\ Heard(i)' \in Nat
BY Numbers DEF Heard

LEMMA AnnouncedOK ==
  ASSUME Shape, Shape', NEW i \in Invite, AnnounceAt(i), Announced(i)
  PROVE  AnnounceAt(i)'
<1>1. AnnounceAt(i) <=>
        Heard(i) + Cardinality(Notifying(i)) + Excess(i)
           <= Cardinality(Accepted(i)) + overlaps
  BY DEF AnnounceAt, Heard
<1>2. AnnounceAt(i)' <=>
        Heard(i)' + Cardinality(Notifying(i)') + Excess(i)'
           <= Cardinality(Accepted(i)') + overlaps'
  BY DEF AnnounceAt, Heard
<1>. QED
  BY <1>1, <1>2, HeardType, Numbers, Sizes, ExcessType DEF Announced, Sized

LEMMA NoNewsAnnounced ==
  ASSUME Shape, Shape', NEW i \in Invite, NoNews(i),
         Excess(i)' + overlaps <= Excess(i) + overlaps'
  PROVE  Announced(i)
<1>1. /\ Cardinality(Notifying(i)') <= Cardinality(Notifying(i))
      /\ Cardinality(Accepted(i)) <= Cardinality(Accepted(i)')
  BY Sizes, SubsetCount DEF NoNews
<1>. QED
  BY <1>1, HeardType, Numbers, Sizes, ExcessType DEF Announced, NoNews, Sized

LEMMA NextNoNews ==
  ASSUME Shape, [Next]_vars
  PROVE  \/ \A i \in Invite : NoNews(i)
         \/ \E p \in Proc : Notify(p) \/ Discard(p) \/ Commit(p)
<1>. USE InviteBounds DEF Shape, TypeOK, InviteStatus, FileStatus, PC, NoCall,
                          NoNews, Heard, Notifying, Accepted, notice, job
<1>1. ASSUME NEW p \in Proc, NEW i \in Invite, CreateCount(p, i)
      PROVE  \A j \in Invite : NoNews(j)
  BY <1>1 DEF CreateCount, Go, Is
<1>2. ASSUME NEW p \in Proc, NEW i \in Invite, RevokeRead(p, i)
      PROVE  \A j \in Invite : NoNews(j)
  BY <1>2 DEF RevokeRead, Go, Is, FindByID
<1>3. ASSUME NEW p \in Proc, NEW i \in Invite, SeesExpired(p, i)
      PROVE  \A j \in Invite : NoNews(j)
  BY <1>3 DEF SeesExpired, Go, Is, FindByToken
<1>4. ASSUME NEW p \in Proc, NEW i \in Invite, NEW f \in File, GuestRead(p, i, f)
      PROVE  \A j \in Invite : NoNews(j)
  BY <1>4 DEF GuestRead, Go, Is, FindByToken
<1>5. ASSUME NEW p \in Proc, NEW f \in File, CompleteRead(p, f)
      PROVE  \A j \in Invite : NoNews(j)
  BY <1>5 DEF CompleteRead, Go, Is, FindByToken, FindByFileID, Beside
<1>6. ASSUME NEW p \in Proc, EnsureFolder(p)
      PROVE  \A j \in Invite : NoNews(j)
  <2>1. /\ Moves(p) /\ pc'[p] # "notify" /\ UNCHANGED <<invite, file, told, flying>>
    BY <1>6 DEF EnsureFolder, Step, Done, Go, Moves
  <2>. QED
    BY <2>1 DEF Moves
<1>7. ASSUME NEW p \in Proc, CreateInsert(p)
      PROVE  \A j \in Invite : NoNews(j)
  <2>1. /\ Moves(p) /\ pc'[p] # "notify" /\ UNCHANGED <<file, told, flying>>
    BY <1>7 DEF CreateInsert, Done, Go, Moves
  <2>2. \A j \in Invite : invite'[j] = invite[j] \/ invite'[j].pending = 0
    BY <1>7 DEF CreateInsert
  <2>3. \A j \in Invite : invite[j].pending \in Nat
    OBVIOUS
  <2>. QED
    BY <2>1, <2>2, <2>3 DEF Moves
<1>8. ASSUME NEW p \in Proc, RevokeWrite(p)
      PROVE  \A j \in Invite : NoNews(j)
  <2>1. /\ Moves(p) /\ pc'[p] # "notify"
        /\ UNCHANGED <<file, told, flying>>
    BY <1>8 DEF RevokeWrite, Step, Done, Go, Moves
  <2>2. \A j \in Invite : invite'[j].pending = invite[j].pending
    BY <1>8 DEF RevokeWrite, UpdateStatus
  <2>. QED
    BY <2>1, <2>2 DEF Moves
<1>9. ASSUME NEW p \in Proc, WriteExpired(p)
      PROVE  \A j \in Invite : NoNews(j)
  <2>1. /\ Moves(p) /\ pc'[p] # "notify"
        /\ UNCHANGED <<file, told, flying>>
    BY <1>9 DEF WriteExpired, Step, Done, Go, Moves
  <2>2. \A j \in Invite : invite'[j].pending = invite[j].pending
    BY <1>9 DEF WriteExpired, UpdateStatus
  <2>. QED
    BY <2>1, <2>2 DEF Moves
<1>10. ASSUME NEW p \in Proc, GuestReserve(p)
      PROVE  \A j \in Invite : NoNews(j)
  <2>1. /\ Moves(p) /\ pc'[p] # "notify"
        /\ UNCHANGED <<file, told, flying>>
    BY <1>10 DEF GuestReserve, Step, Done, Go, Moves
  <2>2. \A j \in Invite : invite'[j].pending = invite[j].pending
    BY <1>10 DEF GuestReserve
  <2>. QED
    BY <2>1, <2>2 DEF Moves
<1>11. ASSUME NEW p \in Proc, GuestQuota(p)
      PROVE  \A j \in Invite : NoNews(j)
  BY <1>11 DEF GuestQuota, Step, Go, Is
<1>12. ASSUME NEW p \in Proc, GuestCreate(p)
      PROVE  \A j \in Invite : NoNews(j)
  <2>1. /\ Moves(p) /\ pc'[p] # "notify" /\ pc[p] = "create"
        /\ UNCHANGED <<invite, told, flying>>
    BY <1>12 DEF GuestCreate, Step, Go, Is, Moves
  <2>2. at[p].f \in File /\ file[at[p].f].status = "none"
    BY <2>1 DEF CallOK, CallAt, CompletePC, GuestOK, GuestAt
  <2>3. \A g \in File \ {at[p].f} : file'[g] = file[g]
    BY <1>12 DEF GuestCreate
  <2>4. \A j \in Invite : Accepted(j) \subseteq Accepted(j)'
    BY <2>2, <2>3
  <2>5. \A j \in Invite : Notifying(j)' \subseteq Notifying(j)
    BY <2>1 DEF Moves
  <2>6. \A j \in Invite : Heard(j)' <= Heard(j)
    BY <2>1
  <2>. QED
    BY ONLY <2>4, <2>5, <2>6 DEF NoNews
<1>13. ASSUME NEW p \in Proc, GuestRecord(p)
      PROVE  \A j \in Invite : NoNews(j)
  BY <1>13 DEF GuestRecord, Step, Done, Go, Is, Fault, MayHappen, RecordFile
<1>14. ASSUME NEW p \in Proc, GuestUnrecord(p)
      PROVE  \A j \in Invite : NoNews(j)
  <2>1. /\ Moves(p) /\ pc'[p] # "notify" /\ UNCHANGED <<file, told, flying>>
        /\ pc[p] \in {"unrecord", "release"}
    BY <1>14 DEF GuestUnrecord, Step, Done, Go, Is, Moves
  <2>2. at[p].i \in Invite /\ Size[at[p].f] \in Nat
    BY <2>1 DEF CallOK, CallAt
  <2>3. \A j \in Invite : invite'[j].pending = invite[j].pending
    BY <1>14, <2>2, ReleaseWrite DEF GuestUnrecord
  <2>. QED
    BY <2>1, <2>3 DEF Moves
<1>15. ASSUME NEW p \in Proc, GuestFailNew(p)
      PROVE  \A j \in Invite : NoNews(j)
  <2>1. /\ Moves(p) /\ pc'[p] = "idle" /\ pc[p] = "failnew"
        /\ UNCHANGED <<invite, told, flying>>
    BY <1>15 DEF GuestFailNew, Done, Go, Is, Moves
  <2>2. at[p].f \in File /\ file[at[p].f].status = "UPLOADING"
    BY <2>1 DEF CallOK, CallAt, CompletePC, GuestOK, GuestAt
  <2>3. \A g \in File \ {at[p].f} : file'[g] = file[g]
    BY <1>15 DEF GuestFailNew
  <2>. QED
    BY <2>1, <2>2, <2>3 DEF Moves
<1>16. ASSUME NEW p \in Proc, Release(p)
      PROVE  \A j \in Invite : NoNews(j)
  <2>1. /\ Moves(p) /\ pc'[p] # "notify" /\ UNCHANGED <<file, told, flying>>
        /\ pc[p] \in {"unrecord", "release"}
    BY <1>16 DEF Release, Step, Done, Go, Is, Moves
  <2>2. at[p].i \in Invite /\ Size[at[p].f] \in Nat
    BY <2>1 DEF CallOK, CallAt
  <2>3. \A j \in Invite : invite'[j].pending = invite[j].pending
    BY <1>16, <2>2, ReleaseWrite DEF Release
  <2>. QED
    BY <2>1, <2>3 DEF Moves
<1>17. ASSUME NEW p \in Proc, CompleteFile(p)
      PROVE  \A j \in Invite : NoNews(j)
  <2>1. /\ Moves(p) /\ pc'[p] \in {"idle", "commit", "discard"}
        /\ UNCHANGED <<invite, file, told, flying>>
    BY <1>17 DEF CompleteFile, Done, Go, Moves
  <2>. QED
    BY <2>1 DEF Moves
<1>18. ASSUME NEW i \in Invite, TimerFires(i)
      PROVE  \A j \in Invite : NoNews(j)
  BY <1>18 DEF TimerFires, FlushPendingForInvite, Flush
<1>19. ASSUME NEW i \in Invite, Send(i)
      PROVE  \A j \in Invite : NoNews(j)
  BY <1>19 DEF Send
<1>20. ASSUME NEW S \in SUBSET Invite, SchedulerFlush(S)
      PROVE  \A j \in Invite : NoNews(j)
  BY <1>20 DEF SchedulerFlush, Flush
<1>21. ASSUME ExpireStaleInvites
      PROVE  \A j \in Invite : NoNews(j)
  BY <1>21 DEF ExpireStaleInvites
<1>22. ASSUME NEW S \in SUBSET File, CleanupList(S)
      PROVE  \A j \in Invite : NoNews(j)
  BY <1>22 DEF CleanupList, ListStaleUploads
<1>23. ASSUME NEW f \in File, CleanupClaim(f)
      PROVE  \A j \in Invite : NoNews(j)
  BY <1>23 DEF CleanupClaim, Beside
<1>24. ASSUME CleanupRelease
      PROVE  \A j \in Invite : NoNews(j)
  <2>1. /\ UNCHANGED <<file, told, flying, pc, at>>
        /\ file[claimed].i \in Invite /\ Size[claimed] \in Nat
    BY <1>24 DEF CleanupRelease, FileOK
  <2>2. \A j \in Invite : invite'[j].pending = invite[j].pending
    BY <1>24, <2>1, ReleaseWrite DEF CleanupRelease
  <2>. QED
    BY <2>1, <2>2
<1>25. ASSUME NEW i \in Invite, PassExpiry(i)
      PROVE  \A j \in Invite : NoNews(j)
  BY <1>25 DEF PassExpiry
<1>26. ASSUME NEW f \in File, Scanned(f)
      PROVE  \A j \in Invite : NoNews(j)
  BY <1>26 DEF Scanned
<1>27. ASSUME Crash
      PROVE  \A j \in Invite : NoNews(j)
  BY <1>27 DEF Crash, MayHappen
<1>28. CASE UNCHANGED vars
  BY <1>28 DEF vars
<1>. QED
  BY <1>1, <1>2, <1>3, <1>4, <1>5, <1>6, <1>7, <1>8, <1>9, <1>10, <1>11,
     <1>12, <1>13, <1>14, <1>15, <1>16, <1>17, <1>18, <1>19, <1>20, <1>21,
     <1>22, <1>23, <1>24, <1>25, <1>26, <1>27, <1>28
  DEF Next, OwnerRequest, GuestReads, GuestRequest, Continue, Environment,
      Cleanup

LEMMA NotifyAnnounced ==
  ASSUME Shape, Shape', NEW p \in Proc, Notify(p), NEW i \in Invite,
         Excess(i)' + overlaps <= Excess(i) + overlaps'
  PROVE  Announced(i)
<1>1. /\ at[p].i \in Invite /\ pc[p] = "notify"
  BY DEF Notify, Is, Shape, CallOK, CallAt, NoCall, GuestPC
<1>2. /\ Moves(p) /\ pc'[p] = "idle" /\ UNCHANGED <<file, told, flying>>
  BY DEF Notify, Done, Go, Moves, Shape, TypeOK
<1>3. Notifying(i)' \subseteq Notifying(i) \ {p} /\ Accepted(i)' = Accepted(i)
  BY <1>2 DEF Notifying, Accepted, Moves
<1>4. CASE i # at[p].i \/ UNCHANGED invite
  <2>1. invite'[i] = invite[i]
    BY <1>1, <1>4 DEF Notify, IncrementPendingNotify, Shape, TypeOK
  <2>2. Heard(i)' = Heard(i)
    BY <1>2, <2>1 DEF Heard
  <2>. QED
    BY <1>3, <2>2, HeardType, NoNewsAnnounced DEF NoNews
<1>5. CASE i = at[p].i /\ IncrementPendingNotify(at[p].i)
  <2>1. invite'[i].pending = invite[i].pending + 1
    BY <1>1, <1>5 DEF IncrementPendingNotify, Shape, TypeOK
  <2>2. Heard(i)' = Heard(i) + 1
    BY <1>2, <2>1, Numbers DEF Heard
  <2>3. p \in Notifying(i)
    BY <1>1, <1>5 DEF Notifying
  <2>4. Cardinality(Notifying(i)') + 1 <= Cardinality(Notifying(i))
    BY <1>3, <2>3, Sizes, RemoveSize
  <2>5. Cardinality(Accepted(i)') = Cardinality(Accepted(i))
    BY <1>3
  <2>. QED
    BY <2>2, <2>4, <2>5, HeardType, Numbers, Sizes, ExcessType DEF Announced, Sized
<1>. QED
  BY <1>4, <1>5 DEF Notify

LEMMA DiscardAnnounced ==
  ASSUME Shape, Shape', NEW p \in Proc, Discard(p), NEW i \in Invite,
         Excess(i)' + overlaps <= Excess(i) + overlaps'
  PROVE  Announced(i)
<1>1. /\ at[p].f \in File /\ at[p].i \in Invite /\ file[at[p].f].i = at[p].i
      /\ file[at[p].f].status # "none" /\ pc[p] = "discard"
  BY Decided DEF Discard, Is
<1>2. Heard(i)' = Heard(i) /\ overlaps' = overlaps
  BY DEF Discard, notice, Heard
<1>3. /\ Moves(p) /\ at'[p] = at[p] /\ pc'[p] \in {"release", "notify"}
  BY DEF Discard, Step, Go, Moves, Shape, TypeOK
<1>4. file' = file \/ file' = [file EXCEPT ![at[p].f].status = "FAILED"]
  BY DEF Discard
<1>5. /\ \A g \in File : file'[g].i = file[g].i
      /\ \A g \in File \ {at[p].f} : file'[g].status = file[g].status
  BY <1>1, <1>4, FileWrite DEF FileStatus
<1>6. CASE i # at[p].i
  <2>1. Accepted(i)' = Accepted(i) /\ Notifying(i)' \subseteq Notifying(i)
    BY <1>1, <1>3, <1>5, <1>6 DEF Accepted, Notifying, Moves
  <2>. QED
    BY <1>2, <2>1, HeardType, NoNewsAnnounced DEF NoNews
<1>7. CASE UNCHANGED file /\ pc'[p] = "release"
  <2>1. Accepted(i)' = Accepted(i) /\ Notifying(i)' \subseteq Notifying(i)
    BY <1>3, <1>7 DEF Accepted, Notifying, Moves
  <2>. QED
    BY <1>2, <2>1, HeardType, NoNewsAnnounced DEF NoNews
<1>8. CASE /\ i = at[p].i /\ file' = [file EXCEPT ![at[p].f].status = "FAILED"]
           /\ pc'[p] = "release"
  <2>1. Notifying(i)' \subseteq Notifying(i)
    BY <1>3, <1>8 DEF Notifying, Moves
  <2>2. CASE file[at[p].f].status = "UPLOADING"
    <3>1. Accepted(i) \subseteq Accepted(i)'
      BY <1>5, <2>2 DEF Accepted
    <3>. QED
      BY <1>2, <2>1, <3>1, HeardType, NoNewsAnnounced DEF NoNews
  <2>3. CASE file[at[p].f].status # "UPLOADING"
    <3>1. "FAILED" \in FileStatus \ {"UPLOADING"}
      BY DEF FileStatus
    <3>2. Excess(i)' + 1 <= Excess(i)
      BY <1>1, <1>3, <1>4, <1>8, <2>3, <3>1, LeaveExcess
    <3>3. Accepted(i) \subseteq Accepted(i)' \cup {at[p].f}
      BY <1>5 DEF Accepted
    <3>4. Cardinality(Accepted(i)) <= Cardinality(Accepted(i)') + 1
      BY <3>3, Sizes, AddSize
    <3>5. Cardinality(Notifying(i)') <= Cardinality(Notifying(i))
      BY <2>1, Sizes, SubsetCount
    <3>. QED
      BY <1>2, <3>2, <3>4, <3>5, HeardType, Numbers, Sizes, ExcessType DEF Announced, Sized
  <2>. QED
    BY <2>2, <2>3
<1>. QED
  BY <1>6, <1>7, <1>8 DEF Discard, Step, Go, Shape, TypeOK

LEMMA CommitAnnounced ==
  ASSUME Shape, Shape', NEW p \in Proc, Commit(p), NEW i \in Invite,
         Excess(i)' + overlaps <= Excess(i) + overlaps'
  PROVE  Announced(i)
<1>1. /\ at[p].f \in File /\ at[p].i \in Invite /\ file[at[p].f].i = at[p].i
      /\ file[at[p].f].status # "none" /\ pc[p] = "commit"
  BY Decided DEF Commit, Is
<1>2. Heard(i)' = Heard(i) /\ overlaps' = overlaps
  BY DEF Commit, notice, Heard
<1>3. /\ Moves(p) /\ at'[p] = at[p] /\ pc'[p] \in {"release", "notify"}
  BY DEF Commit, Step, Go, Moves, Shape, TypeOK
<1>4. file' = file \/ file' = [file EXCEPT ![at[p].f].status = "PENDING_SCAN"]
  BY DEF Commit
<1>5. /\ \A g \in File : file'[g].i = file[g].i
      /\ \A g \in File \ {at[p].f} : file'[g].status = file[g].status
  BY <1>1, <1>4, FileWrite DEF FileStatus
<1>6. CASE i # at[p].i
  <2>1. Accepted(i)' = Accepted(i) /\ Notifying(i)' \subseteq Notifying(i)
    BY <1>1, <1>3, <1>5, <1>6 DEF Accepted, Notifying, Moves
  <2>. QED
    BY <1>2, <2>1, HeardType, NoNewsAnnounced DEF NoNews
<1>7. CASE UNCHANGED file /\ pc'[p] = "release"
  <2>1. Accepted(i)' = Accepted(i) /\ Notifying(i)' \subseteq Notifying(i)
    BY <1>3, <1>7 DEF Accepted, Notifying, Moves
  <2>. QED
    BY <1>2, <2>1, HeardType, NoNewsAnnounced DEF NoNews
<1>8. CASE /\ i = at[p].i /\ file' = [file EXCEPT ![at[p].f].status = "PENDING_SCAN"]
           /\ pc'[p] = "notify"
  <2>1. Notifying(i)' \subseteq Notifying(i) \cup {p}
    BY <1>3 DEF Notifying, Moves
  <2>2. Cardinality(Notifying(i)') <= Cardinality(Notifying(i)) + 1
    BY <2>1, Sizes, AddSize
  <2>3. Accepted(i) \subseteq Accepted(i)' /\ at[p].f \in Accepted(i)'
    BY <1>1, <1>5, <1>8, FileWrite DEF Accepted, FileStatus
  <2>4. CASE file[at[p].f].status = "UPLOADING"
    <3>1. Accepted(i) \subseteq Accepted(i)' \ {at[p].f}
      BY <2>3, <2>4 DEF Accepted
    <3>2. Cardinality(Accepted(i)) + 1 <= Cardinality(Accepted(i)')
      BY <2>3, <3>1, Sizes, RemoveSize
    <3>. QED
      BY <1>2, <2>2, <3>2, HeardType, Numbers, Sizes, ExcessType DEF Announced, Sized
  <2>5. CASE file[at[p].f].status # "UPLOADING"
    <3>1. "PENDING_SCAN" \in FileStatus \ {"UPLOADING"}
      BY DEF FileStatus
    <3>2. Excess(i)' + 1 <= Excess(i)
      BY <1>1, <1>3, <1>4, <1>8, <2>5, <3>1, LeaveExcess
    <3>3. Cardinality(Accepted(i)) <= Cardinality(Accepted(i)')
      BY <2>3, Sizes, SubsetCount
    <3>. QED
      BY <1>2, <2>2, <3>2, <3>3, HeardType, Numbers, Sizes, ExcessType DEF Announced, Sized
  <2>. QED
    BY <2>4, <2>5
<1>. QED
  BY <1>6, <1>7, <1>8 DEF Commit, Step, Go, Shape, TypeOK

LEMMA NextAnnounce ==
  ASSUME Shape, AnnounceInv, [Next]_vars
  PROVE  AnnounceInv'
<1>. SUFFICES ASSUME NEW i \in Invite
     PROVE  AnnounceAt(i)'
  BY DEF AnnounceInv
<1>1. Shape' /\ AnnounceAt(i) /\ Excess(i)' + overlaps <= Excess(i) + overlaps'
  BY NextShape, NextExcess DEF AnnounceInv
<1>2. CASE Announced(i)
  BY <1>1, <1>2, AnnouncedOK
<1>3. CASE NoNews(i)
  BY <1>1, <1>2, <1>3, NoNewsAnnounced
<1>4. ASSUME NEW p \in Proc, Notify(p)
      PROVE  AnnounceAt(i)'
  BY <1>1, <1>2, <1>4, NotifyAnnounced
<1>5. ASSUME NEW p \in Proc, Discard(p)
      PROVE  AnnounceAt(i)'
  BY <1>1, <1>2, <1>5, DiscardAnnounced
<1>6. ASSUME NEW p \in Proc, Commit(p)
      PROVE  AnnounceAt(i)'
  BY <1>1, <1>2, <1>6, CommitAnnounced
<1>. QED
  BY <1>3, <1>4, <1>5, <1>6, NextNoNews

LEMMA InitAnnounce == Init => AnnounceInv
<1>. SUFFICES ASSUME Init, NEW i \in Invite
     PROVE  AnnounceAt(i)
  BY DEF AnnounceInv
<1>1. Notifying(i) = {} /\ Completing(i) = {} /\ Open(i) = {} /\ Accepted(i) = {}
  BY DEF Init, NoCall, Notifying, Completing, Open, Completes, Accepted
<1>2. Cardinality({}) = 0
  BY FS_EmptySet
<1>3. told[i] = 0 /\ flying[i] = 0 /\ invite[i].pending = 0 /\ overlaps = 0
  BY DEF Init
<1>. QED
  BY <1>1, <1>2, <1>3 DEF AnnounceAt, Excess

(* The timer, the scheduler and every completion of the same invite may    *)
(* race: no more files are counted as new, or announced, than the guests   *)
(* have delivered, beyond the completions that ran beside another.         *)
THEOREM FilesAreAnnouncedOnce == Spec => []AnnouncedOnce
<1>1. Shape /\ AnnounceInv /\ [Next]_vars => Shape' /\ AnnounceInv'
  BY NextShape, NextAnnounce
<1>2. Shape /\ AnnounceInv => AnnouncedOnce
  <2>. SUFFICES ASSUME Shape, AnnounceInv, NEW i \in Invite
       PROVE  told[i] + flying[i] + invite[i].pending
                <= Cardinality(Accepted(i)) + overlaps
    BY DEF AnnouncedOnce
  <2>1. /\ invite[i].pending \in Nat /\ told[i] \in Nat /\ flying[i] \in Nat
        /\ overlaps \in Nat
    BY InviteBounds, FS_CardinalityType DEF Shape, TypeOK
  <2>2. AnnounceAt(i)
    BY DEF AnnounceInv
  <2>. QED
    BY <2>1, <2>2, ExcessNat, ExcessType, Sizes DEF AnnounceAt, Sized
<1>3. Spec => [](Shape /\ AnnounceInv)
  BY <1>1, InitShape, InitAnnounce, PTL DEF Spec
<1>. QED
  BY <1>2, <1>3, PTL

=============================================================================
