--------------------------- MODULE EphemeralShare ---------------------------
(***************************************************************************)
(* Anonymous "burn after reading" shares: the row in ephemeral_shares, its *)
(* object under ".../ephemeral/<token>/", the handlers of senders,         *)
(* recipients and the admin, the 30-minute delete timers of the server and *)
(* the scheduler's purge.                                                  *)
(*                                                                         *)
(* Time passes in ticks of 15 minutes: the age at which the purge takes a  *)
(* burned share is one tick, a burned share's link and delete timer are    *)
(* two.  A share's own expiry is a setting without bounds and its PUT URL  *)
(* works for an hour, both independent of the ticks.                       *)
(***************************************************************************)
EXTENDS Naturals, FiniteSets

CONSTANTS
  Share,        \* tokens
  NoShare,
  Proc,         \* goroutines serving requests
  Limit,        \* max_downloads of a share
  MaxCount,     \* bound: download_count
  MaxFaults,    \* bound: storage or database calls that fail
  MaxCrashes    \* bound: restarts of the server

ASSUME ShareAssumption == NoShare \notin Share /\ IsFiniteSet(Proc)

ASSUME LimitAssumption ==
  /\ Limit \in Nat \ {0}
  /\ MaxCount \in Nat /\ MaxFaults \in Nat /\ MaxCrashes \in Nat

Status == {"NONE", "UPLOADING", "ACTIVE", "BURNED", "EXPIRED", "DELETED"}
PC == {"idle", "size", "count", "sign", "burn", "reject", "rejectMark",
       "assemble", "verify", "activate", "deleteRow", "adminMark"}

VARIABLES
  status, keyed, count,   \* the row: status, storage_key not cleared,
                          \* download_count
  burnedAt,   \* "null", or whether MarkBurned ran in the last 15 minutes
  expired,    \* expires_at has passed
  putURL,     \* a presigned PUT URL is still usable
  object,     \* what the bucket has under the key: nothing, the parts of an
              \* unfinished upload, bytes of at most or more than file_size
  timers,     \* delete timers of the share: the ticks they have left
  pc, share, burn,        \* the goroutines: position, share, shouldBurn
  purge,      \* the scheduler's batch: [at, todo, batch, abort]
  faults, crashes,
  lost,       \* history: burns due that were never recorded
  adminBurned \* history: shares the admin burned

rowVars == <<status, keyed, count, burnedAt>>
timeVars == <<expired, putURL>>
procVars == <<pc, share, burn>>
boundVars == <<faults, crashes>>
historyVars == <<lost, adminBurned>>
vars == <<rowVars, timeVars, object, timers, procVars, purge, boundVars,
          historyVars>>

TypeOK ==
  /\ status \in [Share -> Status]
  /\ keyed \in [Share -> BOOLEAN]
  /\ count \in [Share -> 0 .. MaxCount]
  /\ burnedAt \in [Share -> {"null", "new", "old"}]
  /\ expired \in [Share -> BOOLEAN]
  /\ putURL \in [Share -> BOOLEAN]
  /\ object \in [Share -> {"none", "parts", "fits", "over"}]
  /\ timers \in [Share -> SUBSET (0 .. 2)]
  /\ pc \in [Proc -> PC]
  /\ share \in [Proc -> Share \cup {NoShare}]
  /\ burn \in [Proc -> BOOLEAN]
  /\ purge \in [at : {"idle", "select", "clear"}, todo : SUBSET Share,
                batch : SUBSET Share, abort : SUBSET Share]
  /\ faults \in 0 .. MaxFaults
  /\ crashes \in 0 .. MaxCrashes
  /\ lost \in [Share -> Nat]
  /\ adminBurned \subseteq Share

Idle == [at |-> "idle", todo |-> {}, batch |-> {}, abort |-> {}]

Init ==
  /\ status = [s \in Share |-> "NONE"]
  /\ keyed = [s \in Share |-> FALSE]
  /\ count = [s \in Share |-> 0]
  /\ burnedAt = [s \in Share |-> "null"]
  /\ expired = [s \in Share |-> FALSE]
  /\ putURL = [s \in Share |-> FALSE]
  /\ object = [s \in Share |-> "none"]
  /\ timers = [s \in Share |-> {}]
  /\ pc = [p \in Proc |-> "idle"]
  /\ share = [p \in Proc |-> NoShare]
  /\ burn = [p \in Proc |-> FALSE]
  /\ purge = Idle
  /\ faults = 0
  /\ crashes = 0
  /\ lost = [s \in Share |-> 0]
  /\ adminBurned = {}

Exists(s) == status[s] \notin {"NONE", "DELETED"}

(* UPDATE ephemeral_shares SET status = x WHERE token = s: no condition on *)
(* the status the row has by now.                                          *)
UpdateStatus(s, x) ==
  status' = IF Exists(s) THEN [status EXCEPT ![s] = x] ELSE status

Goto(p, l) == pc' = [pc EXCEPT ![p] = l] /\ UNCHANGED <<share, burn>>

Start(p, s, l) ==
  /\ pc[p] = "idle"
  /\ pc' = [pc EXCEPT ![p] = l]
  /\ share' = [share EXCEPT ![p] = s]
  /\ UNCHANGED burn

Return(p) ==
  /\ pc' = [pc EXCEPT ![p] = "idle"]
  /\ share' = [share EXCEPT ![p] = NoShare]
  /\ burn' = [burn EXCEPT ![p] = FALSE]

Fault == faults < MaxFaults /\ faults' = faults + 1

(* Deleting an object does nothing to a multipart upload of its key.       *)
Deleted(s) == [object EXCEPT ![s] = IF @ = "parts" THEN "parts" ELSE "none"]
Aborted(s) == [object EXCEPT ![s] = IF @ = "parts" THEN "none" ELSE @]

(* A delete whose error is ignored.                                        *)
Delete(s) ==
  \/ object' = Deleted(s) /\ UNCHANGED faults
  \/ UNCHANGED object /\ Fault

-----------------------------------------------------------------------------
(* The sender.                                                             *)

(* The row is ACTIVE before a byte has come; the PUT URL works for an hour *)
(* whatever becomes of the share.                                          *)
CreateUploadSession(s) ==
  /\ status[s] = "NONE"
  /\ status' = [status EXCEPT ![s] = "ACTIVE"]
  /\ keyed' = [keyed EXCEPT ![s] = TRUE]
  /\ putURL' = [putURL EXCEPT ![s] = TRUE]
  /\ UNCHANGED <<count, burnedAt, expired, object, timers, procVars, purge,
                 boundVars, historyVars>>

PutObject(s) ==
  /\ putURL[s]
  /\ \E bytes \in {"fits", "over"} : object' = [object EXCEPT ![s] = bytes]
  /\ UNCHANGED <<rowVars, timeVars, timers, procVars, purge, boundVars,
                 historyVars>>

CreateMultipartUploadSession(s) ==
  /\ status[s] = "NONE"
  /\ status' = [status EXCEPT ![s] = "UPLOADING"]
  /\ keyed' = [keyed EXCEPT ![s] = TRUE]
  /\ object' = [object EXCEPT ![s] = "parts"]
  /\ UNCHANGED <<count, burnedAt, timeVars, timers, procVars, purge,
                 boundVars, historyVars>>

CompleteMultipartUpload(p, s) ==
  /\ status[s] = "UPLOADING" /\ ~expired[s]
  /\ Start(p, s, "assemble")
  /\ UNCHANGED <<rowVars, timeVars, object, timers, purge, boundVars,
                 historyVars>>

(* The bucket assembles an upload once.                                    *)
Assemble(p) ==
  LET s == share[p] IN
  /\ pc[p] = "assemble"
  /\ IF object[s] = "parts"
     THEN /\ \E bytes \in {"fits", "over"} :
               object' = [object EXCEPT ![s] = bytes]
          /\ Goto(p, "verify")
     ELSE UNCHANGED object /\ Return(p)
  /\ UNCHANGED <<rowVars, timeVars, timers, purge, boundVars, historyVars>>

(* When the size cannot be read the sender is told to retry.               *)
Verify(p) ==
  LET s == share[p] IN
  /\ pc[p] = "verify"
  /\ \/ /\ object[s] = "none"
        /\ Return(p) /\ UNCHANGED faults
     \/ /\ Fault
        /\ Return(p)
     \/ /\ object[s] # "none"
        /\ Goto(p, IF object[s] = "over" THEN "reject" ELSE "activate")
        /\ UNCHANGED faults
  /\ UNCHANGED <<rowVars, timeVars, object, timers, purge, crashes,
                 historyVars>>

(* Mutant: the status migration 019 has for it.                            *)
ActivateReady(p) ==
  /\ pc[p] = "activate"
  /\ UpdateStatus(share[p], "READY")
  /\ Return(p)
  /\ UNCHANGED <<keyed, count, burnedAt, timeVars, object, timers, purge,
                 boundVars, historyVars>>

Activate(p) ==
  /\ pc[p] = "activate"
  /\ UpdateStatus(share[p], "ACTIVE")
  /\ Return(p)
  /\ UNCHANGED <<keyed, count, burnedAt, timeVars, object, timers, purge,
                 boundVars, historyVars>>

(* An object too large, found at completion or at a download: deleted,     *)
(* then the share is BURNED, with no burned_at.                            *)
Reject(p) ==
  /\ pc[p] = "reject"
  /\ Delete(share[p])
  /\ Goto(p, "rejectMark")
  /\ UNCHANGED <<rowVars, timeVars, timers, purge, crashes, historyVars>>

RejectMark(p) ==
  /\ pc[p] = "rejectMark"
  /\ UpdateStatus(share[p], "BURNED")
  /\ Return(p)
  /\ UNCHANGED <<keyed, count, burnedAt, timeVars, object, timers, purge,
                 boundVars, historyVars>>

AbortMultipartUpload(p, s) ==
  /\ status[s] = "UPLOADING"
  /\ Start(p, s, "deleteRow")
  /\ \/ object' = Aborted(s) /\ UNCHANGED faults
     \/ UNCHANGED object /\ Fault
  /\ UNCHANGED <<rowVars, timeVars, timers, purge, crashes, historyVars>>

DeleteByToken(p) ==
  /\ pc[p] = "deleteRow"
  /\ status' = [status EXCEPT ![share[p]] = "DELETED"]
  /\ Return(p)
  /\ UNCHANGED <<keyed, count, burnedAt, timeVars, object, timers, purge,
                 boundVars, historyVars>>

-----------------------------------------------------------------------------
(* The recipient.                                                          *)

(* RequestDownload reads the row once; all that follows trusts that read.  *)
(* With a cleared storage_key the size check fails and nothing happens.    *)
RequestDownload(p, s) ==
  /\ status[s] = "ACTIVE" /\ ~expired[s] /\ keyed[s]
  /\ Start(p, s, "size")
  /\ UNCHANGED <<rowVars, timeVars, object, timers, purge, boundVars,
                 historyVars>>

CheckSize(p) ==
  LET s == share[p] IN
  /\ pc[p] = "size"
  /\ \/ object[s] \in {"none", "parts"} /\ Return(p) /\ UNCHANGED faults
     \/ Fault /\ Return(p)
     \/ object[s] = "over" /\ Goto(p, "reject") /\ UNCHANGED faults
     \/ object[s] = "fits" /\ Goto(p, "count") /\ UNCHANGED faults
  /\ UNCHANGED <<rowVars, timeVars, object, timers, purge, crashes,
                 historyVars>>

(* Mutant: the burn comes one download late.                               *)
IncrementLate(p) ==
  LET s == share[p] IN
  /\ pc[p] = "count"
  /\ \/ /\ Exists(s) /\ count[s] < MaxCount
        /\ count' = [count EXCEPT ![s] = @ + 1]
        /\ pc' = [pc EXCEPT ![p] = "sign"]
        /\ burn' = [burn EXCEPT ![p] = count[s] + 1 > Limit]
        /\ UNCHANGED share
     \/ ~Exists(s) /\ Return(p) /\ UNCHANGED count
  /\ UNCHANGED <<status, keyed, burnedAt, timeVars, object, timers, purge,
                 boundVars, historyVars>>

(* IncrementDownloadAndCheckBurn: atomic, but whatever count and status    *)
(* are by now.                                                             *)
Increment(p) ==
  LET s == share[p] IN
  /\ pc[p] = "count"
  /\ \/ /\ Exists(s) /\ count[s] < MaxCount
        /\ count' = [count EXCEPT ![s] = @ + 1]
        /\ pc' = [pc EXCEPT ![p] = "sign"]
        /\ burn' = [burn EXCEPT ![p] = count[s] + 1 >= Limit]
        /\ UNCHANGED share
     \/ ~Exists(s) /\ Return(p) /\ UNCHANGED count
  /\ UNCHANGED <<status, keyed, burnedAt, timeVars, object, timers, purge,
                 boundVars, historyVars>>

(* The link is made; it works for 30 minutes.  If it cannot be made the    *)
(* request ends here, the share unburned.                                  *)
Sign(p) ==
  LET s == share[p] IN
  /\ pc[p] = "sign"
  /\ \/ /\ IF burn[p] THEN Goto(p, "burn") ELSE Return(p)
        /\ UNCHANGED <<faults, lost>>
     \/ /\ Fault
        /\ lost' = IF burn[p] THEN [lost EXCEPT ![s] = @ + 1] ELSE lost
        /\ Return(p)
  /\ UNCHANGED <<rowVars, timeVars, object, timers, purge, crashes,
                 adminBurned>>

MarkBurned(p) ==
  LET s == share[p] IN
  /\ pc[p] = "burn"
  /\ \/ /\ UpdateStatus(s, "BURNED")
        /\ burnedAt' = IF Exists(s) THEN [burnedAt EXCEPT ![s] = "new"]
                                    ELSE burnedAt
        /\ UNCHANGED <<faults, lost>>
     \/ /\ Fault
        /\ lost' = [lost EXCEPT ![s] = @ + 1]
        /\ UNCHANGED <<status, burnedAt>>
  /\ timers' = [timers EXCEPT ![s] = @ \cup {2}]
  /\ Return(p)
  /\ UNCHANGED <<keyed, count, timeVars, object, purge, crashes, adminBurned>>

TimerDelete(s) ==
  /\ 0 \in timers[s]
  /\ timers' = [timers EXCEPT ![s] = @ \ {0}]
  /\ Delete(s)
  /\ UNCHANGED <<rowVars, timeVars, procVars, purge, crashes, historyVars>>

-----------------------------------------------------------------------------
(* The admin.                                                              *)

AdminBurnShare(p, s) ==
  /\ Exists(s)
  /\ Start(p, s, "adminMark")
  /\ IF keyed[s] THEN Delete(s) ELSE UNCHANGED <<object, faults>>
  /\ UNCHANGED <<rowVars, timeVars, timers, purge, crashes, historyVars>>

AdminMark(p) ==
  /\ pc[p] = "adminMark"
  /\ UpdateStatus(share[p], "BURNED")
  /\ adminBurned' = adminBurned \cup {share[p]}
  /\ Return(p)
  /\ UNCHANGED <<keyed, count, burnedAt, timeVars, object, timers, purge,
                 boundVars, lost>>

PastDue(s) == status[s] \in {"ACTIVE", "UPLOADING"} /\ expired[s]

MarkExpired ==
  status' = [s \in Share |-> IF PastDue(s) THEN "EXPIRED" ELSE status[s]]

ListAllForAdmin ==
  /\ MarkExpired
  /\ UNCHANGED <<keyed, count, burnedAt, timeVars, object, timers, procVars,
                 purge, boundVars, historyVars>>

-----------------------------------------------------------------------------
(* The scheduler: PurgeExpiredAndBurned marks, selects, clears each row's  *)
(* key, and cleanupEphemeral then deletes what the rows named.             *)

PurgeMark ==
  /\ purge.at = "idle"
  /\ MarkExpired
  /\ purge' = [Idle EXCEPT !.at = "select"]
  /\ UNCHANGED <<keyed, count, burnedAt, timeVars, object, timers, procVars,
                 boundVars, historyVars>>

(* Mutants: a share whose downloads are used up is taken whatever its      *)
(* status; a burned share without a date is not taken.                     *)
PurgeableUsedUp(s) ==
  keyed[s] /\ (status[s] = "EXPIRED" \/ PastDue(s) \/ count[s] >= Limit)

PurgeableDated(s) ==
  /\ keyed[s]
  /\ \/ status[s] = "EXPIRED"
     \/ PastDue(s)
     \/ status[s] = "BURNED" /\ burnedAt[s] = "old"

Purgeable(s) ==
  /\ keyed[s]
  /\ \/ status[s] = "EXPIRED"
     \/ PastDue(s)
     \/ status[s] = "BURNED" /\ burnedAt[s] # "new"

(* Only a share that fell due after PurgeMark is still UPLOADING here.     *)
PurgeSelect ==
  LET T == {s \in Share : Purgeable(s)} IN
  /\ purge.at = "select"
  /\ purge' = [at |-> "clear", todo |-> T, batch |-> T,
               abort |-> {s \in T : status[s] = "UPLOADING"}]
  /\ UNCHANGED <<rowVars, timeVars, object, timers, procVars, boundVars,
                 historyVars>>

(* Mutant: every purged share becomes EXPIRED.                             *)
PurgeClearExpired(s) ==
  /\ s \in purge.todo
  /\ purge' = [purge EXCEPT !.todo = @ \ {s}]
  /\ keyed' = [keyed EXCEPT ![s] = FALSE]
  /\ UpdateStatus(s, "EXPIRED")
  /\ UNCHANGED <<count, burnedAt, timeVars, object, timers, procVars,
                 boundVars, historyVars>>

PurgeClear(s) ==
  /\ s \in purge.todo
  /\ purge' = [purge EXCEPT !.todo = @ \ {s}]
  /\ keyed' = [keyed EXCEPT ![s] = FALSE]
  /\ UpdateStatus(s, IF status[s] = "BURNED" THEN "BURNED" ELSE "EXPIRED")
  /\ UNCHANGED <<count, burnedAt, timeVars, object, timers, procVars,
                 boundVars, historyVars>>

PurgeDelete(s) ==
  /\ purge.todo = {} /\ s \in purge.batch
  /\ purge' = [purge EXCEPT !.batch = @ \ {s}]
  /\ \/ s \notin purge.abort /\ Delete(s)
     \/ s \in purge.abort /\ object' = Aborted(s) /\ UNCHANGED faults
     \/ s \in purge.abort /\ UNCHANGED object /\ Fault
  /\ UNCHANGED <<rowVars, timeVars, timers, procVars, crashes, historyVars>>

(* Mutant: only what is still UPLOADING is looked for.                     *)
AbortOrphanOfUploading(s) ==
  /\ object[s] = "parts" /\ status[s] = "UPLOADING"
  /\ object' = Aborted(s)
  /\ UNCHANGED <<rowVars, timeVars, timers, procVars, purge, boundVars,
                 historyVars>>

(* AbortOrphanMultipartUploads, every hour: an upload begun more than two  *)
(* hours ago is aborted whatever its share's status, even no share at all. *)
(* An error is ignored until the next hour.                                *)
AbortOrphanUpload(s) ==
  /\ object[s] = "parts"
  /\ object' = Aborted(s)
  /\ UNCHANGED <<rowVars, timeVars, timers, procVars, purge, boundVars,
                 historyVars>>

PurgeDone ==
  /\ purge.at = "clear" /\ purge.batch = {}
  /\ purge' = Idle
  /\ UNCHANGED <<rowVars, timeVars, object, timers, procVars, boundVars,
                 historyVars>>

-----------------------------------------------------------------------------
(* Time, and restarts of the server.                                       *)

Expire(s) ==
  /\ status[s] # "NONE" /\ ~expired[s]
  /\ expired' = [expired EXCEPT ![s] = TRUE]
  /\ UNCHANGED <<rowVars, putURL, object, timers, procVars, purge, boundVars,
                 historyVars>>

CloseURL(s) ==
  /\ putURL[s]
  /\ putURL' = [putURL EXCEPT ![s] = FALSE]
  /\ UNCHANGED <<rowVars, expired, object, timers, procVars, purge,
                 boundVars, historyVars>>

Tick ==
  /\ \E s \in Share : burnedAt[s] = "new" \/ timers[s] \cap {1, 2} # {}
  /\ burnedAt' = [s \in Share |->
                    IF burnedAt[s] = "new" THEN "old" ELSE burnedAt[s]]
  /\ timers' = [s \in Share |-> {IF t = 0 THEN 0 ELSE t - 1 : t \in timers[s]}]
  /\ UNCHANGED <<status, keyed, count, timeVars, object, procVars, purge,
                 boundVars, historyVars>>

Crash ==
  /\ crashes < MaxCrashes
  /\ crashes' = crashes + 1
  /\ lost' = [s \in Share |->
                lost[s] + Cardinality({p \in Proc : share[p] = s /\ burn[p]})]
  /\ pc' = [p \in Proc |-> "idle"]
  /\ share' = [p \in Proc |-> NoShare]
  /\ burn' = [p \in Proc |-> FALSE]
  /\ timers' = [s \in Share |-> {}]
  /\ purge' = Idle
  /\ UNCHANGED <<rowVars, timeVars, object, faults, adminBurned>>

-----------------------------------------------------------------------------
Begin(p) ==
  \E s \in Share :
    \/ CompleteMultipartUpload(p, s) \/ AbortMultipartUpload(p, s)
    \/ RequestDownload(p, s) \/ AdminBurnShare(p, s)

Step(p) ==
  \/ Assemble(p) \/ Verify(p) \/ Activate(p) \/ Reject(p) \/ RejectMark(p)
  \/ DeleteByToken(p) \/ CheckSize(p) \/ Increment(p) \/ Sign(p)
  \/ MarkBurned(p) \/ AdminMark(p)

Purge ==
  \/ PurgeMark \/ PurgeSelect \/ PurgeDone
  \/ \E s \in Share : PurgeClear(s) \/ PurgeDelete(s)

Next ==
  \/ \E s \in Share :
       \/ CreateUploadSession(s) \/ CreateMultipartUploadSession(s)
       \/ PutObject(s) \/ TimerDelete(s) \/ Expire(s) \/ CloseURL(s)
       \/ AbortOrphanUpload(s)
  \/ \E p \in Proc : Begin(p) \/ Step(p)
  \/ ListAllForAdmin
  \/ Purge
  \/ Tick
  \/ Crash

Spec == Init /\ [][Next]_vars

(* The purge runs every two minutes and the sweep of unfinished uploads    *)
(* every hour; a handler that has started goes on; shares fall due and     *)
(* time passes.  Nobody has to start anything.                             *)
Fairness ==
  /\ WF_vars(Purge) /\ WF_vars(Tick)
  /\ \A p \in Proc : WF_vars(Step(p))
  /\ \A s \in Share : /\ WF_vars(Expire(s)) /\ WF_vars(TimerDelete(s))
                       /\ WF_vars(AbortOrphanUpload(s))

FairSpec == Spec /\ Fairness

-----------------------------------------------------------------------------
(* Properties.                                                             *)

(* Downloads beyond the limit are bounded: one for every other request in  *)
(* flight, and one for every burn whose record was lost in a crash or an   *)
(* error (RequestDownload, IncrementDownloadAndCheckBurn, MarkBurned).     *)
DownloadsBounded ==
  \A s \in Share : count[s] < Limit + Cardinality(Proc) + lost[s]

(* A share burned by its last download never comes back, whatever a late   *)
(* completion, an abort, the purge or another download does to the row.    *)
BurnIsFinal ==
  \A s \in Share : burnedAt[s] # "null" => status[s] \in {"BURNED", "DELETED"}

(* The purge is never about to delete the object of a share a recipient    *)
(* may still ask for, unless the admin burned that share.                  *)
PurgeSparesActive ==
  \A s \in purge.batch :
    status[s] = "ACTIVE" /\ ~expired[s] => s \in adminBurned

(* The object of a share that is over does not stay: as long as the row    *)
(* has its key, and no call fails and the server does not restart, the     *)
(* purge or a timer takes it.  Two gaps, both of an upload that completes  *)
(* late: the purge had already set out to abort it, or its sender's abort  *)
(* then deletes the row and leaves the object to nobody.                   *)
Stored(s) == object[s] \in {"fits", "over"}
EndedIsErased ==
  \A s \in Share :
    (/\ status[s] \in {"BURNED", "EXPIRED"} /\ keyed[s] /\ s \notin purge.abort
     /\ Stored(s))
      ~> (~Stored(s) \/ status[s] = "DELETED" \/ faults > 0 \/ crashes > 0)

(* The parts of an unfinished upload do not stay in the bucket, although   *)
(* the purge never aborts the upload of a share it has marked EXPIRED.     *)
PartsReclaimed == \A s \in Share : object[s] = "parts" ~> object[s] # "parts"

=============================================================================
