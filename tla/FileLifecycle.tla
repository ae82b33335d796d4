--------------------------- MODULE FileLifecycle ---------------------------
(***************************************************************************)
(* The life of a file in ByteVault: the row in the "files" table, its      *)
(* object in the bucket, the Redis media queue, the goroutines that work   *)
(* on both (API handlers and media workers), the admin's moderation page   *)
(* and the hourly purge and orphan sweep of the scheduler.                 *)
(*                                                                         *)
(* A handler is as many steps as it has calls to the database or to the    *)
(* bucket: nothing in the code makes two of them atomic.                   *)
(***************************************************************************)
EXTENDS Naturals, Sequences, FiniteSets

CONSTANTS
  File,         \* ids of rows; a row's thumbnail has the storage key
                \* ".../thumbnails/<id>.jpg", so the id also names that object
  Key,          \* storage keys ".../docs/<uuid>/<name>", each generated once
  NoKey,
  NoFile,
  Client,       \* goroutines serving API requests
  Worker,       \* goroutines of the media worker (two in production)
  Content,      \* the kinds of bytes clients upload in an instance
  MaxJobs,      \* bound: jobs in the media queue
  MaxFaults,    \* bound: storage calls that fail
  MaxCrashes,   \* bound: restarts of the server
  MaxStrikes    \* bound: strikes are counted up to here

AllContent == {"clean", "infected", "nsfw", "suspect", "mismatch"}

ASSUME FileKeyAssumption ==
  /\ File \cap Key = {}
  /\ NoKey \notin Key \cup File
  /\ NoFile \notin File
  /\ Client \cap Worker = {}

ASSUME ContentAssumption == Content \subseteq AllContent

ASSUME BoundAssumption ==
  MaxJobs \in Nat /\ MaxFaults \in Nat /\ MaxCrashes \in Nat /\ MaxStrikes \in Nat

Proc == Client \cup Worker
Object == Key \cup File

Blocked == {"BLOCKED_MALWARE", "BLOCKED_NSFW"}
Status == {"NONE", "UPLOADING", "PENDING_SCAN", "READY", "FAILED",
           "FLAGGED_REVIEW", "PURGED"} \cup Blocked

(* Where a goroutine stands: between two calls of the handler it runs.     *)
CallPC == {"create", "assemble", "validate", "fail", "commit", "enqueue",
           "enqueueUpload"}
ScanPC == {"scan", "condemnMalware", "markMalware"}
PassedPC == {"nsfw", "condemnNSFW", "markNSFW", "flag",
             "thumb", "thumbKey", "ready"}
PC == {"idle"} \cup CallPC \cup ScanPC \cup PassedPC

VARIABLES
  status, keyOf, deleted, thumbed,  \* the rows: status, storage_key,
                                    \* deleted_at set, thumbnail_key set
  objects,    \* the objects in the bucket
  upload,     \* per key: how its bytes are to arrive, or that they did
  content,    \* per key: the bytes its uploader has
  queue,      \* the media job list in Redis, of file ids
  pc, pfile, pkey,                  \* the goroutines' local state
  sweep,      \* the scheduler: [at, keep, kill, late]
  listed,     \* files the admin's moderation page has shown
  strikes,    \* users.nsfw_strikes of the owner
  faults, crashes,
  replaced,   \* history: rows whose storage key has been changed
  skipped     \* history: keys whose malware scan failed open

rowVars == <<status, keyOf, deleted, thumbed>>
procVars == <<pc, pfile, pkey>>
boundVars == <<faults, crashes>>
historyVars == <<replaced, skipped>>
vars == <<rowVars, objects, upload, content, queue, procVars, sweep, listed,
          strikes, boundVars, historyVars>>

TypeOK ==
  /\ status \in [File -> Status]
  /\ keyOf \in [File -> Key \cup {NoKey}]
  /\ deleted \in [File -> BOOLEAN]
  /\ thumbed \in [File -> BOOLEAN]
  /\ objects \subseteq Object
  /\ upload \in [Key -> {"none", "put", "multipart", "aborted", "stored"}]
  /\ content \in [Key -> AllContent]
  /\ queue \in Seq(File)
  /\ pc \in [Proc -> PC]
  /\ pfile \in [Proc -> File \cup {NoFile}]
  /\ pkey \in [Proc -> Key \cup {NoKey}]
  /\ sweep \in [at : {"idle", "purge", "read", "list", "sweep"},
                keep : SUBSET Object, kill : SUBSET Object, late : SUBSET Object]
  /\ listed \subseteq File
  /\ strikes \in 0 .. MaxStrikes
  /\ faults \in 0 .. MaxFaults
  /\ crashes \in 0 .. MaxCrashes
  /\ replaced \subseteq File
  /\ skipped \subseteq Key

Exists(f) == status[f] \notin {"NONE", "PURGED"}
Live(f) == Exists(f) /\ ~deleted[f]        \* what FindByID returns
Referenced(o) ==
  \E f \in File : Exists(f) /\ (keyOf[f] = o \/ (thumbed[f] /\ f = o))

Idle == [at |-> "idle", keep |-> {}, kill |-> {}, late |-> {}]

Init ==
  /\ status = [f \in File |-> "NONE"]
  /\ keyOf = [f \in File |-> NoKey]
  /\ deleted = [f \in File |-> FALSE]
  /\ thumbed = [f \in File |-> FALSE]
  /\ objects = {}
  /\ upload = [k \in Key |-> "none"]
  /\ content \in [Key -> Content]
  /\ queue = <<>>
  /\ pc = [p \in Proc |-> "idle"]
  /\ pfile = [p \in Proc |-> NoFile]
  /\ pkey = [p \in Proc |-> NoKey]
  /\ sweep = Idle
  /\ listed = {}
  /\ strikes = 0
  /\ faults = 0
  /\ crashes = 0
  /\ replaced = {}
  /\ skipped = {}

(* UPDATE files SET status = s WHERE id = f: no condition on the old       *)
(* status, nor on deleted_at; no effect when the row has been purged.      *)
SetStatus(f, s) ==
  status' = IF Exists(f) THEN [status EXCEPT ![f] = s] ELSE status

Goto(p, l) == pc' = [pc EXCEPT ![p] = l]

Start(p, f, k, l) ==
  /\ pc[p] = "idle"
  /\ pc' = [pc EXCEPT ![p] = l]
  /\ pfile' = [pfile EXCEPT ![p] = f]
  /\ pkey' = [pkey EXCEPT ![p] = k]

Return(p) ==
  /\ pc' = [pc EXCEPT ![p] = "idle"]
  /\ pfile' = [pfile EXCEPT ![p] = NoFile]
  /\ pkey' = [pkey EXCEPT ![p] = NoKey]

(* A storage call may fail, within the bound.                              *)
Fault == faults < MaxFaults /\ faults' = faults + 1

(* A row takes an object's key while a sweep is between its two reads or   *)
(* deleting: remembered, the sweep cannot know.                            *)
Attach(o) ==
  sweep' = IF sweep.at \in {"list", "sweep"}
           THEN [sweep EXCEPT !.late = @ \cup {o}] ELSE sweep

-----------------------------------------------------------------------------
(* The API: upload sessions.                                               *)

(* CreateUploadSession and CreateMultipartUploadSession with no name       *)
(* conflict (or "keep_both"): a new key, then the row that names it.       *)
CreateSession(f, k, how) ==
  /\ status[f] = "NONE" /\ upload[k] = "none"
  /\ status' = [status EXCEPT ![f] = "UPLOADING"]
  /\ keyOf' = [keyOf EXCEPT ![f] = k]
  /\ upload' = [upload EXCEPT ![k] = how]
  /\ Attach(k)
  /\ UNCHANGED <<deleted, thumbed, objects, content, queue, procVars, listed,
                 strikes, boundVars, historyVars>>

(* The same with conflict_action "replace": the row keeps its id and       *)
(* thumbnail and gets a new key, whatever is being done to the old one.    *)
ReplaceSession(f, k, how) ==
  /\ Live(f) /\ upload[k] = "none"
  /\ status' = [status EXCEPT ![f] = "UPLOADING"]
  /\ keyOf' = [keyOf EXCEPT ![f] = k]
  /\ upload' = [upload EXCEPT ![k] = how]
  /\ replaced' = replaced \cup {f}
  /\ Attach(k)
  /\ UNCHANGED <<deleted, thumbed, objects, content, queue, procVars, listed,
                 strikes, boundVars, skipped>>

(* The client PUTs its bytes to the presigned URL, once, at any time.      *)
PutObject(k) ==
  /\ upload[k] = "put"
  /\ upload' = [upload EXCEPT ![k] = "stored"]
  /\ objects' = objects \cup {k}
  /\ UNCHANGED <<rowVars, content, queue, procVars, sweep, listed, strikes,
                 boundVars, historyVars>>

(* CompleteUpload: FindByID, then the snapshot's key is read back.  There  *)
(* is no check of the row's status.                                        *)
CompleteUpload(c, f) ==
  /\ Live(f)
  /\ Start(c, f, keyOf[f], "validate")
  /\ UNCHANGED <<rowVars, objects, upload, content, queue, sweep, listed,
                 strikes, boundVars, historyVars>>

(* CompleteMultipartUpload first asks the bucket to assemble the parts.    *)
(* The upload id is the client's: after a replacement it may belong to the *)
(* key the row had before, and the bucket refuses it.                      *)
CompleteMultipartUpload(c, f) ==
  /\ Live(f)
  /\ \/ Start(c, f, keyOf[f], "assemble")
     \/ f \in replaced /\ Start(c, f, keyOf[f], "fail")
  /\ UNCHANGED <<rowVars, objects, upload, content, queue, sweep, listed,
                 strikes, boundVars, historyVars>>

(* The bucket assembles an upload once.                                    *)
Assemble(c) ==
  /\ pc[c] = "assemble"
  /\ \/ /\ upload[pkey[c]] = "multipart"
        /\ upload' = [upload EXCEPT ![pkey[c]] = "stored"]
        /\ objects' = objects \cup {pkey[c]}
        /\ Goto(c, "validate") /\ UNCHANGED faults
     \/ /\ upload[pkey[c]] # "multipart"
        /\ Goto(c, "fail") /\ UNCHANGED <<upload, objects, faults>>
     \/ Fault /\ Goto(c, "fail") /\ UNCHANGED <<upload, objects>>
  /\ UNCHANGED <<rowVars, content, queue, pfile, pkey, sweep, listed, strikes,
                 crashes, historyVars>>

(* AbortMultipartUpload: the bucket's answer is ignored, the row becomes   *)
(* FAILED from whatever status it has.                                     *)
AbortMultipartUpload(c, f) ==
  /\ Live(f)
  /\ Start(c, f, keyOf[f], "fail")
  /\ \/ /\ upload' = IF upload[keyOf[f]] = "multipart"
                     THEN [upload EXCEPT ![keyOf[f]] = "aborted"] ELSE upload
        /\ UNCHANGED faults
     \/ UNCHANGED upload /\ Fault
     \/ f \in replaced /\ UNCHANGED <<upload, faults>>
  /\ UNCHANGED <<rowVars, objects, content, queue, sweep, listed, strikes,
                 crashes, historyVars>>

(* The first 512 bytes are fetched and their signature compared with the   *)
(* declared type; a mismatch deletes the object at once, and so does an    *)
(* error while reading, but not an error of the call itself.               *)
Validate(c) ==
  LET k == pkey[c] IN
  /\ pc[c] = "validate"
  /\ \/ /\ k \notin objects
        /\ Goto(c, "fail") /\ UNCHANGED <<objects, faults>>
     \/ /\ Fault
        /\ objects' \in {objects, objects \ {k}}
        /\ Goto(c, "fail")
     \/ /\ k \in objects /\ content[k] = "mismatch"
        /\ objects' = objects \ {k}
        /\ Goto(c, "fail") /\ UNCHANGED faults
     \/ /\ k \in objects /\ content[k] # "mismatch"
        /\ Goto(c, "commit") /\ UNCHANGED <<objects, faults>>
  /\ UNCHANGED <<rowVars, upload, content, queue, pfile, pkey, sweep, listed,
                 strikes, crashes, historyVars>>

Fail(c) ==
  /\ pc[c] = "fail"
  /\ SetStatus(pfile[c], "FAILED")
  /\ Return(c)
  /\ UNCHANGED <<keyOf, deleted, thumbed, objects, upload, content, queue,
                 sweep, listed, strikes, boundVars, historyVars>>

(* Mutant: the row is READY as soon as its bytes are there, as the upload  *)
(* design's sequence diagram draws it.                                     *)
CommitReady(c) ==
  /\ pc[c] = "commit"
  /\ SetStatus(pfile[c], "READY")
  /\ Goto(c, "enqueue")
  /\ UNCHANGED <<keyOf, deleted, thumbed, objects, upload, content, queue,
                 pfile, pkey, sweep, listed, strikes, boundVars, historyVars>>

Commit(c) ==
  /\ pc[c] = "commit"
  /\ SetStatus(pfile[c], "PENDING_SCAN")
  /\ Goto(c, "enqueue")
  /\ UNCHANGED <<keyOf, deleted, thumbed, objects, upload, content, queue,
                 pfile, pkey, sweep, listed, strikes, boundVars, historyVars>>

(* The goroutine that pushes the media job; the handler of a direct upload *)
(* goes on to run the media pipeline itself when the file is visual.       *)
Enqueue(c) ==
  /\ pc[c] \in {"enqueue", "enqueueUpload"}
  /\ Len(queue) < MaxJobs
  /\ queue' = Append(queue, pfile[c])
  /\ \/ Return(c)
     \/ /\ pc[c] = "enqueueUpload" /\ Live(pfile[c])
        /\ Goto(c, "scan")
        /\ pkey' = [pkey EXCEPT ![c] = keyOf[pfile[c]]]
        /\ UNCHANGED pfile
  /\ UNCHANGED <<rowVars, objects, upload, content, sweep, listed, strikes,
                 boundVars, historyVars>>

(* Upload: the bytes come with the request, are checked before anything is *)
(* stored, and are stored before the row exists.                           *)
UploadObject(c, k) ==
  /\ upload[k] = "none" /\ content[k] # "mismatch"
  /\ Start(c, NoFile, k, "create")
  /\ upload' = [upload EXCEPT ![k] = "stored"]
  /\ objects' = objects \cup {k}
  /\ UNCHANGED <<rowVars, content, queue, sweep, listed, strikes, boundVars,
                 historyVars>>

UploadCreate(c, f) ==
  /\ pc[c] = "create" /\ status[f] = "NONE"
  /\ status' = [status EXCEPT ![f] = "PENDING_SCAN"]
  /\ keyOf' = [keyOf EXCEPT ![f] = pkey[c]]
  /\ Attach(pkey[c])
  /\ Goto(c, "enqueueUpload")
  /\ pfile' = [pfile EXCEPT ![c] = f]
  /\ UNCHANGED <<deleted, thumbed, objects, upload, content, queue, pkey,
                 listed, strikes, boundVars, historyVars>>

(* Delete: the row is only marked, its objects stay.                       *)
Delete(f) ==
  /\ Live(f)
  /\ deleted' = [deleted EXCEPT ![f] = TRUE]
  /\ UNCHANGED <<status, keyOf, thumbed, objects, upload, content, queue,
                 procVars, sweep, listed, strikes, boundVars, historyVars>>

-----------------------------------------------------------------------------
(* The media worker.  One pass works on the row as ProcessFile read it and *)
(* writes by id whatever the row has become.                               *)

Dequeue(w) ==
  /\ queue # <<>>
  /\ queue' = Tail(queue)
  /\ IF Live(Head(queue))
     THEN Start(w, Head(queue), keyOf[Head(queue)], "scan")
     ELSE pc[w] = "idle" /\ UNCHANGED procVars
  /\ UNCHANGED <<rowVars, objects, upload, content, sweep, listed, strikes,
                 boundVars, historyVars>>

(* Mutant: a pass that cannot read the object gives up.                    *)
ScanGivesUp(p) ==
  LET k == pkey[p] IN
  /\ pc[p] = "scan"
  /\ \/ k \notin objects /\ Return(p) /\ UNCHANGED faults
     \/ k \in objects /\ Fault /\ Return(p)
     \/ /\ k \in objects
        /\ Goto(p, IF content[k] = "infected" THEN "condemnMalware" ELSE "nsfw")
        /\ UNCHANGED <<faults, pfile, pkey>>
  /\ UNCHANGED <<rowVars, objects, upload, content, queue, sweep, listed,
                 strikes, crashes, historyVars>>

(* The malware scan.  An object that cannot be read is not scanned, and    *)
(* the pass goes on.                                                       *)
Scan(p) ==
  LET k == pkey[p] IN
  /\ pc[p] = "scan"
  /\ \/ /\ k \notin objects
        /\ Goto(p, "nsfw") /\ UNCHANGED <<faults, skipped>>
     \/ /\ k \in objects /\ Fault
        /\ skipped' = skipped \cup {k}
        /\ Goto(p, "nsfw")
     \/ /\ k \in objects
        /\ Goto(p, IF content[k] = "infected" THEN "condemnMalware" ELSE "nsfw")
        /\ UNCHANGED <<faults, skipped>>
  /\ UNCHANGED <<rowVars, objects, upload, content, queue, pfile, pkey, sweep,
                 listed, strikes, crashes, replaced>>

(* The NSFW scan.  Without the AI service the heuristic never scores high  *)
(* enough to act; an unreadable object passes.                             *)
Detect(p) ==
  LET k == pkey[p]
      seen == IF k \in objects THEN content[k] ELSE "clean" IN
  /\ pc[p] = "nsfw"
  /\ \/ Goto(p, "thumb")
     \/ seen = "nsfw" /\ Goto(p, "condemnNSFW")
     \/ seen = "suspect" /\ Goto(p, "flag")
  /\ UNCHANGED <<rowVars, objects, upload, content, queue, pfile, pkey, sweep,
                 listed, strikes, boundVars, historyVars>>

(* Mutant: the deletion is left to a later cleanup.                        *)
CondemnLater(p) ==
  /\ pc[p] \in {"condemnMalware", "condemnNSFW"}
  /\ Goto(p, IF pc[p] = "condemnMalware" THEN "markMalware" ELSE "markNSFW")
  /\ UNCHANGED <<rowVars, objects, upload, content, queue, pfile, pkey, sweep,
                 listed, strikes, boundVars, historyVars>>

(* A blocked file's object is deleted first; an error is ignored.          *)
Condemn(p) ==
  /\ pc[p] \in {"condemnMalware", "condemnNSFW"}
  /\ \/ objects' = objects \ {pkey[p]} /\ UNCHANGED faults
     \/ UNCHANGED objects /\ Fault
  /\ Goto(p, IF pc[p] = "condemnMalware" THEN "markMalware" ELSE "markNSFW")
  /\ UNCHANGED <<rowVars, upload, content, queue, pfile, pkey, sweep, listed,
                 strikes, crashes, historyVars>>

MarkBlocked(p) ==
  /\ \/ /\ pc[p] = "markMalware"
        /\ SetStatus(pfile[p], "BLOCKED_MALWARE")
        /\ UNCHANGED strikes
     \/ /\ pc[p] = "markNSFW"
        /\ SetStatus(pfile[p], "BLOCKED_NSFW")
        /\ strikes' = IF strikes < MaxStrikes THEN strikes + 1 ELSE strikes
  /\ Return(p)
  /\ UNCHANGED <<keyOf, deleted, thumbed, objects, upload, content, queue,
                 sweep, listed, boundVars, historyVars>>

Flag(p) ==
  /\ pc[p] = "flag"
  /\ SetStatus(pfile[p], "FLAGGED_REVIEW")
  /\ Return(p)
  /\ UNCHANGED <<keyOf, deleted, thumbed, objects, upload, content, queue,
                 sweep, listed, strikes, boundVars, historyVars>>

(* The thumbnail object is stored before the row names it; other kinds of  *)
(* file, and failures, have none.                                          *)
StoreThumbnail(p) ==
  /\ pc[p] = "thumb"
  /\ \/ /\ pkey[p] \in objects
        /\ objects' = objects \cup {pfile[p]}
        /\ Goto(p, "thumbKey")
     \/ Goto(p, "ready") /\ UNCHANGED objects
  /\ UNCHANGED <<rowVars, upload, content, queue, pfile, pkey, sweep, listed,
                 strikes, boundVars, historyVars>>

UpdateThumbnailKey(p) ==
  /\ pc[p] = "thumbKey"
  /\ IF Exists(pfile[p])
     THEN thumbed' = [thumbed EXCEPT ![pfile[p]] = TRUE] /\ Attach(pfile[p])
     ELSE UNCHANGED <<thumbed, sweep>>
  /\ Goto(p, "ready")
  /\ UNCHANGED <<status, keyOf, deleted, objects, upload, content, queue,
                 pfile, pkey, listed, strikes, boundVars, historyVars>>

(* Mutant: the status of an ephemeral share.                               *)
MarkActive(p) ==
  /\ pc[p] = "ready"
  /\ SetStatus(pfile[p], "ACTIVE")
  /\ Return(p)
  /\ UNCHANGED <<keyOf, deleted, thumbed, objects, upload, content, queue,
                 sweep, listed, strikes, boundVars, historyVars>>

MarkReady(p) ==
  /\ pc[p] = "ready"
  /\ SetStatus(pfile[p], "READY")
  /\ Return(p)
  /\ UNCHANGED <<keyOf, deleted, thumbed, objects, upload, content, queue,
                 sweep, listed, strikes, boundVars, historyVars>>

-----------------------------------------------------------------------------
(* Moderation: the page lists the flagged files, the admin acts on what it *)
(* showed, however old.                                                    *)

ListFlaggedFiles ==
  /\ listed' = {f \in File : Live(f) /\ status[f] = "FLAGGED_REVIEW"}
  /\ listed' # listed
  /\ UNCHANGED <<rowVars, objects, upload, content, queue, procVars, sweep,
                 strikes, boundVars, historyVars>>

ApproveFile(f) ==
  /\ f \in listed
  /\ SetStatus(f, "READY")
  /\ UNCHANGED <<keyOf, deleted, thumbed, objects, upload, content, queue,
                 procVars, sweep, listed, strikes, boundVars, historyVars>>

RejectFile(f) ==
  /\ f \in listed /\ Live(f)
  /\ SetStatus(f, "BLOCKED_NSFW")
  /\ strikes' = IF strikes < MaxStrikes THEN strikes + 1 ELSE strikes
  /\ UNCHANGED <<keyOf, deleted, thumbed, objects, upload, content, queue,
                 procVars, sweep, listed, boundVars, historyVars>>

-----------------------------------------------------------------------------
(* The scheduler.  A purge deletes the rows that have been soft-deleted    *)
(* long enough and then the objects those rows named; the sweep reads the  *)
(* keys of all rows, then lists the bucket, then deletes the difference.   *)

PurgeSoftDeletedBefore ==
  /\ sweep.at = "idle"
  /\ \E D \in SUBSET {f \in File : Exists(f) /\ deleted[f]} :
       /\ status' = [f \in File |-> IF f \in D THEN "PURGED" ELSE status[f]]
       /\ sweep' = [Idle EXCEPT !.at = "purge", !.kill = {keyOf[f] : f \in D}]
  /\ UNCHANGED <<keyOf, deleted, thumbed, objects, upload, content, queue,
                 procVars, listed, strikes, boundVars, historyVars>>

(* One Delete of the purge's or the sweep's loop; an error is only logged. *)
SweepDelete(o) ==
  /\ o \in sweep.kill
  /\ sweep' = [sweep EXCEPT !.kill = @ \ {o}]
  /\ \/ objects' = objects \ {o} /\ UNCHANGED faults
     \/ UNCHANGED objects /\ Fault
  /\ UNCHANGED <<rowVars, upload, content, queue, procVars, listed, strikes,
                 crashes, historyVars>>

PurgeDone ==
  /\ sweep.at = "purge" /\ sweep.kill = {}
  /\ sweep' = [Idle EXCEPT !.at = "read"]
  /\ UNCHANGED <<rowVars, objects, upload, content, queue, procVars, listed,
                 strikes, boundVars, historyVars>>

(* Mutant: the query has the usual "deleted_at IS NULL".                   *)
GetLiveStorageKeys ==
  /\ sweep.at = "read"
  /\ sweep' = [Idle EXCEPT !.at = "list",
       !.keep = {o \in Object : \E f \in File :
                   Live(f) /\ (keyOf[f] = o \/ (thumbed[f] /\ f = o))}]
  /\ UNCHANGED <<rowVars, objects, upload, content, queue, procVars, listed,
                 strikes, boundVars, historyVars>>

(* GetAllStorageKeys: every row counts, the soft-deleted ones too.         *)
GetAllStorageKeys ==
  /\ sweep.at = "read"
  /\ sweep' = [Idle EXCEPT !.at = "list",
                           !.keep = {o \in Object : Referenced(o)}]
  /\ UNCHANGED <<rowVars, objects, upload, content, queue, procVars, listed,
                 strikes, boundVars, historyVars>>

(* Mutant: only the prefix of the documents is listed.                     *)
ListDocuments ==
  /\ sweep.at = "list"
  /\ sweep' = [sweep EXCEPT !.at = "sweep", !.keep = {},
                            !.kill = (objects \cap Key) \ sweep.keep]
  /\ UNCHANGED <<rowVars, objects, upload, content, queue, procVars, listed,
                 strikes, boundVars, historyVars>>

ListObjects ==
  /\ sweep.at = "list"
  /\ sweep' = [sweep EXCEPT !.at = "sweep", !.keep = {},
                            !.kill = objects \ sweep.keep]
  /\ UNCHANGED <<rowVars, objects, upload, content, queue, procVars, listed,
                 strikes, boundVars, historyVars>>

SweepDone ==
  /\ sweep.at = "sweep" /\ sweep.kill = {}
  /\ sweep' = Idle
  /\ UNCHANGED <<rowVars, objects, upload, content, queue, procVars, listed,
                 strikes, boundVars, historyVars>>

(* The server restarts: what its goroutines held is gone, a job already    *)
(* popped from Redis included.                                             *)
Crash ==
  /\ crashes < MaxCrashes
  /\ crashes' = crashes + 1
  /\ pc' = [p \in Proc |-> "idle"]
  /\ pfile' = [p \in Proc |-> NoFile]
  /\ pkey' = [p \in Proc |-> NoKey]
  /\ sweep' = Idle
  /\ UNCHANGED <<rowVars, objects, upload, content, queue, listed, strikes,
                 faults, historyVars>>

-----------------------------------------------------------------------------
Session ==
  \E f \in File, k \in Key, how \in {"put", "multipart"} :
    CreateSession(f, k, how) \/ ReplaceSession(f, k, how)

Request(c) ==
  \/ \E f \in File : \/ CompleteUpload(c, f)
                     \/ CompleteMultipartUpload(c, f)
                     \/ AbortMultipartUpload(c, f)
  \/ \E k \in Key : UploadObject(c, k)

CallStep(c) ==
  \/ Assemble(c) \/ Validate(c) \/ Fail(c) \/ Commit(c) \/ Enqueue(c)
  \/ \E f \in File : UploadCreate(c, f)

ProcessFile(p) ==
  \/ Scan(p) \/ Detect(p) \/ Condemn(p) \/ MarkBlocked(p) \/ Flag(p)
  \/ StoreThumbnail(p) \/ UpdateThumbnailKey(p) \/ MarkReady(p)

Moderate ==
  ListFlaggedFiles \/ \E f \in File : ApproveFile(f) \/ RejectFile(f)

Cleanup ==
  \/ PurgeSoftDeletedBefore \/ PurgeDone \/ GetAllStorageKeys
  \/ ListObjects \/ SweepDone
  \/ \E o \in Object : SweepDelete(o)

Next ==
  \/ Session
  \/ \E k \in Key : PutObject(k)
  \/ \E c \in Client : Request(c) \/ CallStep(c)
  \/ \E f \in File : Delete(f)
  \/ \E w \in Worker : Dequeue(w)
  \/ \E p \in Proc : ProcessFile(p)
  \/ Moderate
  \/ Cleanup
  \/ Crash

Spec == Init /\ [][Next]_vars

(* A goroutine that has a call to make makes it; the ticker fires every    *)
(* hour.  Nothing obliges a client or the admin to do anything.            *)
Fairness ==
  /\ \A c \in Client : WF_vars(CallStep(c))
  /\ \A w \in Worker : WF_vars(Dequeue(w))
  /\ \A p \in Proc : WF_vars(ProcessFile(p))
  /\ WF_vars(Cleanup)

FairSpec == Spec /\ Fairness

-----------------------------------------------------------------------------
(* Properties.                                                             *)

(* A file that still has the key it was created with is never served with  *)
(* bytes the malware scanner would have stopped, whatever the order of the *)
(* handlers, the workers, the admin and the scheduler; except when reading *)
(* the object for the scan failed (media_worker.go goes on without one).   *)
NoInfectedServed ==
  \A f \in File :
    (/\ Live(f) /\ status[f] = "READY" /\ f \notin replaced
     /\ keyOf[f] \in objects /\ keyOf[f] \notin skipped)
    => content[keyOf[f]] # "infected"

(* A file marked BLOCKED_MALWARE has lost its object for good, as long as  *)
(* no storage call has failed: no late upload or reassembly brings it back *)
(* (media_worker.go deletes before it marks).                              *)
BlockedIsErased ==
  faults = 0 =>
    \A f \in File :
      status[f] = "BLOCKED_MALWARE" /\ f \notin replaced => keyOf[f] \notin objects

(* The scheduler is about to delete an object some row names only if the   *)
(* row took it after the sweep had read the table: rows in the trash and   *)
(* rows purged meanwhile included (scheduler.go, cleanupOrphans).          *)
SweepSparesKnownRows ==
  \A o \in sweep.kill : Referenced(o) => sweep.at = "sweep" /\ o \in sweep.late

(* A live file that waits for its scan does not wait for ever, unless the  *)
(* server restarts: the job of the media worker is then gone.              *)
PendingIsResolved ==
  \A f \in File :
    (Live(f) /\ status[f] = "PENDING_SCAN")
      ~> (~(Live(f) /\ status[f] = "PENDING_SCAN") \/ crashes > 0)

(* The bucket does not leak: an object without a row is in the end         *)
(* deleted, or a row takes it.  This covers replaced objects, thumbnails   *)
(* of purged rows, direct uploads cut short and failed deletes.            *)
OrphansReclaimed ==
  \A o \in Object :
    (o \in objects /\ ~Referenced(o)) ~> (o \notin objects \/ Referenced(o))

=============================================================================
