------------------------ MODULE FileLifecycle_proofs ------------------------
(***************************************************************************)
(* Proofs about FileLifecycle, for all sets of files, keys and goroutines  *)
(* and all bounds.                                                         *)
(***************************************************************************)
EXTENDS FileLifecycle, TLAPS

-----------------------------------------------------------------------------
(* Type correctness is not inductive alone: a goroutine that is in the     *)
(* middle of a handler must hold the key, and after "create" the file, the *)
(* handler works on, and a row that exists must have a key.                *)

RowOK == \A f \in File : status[f] # "NONE" => keyOf[f] \in Key

ProcOK ==
  \A p \in Proc :
    /\ pc[p] # "idle" => pkey[p] \in Key
    /\ pc[p] \notin {"idle", "create"} =>
         pfile[p] \in File /\ status[pfile[p]] # "NONE"

QueueOK == \A i \in 1 .. Len(queue) : status[queue[i]] # "NONE"

Shape == TypeOK /\ RowOK /\ ProcOK /\ QueueOK

USE DEF Proc, Object

LEMMA InitShape == Init => Shape
<1>. SUFFICES ASSUME Init PROVE Shape
  OBVIOUS
<1>1. /\ queue \in Seq(File)
      /\ content \in [Key -> AllContent]
      /\ sweep \in [at : {"idle", "purge", "read", "list", "sweep"},
                    keep : SUBSET Object, kill : SUBSET Object,
                    late : SUBSET Object]
  BY ContentAssumption DEF Init, Idle
<1>2. /\ status \in [File -> Status]
      /\ upload \in [Key -> {"none", "put", "multipart", "aborted", "stored"}]
      /\ pc \in [Proc -> PC]
  BY DEF Init, Status, PC
<1>3. /\ keyOf \in [File -> Key \cup {NoKey}]
      /\ deleted \in [File -> BOOLEAN]
      /\ thumbed \in [File -> BOOLEAN]
      /\ pfile \in [Proc -> File \cup {NoFile}]
      /\ pkey \in [Proc -> Key \cup {NoKey}]
  BY DEF Init
<1>4. /\ objects \subseteq Object /\ listed \subseteq File
      /\ replaced \subseteq File /\ skipped \subseteq Key
      /\ strikes \in 0 .. MaxStrikes
      /\ faults \in 0 .. MaxFaults
      /\ crashes \in 0 .. MaxCrashes
  BY BoundAssumption DEF Init
<1>5. RowOK /\ ProcOK /\ QueueOK
  BY DEF Init, RowOK, ProcOK, QueueOK
<1>. QED
  BY <1>1, <1>2, <1>3, <1>4, <1>5 DEF Shape, TypeOK

SweepType == [at : {"idle", "purge", "read", "list", "sweep"},
              keep : SUBSET Object, kill : SUBSET Object, late : SUBSET Object]

LEMMA AttachType ==
  ASSUME Shape, NEW o \in Object, Attach(o)
  PROVE  sweep' \in SweepType
BY DEF Shape, TypeOK, Attach, SweepType

LEMMA CreateSessionShape ==
  ASSUME Shape, NEW f \in File, NEW k \in Key, NEW how \in {"put", "multipart"},
         CreateSession(f, k, how)
  PROVE  Shape'
<1>1. sweep' \in SweepType
  BY AttachType DEF CreateSession
<1>2. TypeOK'
  BY <1>1
  DEF CreateSession, SweepType, Shape, TypeOK, Status, procVars, boundVars,
      historyVars
<1>3. RowOK' /\ ProcOK' /\ QueueOK'
  BY
  DEF CreateSession, Shape, TypeOK, RowOK, ProcOK, QueueOK, Status, Blocked,
      PC, CallPC,
      ScanPC, PassedPC, rowVars, procVars, boundVars, historyVars
<1>. QED
  BY <1>2, <1>3 DEF Shape

LEMMA ReplaceSessionShape ==
  ASSUME Shape, NEW f \in File, NEW k \in Key, NEW how \in {"put", "multipart"},
         ReplaceSession(f, k, how)
  PROVE  Shape'
BY SMTT(30), BoundAssumption
   DEF Shape, TypeOK, RowOK, ProcOK, QueueOK, ReplaceSession, Attach, Live,
       Exists, Status, Blocked, PC, CallPC, ScanPC, PassedPC,
       rowVars, procVars, boundVars, historyVars

LEMMA PutObjectShape ==
  ASSUME Shape, NEW k \in Key, PutObject(k)
  PROVE  Shape'
BY BoundAssumption
   DEF Shape, TypeOK, RowOK, ProcOK, QueueOK, PutObject, Status, Blocked, PC,
       CallPC, ScanPC, PassedPC,
       rowVars, procVars, boundVars, historyVars

LEMMA CompleteUploadShape ==
  ASSUME Shape, NEW c \in Client, NEW f \in File, CompleteUpload(c, f)
  PROVE  Shape'
BY BoundAssumption
   DEF Shape, TypeOK, RowOK, ProcOK, QueueOK, CompleteUpload, Live, Exists,
       Start, Status, Blocked, PC, CallPC, ScanPC, PassedPC,
       rowVars, procVars, boundVars, historyVars

LEMMA CompleteMultipartUploadShape ==
  ASSUME Shape, NEW c \in Client, NEW f \in File, CompleteMultipartUpload(c, f)
  PROVE  Shape'
<1>1. PICK l \in {"assemble", "fail"} : Start(c, f, keyOf[f], l)
  BY DEF CompleteMultipartUpload
<1>. QED
  BY <1>1
  DEF CompleteMultipartUpload, Start, Live, Exists, Shape, TypeOK, RowOK,
      ProcOK, QueueOK, Status, Blocked, PC, CallPC,
      ScanPC, PassedPC, rowVars, procVars, boundVars, historyVars

LEMMA AbortMultipartUploadShape ==
  ASSUME Shape, NEW c \in Client, NEW f \in File, AbortMultipartUpload(c, f)
  PROVE  Shape'
BY BoundAssumption
   DEF Fault, Shape, TypeOK, RowOK, ProcOK, QueueOK, AbortMultipartUpload, Live,
       Exists, Start, Status, Blocked, PC, CallPC, ScanPC, PassedPC,
       rowVars, procVars, boundVars, historyVars

LEMMA UploadObjectShape ==
  ASSUME Shape, NEW c \in Client, NEW k \in Key, UploadObject(c, k)
  PROVE  Shape'
BY BoundAssumption
   DEF Shape, TypeOK, RowOK, ProcOK, QueueOK, UploadObject, Start, Status,
       Blocked, PC, CallPC, ScanPC, PassedPC,
       rowVars, procVars, boundVars, historyVars

LEMMA AssembleShape ==
  ASSUME Shape, NEW c \in Client, Assemble(c)
  PROVE  Shape'
BY BoundAssumption
   DEF Fault, Shape, TypeOK, RowOK, ProcOK, QueueOK, Assemble, Goto, Status, Blocked,
       PC, CallPC, ScanPC, PassedPC,
       rowVars, procVars, boundVars, historyVars

LEMMA ValidateShape ==
  ASSUME Shape, NEW c \in Client, Validate(c)
  PROVE  Shape'
BY BoundAssumption
   DEF Shape, TypeOK, RowOK, ProcOK, QueueOK, Validate, Goto, Fault, Status,
       Blocked, PC, CallPC, ScanPC, PassedPC,
       rowVars, procVars, boundVars, historyVars

LEMMA FailShape ==
  ASSUME Shape, NEW c \in Client, Fail(c)
  PROVE  Shape'
BY BoundAssumption
   DEF Shape, TypeOK, RowOK, ProcOK, QueueOK, Fail, SetStatus, Exists, Return,
       Status, Blocked, PC, CallPC, ScanPC, PassedPC,
       rowVars, procVars, boundVars, historyVars

LEMMA CommitShape ==
  ASSUME Shape, NEW c \in Client, Commit(c)
  PROVE  Shape'
BY BoundAssumption
   DEF Shape, TypeOK, RowOK, ProcOK, QueueOK, Commit, SetStatus, Exists, Goto,
       Status, Blocked, PC, CallPC, ScanPC, PassedPC,
       rowVars, procVars, boundVars, historyVars

LEMMA EnqueueShape ==
  ASSUME Shape, NEW c \in Client, Enqueue(c)
  PROVE  Shape'
BY BoundAssumption
   DEF Shape, TypeOK, RowOK, ProcOK, QueueOK, Enqueue, Return, Goto, Live,
       Exists, Status, Blocked, PC, CallPC, ScanPC, PassedPC,
       rowVars, procVars, boundVars, historyVars

LEMMA UploadCreateShape ==
  ASSUME Shape, NEW c \in Client, NEW f \in File, UploadCreate(c, f)
  PROVE  Shape'
<1>1. pkey[c] \in Key
  BY DEF UploadCreate, Shape, ProcOK
<1>2. sweep' \in SweepType
  BY <1>1, AttachType DEF UploadCreate
<1>3. TypeOK'
  BY <1>1, <1>2
  DEF UploadCreate, Goto, SweepType, Shape, TypeOK, Status, PC, CallPC,
      boundVars, historyVars
<1>4. RowOK' /\ ProcOK' /\ QueueOK'
  BY <1>1
  DEF UploadCreate, Goto, Shape, TypeOK, RowOK, ProcOK, QueueOK, Status,
      Blocked, PC, CallPC,
      ScanPC, PassedPC, rowVars, procVars, boundVars, historyVars
<1>. QED
  BY <1>3, <1>4 DEF Shape

LEMMA DeleteShape ==
  ASSUME Shape, NEW f \in File, Delete(f)
  PROVE  Shape'
BY BoundAssumption
   DEF Shape, TypeOK, RowOK, ProcOK, QueueOK, Delete, Status, Blocked, PC,
       CallPC, ScanPC, PassedPC,
       rowVars, procVars, boundVars, historyVars

LEMMA DequeueShape ==
  ASSUME Shape, NEW w \in Worker, Dequeue(w)
  PROVE  Shape'
BY BoundAssumption
   DEF Shape, TypeOK, RowOK, ProcOK, QueueOK, Dequeue, Start, Live, Exists,
       Status, Blocked, PC, CallPC, ScanPC, PassedPC,
       rowVars, procVars, boundVars, historyVars

LEMMA ScanShape ==
  ASSUME Shape, NEW p \in Proc, Scan(p)
  PROVE  Shape'
BY BoundAssumption
   DEF Shape, TypeOK, RowOK, ProcOK, QueueOK, Scan, Goto, Fault, Status,
       Blocked, PC, CallPC, ScanPC, PassedPC,
       rowVars, procVars, boundVars, historyVars

LEMMA DetectShape ==
  ASSUME Shape, NEW p \in Proc, Detect(p)
  PROVE  Shape'
<1>1. PICK l \in {"thumb", "condemnNSFW", "flag"} : Goto(p, l)
  BY DEF Detect
<1>2. pc[p] = "nsfw" /\ UNCHANGED <<rowVars, objects, upload, content, queue,
         pfile, pkey, sweep, listed, strikes, boundVars, historyVars>>
  BY DEF Detect
<1>. QED
  BY <1>1, <1>2
  DEF Goto, Shape, TypeOK, RowOK, ProcOK, QueueOK, Status, Blocked, PC, CallPC,
      ScanPC, PassedPC, rowVars, procVars, boundVars, historyVars

LEMMA CondemnShape ==
  ASSUME Shape, NEW p \in Proc, Condemn(p)
  PROVE  Shape'
BY BoundAssumption
   DEF Shape, TypeOK, RowOK, ProcOK, QueueOK, Condemn, Goto, Fault, Status,
       Blocked, PC, CallPC, ScanPC, PassedPC,
       rowVars, procVars, boundVars, historyVars

LEMMA MarkBlockedShape ==
  ASSUME Shape, NEW p \in Proc, MarkBlocked(p)
  PROVE  Shape'
BY BoundAssumption
   DEF Shape, TypeOK, RowOK, ProcOK, QueueOK, MarkBlocked, SetStatus, Exists,
       Return, Status, Blocked, PC, CallPC, ScanPC, PassedPC,
       rowVars, procVars, boundVars, historyVars

LEMMA FlagShape ==
  ASSUME Shape, NEW p \in Proc, Flag(p)
  PROVE  Shape'
BY BoundAssumption
   DEF Shape, TypeOK, RowOK, ProcOK, QueueOK, Flag, SetStatus, Exists, Return,
       Status, Blocked, PC, CallPC, ScanPC, PassedPC,
       rowVars, procVars, boundVars, historyVars

LEMMA StoreThumbnailShape ==
  ASSUME Shape, NEW p \in Proc, StoreThumbnail(p)
  PROVE  Shape'
BY BoundAssumption
   DEF Shape, TypeOK, RowOK, ProcOK, QueueOK, StoreThumbnail, Goto, Status,
       Blocked, PC, CallPC, ScanPC, PassedPC,
       rowVars, procVars, boundVars, historyVars

LEMMA UpdateThumbnailKeyShape ==
  ASSUME Shape, NEW p \in Proc, UpdateThumbnailKey(p)
  PROVE  Shape'
<1>1. pfile[p] \in File
  BY DEF UpdateThumbnailKey, Shape, ProcOK
<1>2. sweep' \in SweepType
  BY <1>1, AttachType DEF UpdateThumbnailKey, Shape, TypeOK, SweepType
<1>3. TypeOK'
  BY <1>1, <1>2
  DEF UpdateThumbnailKey, Goto, SweepType, Shape, TypeOK, PC, PassedPC,
      boundVars, historyVars
<1>4. RowOK' /\ ProcOK' /\ QueueOK'
  BY <1>1
  DEF UpdateThumbnailKey, Goto, Shape, TypeOK, RowOK, ProcOK, QueueOK, Status,
      Blocked, PC, CallPC,
      ScanPC, PassedPC, rowVars, procVars, boundVars, historyVars
<1>. QED
  BY <1>3, <1>4 DEF Shape

LEMMA MarkReadyShape ==
  ASSUME Shape, NEW p \in Proc, MarkReady(p)
  PROVE  Shape'
BY BoundAssumption
   DEF Shape, TypeOK, RowOK, ProcOK, QueueOK, MarkReady, SetStatus, Exists,
       Return, Status, Blocked, PC, CallPC, ScanPC, PassedPC,
       rowVars, procVars, boundVars, historyVars

LEMMA ListFlaggedFilesShape ==
  ASSUME Shape, ListFlaggedFiles
  PROVE  Shape'
BY BoundAssumption
   DEF Shape, TypeOK, RowOK, ProcOK, QueueOK, ListFlaggedFiles, Status,
       Blocked, PC, CallPC, ScanPC, PassedPC,
       rowVars, procVars, boundVars, historyVars

LEMMA ApproveFileShape ==
  ASSUME Shape, NEW f \in File, ApproveFile(f)
  PROVE  Shape'
BY BoundAssumption
   DEF Shape, TypeOK, RowOK, ProcOK, QueueOK, ApproveFile, SetStatus, Exists,
       Status, Blocked, PC, CallPC, ScanPC, PassedPC,
       rowVars, procVars, boundVars, historyVars

LEMMA RejectFileShape ==
  ASSUME Shape, NEW f \in File, RejectFile(f)
  PROVE  Shape'
BY BoundAssumption
   DEF Shape, TypeOK, RowOK, ProcOK, QueueOK, RejectFile, SetStatus, Exists,
       Status, Blocked, PC, CallPC, ScanPC, PassedPC,
       rowVars, procVars, boundVars, historyVars

LEMMA PurgeSoftDeletedBeforeShape ==
  ASSUME Shape, PurgeSoftDeletedBefore
  PROVE  Shape'
<1>1. PICK D \in SUBSET {f \in File : Exists(f) /\ deleted[f]} :
        /\ status' = [f \in File |-> IF f \in D THEN "PURGED" ELSE status[f]]
        /\ sweep' = [Idle EXCEPT !.at = "purge", !.kill = {keyOf[f] : f \in D}]
  BY DEF PurgeSoftDeletedBefore
<1>2. \A f \in D : status[f] # "NONE" /\ keyOf[f] \in Key
  BY DEF Exists, Shape, RowOK
<1>3. sweep' \in SweepType
  BY <1>1, <1>2 DEF Idle, SweepType
<1>4. status' \in [File -> Status]
  BY <1>1 DEF Shape, TypeOK, Status
<1>5. UNCHANGED <<keyOf, deleted, thumbed, objects, upload, content, queue, pc,
          pfile, pkey, listed, strikes, faults, crashes, replaced, skipped>>
  BY DEF PurgeSoftDeletedBefore, procVars, boundVars, historyVars
<1>6. TypeOK'
  BY <1>3, <1>4, <1>5 DEF SweepType, Shape, TypeOK
<1>7. \A f \in File : status'[f] = "NONE" <=> status[f] = "NONE"
  BY <1>1, <1>2 DEF Shape, TypeOK
<1>8. RowOK' /\ ProcOK' /\ QueueOK'
  BY <1>5, <1>7 DEF Shape, TypeOK, RowOK, ProcOK, QueueOK
<1>. QED
  BY <1>6, <1>8 DEF Shape

LEMMA SweepDeleteShape ==
  ASSUME Shape, NEW o \in Object, SweepDelete(o)
  PROVE  Shape'
<1>1. sweep' \in SweepType
  BY DEF SweepDelete, Shape, TypeOK, SweepType
<1>2. faults' \in 0 .. MaxFaults /\ objects' \subseteq Object
  BY BoundAssumption DEF SweepDelete, Fault, Shape, TypeOK
<1>3. TypeOK'
  BY <1>1, <1>2
  DEF SweepDelete, SweepType, Shape, TypeOK, rowVars, procVars, historyVars
<1>4. RowOK' /\ ProcOK' /\ QueueOK'
  BY DEF SweepDelete, Shape, RowOK, ProcOK, QueueOK, rowVars, procVars
<1>. QED
  BY <1>3, <1>4 DEF Shape

LEMMA PurgeDoneShape ==
  ASSUME Shape, PurgeDone
  PROVE  Shape'
BY BoundAssumption
   DEF Shape, TypeOK, RowOK, ProcOK, QueueOK, PurgeDone, Idle, Status,
       Blocked, PC, CallPC, ScanPC, PassedPC,
       rowVars, procVars, boundVars, historyVars

LEMMA GetAllStorageKeysShape ==
  ASSUME Shape, GetAllStorageKeys
  PROVE  Shape'
BY BoundAssumption
   DEF Shape, TypeOK, RowOK, ProcOK, QueueOK, GetAllStorageKeys, Idle, Status,
       Blocked, PC, CallPC, ScanPC, PassedPC,
       rowVars, procVars, boundVars, historyVars

LEMMA ListObjectsShape ==
  ASSUME Shape, ListObjects
  PROVE  Shape'
BY BoundAssumption
   DEF Shape, TypeOK, RowOK, ProcOK, QueueOK, ListObjects, Status, Blocked,
       PC, CallPC, ScanPC, PassedPC,
       rowVars, procVars, boundVars, historyVars

LEMMA SweepDoneShape ==
  ASSUME Shape, SweepDone
  PROVE  Shape'
BY BoundAssumption
   DEF Shape, TypeOK, RowOK, ProcOK, QueueOK, SweepDone, Idle, Status,
       Blocked, PC, CallPC, ScanPC, PassedPC,
       rowVars, procVars, boundVars, historyVars

LEMMA CrashShape ==
  ASSUME Shape, Crash
  PROVE  Shape'
BY BoundAssumption
   DEF Shape, TypeOK, RowOK, ProcOK, QueueOK, Crash, Idle, Status, Blocked,
       PC, CallPC, ScanPC, PassedPC,
       rowVars, procVars, boundVars, historyVars

LEMMA NextShape == Shape /\ [Next]_vars => Shape'
<1>. SUFFICES ASSUME Shape, [Next]_vars PROVE Shape'
  OBVIOUS
<1>1. CASE Session
  BY <1>1, CreateSessionShape, ReplaceSessionShape DEF Session
<1>2. ASSUME NEW k \in Key, PutObject(k) PROVE Shape'
  BY <1>2, PutObjectShape
<1>3. ASSUME NEW c \in Client, Request(c) PROVE Shape'
  BY <1>3, CompleteUploadShape, CompleteMultipartUploadShape,
     AbortMultipartUploadShape, UploadObjectShape DEF Request
<1>4. ASSUME NEW c \in Client, CallStep(c) PROVE Shape'
  BY <1>4, AssembleShape, ValidateShape, FailShape, CommitShape, EnqueueShape,
     UploadCreateShape DEF CallStep
<1>5. ASSUME NEW f \in File, Delete(f) PROVE Shape'
  BY <1>5, DeleteShape
<1>6. ASSUME NEW w \in Worker, Dequeue(w) PROVE Shape'
  BY <1>6, DequeueShape
<1>7. ASSUME NEW p \in Proc, ProcessFile(p) PROVE Shape'
  BY <1>7, ScanShape, DetectShape, CondemnShape, MarkBlockedShape, FlagShape,
     StoreThumbnailShape, UpdateThumbnailKeyShape, MarkReadyShape
  DEF ProcessFile
<1>8. CASE Moderate
  BY <1>8, ListFlaggedFilesShape, ApproveFileShape, RejectFileShape
  DEF Moderate
<1>9. CASE Cleanup
  BY <1>9, PurgeSoftDeletedBeforeShape, PurgeDoneShape, GetAllStorageKeysShape,
     ListObjectsShape, SweepDoneShape, SweepDeleteShape DEF Cleanup
<1>10. CASE Crash
  BY <1>10, CrashShape
<1>11. CASE UNCHANGED vars
  BY <1>11 DEF vars, rowVars, procVars, boundVars, historyVars, Shape, TypeOK,
               RowOK, ProcOK, QueueOK
<1>. QED
  BY <1>1, <1>2, <1>3, <1>4, <1>5, <1>6, <1>7, <1>8, <1>9, <1>10, <1>11
  DEF Next

(* Every variable keeps its type, and every goroutine works on a row that  *)
(* was created and a key that was generated.                               *)
THEOREM TypeCorrect == Spec => []TypeOK
<1>1. Shape => TypeOK
  BY DEF Shape
<1>. QED
  BY <1>1, InitShape, NextShape, PTL DEF Spec

-----------------------------------------------------------------------------
(* No infected bytes are served.  An object whose bytes have arrived can   *)
(* only disappear, so what a pass of the media worker found out about a    *)
(* key stays true; and the key the pass holds is the key of the row unless *)
(* the row has been replaced.                                              *)

Stored(k) == upload[k] = "stored"

Vetted(k) ==
  /\ Stored(k)
  /\ k \in objects /\ k \notin skipped => content[k] # "infected"

Erased(k) == Stored(k) /\ (faults = 0 => k \notin objects)

ObjectSafe == \A k \in Key : k \in objects => Stored(k)

RowSafe ==
  \A f \in File :
    /\ f \in listed => status[f] # "NONE"
    /\ f \notin replaced =>
         /\ status[f] \in {"READY", "FLAGGED_REVIEW"} => Vetted(keyOf[f])
         /\ f \in listed => Vetted(keyOf[f])
         /\ status[f] = "BLOCKED_MALWARE" => Erased(keyOf[f])

QueueSafe ==
  \A i \in 1 .. Len(queue) : queue[i] \notin replaced => Stored(keyOf[queue[i]])

ProcSafe ==
  \A p \in Proc :
    /\ pc[p] \in {"create", "commit", "enqueue", "enqueueUpload"} =>
         Stored(pkey[p])
    /\ (pc[p] \notin {"idle", "create"} /\ pfile[p] \notin replaced) =>
         /\ pkey[p] = keyOf[pfile[p]]
         /\ pc[p] \in ScanPC \cup PassedPC => Stored(pkey[p])
         /\ pc[p] \in PassedPC => Vetted(pkey[p])
         /\ pc[p] = "markMalware" => Erased(pkey[p])

Safe == ObjectSafe /\ RowSafe /\ QueueSafe /\ ProcSafe

(* What one step may do to the bytes: what has arrived stays what it is,   *)
(* or is deleted.                                                          *)
Monotone ==
  /\ content' = content
  /\ \A k \in Key : Stored(k) => Stored(k)' /\ (k \in objects' => k \in objects)
  /\ skipped \subseteq skipped'
  /\ faults' = 0 => faults = 0

LEMMA StableFacts ==
  ASSUME Monotone
  PROVE  \A k \in Key : /\ Stored(k) => Stored(k)'
                        /\ Vetted(k) => Vetted(k)'
                        /\ Erased(k) => Erased(k)'
BY DEF Monotone, Stored, Vetted, Erased

LEMMA CreateSessionSafe ==
  ASSUME Shape, Safe, NEW f \in File, NEW k \in Key, NEW how \in {"put", "multipart"},
         CreateSession(f, k, how)
  PROVE  Safe'
<1>1. Monotone
  BY BoundAssumption
  DEF CreateSession, Monotone, Shape, TypeOK, Safe, ObjectSafe, Stored,
      historyVars, boundVars
<1>2. ObjectSafe'
  BY <1>1
  DEF CreateSession, Monotone, Shape, TypeOK, Safe, ObjectSafe, Stored,
      ProcSafe, historyVars
<1>3. RowSafe'
  BY <1>1, StableFacts
  DEF CreateSession, Shape, TypeOK, RowOK, ProcOK, Safe, RowSafe, ProcSafe,
      PC, CallPC, ScanPC, PassedPC, rowVars, historyVars
<1>4. QueueSafe'
  BY <1>1, StableFacts
  DEF CreateSession, Shape, TypeOK, RowOK, ProcOK, QueueOK, Safe, QueueSafe,
      ProcSafe, PC, CallPC, ScanPC, PassedPC, rowVars, historyVars
<1>5. ProcSafe'
  BY <1>1, StableFacts
  DEF CreateSession, Shape, TypeOK, RowOK, ProcOK, Safe, RowSafe, QueueSafe,
      ProcSafe, PC, CallPC, ScanPC, PassedPC, rowVars, procVars, historyVars
<1>. QED
  BY <1>2, <1>3, <1>4, <1>5 DEF Safe

LEMMA ReplaceSessionSafe ==
  ASSUME Shape, Safe, NEW f \in File, NEW k \in Key, NEW how \in {"put", "multipart"},
         ReplaceSession(f, k, how)
  PROVE  Safe'
<1>1. Monotone
  BY BoundAssumption
  DEF ReplaceSession, Live, Exists, Monotone, Shape, TypeOK, Safe, ObjectSafe,
      Stored, historyVars, boundVars
<1>2. ObjectSafe'
  BY <1>1
  DEF ReplaceSession, Live, Exists, Monotone, Shape, TypeOK, Safe, ObjectSafe,
      Stored, ProcSafe, historyVars
<1>3. RowSafe'
  BY <1>1, StableFacts
  DEF ReplaceSession, Live, Exists, Shape, TypeOK, RowOK, ProcOK, Safe,
      RowSafe, ProcSafe, PC, CallPC, ScanPC, PassedPC, rowVars, historyVars
<1>4. QueueSafe'
  BY <1>1, StableFacts
  DEF ReplaceSession, Live, Exists, Shape, TypeOK, RowOK, ProcOK, QueueOK,
      Safe, QueueSafe, ProcSafe, PC, CallPC, ScanPC, PassedPC, rowVars,
      historyVars
<1>5. ProcSafe'
  BY <1>1, StableFacts
  DEF ReplaceSession, Live, Exists, Shape, TypeOK, RowOK, ProcOK, Safe,
      RowSafe, QueueSafe, ProcSafe, PC, CallPC, ScanPC, PassedPC, rowVars,
      procVars, historyVars
<1>. QED
  BY <1>2, <1>3, <1>4, <1>5 DEF Safe

LEMMA PutObjectSafe ==
  ASSUME Shape, Safe, NEW k \in Key, PutObject(k)
  PROVE  Safe'
<1>1. Monotone
  BY BoundAssumption
  DEF PutObject, Monotone, Shape, TypeOK, Safe, ObjectSafe, Stored,
      historyVars, boundVars
<1>2. ObjectSafe'
  BY <1>1
  DEF PutObject, Monotone, Shape, TypeOK, Safe, ObjectSafe, Stored, ProcSafe,
      historyVars
<1>3. RowSafe'
  BY <1>1, StableFacts
  DEF PutObject, Shape, TypeOK, RowOK, ProcOK, Safe, RowSafe, ProcSafe, PC,
      CallPC, ScanPC, PassedPC, rowVars, historyVars
<1>4. QueueSafe'
  BY <1>1, StableFacts
  DEF PutObject, Shape, TypeOK, RowOK, ProcOK, QueueOK, Safe, QueueSafe,
      ProcSafe, PC, CallPC, ScanPC, PassedPC, rowVars, historyVars
<1>5. ProcSafe'
  BY <1>1, StableFacts
  DEF PutObject, Shape, TypeOK, RowOK, ProcOK, Safe, RowSafe, QueueSafe,
      ProcSafe, PC, CallPC, ScanPC, PassedPC, rowVars, procVars, historyVars
<1>. QED
  BY <1>2, <1>3, <1>4, <1>5 DEF Safe

LEMMA CompleteUploadSafe ==
  ASSUME Shape, Safe, NEW c \in Client, NEW f \in File, CompleteUpload(c, f)
  PROVE  Safe'
<1>1. Monotone
  BY BoundAssumption
  DEF CompleteUpload, Start, Live, Exists, Monotone, Shape, TypeOK, Safe,
      ObjectSafe, Stored, historyVars, boundVars
<1>2. ObjectSafe'
  BY <1>1
  DEF CompleteUpload, Start, Live, Exists, Monotone, Shape, TypeOK, Safe,
      ObjectSafe, Stored, ProcSafe, historyVars
<1>3. RowSafe'
  BY <1>1, StableFacts
  DEF CompleteUpload, Start, Live, Exists, Shape, TypeOK, RowOK, ProcOK, Safe,
      RowSafe, ProcSafe, PC, CallPC, ScanPC, PassedPC, rowVars, historyVars
<1>4. QueueSafe'
  BY <1>1, StableFacts
  DEF CompleteUpload, Start, Live, Exists, Shape, TypeOK, RowOK, ProcOK,
      QueueOK, Safe, QueueSafe, ProcSafe, PC, CallPC, ScanPC, PassedPC,
      rowVars, historyVars
<1>5. ProcSafe'
  BY <1>1, StableFacts
  DEF CompleteUpload, Start, Live, Exists, Shape, TypeOK, RowOK, ProcOK, Safe,
      RowSafe, QueueSafe, ProcSafe, PC, CallPC, ScanPC, PassedPC, rowVars,
      procVars, historyVars
<1>. QED
  BY <1>2, <1>3, <1>4, <1>5 DEF Safe

LEMMA CompleteMultipartUploadSafe ==
  ASSUME Shape, Safe, NEW c \in Client, NEW f \in File,
         CompleteMultipartUpload(c, f)
  PROVE  Safe'
<1>1. Monotone
  BY BoundAssumption
  DEF CompleteMultipartUpload, Start, Live, Exists, Monotone, Shape, TypeOK,
      Safe, ObjectSafe, Stored, historyVars, boundVars
<1>2. ObjectSafe'
  BY <1>1
  DEF CompleteMultipartUpload, Start, Live, Exists, Monotone, Shape, TypeOK,
      Safe, ObjectSafe, Stored, ProcSafe, historyVars
<1>3. RowSafe'
  BY <1>1, StableFacts
  DEF CompleteMultipartUpload, Start, Live, Exists, Shape, TypeOK, RowOK,
      ProcOK, Safe, RowSafe, ProcSafe, PC, CallPC, ScanPC, PassedPC, rowVars,
      historyVars
<1>4. QueueSafe'
  BY <1>1, StableFacts
  DEF CompleteMultipartUpload, Start, Live, Exists, Shape, TypeOK, RowOK,
      ProcOK, QueueOK, Safe, QueueSafe, ProcSafe, PC, CallPC, ScanPC,
      PassedPC, rowVars, historyVars
<1>5. ProcSafe'
  BY <1>1, StableFacts
  DEF CompleteMultipartUpload, Start, Live, Exists, Shape, TypeOK, RowOK,
      ProcOK, Safe, RowSafe, QueueSafe, ProcSafe, PC, CallPC, ScanPC,
      PassedPC, rowVars, procVars, historyVars
<1>. QED
  BY <1>2, <1>3, <1>4, <1>5 DEF Safe

LEMMA AbortMultipartUploadSafe ==
  ASSUME Shape, Safe, NEW c \in Client, NEW f \in File,
         AbortMultipartUpload(c, f)
  PROVE  Safe'
<1>1. Monotone
  BY BoundAssumption
  DEF Fault, AbortMultipartUpload, Start, Live, Exists, Monotone, Shape, TypeOK,
      Safe, ObjectSafe, Stored, historyVars, boundVars
<1>2. ObjectSafe'
  BY <1>1
  DEF Fault, AbortMultipartUpload, Start, Live, Exists, Monotone, Shape, TypeOK,
      Safe, ObjectSafe, Stored, ProcSafe, historyVars
<1>3. RowSafe'
  BY <1>1, StableFacts
  DEF Fault, AbortMultipartUpload, Start, Live, Exists, Shape, TypeOK, RowOK, ProcOK,
      Safe, RowSafe, ProcSafe, PC, CallPC, ScanPC, PassedPC, rowVars,
      historyVars
<1>4. QueueSafe'
  BY <1>1, StableFacts
  DEF Fault, AbortMultipartUpload, Start, Live, Exists, Shape, TypeOK, RowOK, ProcOK,
      QueueOK, Safe, QueueSafe, ProcSafe, PC, CallPC, ScanPC, PassedPC,
      rowVars, historyVars
<1>5. ProcSafe'
  BY <1>1, StableFacts
  DEF Fault, AbortMultipartUpload, Start, Live, Exists, Shape, TypeOK, RowOK, ProcOK,
      Safe, RowSafe, QueueSafe, ProcSafe, PC, CallPC, ScanPC, PassedPC,
      rowVars, procVars, historyVars
<1>. QED
  BY <1>2, <1>3, <1>4, <1>5 DEF Safe

LEMMA UploadObjectSafe ==
  ASSUME Shape, Safe, NEW c \in Client, NEW k \in Key, UploadObject(c, k)
  PROVE  Safe'
<1>1. Monotone
  BY BoundAssumption
  DEF UploadObject, Start, Monotone, Shape, TypeOK, Safe, ObjectSafe, Stored,
      historyVars, boundVars
<1>2. ObjectSafe'
  BY <1>1
  DEF UploadObject, Start, Monotone, Shape, TypeOK, Safe, ObjectSafe, Stored,
      ProcSafe, historyVars
<1>3. RowSafe'
  BY <1>1, StableFacts
  DEF UploadObject, Start, Shape, TypeOK, RowOK, ProcOK, Safe, RowSafe,
      ProcSafe, PC, CallPC, ScanPC, PassedPC, rowVars, historyVars
<1>4. QueueSafe'
  BY <1>1, StableFacts
  DEF UploadObject, Start, Shape, TypeOK, RowOK, ProcOK, QueueOK, Safe,
      QueueSafe, ProcSafe, PC, CallPC, ScanPC, PassedPC, rowVars, historyVars
<1>5. ProcSafe'
  BY <1>1, StableFacts
  DEF Stored, UploadObject, Start, Shape, TypeOK, RowOK, ProcOK, Safe,
      RowSafe, QueueSafe, ProcSafe, PC, CallPC, ScanPC, PassedPC, rowVars,
      procVars, historyVars
<1>. QED
  BY <1>2, <1>3, <1>4, <1>5 DEF Safe

LEMMA AssembleSafe ==
  ASSUME Shape, Safe, NEW c \in Client, Assemble(c)
  PROVE  Safe'
<1>1. Monotone
  BY BoundAssumption
  DEF Fault, Assemble, Monotone, Shape, TypeOK, Safe, ObjectSafe, Stored,
      historyVars, boundVars
<1>2. ObjectSafe'
  BY <1>1
  DEF Fault, Assemble, Goto, Monotone, Shape, TypeOK, Safe, ObjectSafe, Stored,
      ProcSafe, historyVars
<1>3. RowSafe'
  BY <1>1, StableFacts
  DEF Fault, Assemble, Goto, Shape, TypeOK, RowOK, ProcOK, Safe, RowSafe, ProcSafe,
      PC, CallPC, ScanPC, PassedPC, rowVars, historyVars
<1>4. QueueSafe'
  BY <1>1, StableFacts
  DEF Fault, Assemble, Goto, Shape, TypeOK, RowOK, ProcOK, QueueOK, Safe, QueueSafe,
      ProcSafe, PC, CallPC, ScanPC, PassedPC, rowVars, historyVars
<1>5. ProcSafe'
  BY <1>1, StableFacts
  DEF Fault, Assemble, Goto, Shape, TypeOK, RowOK, ProcOK, Safe, RowSafe, QueueSafe,
      ProcSafe, PC, CallPC, ScanPC, PassedPC, rowVars, procVars, historyVars
<1>. QED
  BY <1>2, <1>3, <1>4, <1>5 DEF Safe

LEMMA ValidateSafe ==
  ASSUME Shape, Safe, NEW c \in Client, Validate(c)
  PROVE  Safe'
<1>1. Monotone
  BY BoundAssumption
  DEF Validate, Fault, Monotone, Shape, TypeOK, Safe, ObjectSafe, Stored,
      historyVars, boundVars
<1>2. ObjectSafe'
  BY <1>1
  DEF Validate, Goto, Fault, Monotone, Shape, TypeOK, Safe, ObjectSafe,
      Stored, ProcSafe, historyVars
<1>3. RowSafe'
  BY <1>1, StableFacts
  DEF Validate, Goto, Fault, Shape, TypeOK, RowOK, ProcOK, Safe, RowSafe,
      ProcSafe, PC, CallPC, ScanPC, PassedPC, rowVars, historyVars
<1>4. QueueSafe'
  BY <1>1, StableFacts
  DEF Validate, Goto, Fault, Shape, TypeOK, RowOK, ProcOK, QueueOK, Safe,
      QueueSafe, ProcSafe, PC, CallPC, ScanPC, PassedPC, rowVars, historyVars
<1>5. ProcSafe'
  <2>1. /\ pkey' = pkey /\ pfile' = pfile /\ keyOf' = keyOf
        /\ replaced' = replaced /\ pc[c] = "validate"
    BY DEF Validate, rowVars, historyVars
  <2>2. \/ pc' = [pc EXCEPT ![c] = "fail"]
        \/ pc' = [pc EXCEPT ![c] = "commit"] /\ pkey[c] \in objects
    BY DEF Validate, Goto
  <2>3. CASE pc' = [pc EXCEPT ![c] = "fail"]
    BY <1>1, <2>1, <2>3, StableFacts
    DEF Shape, TypeOK, ProcOK, Safe, ProcSafe, PC, CallPC, ScanPC, PassedPC
  <2>4. CASE pc' = [pc EXCEPT ![c] = "commit"] /\ pkey[c] \in objects
    BY <1>1, <2>1, <2>4, StableFacts
    DEF Validate, Shape, TypeOK, ProcOK, Safe, ObjectSafe, ProcSafe, PC, CallPC,
        ScanPC, PassedPC, Object
  <2>. QED
    BY <2>2, <2>3, <2>4
<1>. QED
  BY <1>2, <1>3, <1>4, <1>5 DEF Safe

LEMMA FailSafe ==
  ASSUME Shape, Safe, NEW c \in Client, Fail(c)
  PROVE  Safe'
<1>1. Monotone
  BY BoundAssumption
  DEF Fail, Exists, Monotone, Shape, TypeOK, Safe, ObjectSafe, Stored,
      historyVars, boundVars
<1>2. ObjectSafe'
  BY <1>1
  DEF Fail, SetStatus, Return, Exists, Monotone, Shape, TypeOK, Safe,
      ObjectSafe, Stored, ProcSafe, historyVars
<1>3. RowSafe'
  BY <1>1, StableFacts
  DEF Fail, SetStatus, Return, Exists, Shape, TypeOK, RowOK, ProcOK, Safe,
      RowSafe, ProcSafe, PC, CallPC, ScanPC, PassedPC, rowVars, historyVars
<1>4. QueueSafe'
  BY <1>1, StableFacts
  DEF Fail, SetStatus, Return, Exists, Shape, TypeOK, RowOK, ProcOK, QueueOK,
      Safe, QueueSafe, ProcSafe, PC, CallPC, ScanPC, PassedPC, rowVars,
      historyVars
<1>5. ProcSafe'
  BY <1>1, StableFacts
  DEF Fail, SetStatus, Return, Exists, Shape, TypeOK, RowOK, ProcOK, Safe,
      RowSafe, QueueSafe, ProcSafe, PC, CallPC, ScanPC, PassedPC, rowVars,
      procVars, historyVars
<1>. QED
  BY <1>2, <1>3, <1>4, <1>5 DEF Safe

LEMMA CommitSafe ==
  ASSUME Shape, Safe, NEW c \in Client, Commit(c)
  PROVE  Safe'
<1>1. Monotone
  BY BoundAssumption
  DEF Commit, Exists, Monotone, Shape, TypeOK, Safe, ObjectSafe, Stored,
      historyVars, boundVars
<1>2. ObjectSafe'
  BY <1>1
  DEF Commit, SetStatus, Goto, Exists, Monotone, Shape, TypeOK, Safe,
      ObjectSafe, Stored, ProcSafe, historyVars
<1>3. RowSafe'
  BY <1>1, StableFacts
  DEF Commit, SetStatus, Goto, Exists, Shape, TypeOK, RowOK, ProcOK, Safe,
      RowSafe, ProcSafe, PC, CallPC, ScanPC, PassedPC, rowVars, historyVars
<1>4. QueueSafe'
  BY <1>1, StableFacts
  DEF Commit, SetStatus, Goto, Exists, Shape, TypeOK, RowOK, ProcOK, QueueOK,
      Safe, QueueSafe, ProcSafe, PC, CallPC, ScanPC, PassedPC, rowVars,
      historyVars
<1>5. ProcSafe'
  BY <1>1, StableFacts
  DEF Commit, SetStatus, Goto, Exists, Shape, TypeOK, RowOK, ProcOK, Safe,
      RowSafe, QueueSafe, ProcSafe, PC, CallPC, ScanPC, PassedPC, rowVars,
      procVars, historyVars
<1>. QED
  BY <1>2, <1>3, <1>4, <1>5 DEF Safe

LEMMA EnqueueSafe ==
  ASSUME Shape, Safe, NEW c \in Client, Enqueue(c)
  PROVE  Safe'
<1>1. Monotone
  BY BoundAssumption
  DEF Enqueue, Live, Exists, Monotone, Shape, TypeOK, Safe, ObjectSafe,
      Stored, historyVars, boundVars
<1>2. ObjectSafe'
  BY <1>1
  DEF Enqueue, Goto, Return, Live, Exists, Monotone, Shape, TypeOK, Safe,
      ObjectSafe, Stored, ProcSafe, historyVars
<1>3. RowSafe'
  BY <1>1, StableFacts
  DEF Enqueue, Goto, Return, Live, Exists, Shape, TypeOK, RowOK, ProcOK, Safe,
      RowSafe, ProcSafe, PC, CallPC, ScanPC, PassedPC, rowVars, historyVars
<1>4. QueueSafe'
  BY <1>1, StableFacts
  DEF Enqueue, Goto, Return, Live, Exists, Shape, TypeOK, RowOK, ProcOK,
      QueueOK, Safe, QueueSafe, ProcSafe, PC, CallPC, ScanPC, PassedPC,
      rowVars, historyVars
<1>5. ProcSafe'
  BY <1>1, StableFacts
  DEF Enqueue, Goto, Return, Live, Exists, Shape, TypeOK, RowOK, ProcOK, Safe,
      RowSafe, QueueSafe, ProcSafe, PC, CallPC, ScanPC, PassedPC, rowVars,
      procVars, historyVars
<1>. QED
  BY <1>2, <1>3, <1>4, <1>5 DEF Safe

LEMMA UploadCreateSafe ==
  ASSUME Shape, Safe, NEW c \in Client, NEW f \in File, UploadCreate(c, f)
  PROVE  Safe'
<1>1. Monotone
  BY BoundAssumption
  DEF UploadCreate, Monotone, Shape, TypeOK, Safe, ObjectSafe, Stored,
      historyVars, boundVars
<1>2. ObjectSafe'
  BY <1>1
  DEF UploadCreate, Goto, Monotone, Shape, TypeOK, Safe, ObjectSafe, Stored,
      ProcSafe, historyVars
<1>3. RowSafe'
  BY <1>1, StableFacts
  DEF UploadCreate, Goto, Shape, TypeOK, RowOK, ProcOK, Safe, RowSafe,
      ProcSafe, PC, CallPC, ScanPC, PassedPC, rowVars, historyVars
<1>4. QueueSafe'
  BY <1>1, StableFacts
  DEF UploadCreate, Goto, Shape, TypeOK, RowOK, ProcOK, QueueOK, Safe,
      QueueSafe, ProcSafe, PC, CallPC, ScanPC, PassedPC, rowVars, historyVars
<1>5. ProcSafe'
  BY <1>1, StableFacts
  DEF UploadCreate, Goto, Shape, TypeOK, RowOK, ProcOK, Safe, RowSafe,
      QueueSafe, ProcSafe, PC, CallPC, ScanPC, PassedPC, rowVars, procVars,
      historyVars
<1>. QED
  BY <1>2, <1>3, <1>4, <1>5 DEF Safe

LEMMA DeleteSafe ==
  ASSUME Shape, Safe, NEW f \in File, Delete(f)
  PROVE  Safe'
<1>1. Monotone
  BY BoundAssumption
  DEF Delete, Live, Exists, Monotone, Shape, TypeOK, Safe, ObjectSafe, Stored,
      historyVars, boundVars
<1>2. ObjectSafe'
  BY <1>1
  DEF Delete, Live, Exists, Monotone, Shape, TypeOK, Safe, ObjectSafe, Stored,
      ProcSafe, historyVars
<1>3. RowSafe'
  BY <1>1, StableFacts
  DEF Delete, Live, Exists, Shape, TypeOK, RowOK, ProcOK, Safe, RowSafe,
      ProcSafe, PC, CallPC, ScanPC, PassedPC, rowVars, historyVars
<1>4. QueueSafe'
  BY <1>1, StableFacts
  DEF Delete, Live, Exists, Shape, TypeOK, RowOK, ProcOK, QueueOK, Safe,
      QueueSafe, ProcSafe, PC, CallPC, ScanPC, PassedPC, rowVars, historyVars
<1>5. ProcSafe'
  BY <1>1, StableFacts
  DEF Delete, Live, Exists, Shape, TypeOK, RowOK, ProcOK, Safe, RowSafe,
      QueueSafe, ProcSafe, PC, CallPC, ScanPC, PassedPC, rowVars, procVars,
      historyVars
<1>. QED
  BY <1>2, <1>3, <1>4, <1>5 DEF Safe

LEMMA DequeueSafe ==
  ASSUME Shape, Safe, NEW w \in Worker, Dequeue(w)
  PROVE  Safe'
<1>1. Monotone
  BY BoundAssumption
  DEF Dequeue, Start, Live, Exists, Monotone, Shape, TypeOK, Safe, ObjectSafe,
      Stored, historyVars, boundVars
<1>2. ObjectSafe'
  BY <1>1
  DEF Dequeue, Start, Live, Exists, Monotone, Shape, TypeOK, Safe, ObjectSafe,
      Stored, ProcSafe, historyVars
<1>3. RowSafe'
  BY <1>1, StableFacts
  DEF Dequeue, Start, Live, Exists, Shape, TypeOK, RowOK, ProcOK, Safe,
      RowSafe, ProcSafe, PC, CallPC, ScanPC, PassedPC, rowVars, historyVars
<1>4. QueueSafe'
  BY <1>1, StableFacts
  DEF Dequeue, Start, Live, Exists, Shape, TypeOK, RowOK, ProcOK, QueueOK,
      Safe, QueueSafe, ProcSafe, PC, CallPC, ScanPC, PassedPC, rowVars,
      historyVars
<1>5. ProcSafe'
  BY SMTT(30), <1>1, StableFacts
  DEF Dequeue, Start, Live, Exists, Shape, TypeOK, RowOK, ProcOK, Safe,
      RowSafe, QueueSafe, ProcSafe, PC, CallPC, ScanPC, PassedPC, rowVars,
      procVars, historyVars
<1>. QED
  BY <1>2, <1>3, <1>4, <1>5 DEF Safe

LEMMA ScanSafe ==
  ASSUME Shape, Safe, NEW p \in Proc, Scan(p)
  PROVE  Safe'
<1>1. Monotone
  BY BoundAssumption
  DEF Scan, Fault, Monotone, Shape, TypeOK, Safe, ObjectSafe, Stored,
      historyVars, boundVars
<1>2. ObjectSafe'
  BY <1>1
  DEF Scan, Goto, Fault, Monotone, Shape, TypeOK, Safe, ObjectSafe, Stored,
      ProcSafe, historyVars
<1>3. RowSafe'
  BY <1>1, StableFacts
  DEF Scan, Goto, Fault, Shape, TypeOK, RowOK, ProcOK, Safe, RowSafe,
      ProcSafe, PC, CallPC, ScanPC, PassedPC, rowVars, historyVars
<1>4. QueueSafe'
  BY <1>1, StableFacts
  DEF Scan, Goto, Fault, Shape, TypeOK, RowOK, ProcOK, QueueOK, Safe,
      QueueSafe, ProcSafe, PC, CallPC, ScanPC, PassedPC, rowVars, historyVars
<1>5. ProcSafe'
  BY <1>1, StableFacts
  DEF Vetted, Scan, Goto, Fault, Shape, TypeOK, RowOK, ProcOK, Safe, RowSafe,
      QueueSafe, ProcSafe, PC, CallPC, ScanPC, PassedPC, rowVars, procVars,
      historyVars
<1>. QED
  BY <1>2, <1>3, <1>4, <1>5 DEF Safe

LEMMA DetectSafe ==
  ASSUME Shape, Safe, NEW p \in Proc, Detect(p)
  PROVE  Safe'
<1>1. Monotone
  BY BoundAssumption
  DEF Detect, Monotone, Shape, TypeOK, Safe, ObjectSafe, Stored, historyVars,
      boundVars
<1>2. ObjectSafe'
  BY <1>1
  DEF Detect, Goto, Monotone, Shape, TypeOK, Safe, ObjectSafe, Stored,
      ProcSafe, historyVars
<1>3. RowSafe'
  BY <1>1, StableFacts
  DEF Detect, Goto, Shape, TypeOK, RowOK, ProcOK, Safe, RowSafe, ProcSafe, PC,
      CallPC, ScanPC, PassedPC, rowVars, historyVars
<1>4. QueueSafe'
  BY <1>1, StableFacts
  DEF Detect, Goto, Shape, TypeOK, RowOK, ProcOK, QueueOK, Safe, QueueSafe,
      ProcSafe, PC, CallPC, ScanPC, PassedPC, rowVars, historyVars
<1>5. ProcSafe'
  BY <1>1, StableFacts
  DEF Detect, Goto, Shape, TypeOK, RowOK, ProcOK, Safe, RowSafe, QueueSafe,
      ProcSafe, PC, CallPC, ScanPC, PassedPC, rowVars, procVars, historyVars
<1>. QED
  BY <1>2, <1>3, <1>4, <1>5 DEF Safe

LEMMA CondemnSafe ==
  ASSUME Shape, Safe, NEW p \in Proc, Condemn(p)
  PROVE  Safe'
<1>1. Monotone
  BY BoundAssumption
  DEF Condemn, Fault, Monotone, Shape, TypeOK, Safe, ObjectSafe, Stored,
      historyVars, boundVars
<1>2. ObjectSafe'
  BY <1>1
  DEF Condemn, Goto, Fault, Monotone, Shape, TypeOK, Safe, ObjectSafe, Stored,
      ProcSafe, historyVars
<1>3. RowSafe'
  BY <1>1, StableFacts
  DEF Condemn, Goto, Fault, Shape, TypeOK, RowOK, ProcOK, Safe, RowSafe,
      ProcSafe, PC, CallPC, ScanPC, PassedPC, rowVars, historyVars
<1>4. QueueSafe'
  BY <1>1, StableFacts
  DEF Condemn, Goto, Fault, Shape, TypeOK, RowOK, ProcOK, QueueOK, Safe,
      QueueSafe, ProcSafe, PC, CallPC, ScanPC, PassedPC, rowVars, historyVars
<1>5. ProcSafe'
  BY <1>1, StableFacts
  DEF Erased, Monotone, Condemn, Goto, Fault, Shape, TypeOK, RowOK, ProcOK,
      Safe, RowSafe, QueueSafe, ProcSafe, PC, CallPC, ScanPC, PassedPC,
      rowVars, procVars, historyVars
<1>. QED
  BY <1>2, <1>3, <1>4, <1>5 DEF Safe

LEMMA MarkBlockedSafe ==
  ASSUME Shape, Safe, NEW p \in Proc, MarkBlocked(p)
  PROVE  Safe'
<1>1. Monotone
  BY BoundAssumption
  DEF MarkBlocked, Exists, Monotone, Shape, TypeOK, Safe, ObjectSafe, Stored,
      historyVars, boundVars
<1>2. ObjectSafe'
  BY <1>1
  DEF MarkBlocked, SetStatus, Return, Exists, Monotone, Shape, TypeOK, Safe,
      ObjectSafe, Stored, ProcSafe, historyVars
<1>3. RowSafe'
  BY <1>1, StableFacts
  DEF MarkBlocked, SetStatus, Return, Exists, Shape, TypeOK, RowOK, ProcOK,
      Safe, RowSafe, ProcSafe, PC, CallPC, ScanPC, PassedPC, rowVars,
      historyVars
<1>4. QueueSafe'
  BY <1>1, StableFacts
  DEF MarkBlocked, SetStatus, Return, Exists, Shape, TypeOK, RowOK, ProcOK,
      QueueOK, Safe, QueueSafe, ProcSafe, PC, CallPC, ScanPC, PassedPC,
      rowVars, historyVars
<1>5. ProcSafe'
  BY <1>1, StableFacts
  DEF MarkBlocked, SetStatus, Return, Exists, Shape, TypeOK, RowOK, ProcOK,
      Safe, RowSafe, QueueSafe, ProcSafe, PC, CallPC, ScanPC, PassedPC,
      rowVars, procVars, historyVars
<1>. QED
  BY <1>2, <1>3, <1>4, <1>5 DEF Safe

LEMMA FlagSafe ==
  ASSUME Shape, Safe, NEW p \in Proc, Flag(p)
  PROVE  Safe'
<1>1. Monotone
  BY BoundAssumption
  DEF Flag, Exists, Monotone, Shape, TypeOK, Safe, ObjectSafe, Stored,
      historyVars, boundVars
<1>2. ObjectSafe'
  BY <1>1
  DEF Flag, SetStatus, Return, Exists, Monotone, Shape, TypeOK, Safe,
      ObjectSafe, Stored, ProcSafe, historyVars
<1>3. RowSafe'
  BY <1>1, StableFacts
  DEF Flag, SetStatus, Return, Exists, Shape, TypeOK, RowOK, ProcOK, Safe,
      RowSafe, ProcSafe, PC, CallPC, ScanPC, PassedPC, rowVars, historyVars
<1>4. QueueSafe'
  BY <1>1, StableFacts
  DEF Flag, SetStatus, Return, Exists, Shape, TypeOK, RowOK, ProcOK, QueueOK,
      Safe, QueueSafe, ProcSafe, PC, CallPC, ScanPC, PassedPC, rowVars,
      historyVars
<1>5. ProcSafe'
  BY <1>1, StableFacts
  DEF Flag, SetStatus, Return, Exists, Shape, TypeOK, RowOK, ProcOK, Safe,
      RowSafe, QueueSafe, ProcSafe, PC, CallPC, ScanPC, PassedPC, rowVars,
      procVars, historyVars
<1>. QED
  BY <1>2, <1>3, <1>4, <1>5 DEF Safe

LEMMA StoreThumbnailSafe ==
  ASSUME Shape, Safe, NEW p \in Proc, StoreThumbnail(p)
  PROVE  Safe'
<1>0. pc[p] = "thumb" => pfile[p] \in File /\ pfile[p] \notin Key
  BY FileKeyAssumption DEF Shape, ProcOK
<1>1. Monotone
  BY <1>0, BoundAssumption
  DEF StoreThumbnail, Monotone, Shape, TypeOK, Safe, ObjectSafe, Stored,
      historyVars, boundVars
<1>2. ObjectSafe'
  BY <1>0, <1>1
  DEF StoreThumbnail, Goto, Monotone, Shape, TypeOK, Safe, ObjectSafe, Stored,
      ProcSafe, historyVars
<1>3. RowSafe'
  BY <1>1, StableFacts
  DEF StoreThumbnail, Goto, Shape, TypeOK, RowOK, ProcOK, Safe, RowSafe,
      ProcSafe, PC, CallPC, ScanPC, PassedPC, rowVars, historyVars
<1>4. QueueSafe'
  BY <1>1, StableFacts
  DEF StoreThumbnail, Goto, Shape, TypeOK, RowOK, ProcOK, QueueOK, Safe,
      QueueSafe, ProcSafe, PC, CallPC, ScanPC, PassedPC, rowVars, historyVars
<1>5. ProcSafe'
  BY <1>1, StableFacts
  DEF StoreThumbnail, Goto, Shape, TypeOK, RowOK, ProcOK, Safe, RowSafe,
      QueueSafe, ProcSafe, PC, CallPC, ScanPC, PassedPC, rowVars, procVars,
      historyVars
<1>. QED
  BY <1>2, <1>3, <1>4, <1>5 DEF Safe

LEMMA UpdateThumbnailKeySafe ==
  ASSUME Shape, Safe, NEW p \in Proc, UpdateThumbnailKey(p)
  PROVE  Safe'
<1>1. Monotone
  BY BoundAssumption
  DEF UpdateThumbnailKey, Exists, Monotone, Shape, TypeOK, Safe, ObjectSafe,
      Stored, historyVars, boundVars
<1>2. ObjectSafe'
  BY <1>1
  DEF UpdateThumbnailKey, Goto, Exists, Monotone, Shape, TypeOK, Safe,
      ObjectSafe, Stored, ProcSafe, historyVars
<1>3. RowSafe'
  BY <1>1, StableFacts
  DEF UpdateThumbnailKey, Goto, Exists, Shape, TypeOK, RowOK, ProcOK, Safe,
      RowSafe, ProcSafe, PC, CallPC, ScanPC, PassedPC, rowVars, historyVars
<1>4. QueueSafe'
  BY <1>1, StableFacts
  DEF UpdateThumbnailKey, Goto, Exists, Shape, TypeOK, RowOK, ProcOK, QueueOK,
      Safe, QueueSafe, ProcSafe, PC, CallPC, ScanPC, PassedPC, rowVars,
      historyVars
<1>5. ProcSafe'
  BY <1>1, StableFacts
  DEF UpdateThumbnailKey, Goto, Exists, Shape, TypeOK, RowOK, ProcOK, Safe,
      RowSafe, QueueSafe, ProcSafe, PC, CallPC, ScanPC, PassedPC, rowVars,
      procVars, historyVars
<1>. QED
  BY <1>2, <1>3, <1>4, <1>5 DEF Safe

LEMMA MarkReadySafe ==
  ASSUME Shape, Safe, NEW p \in Proc, MarkReady(p)
  PROVE  Safe'
<1>1. Monotone
  BY BoundAssumption
  DEF MarkReady, Exists, Monotone, Shape, TypeOK, Safe, ObjectSafe, Stored,
      historyVars, boundVars
<1>2. ObjectSafe'
  BY <1>1
  DEF MarkReady, SetStatus, Return, Exists, Monotone, Shape, TypeOK, Safe,
      ObjectSafe, Stored, ProcSafe, historyVars
<1>3. RowSafe'
  BY <1>1, StableFacts
  DEF MarkReady, SetStatus, Return, Exists, Shape, TypeOK, RowOK, ProcOK,
      Safe, RowSafe, ProcSafe, PC, CallPC, ScanPC, PassedPC, rowVars,
      historyVars
<1>4. QueueSafe'
  BY <1>1, StableFacts
  DEF MarkReady, SetStatus, Return, Exists, Shape, TypeOK, RowOK, ProcOK,
      QueueOK, Safe, QueueSafe, ProcSafe, PC, CallPC, ScanPC, PassedPC,
      rowVars, historyVars
<1>5. ProcSafe'
  BY <1>1, StableFacts
  DEF MarkReady, SetStatus, Return, Exists, Shape, TypeOK, RowOK, ProcOK,
      Safe, RowSafe, QueueSafe, ProcSafe, PC, CallPC, ScanPC, PassedPC,
      rowVars, procVars, historyVars
<1>. QED
  BY <1>2, <1>3, <1>4, <1>5 DEF Safe

LEMMA ListFlaggedFilesSafe ==
  ASSUME Shape, Safe, ListFlaggedFiles
  PROVE  Safe'
<1>1. Monotone
  BY BoundAssumption
  DEF ListFlaggedFiles, Live, Exists, Monotone, Shape, TypeOK, Safe,
      ObjectSafe, Stored, historyVars, boundVars
<1>2. ObjectSafe'
  BY <1>1
  DEF ListFlaggedFiles, Live, Exists, Monotone, Shape, TypeOK, Safe,
      ObjectSafe, Stored, ProcSafe, historyVars
<1>3. RowSafe'
  BY <1>1, StableFacts
  DEF ListFlaggedFiles, Live, Exists, Shape, TypeOK, RowOK, ProcOK, Safe,
      RowSafe, ProcSafe, PC, CallPC, ScanPC, PassedPC, rowVars, historyVars
<1>4. QueueSafe'
  BY <1>1, StableFacts
  DEF ListFlaggedFiles, Live, Exists, Shape, TypeOK, RowOK, ProcOK, QueueOK,
      Safe, QueueSafe, ProcSafe, PC, CallPC, ScanPC, PassedPC, rowVars,
      historyVars
<1>5. ProcSafe'
  BY <1>1, StableFacts
  DEF ListFlaggedFiles, Live, Exists, Shape, TypeOK, RowOK, ProcOK, Safe,
      RowSafe, QueueSafe, ProcSafe, PC, CallPC, ScanPC, PassedPC, rowVars,
      procVars, historyVars
<1>. QED
  BY <1>2, <1>3, <1>4, <1>5 DEF Safe

LEMMA ApproveFileSafe ==
  ASSUME Shape, Safe, NEW f \in File, ApproveFile(f)
  PROVE  Safe'
<1>1. Monotone
  BY BoundAssumption
  DEF ApproveFile, Exists, Monotone, Shape, TypeOK, Safe, ObjectSafe, Stored,
      historyVars, boundVars
<1>2. ObjectSafe'
  BY <1>1
  DEF ApproveFile, SetStatus, Exists, Monotone, Shape, TypeOK, Safe,
      ObjectSafe, Stored, ProcSafe, historyVars
<1>3. RowSafe'
  BY <1>1, StableFacts
  DEF ApproveFile, SetStatus, Exists, Shape, TypeOK, RowOK, ProcOK, Safe,
      RowSafe, ProcSafe, PC, CallPC, ScanPC, PassedPC, rowVars, historyVars
<1>4. QueueSafe'
  BY <1>1, StableFacts
  DEF ApproveFile, SetStatus, Exists, Shape, TypeOK, RowOK, ProcOK, QueueOK,
      Safe, QueueSafe, ProcSafe, PC, CallPC, ScanPC, PassedPC, rowVars,
      historyVars
<1>5. ProcSafe'
  BY <1>1, StableFacts
  DEF ApproveFile, SetStatus, Exists, Shape, TypeOK, RowOK, ProcOK, Safe,
      RowSafe, QueueSafe, ProcSafe, PC, CallPC, ScanPC, PassedPC, rowVars,
      procVars, historyVars
<1>. QED
  BY <1>2, <1>3, <1>4, <1>5 DEF Safe

LEMMA RejectFileSafe ==
  ASSUME Shape, Safe, NEW f \in File, RejectFile(f)
  PROVE  Safe'
<1>1. Monotone
  BY BoundAssumption
  DEF RejectFile, Live, Exists, Monotone, Shape, TypeOK, Safe, ObjectSafe,
      Stored, historyVars, boundVars
<1>2. ObjectSafe'
  BY <1>1
  DEF RejectFile, SetStatus, Live, Exists, Monotone, Shape, TypeOK, Safe,
      ObjectSafe, Stored, ProcSafe, historyVars
<1>3. RowSafe'
  BY <1>1, StableFacts
  DEF RejectFile, SetStatus, Live, Exists, Shape, TypeOK, RowOK, ProcOK, Safe,
      RowSafe, ProcSafe, PC, CallPC, ScanPC, PassedPC, rowVars, historyVars
<1>4. QueueSafe'
  BY <1>1, StableFacts
  DEF RejectFile, SetStatus, Live, Exists, Shape, TypeOK, RowOK, ProcOK,
      QueueOK, Safe, QueueSafe, ProcSafe, PC, CallPC, ScanPC, PassedPC,
      rowVars, historyVars
<1>5. ProcSafe'
  BY <1>1, StableFacts
  DEF RejectFile, SetStatus, Live, Exists, Shape, TypeOK, RowOK, ProcOK, Safe,
      RowSafe, QueueSafe, ProcSafe, PC, CallPC, ScanPC, PassedPC, rowVars,
      procVars, historyVars
<1>. QED
  BY <1>2, <1>3, <1>4, <1>5 DEF Safe

LEMMA PurgeSoftDeletedBeforeSafe ==
  ASSUME Shape, Safe, PurgeSoftDeletedBefore
  PROVE  Safe'
<1>1. Monotone
  BY BoundAssumption
  DEF PurgeSoftDeletedBefore, Exists, Monotone, Shape, TypeOK, Safe,
      ObjectSafe, Stored, historyVars, boundVars
<1>2. ObjectSafe'
  BY <1>1
  DEF PurgeSoftDeletedBefore, Exists, Monotone, Shape, TypeOK, Safe,
      ObjectSafe, Stored, ProcSafe, historyVars
<1>3. RowSafe'
  BY <1>1, StableFacts
  DEF PurgeSoftDeletedBefore, Exists, Shape, TypeOK, RowOK, ProcOK, Safe,
      RowSafe, ProcSafe, PC, CallPC, ScanPC, PassedPC, rowVars, historyVars
<1>4. QueueSafe'
  BY <1>1, StableFacts
  DEF PurgeSoftDeletedBefore, Exists, Shape, TypeOK, RowOK, ProcOK, QueueOK,
      Safe, QueueSafe, ProcSafe, PC, CallPC, ScanPC, PassedPC, rowVars,
      historyVars
<1>5. ProcSafe'
  BY <1>1, StableFacts
  DEF PurgeSoftDeletedBefore, Exists, Shape, TypeOK, RowOK, ProcOK, Safe,
      RowSafe, QueueSafe, ProcSafe, PC, CallPC, ScanPC, PassedPC, rowVars,
      procVars, historyVars
<1>. QED
  BY <1>2, <1>3, <1>4, <1>5 DEF Safe

LEMMA SweepDeleteSafe ==
  ASSUME Shape, Safe, NEW o \in Object, SweepDelete(o)
  PROVE  Safe'
<1>1. Monotone
  BY BoundAssumption
  DEF SweepDelete, Fault, Monotone, Shape, TypeOK, Safe, ObjectSafe, Stored,
      historyVars, boundVars
<1>2. ObjectSafe'
  BY <1>1
  DEF SweepDelete, Fault, Monotone, Shape, TypeOK, Safe, ObjectSafe, Stored,
      ProcSafe, historyVars
<1>3. RowSafe'
  BY <1>1, StableFacts
  DEF SweepDelete, Fault, Shape, TypeOK, RowOK, ProcOK, Safe, RowSafe,
      ProcSafe, PC, CallPC, ScanPC, PassedPC, rowVars, historyVars
<1>4. QueueSafe'
  BY <1>1, StableFacts
  DEF SweepDelete, Fault, Shape, TypeOK, RowOK, ProcOK, QueueOK, Safe,
      QueueSafe, ProcSafe, PC, CallPC, ScanPC, PassedPC, rowVars, historyVars
<1>5. ProcSafe'
  BY <1>1, StableFacts
  DEF SweepDelete, Fault, Shape, TypeOK, RowOK, ProcOK, Safe, RowSafe,
      QueueSafe, ProcSafe, PC, CallPC, ScanPC, PassedPC, rowVars, procVars,
      historyVars
<1>. QED
  BY <1>2, <1>3, <1>4, <1>5 DEF Safe

LEMMA PurgeDoneSafe ==
  ASSUME Shape, Safe, PurgeDone
  PROVE  Safe'
<1>1. Monotone
  BY BoundAssumption
  DEF PurgeDone, Monotone, Shape, TypeOK, Safe, ObjectSafe, Stored,
      historyVars, boundVars
<1>2. ObjectSafe'
  BY <1>1
  DEF PurgeDone, Monotone, Shape, TypeOK, Safe, ObjectSafe, Stored, ProcSafe,
      historyVars
<1>3. RowSafe'
  BY <1>1, StableFacts
  DEF PurgeDone, Shape, TypeOK, RowOK, ProcOK, Safe, RowSafe, ProcSafe, PC,
      CallPC, ScanPC, PassedPC, rowVars, historyVars
<1>4. QueueSafe'
  BY <1>1, StableFacts
  DEF PurgeDone, Shape, TypeOK, RowOK, ProcOK, QueueOK, Safe, QueueSafe,
      ProcSafe, PC, CallPC, ScanPC, PassedPC, rowVars, historyVars
<1>5. ProcSafe'
  BY <1>1, StableFacts
  DEF PurgeDone, Shape, TypeOK, RowOK, ProcOK, Safe, RowSafe, QueueSafe,
      ProcSafe, PC, CallPC, ScanPC, PassedPC, rowVars, procVars, historyVars
<1>. QED
  BY <1>2, <1>3, <1>4, <1>5 DEF Safe

LEMMA GetAllStorageKeysSafe ==
  ASSUME Shape, Safe, GetAllStorageKeys
  PROVE  Safe'
<1>1. Monotone
  BY BoundAssumption
  DEF GetAllStorageKeys, Monotone, Shape, TypeOK, Safe, ObjectSafe, Stored,
      historyVars, boundVars
<1>2. ObjectSafe'
  BY <1>1
  DEF GetAllStorageKeys, Monotone, Shape, TypeOK, Safe, ObjectSafe, Stored,
      ProcSafe, historyVars
<1>3. RowSafe'
  BY <1>1, StableFacts
  DEF GetAllStorageKeys, Shape, TypeOK, RowOK, ProcOK, Safe, RowSafe,
      ProcSafe, PC, CallPC, ScanPC, PassedPC, rowVars, historyVars
<1>4. QueueSafe'
  BY <1>1, StableFacts
  DEF GetAllStorageKeys, Shape, TypeOK, RowOK, ProcOK, QueueOK, Safe,
      QueueSafe, ProcSafe, PC, CallPC, ScanPC, PassedPC, rowVars, historyVars
<1>5. ProcSafe'
  BY <1>1, StableFacts
  DEF GetAllStorageKeys, Shape, TypeOK, RowOK, ProcOK, Safe, RowSafe,
      QueueSafe, ProcSafe, PC, CallPC, ScanPC, PassedPC, rowVars, procVars,
      historyVars
<1>. QED
  BY <1>2, <1>3, <1>4, <1>5 DEF Safe

LEMMA ListObjectsSafe ==
  ASSUME Shape, Safe, ListObjects
  PROVE  Safe'
<1>1. Monotone
  BY BoundAssumption
  DEF ListObjects, Monotone, Shape, TypeOK, Safe, ObjectSafe, Stored,
      historyVars, boundVars
<1>2. ObjectSafe'
  BY <1>1
  DEF ListObjects, Monotone, Shape, TypeOK, Safe, ObjectSafe, Stored,
      ProcSafe, historyVars
<1>3. RowSafe'
  BY <1>1, StableFacts
  DEF ListObjects, Shape, TypeOK, RowOK, ProcOK, Safe, RowSafe, ProcSafe, PC,
      CallPC, ScanPC, PassedPC, rowVars, historyVars
<1>4. QueueSafe'
  BY <1>1, StableFacts
  DEF ListObjects, Shape, TypeOK, RowOK, ProcOK, QueueOK, Safe, QueueSafe,
      ProcSafe, PC, CallPC, ScanPC, PassedPC, rowVars, historyVars
<1>5. ProcSafe'
  BY <1>1, StableFacts
  DEF ListObjects, Shape, TypeOK, RowOK, ProcOK, Safe, RowSafe, QueueSafe,
      ProcSafe, PC, CallPC, ScanPC, PassedPC, rowVars, procVars, historyVars
<1>. QED
  BY <1>2, <1>3, <1>4, <1>5 DEF Safe

LEMMA SweepDoneSafe ==
  ASSUME Shape, Safe, SweepDone
  PROVE  Safe'
<1>1. Monotone
  BY BoundAssumption
  DEF SweepDone, Monotone, Shape, TypeOK, Safe, ObjectSafe, Stored,
      historyVars, boundVars
<1>2. ObjectSafe'
  BY <1>1
  DEF SweepDone, Monotone, Shape, TypeOK, Safe, ObjectSafe, Stored, ProcSafe,
      historyVars
<1>3. RowSafe'
  BY <1>1, StableFacts
  DEF SweepDone, Shape, TypeOK, RowOK, ProcOK, Safe, RowSafe, ProcSafe, PC,
      CallPC, ScanPC, PassedPC, rowVars, historyVars
<1>4. QueueSafe'
  BY <1>1, StableFacts
  DEF SweepDone, Shape, TypeOK, RowOK, ProcOK, QueueOK, Safe, QueueSafe,
      ProcSafe, PC, CallPC, ScanPC, PassedPC, rowVars, historyVars
<1>5. ProcSafe'
  BY <1>1, StableFacts
  DEF SweepDone, Shape, TypeOK, RowOK, ProcOK, Safe, RowSafe, QueueSafe,
      ProcSafe, PC, CallPC, ScanPC, PassedPC, rowVars, procVars, historyVars
<1>. QED
  BY <1>2, <1>3, <1>4, <1>5 DEF Safe

LEMMA CrashSafe ==
  ASSUME Shape, Safe, Crash
  PROVE  Safe'
<1>1. Monotone
  BY BoundAssumption
  DEF Crash, Monotone, Shape, TypeOK, Safe, ObjectSafe, Stored, historyVars,
      boundVars
<1>2. ObjectSafe'
  BY <1>1
  DEF Crash, Monotone, Shape, TypeOK, Safe, ObjectSafe, Stored, ProcSafe,
      historyVars
<1>3. RowSafe'
  BY <1>1, StableFacts
  DEF Crash, Shape, TypeOK, RowOK, ProcOK, Safe, RowSafe, ProcSafe, PC,
      CallPC, ScanPC, PassedPC, rowVars, historyVars
<1>4. QueueSafe'
  BY <1>1, StableFacts
  DEF Crash, Shape, TypeOK, RowOK, ProcOK, QueueOK, Safe, QueueSafe, ProcSafe,
      PC, CallPC, ScanPC, PassedPC, rowVars, historyVars
<1>5. ProcSafe'
  BY <1>1, StableFacts
  DEF Crash, Shape, TypeOK, RowOK, ProcOK, Safe, RowSafe, QueueSafe, ProcSafe,
      PC, CallPC, ScanPC, PassedPC, rowVars, procVars, historyVars
<1>. QED
  BY <1>2, <1>3, <1>4, <1>5 DEF Safe

LEMMA InitSafe == Init => Safe
BY
DEF Init, Safe, ObjectSafe, RowSafe, QueueSafe, ProcSafe, Idle, Status,
    Blocked, ScanPC, PassedPC

LEMMA NextSafe ==
  ASSUME Shape, Safe, [Next]_vars
  PROVE  Safe'
<1>1. CASE Session
  BY <1>1, CreateSessionSafe, ReplaceSessionSafe DEF Session
<1>2. ASSUME NEW k \in Key, PutObject(k) PROVE Safe'
  BY <1>2, PutObjectSafe
<1>3. ASSUME NEW c \in Client, Request(c) PROVE Safe'
  BY <1>3, CompleteUploadSafe, CompleteMultipartUploadSafe,
     AbortMultipartUploadSafe, UploadObjectSafe DEF Request
<1>4. ASSUME NEW c \in Client, CallStep(c) PROVE Safe'
  BY <1>4, AssembleSafe, ValidateSafe, FailSafe, CommitSafe, EnqueueSafe,
     UploadCreateSafe DEF CallStep
<1>5. ASSUME NEW f \in File, Delete(f) PROVE Safe'
  BY <1>5, DeleteSafe
<1>6. ASSUME NEW w \in Worker, Dequeue(w) PROVE Safe'
  BY <1>6, DequeueSafe
<1>7. ASSUME NEW p \in Proc, ProcessFile(p) PROVE Safe'
  BY <1>7, ScanSafe, DetectSafe, CondemnSafe, MarkBlockedSafe, FlagSafe,
     StoreThumbnailSafe, UpdateThumbnailKeySafe, MarkReadySafe DEF ProcessFile
<1>8. CASE Moderate
  BY <1>8, ListFlaggedFilesSafe, ApproveFileSafe, RejectFileSafe DEF Moderate
<1>9. CASE Cleanup
  BY <1>9, PurgeSoftDeletedBeforeSafe, PurgeDoneSafe, GetAllStorageKeysSafe,
     ListObjectsSafe, SweepDoneSafe, SweepDeleteSafe DEF Cleanup
<1>10. CASE Crash
  BY <1>10, CrashSafe
<1>11. CASE UNCHANGED vars
  BY <1>11 DEF vars, rowVars, procVars, boundVars, historyVars, Safe,
               ObjectSafe, RowSafe, QueueSafe, ProcSafe, Stored, Vetted, Erased
<1>. QED
  BY <1>1, <1>2, <1>3, <1>4, <1>5, <1>6, <1>7, <1>8, <1>9, <1>10, <1>11
  DEF Next

(* What a goroutine knows of its key and what a row's status says of its   *)
(* bytes stay true whatever the others do.                                 *)
THEOREM SafeAlways == Spec => [](Shape /\ Safe)
<1>1. Init => Shape /\ Safe
  BY InitShape, InitSafe
<1>2. Shape /\ Safe /\ [Next]_vars => (Shape /\ Safe)'
  BY NextShape, NextSafe
<1>. QED
  BY <1>1, <1>2, PTL DEF Spec

(* No order of the handlers, the workers, the admin and the scheduler      *)
(* makes an infected file that kept its key READY, unless the object could *)
(* not be read when it was to be scanned.                                  *)
THEOREM NeverServesInfected == Spec => []NoInfectedServed
<1>1. Shape /\ Safe => NoInfectedServed
  BY DEF Shape, RowOK, Safe, RowSafe, Vetted, NoInfectedServed, Live, Exists
<1>. QED
  BY <1>1, SafeAlways, PTL

(* The bytes of a file blocked for malware are gone and stay gone, while   *)
(* no storage call has failed.                                             *)
THEOREM BlockedStaysErased == Spec => []BlockedIsErased
<1>1. Shape /\ Safe => BlockedIsErased
  BY DEF Shape, RowOK, Safe, RowSafe, Erased, BlockedIsErased
<1>. QED
  BY <1>1, SafeAlways, PTL

-----------------------------------------------------------------------------
(* What the scheduler deletes.  A key is generated once, so no two rows,   *)
(* nor a row and a request that is creating one, ever share it; a key the  *)
(* purge deletes belongs to a purged row; and whatever a row names when    *)
(* the sweep lists the bucket it has read in the table, or was attached    *)
(* since.                                                                  *)

KeyOK ==
  /\ \A f \in File : status[f] # "NONE" => upload[keyOf[f]] # "none"
  /\ \A f \in File : status[f] = "NONE" => ~thumbed[f]
  /\ \A f, g \in File :
       status[f] # "NONE" /\ status[g] # "NONE" /\ keyOf[f] = keyOf[g] => f = g
  /\ \A p \in Proc : pc[p] = "create" =>
       /\ upload[pkey[p]] # "none"
       /\ \A f \in File : status[f] # "NONE" => keyOf[f] # pkey[p]
       /\ \A q \in Proc : pc[q] = "create" /\ pkey[q] = pkey[p] => q = p

SweepOK ==
  /\ sweep.at \in {"idle", "read", "list"} => sweep.kill = {}
  /\ sweep.at = "purge" =>
       \A o \in sweep.kill : \E f \in File : status[f] = "PURGED" /\ keyOf[f] = o
  /\ sweep.at = "list" =>
       \A o \in Object : Referenced(o) => o \in sweep.keep \cup sweep.late
  /\ sweep.at = "sweep" =>
       \A o \in sweep.kill : Referenced(o) => o \in sweep.late

LEMMA AttachSweep ==
  ASSUME Shape, SweepOK, NEW o \in Object, Attach(o),
         \A f \in File : status[f] = "PURGED" =>
           status'[f] = "PURGED" /\ keyOf'[f] = keyOf[f],
         \A q \in Object : Referenced(q)' => Referenced(q) \/ q = o
  PROVE  SweepOK'
BY DEF Attach, Shape, TypeOK, SweepOK

LEMMA CreateSessionSweep ==
  ASSUME Shape, KeyOK, SweepOK, NEW f \in File, NEW k \in Key, NEW how \in {"put", "multipart"},
         CreateSession(f, k, how)
  PROVE  KeyOK' /\ SweepOK'
<1>1. KeyOK'
  BY DEF CreateSession, Shape, TypeOK, RowOK, ProcOK, KeyOK, rowVars, procVars
<1>2. k \in Object
  BY DEF CreateSession, Shape, ProcOK
<1>3. \A g \in File : status[g] = "PURGED" =>
        status'[g] = "PURGED" /\ keyOf'[g] = keyOf[g]
  BY DEF CreateSession, Shape, TypeOK
<1>4. \A q \in Object : Referenced(q)' => Referenced(q) \/ q = k
  BY DEF CreateSession, Shape, TypeOK, KeyOK, Referenced, Exists
<1>5. SweepOK'
  BY <1>2, <1>3, <1>4, AttachSweep DEF CreateSession
<1>. QED
  BY <1>1, <1>5

LEMMA ReplaceSessionSweep ==
  ASSUME Shape, KeyOK, SweepOK, NEW f \in File, NEW k \in Key, NEW how \in {"put", "multipart"},
         ReplaceSession(f, k, how)
  PROVE  KeyOK' /\ SweepOK'
<1>1. KeyOK'
  BY
  DEF ReplaceSession, Live, Exists, Shape, TypeOK, RowOK, ProcOK, KeyOK,
      rowVars, procVars
<1>2. SweepOK'
  BY FileKeyAssumption
  DEF ReplaceSession, Live, Exists, Attach, Idle, Shape, TypeOK, RowOK,
      ProcOK, KeyOK, SweepOK, Referenced, Exists, rowVars
<1>. QED
  BY <1>1, <1>2

LEMMA PutObjectSweep ==
  ASSUME Shape, KeyOK, SweepOK, NEW k \in Key, PutObject(k)
  PROVE  KeyOK' /\ SweepOK'
<1>1. KeyOK'
  BY DEF PutObject, Shape, TypeOK, RowOK, ProcOK, KeyOK, rowVars, procVars
<1>2. SweepOK'
  BY FileKeyAssumption
  DEF PutObject, Attach, Idle, Shape, TypeOK, RowOK, ProcOK, KeyOK, SweepOK,
      Referenced, Exists, rowVars
<1>. QED
  BY <1>1, <1>2

LEMMA CompleteUploadSweep ==
  ASSUME Shape, KeyOK, SweepOK, NEW c \in Client, NEW f \in File,
         CompleteUpload(c, f)
  PROVE  KeyOK' /\ SweepOK'
<1>1. KeyOK'
  BY
  DEF CompleteUpload, Start, Live, Exists, Shape, TypeOK, RowOK, ProcOK,
      KeyOK, rowVars, procVars
<1>2. SweepOK'
  BY FileKeyAssumption
  DEF CompleteUpload, Start, Live, Exists, Attach, Idle, Shape, TypeOK, RowOK,
      ProcOK, KeyOK, SweepOK, Referenced, Exists, rowVars
<1>. QED
  BY <1>1, <1>2

LEMMA CompleteMultipartUploadSweep ==
  ASSUME Shape, KeyOK, SweepOK, NEW c \in Client, NEW f \in File,
         CompleteMultipartUpload(c, f)
  PROVE  KeyOK' /\ SweepOK'
<1>1. KeyOK'
  BY
  DEF CompleteMultipartUpload, Start, Live, Exists, Shape, TypeOK, RowOK,
      ProcOK, KeyOK, rowVars, procVars
<1>2. SweepOK'
  BY FileKeyAssumption
  DEF CompleteMultipartUpload, Start, Live, Exists, Attach, Idle, Shape,
      TypeOK, RowOK, ProcOK, KeyOK, SweepOK, Referenced, Exists, rowVars
<1>. QED
  BY <1>1, <1>2

LEMMA AbortMultipartUploadSweep ==
  ASSUME Shape, KeyOK, SweepOK, NEW c \in Client, NEW f \in File,
         AbortMultipartUpload(c, f)
  PROVE  KeyOK' /\ SweepOK'
<1>1. KeyOK'
  BY
  DEF Fault, AbortMultipartUpload, Start, Live, Exists, Shape, TypeOK, RowOK, ProcOK,
      KeyOK, rowVars, procVars
<1>2. SweepOK'
  BY FileKeyAssumption
  DEF Fault, AbortMultipartUpload, Start, Live, Exists, Attach, Idle, Shape, TypeOK,
      RowOK, ProcOK, KeyOK, SweepOK, Referenced, Exists, rowVars
<1>. QED
  BY <1>1, <1>2

LEMMA UploadObjectSweep ==
  ASSUME Shape, KeyOK, SweepOK, NEW c \in Client, NEW k \in Key,
         UploadObject(c, k)
  PROVE  KeyOK' /\ SweepOK'
<1>1. KeyOK'
  BY
  DEF UploadObject, Start, Shape, TypeOK, RowOK, ProcOK, KeyOK, rowVars,
      procVars
<1>2. SweepOK'
  BY FileKeyAssumption
  DEF UploadObject, Start, Attach, Idle, Shape, TypeOK, RowOK, ProcOK, KeyOK,
      SweepOK, Referenced, Exists, rowVars
<1>. QED
  BY <1>1, <1>2

LEMMA AssembleSweep ==
  ASSUME Shape, KeyOK, SweepOK, NEW c \in Client, Assemble(c)
  PROVE  KeyOK' /\ SweepOK'
<1>1. KeyOK'
  BY DEF Fault, Assemble, Goto, Shape, TypeOK, RowOK, ProcOK, KeyOK, rowVars, procVars
<1>2. SweepOK'
  BY FileKeyAssumption
  DEF Fault, Assemble, Goto, Attach, Idle, Shape, TypeOK, RowOK, ProcOK, KeyOK,
      SweepOK, Referenced, Exists, rowVars
<1>. QED
  BY <1>1, <1>2

LEMMA ValidateSweep ==
  ASSUME Shape, KeyOK, SweepOK, NEW c \in Client, Validate(c)
  PROVE  KeyOK' /\ SweepOK'
<1>1. KeyOK'
  BY
  DEF Validate, Goto, Fault, Shape, TypeOK, RowOK, ProcOK, KeyOK, rowVars,
      procVars
<1>2. SweepOK'
  BY FileKeyAssumption
  DEF Validate, Goto, Fault, Attach, Idle, Shape, TypeOK, RowOK, ProcOK,
      KeyOK, SweepOK, Referenced, Exists, rowVars
<1>. QED
  BY <1>1, <1>2

LEMMA FailSweep ==
  ASSUME Shape, KeyOK, SweepOK, NEW c \in Client, Fail(c)
  PROVE  KeyOK' /\ SweepOK'
<1>1. KeyOK'
  BY
  DEF Fail, SetStatus, Return, Exists, Shape, TypeOK, RowOK, ProcOK, KeyOK,
      rowVars, procVars
<1>2. SweepOK'
  BY FileKeyAssumption
  DEF Fail, SetStatus, Return, Exists, Attach, Idle, Shape, TypeOK, RowOK,
      ProcOK, KeyOK, SweepOK, Referenced, Exists, rowVars
<1>. QED
  BY <1>1, <1>2

LEMMA CommitSweep ==
  ASSUME Shape, KeyOK, SweepOK, NEW c \in Client, Commit(c)
  PROVE  KeyOK' /\ SweepOK'
<1>1. KeyOK'
  BY
  DEF Commit, SetStatus, Goto, Exists, Shape, TypeOK, RowOK, ProcOK, KeyOK,
      rowVars, procVars
<1>2. SweepOK'
  BY FileKeyAssumption
  DEF Commit, SetStatus, Goto, Exists, Attach, Idle, Shape, TypeOK, RowOK,
      ProcOK, KeyOK, SweepOK, Referenced, Exists, rowVars
<1>. QED
  BY <1>1, <1>2

LEMMA EnqueueSweep ==
  ASSUME Shape, KeyOK, SweepOK, NEW c \in Client, Enqueue(c)
  PROVE  KeyOK' /\ SweepOK'
<1>1. \A q \in Proc : pc'[q] = "create" =>
        pc[q] = "create" /\ pkey'[q] = pkey[q]
  BY DEF Enqueue, Goto, Return, Shape, TypeOK
<1>2. KeyOK'
  BY <1>1 DEF Enqueue, KeyOK, rowVars
<1>3. SweepOK'
  BY FileKeyAssumption
  DEF Enqueue, Goto, Return, Live, Exists, Attach, Idle, Shape, TypeOK, RowOK,
      ProcOK, KeyOK, SweepOK, Referenced, Exists, rowVars
<1>. QED
  BY <1>2, <1>3

LEMMA UploadCreateSweep ==
  ASSUME Shape, KeyOK, SweepOK, NEW c \in Client, NEW f \in File,
         UploadCreate(c, f)
  PROVE  KeyOK' /\ SweepOK'
<1>1. KeyOK'
  BY
  DEF UploadCreate, Goto, Shape, TypeOK, RowOK, ProcOK, KeyOK, rowVars,
      procVars
<1>2. pkey[c] \in Object
  BY DEF UploadCreate, Shape, ProcOK
<1>3. \A g \in File : status[g] = "PURGED" =>
        status'[g] = "PURGED" /\ keyOf'[g] = keyOf[g]
  BY DEF UploadCreate, Shape, TypeOK
<1>4. \A q \in Object : Referenced(q)' => Referenced(q) \/ q = pkey[c]
  BY DEF UploadCreate, Shape, TypeOK, KeyOK, Referenced, Exists
<1>5. SweepOK'
  BY <1>2, <1>3, <1>4, AttachSweep DEF UploadCreate
<1>. QED
  BY <1>1, <1>5

LEMMA DeleteSweep ==
  ASSUME Shape, KeyOK, SweepOK, NEW f \in File, Delete(f)
  PROVE  KeyOK' /\ SweepOK'
<1>1. KeyOK'
  BY
  DEF Delete, Live, Exists, Shape, TypeOK, RowOK, ProcOK, KeyOK, rowVars,
      procVars
<1>2. SweepOK'
  BY FileKeyAssumption
  DEF Delete, Live, Exists, Attach, Idle, Shape, TypeOK, RowOK, ProcOK, KeyOK,
      SweepOK, Referenced, Exists, rowVars
<1>. QED
  BY <1>1, <1>2

LEMMA DequeueSweep ==
  ASSUME Shape, KeyOK, SweepOK, NEW w \in Worker, Dequeue(w)
  PROVE  KeyOK' /\ SweepOK'
<1>1. KeyOK'
  BY
  DEF Dequeue, Start, Live, Exists, Shape, TypeOK, RowOK, ProcOK, KeyOK,
      rowVars, procVars
<1>2. SweepOK'
  BY FileKeyAssumption
  DEF Dequeue, Start, Live, Exists, Attach, Idle, Shape, TypeOK, RowOK,
      ProcOK, KeyOK, SweepOK, Referenced, Exists, rowVars
<1>. QED
  BY <1>1, <1>2

LEMMA ScanSweep ==
  ASSUME Shape, KeyOK, SweepOK, NEW p \in Proc, Scan(p)
  PROVE  KeyOK' /\ SweepOK'
<1>1. KeyOK'
  BY
  DEF Scan, Goto, Fault, Shape, TypeOK, RowOK, ProcOK, KeyOK, rowVars,
      procVars
<1>2. SweepOK'
  BY FileKeyAssumption
  DEF Scan, Goto, Fault, Attach, Idle, Shape, TypeOK, RowOK, ProcOK, KeyOK,
      SweepOK, Referenced, Exists, rowVars
<1>. QED
  BY <1>1, <1>2

LEMMA DetectSweep ==
  ASSUME Shape, KeyOK, SweepOK, NEW p \in Proc, Detect(p)
  PROVE  KeyOK' /\ SweepOK'
<1>1. KeyOK'
  BY DEF Detect, Goto, Shape, TypeOK, RowOK, ProcOK, KeyOK, rowVars, procVars
<1>2. SweepOK'
  BY FileKeyAssumption
  DEF Detect, Goto, Attach, Idle, Shape, TypeOK, RowOK, ProcOK, KeyOK,
      SweepOK, Referenced, Exists, rowVars
<1>. QED
  BY <1>1, <1>2

LEMMA CondemnSweep ==
  ASSUME Shape, KeyOK, SweepOK, NEW p \in Proc, Condemn(p)
  PROVE  KeyOK' /\ SweepOK'
<1>1. KeyOK'
  BY
  DEF Condemn, Goto, Fault, Shape, TypeOK, RowOK, ProcOK, KeyOK, rowVars,
      procVars
<1>2. SweepOK'
  BY FileKeyAssumption
  DEF Condemn, Goto, Fault, Attach, Idle, Shape, TypeOK, RowOK, ProcOK, KeyOK,
      SweepOK, Referenced, Exists, rowVars
<1>. QED
  BY <1>1, <1>2

LEMMA MarkBlockedSweep ==
  ASSUME Shape, KeyOK, SweepOK, NEW p \in Proc, MarkBlocked(p)
  PROVE  KeyOK' /\ SweepOK'
<1>1. KeyOK'
  <2>1. PICK s \in Blocked : SetStatus(pfile[p], s)
    BY DEF MarkBlocked, Blocked
  <2>. QED
    BY <2>1 DEF MarkBlocked, SetStatus, Return, Exists, Blocked, Shape, TypeOK,
                ProcOK, KeyOK
<1>2. SweepOK'
  BY FileKeyAssumption
  DEF MarkBlocked, SetStatus, Return, Exists, Attach, Idle, Shape, TypeOK,
      RowOK, ProcOK, KeyOK, SweepOK, Referenced, Exists, rowVars
<1>. QED
  BY <1>1, <1>2

LEMMA FlagSweep ==
  ASSUME Shape, KeyOK, SweepOK, NEW p \in Proc, Flag(p)
  PROVE  KeyOK' /\ SweepOK'
<1>1. KeyOK'
  BY
  DEF Flag, SetStatus, Return, Exists, Shape, TypeOK, RowOK, ProcOK, KeyOK,
      rowVars, procVars
<1>2. SweepOK'
  BY FileKeyAssumption
  DEF Flag, SetStatus, Return, Exists, Attach, Idle, Shape, TypeOK, RowOK,
      ProcOK, KeyOK, SweepOK, Referenced, Exists, rowVars
<1>. QED
  BY <1>1, <1>2

LEMMA StoreThumbnailSweep ==
  ASSUME Shape, KeyOK, SweepOK, NEW p \in Proc, StoreThumbnail(p)
  PROVE  KeyOK' /\ SweepOK'
<1>1. KeyOK'
  BY
  DEF StoreThumbnail, Goto, Shape, TypeOK, RowOK, ProcOK, KeyOK, rowVars,
      procVars
<1>2. SweepOK'
  BY FileKeyAssumption
  DEF StoreThumbnail, Goto, Attach, Idle, Shape, TypeOK, RowOK, ProcOK, KeyOK,
      SweepOK, Referenced, Exists, rowVars
<1>. QED
  BY <1>1, <1>2

LEMMA UpdateThumbnailKeySweep ==
  ASSUME Shape, KeyOK, SweepOK, NEW p \in Proc, UpdateThumbnailKey(p)
  PROVE  KeyOK' /\ SweepOK'
<1>1. KeyOK'
  BY
  DEF UpdateThumbnailKey, Goto, Exists, Shape, TypeOK, RowOK, ProcOK, KeyOK,
      rowVars, procVars
<1>2. /\ status' = status /\ keyOf' = keyOf
      /\ \/ /\ Exists(pfile[p]) /\ Attach(pfile[p])
            /\ thumbed' = [thumbed EXCEPT ![pfile[p]] = TRUE]
         \/ thumbed' = thumbed /\ sweep' = sweep
  BY DEF UpdateThumbnailKey
<1>3. CASE thumbed' = thumbed /\ sweep' = sweep
  BY <1>1, <1>2, <1>3 DEF SweepOK, Referenced, Exists
<1>4. CASE /\ Exists(pfile[p]) /\ Attach(pfile[p])
          /\ thumbed' = [thumbed EXCEPT ![pfile[p]] = TRUE]
  <2>1. pfile[p] \in Object
    BY <1>4 DEF UpdateThumbnailKey, Shape, ProcOK
  <2>2. \A q \in Object : Referenced(q)' => Referenced(q) \/ q = pfile[p]
    BY <1>2, <1>4, <2>1 DEF Shape, TypeOK, Referenced, Exists
  <2>3. \A f \in File : status[f] = "PURGED" =>
          status'[f] = "PURGED" /\ keyOf'[f] = keyOf[f]
    BY <1>2
  <2>. QED
    BY <1>1, <1>4, <2>1, <2>2, <2>3, AttachSweep
<1>. QED
  BY <1>1, <1>2, <1>3, <1>4

LEMMA MarkReadySweep ==
  ASSUME Shape, KeyOK, SweepOK, NEW p \in Proc, MarkReady(p)
  PROVE  KeyOK' /\ SweepOK'
<1>1. KeyOK'
  BY
  DEF MarkReady, SetStatus, Return, Exists, Shape, TypeOK, RowOK, ProcOK,
      KeyOK, rowVars, procVars
<1>2. SweepOK'
  BY FileKeyAssumption
  DEF MarkReady, SetStatus, Return, Exists, Attach, Idle, Shape, TypeOK,
      RowOK, ProcOK, KeyOK, SweepOK, Referenced, Exists, rowVars
<1>. QED
  BY <1>1, <1>2

LEMMA ListFlaggedFilesSweep ==
  ASSUME Shape, KeyOK, SweepOK, ListFlaggedFiles
  PROVE  KeyOK' /\ SweepOK'
<1>1. KeyOK'
  BY
  DEF ListFlaggedFiles, Live, Exists, Shape, TypeOK, RowOK, ProcOK, KeyOK,
      rowVars, procVars
<1>2. SweepOK'
  BY FileKeyAssumption
  DEF ListFlaggedFiles, Live, Exists, Attach, Idle, Shape, TypeOK, RowOK,
      ProcOK, KeyOK, SweepOK, Referenced, Exists, rowVars
<1>. QED
  BY <1>1, <1>2

LEMMA ApproveFileSweep ==
  ASSUME Shape, KeyOK, SweepOK, NEW f \in File, ApproveFile(f)
  PROVE  KeyOK' /\ SweepOK'
<1>1. KeyOK'
  BY
  DEF ApproveFile, SetStatus, Exists, Shape, TypeOK, RowOK, ProcOK, KeyOK,
      rowVars, procVars
<1>2. SweepOK'
  BY FileKeyAssumption
  DEF ApproveFile, SetStatus, Exists, Attach, Idle, Shape, TypeOK, RowOK,
      ProcOK, KeyOK, SweepOK, Referenced, Exists, rowVars
<1>. QED
  BY <1>1, <1>2

LEMMA RejectFileSweep ==
  ASSUME Shape, KeyOK, SweepOK, NEW f \in File, RejectFile(f)
  PROVE  KeyOK' /\ SweepOK'
<1>1. KeyOK'
  BY
  DEF RejectFile, SetStatus, Live, Exists, Shape, TypeOK, RowOK, ProcOK,
      KeyOK, rowVars, procVars
<1>2. SweepOK'
  BY FileKeyAssumption
  DEF RejectFile, SetStatus, Live, Exists, Attach, Idle, Shape, TypeOK, RowOK,
      ProcOK, KeyOK, SweepOK, Referenced, Exists, rowVars
<1>. QED
  BY <1>1, <1>2

LEMMA PurgeSoftDeletedBeforeSweep ==
  ASSUME Shape, KeyOK, SweepOK, PurgeSoftDeletedBefore
  PROVE  KeyOK' /\ SweepOK'
<1>1. KeyOK'
  BY
  DEF PurgeSoftDeletedBefore, Exists, Shape, TypeOK, RowOK, ProcOK, KeyOK,
      rowVars, procVars
<1>2. SweepOK'
  BY FileKeyAssumption
  DEF PurgeSoftDeletedBefore, Exists, Attach, Idle, Shape, TypeOK, RowOK,
      ProcOK, KeyOK, SweepOK, Referenced, Exists, rowVars
<1>. QED
  BY <1>1, <1>2

LEMMA SweepDeleteSweep ==
  ASSUME Shape, KeyOK, SweepOK, NEW o \in Object, SweepDelete(o)
  PROVE  KeyOK' /\ SweepOK'
<1>1. KeyOK'
  BY
  DEF SweepDelete, Fault, Shape, TypeOK, RowOK, ProcOK, KeyOK, rowVars,
      procVars
<1>2. SweepOK'
  BY FileKeyAssumption
  DEF SweepDelete, Fault, Attach, Idle, Shape, TypeOK, RowOK, ProcOK, KeyOK,
      SweepOK, Referenced, Exists, rowVars
<1>. QED
  BY <1>1, <1>2

LEMMA PurgeDoneSweep ==
  ASSUME Shape, KeyOK, SweepOK, PurgeDone
  PROVE  KeyOK' /\ SweepOK'
<1>1. KeyOK'
  BY DEF PurgeDone, Shape, TypeOK, RowOK, ProcOK, KeyOK, rowVars, procVars
<1>2. SweepOK'
  BY FileKeyAssumption
  DEF PurgeDone, Attach, Idle, Shape, TypeOK, RowOK, ProcOK, KeyOK, SweepOK,
      Referenced, Exists, rowVars
<1>. QED
  BY <1>1, <1>2

LEMMA GetAllStorageKeysSweep ==
  ASSUME Shape, KeyOK, SweepOK, GetAllStorageKeys
  PROVE  KeyOK' /\ SweepOK'
<1>1. KeyOK'
  BY
  DEF GetAllStorageKeys, Shape, TypeOK, RowOK, ProcOK, KeyOK, rowVars,
      procVars
<1>2. SweepOK'
  BY FileKeyAssumption
  DEF GetAllStorageKeys, Attach, Idle, Shape, TypeOK, RowOK, ProcOK, KeyOK,
      SweepOK, Referenced, Exists, rowVars
<1>. QED
  BY <1>1, <1>2

LEMMA ListObjectsSweep ==
  ASSUME Shape, KeyOK, SweepOK, ListObjects
  PROVE  KeyOK' /\ SweepOK'
<1>1. KeyOK'
  BY DEF ListObjects, Shape, TypeOK, RowOK, ProcOK, KeyOK, rowVars, procVars
<1>2. SweepOK'
  BY FileKeyAssumption
  DEF ListObjects, Attach, Idle, Shape, TypeOK, RowOK, ProcOK, KeyOK, SweepOK,
      Referenced, Exists, rowVars
<1>. QED
  BY <1>1, <1>2

LEMMA SweepDoneSweep ==
  ASSUME Shape, KeyOK, SweepOK, SweepDone
  PROVE  KeyOK' /\ SweepOK'
<1>1. KeyOK'
  BY DEF SweepDone, Shape, TypeOK, RowOK, ProcOK, KeyOK, rowVars, procVars
<1>2. SweepOK'
  BY FileKeyAssumption
  DEF SweepDone, Attach, Idle, Shape, TypeOK, RowOK, ProcOK, KeyOK, SweepOK,
      Referenced, Exists, rowVars
<1>. QED
  BY <1>1, <1>2

LEMMA CrashSweep ==
  ASSUME Shape, KeyOK, SweepOK, Crash
  PROVE  KeyOK' /\ SweepOK'
<1>1. KeyOK'
  BY DEF Crash, Shape, TypeOK, RowOK, ProcOK, KeyOK, rowVars, procVars
<1>2. SweepOK'
  BY FileKeyAssumption
  DEF Crash, Attach, Idle, Shape, TypeOK, RowOK, ProcOK, KeyOK, SweepOK,
      Referenced, Exists, rowVars
<1>. QED
  BY <1>1, <1>2

LEMMA InitSweep == Init => KeyOK /\ SweepOK
BY DEF Init, KeyOK, SweepOK, Idle

LEMMA NextSweep ==
  ASSUME Shape, KeyOK, SweepOK, [Next]_vars
  PROVE  KeyOK' /\ SweepOK'
<1>1. CASE Session
  BY <1>1, CreateSessionSweep, ReplaceSessionSweep DEF Session
<1>2. ASSUME NEW k \in Key, PutObject(k) PROVE KeyOK' /\ SweepOK'
  BY <1>2, PutObjectSweep
<1>3. ASSUME NEW c \in Client, Request(c) PROVE KeyOK' /\ SweepOK'
  BY <1>3, CompleteUploadSweep, CompleteMultipartUploadSweep,
     AbortMultipartUploadSweep, UploadObjectSweep DEF Request
<1>4. ASSUME NEW c \in Client, CallStep(c) PROVE KeyOK' /\ SweepOK'
  BY <1>4, AssembleSweep, ValidateSweep, FailSweep, CommitSweep, EnqueueSweep,
     UploadCreateSweep DEF CallStep
<1>5. ASSUME NEW f \in File, Delete(f) PROVE KeyOK' /\ SweepOK'
  BY <1>5, DeleteSweep
<1>6. ASSUME NEW w \in Worker, Dequeue(w) PROVE KeyOK' /\ SweepOK'
  BY <1>6, DequeueSweep
<1>7. ASSUME NEW p \in Proc, ProcessFile(p) PROVE KeyOK' /\ SweepOK'
  BY <1>7, ScanSweep, DetectSweep, CondemnSweep, MarkBlockedSweep, FlagSweep,
     StoreThumbnailSweep, UpdateThumbnailKeySweep, MarkReadySweep DEF ProcessFile
<1>8. CASE Moderate
  BY <1>8, ListFlaggedFilesSweep, ApproveFileSweep, RejectFileSweep
  DEF Moderate
<1>9. CASE Cleanup
  BY <1>9, PurgeSoftDeletedBeforeSweep, PurgeDoneSweep, GetAllStorageKeysSweep,
     ListObjectsSweep, SweepDoneSweep, SweepDeleteSweep DEF Cleanup
<1>10. CASE Crash
  BY <1>10, CrashSweep
<1>11. CASE UNCHANGED vars
  BY <1>11 DEF vars, rowVars, procVars, KeyOK, SweepOK, Referenced, Exists
<1>. QED
  BY <1>1, <1>2, <1>3, <1>4, <1>5, <1>6, <1>7, <1>8, <1>9, <1>10, <1>11
  DEF Next

(* Keys stay unique, and the scheduler's delete list stays as described.   *)
THEOREM SweepAlways == Spec => [](Shape /\ KeyOK /\ SweepOK)
<1>1. Init => Shape /\ KeyOK /\ SweepOK
  BY InitShape, InitSweep
<1>2. Shape /\ KeyOK /\ SweepOK /\ [Next]_vars => (Shape /\ KeyOK /\ SweepOK)'
  BY NextShape, NextSweep
<1>. QED
  BY <1>1, <1>2, PTL DEF Spec

(* The scheduler is never about to delete an object a row names, unless    *)
(* the row took it after the sweep had read the table.                     *)
THEOREM SweepSparesRows == Spec => []SweepSparesKnownRows
<1>1. ASSUME Shape, KeyOK, SweepOK PROVE SweepSparesKnownRows
  <2>. SUFFICES ASSUME NEW o \in sweep.kill, Referenced(o)
                PROVE  sweep.at = "sweep" /\ o \in sweep.late
    BY DEF SweepSparesKnownRows
  <2>1. sweep.at # "purge"
    BY <1>1, FileKeyAssumption
    DEF Shape, TypeOK, RowOK, KeyOK, SweepOK, Referenced, Exists
  <2>. QED
    BY <1>1, <2>1 DEF Shape, TypeOK, SweepOK
<1>. QED
  BY <1>1, SweepAlways, PTL

=============================================================================
