------------------------ MODULE EphemeralShare_proofs ------------------------
(***************************************************************************)
(* Proofs about EphemeralShare, for all sets of shares and goroutines and  *)
(* all bounds.                                                             *)
(***************************************************************************)
EXTENDS EphemeralShare, FiniteSetTheorems, TLAPS

-----------------------------------------------------------------------------
(* Type correctness needs to know what a goroutine in a handler works on,  *)
(* that a burn is due only between counting and marking, and that a token  *)
(* nobody has created leaves no trace anywhere.                            *)

ProcOK ==
  \A p \in Proc :
    /\ pc[p] # "idle" => share[p] \in Share
    /\ burn[p] => pc[p] \in {"sign", "burn"}
    /\ pc[p] = "burn" => burn[p]

Busy(p, s) == share[p] = s /\ pc[p] # "idle"
Works(p, s, where) == share[p] = s /\ pc[p] \in where

NewOK ==
  \A s \in Share :
    status[s] = "NONE" =>
      /\ object[s] = "none" /\ ~putURL[s] /\ burnedAt[s] = "null"
      /\ s \notin purge.batch
      /\ \A p \in Proc : ~Busy(p, s)

PurgeOK == purge.todo \subseteq purge.batch

Shape == TypeOK /\ ProcOK /\ NewOK /\ PurgeOK

-----------------------------------------------------------------------------
(* Between the first part and the end of the one completion the bucket     *)
(* allows, an upload may still turn its row ACTIVE: nobody has downloaded  *)
(* it, so no burn is due.                                                  *)

Completes(p, s) == Works(p, s, {"verify", "activate"})
Pending(s) == object[s] = "parts" \/ \E p \in Proc : Completes(p, s)

Downloading == {"size", "count", "sign", "burn", "reject", "rejectMark"}

PendingOK ==
  \A s \in Share :
    Pending(s) =>
      /\ status[s] # "ACTIVE" /\ burnedAt[s] = "null" /\ ~putURL[s]
      /\ \A p \in Proc : ~Works(p, s, Downloading)

OneCompletion ==
  \A s \in Share : \A p \in Proc :
    Completes(p, s) =>
      /\ object[s] # "parts"
      /\ \A q \in Proc : Completes(q, s) => q = p

Final == PendingOK /\ OneCompletion /\ BurnIsFinal

-----------------------------------------------------------------------------
(* The purge takes what is over; only the admin's burn of an upload in     *)
(* flight lets a row it has taken come back.                               *)

Over(s) == expired[s] \/ s \in adminBurned

PurgeInv ==
  \A s \in Share :
    /\ status[s] = "EXPIRED" => Over(s)
    /\ status[s] = "BURNED" /\ Pending(s) => s \in adminBurned
    /\ s \in purge.batch /\ status[s] \in {"UPLOADING", "ACTIVE"} => Over(s)

-----------------------------------------------------------------------------
(* The downloads of a share against its limit: until the row is closed by  *)
(* a burn or a delete every download from the last one on has its burn     *)
(* ahead of it or lost; from then on the requests that were already in     *)
(* flight may still count, and no new one comes.                           *)

Closed(s) == burnedAt[s] # "null" \/ status[s] = "DELETED"
Counting(s) == {p \in Proc : Works(p, s, {"size", "count"})}
Burning(s) == {p \in Proc : share[p] = s /\ burn[p]}

CountAt(s) ==
  /\ ~Closed(s) => count[s] < Limit + Cardinality(Burning(s)) + lost[s]
  /\ Closed(s) =>
       count[s] + Cardinality(Counting(s)) < Limit + Cardinality(Proc) + lost[s]

CountInv == \A s \in Share : CountAt(s)

(* The positions a handler leaves its goroutine in.                        *)
ProcShape ==
  /\ pc' \in [Proc -> PC]
  /\ share' \in [Proc -> Share \cup {NoShare}]
  /\ burn' \in [Proc -> BOOLEAN]
  /\ ProcOK'
  /\ \A q \in Proc, s \in Share :
       Busy(q, s)' => Busy(q, s)

LEMMA BurningFinite ==
  ASSUME NEW s \in Share
  PROVE  /\ IsFiniteSet(Burning(s)) /\ Cardinality(Burning(s)) \in Nat
         /\ IsFiniteSet(Counting(s)) /\ Cardinality(Counting(s)) \in Nat
         /\ Cardinality(Proc) \in Nat
<1>1. Burning(s) \subseteq Proc /\ Counting(s) \subseteq Proc
  BY DEF Burning, Counting
<1>. QED
  BY <1>1, ShareAssumption, FS_Subset, FS_CardinalityType

LEMMA InitShape == Init => Shape
BY ShareAssumption, LimitAssumption
   DEF Init, Idle, Shape, TypeOK, ProcOK, NewOK, PurgeOK, Busy, Status, PC

LEMMA ReturnShape ==
  ASSUME Shape, NEW p \in Proc, Return(p)
  PROVE  ProcShape
BY ShareAssumption DEF Shape, TypeOK, ProcOK, ProcShape, Return, Busy, PC

LEMMA GotoShape ==
  ASSUME Shape, NEW p \in Proc, pc[p] # "idle", ~burn[p],
         NEW l \in PC \ {"idle", "burn"}, Goto(p, l)
  PROVE  ProcShape
BY DEF Shape, TypeOK, ProcOK, ProcShape, Goto, Busy, PC

LEMMA NextShape ==
  ASSUME Shape, [Next]_vars
  PROVE  Shape'
<1>. USE DEF Shape, TypeOK, ProcOK, NewOK, PurgeOK, Busy, Status, PC, rowVars,
             timeVars, boundVars, historyVars
<1>1. ASSUME NEW s \in Share, CreateUploadSession(s)
      PROVE  Shape'
  BY <1>1, ShareAssumption, LimitAssumption DEF CreateUploadSession, procVars
<1>2. ASSUME NEW s \in Share, CreateMultipartUploadSession(s)
      PROVE  Shape'
  BY <1>2, ShareAssumption, LimitAssumption
  DEF CreateMultipartUploadSession, procVars
<1>3. ASSUME NEW s \in Share, PutObject(s)
      PROVE  Shape'
  BY <1>3, ShareAssumption, LimitAssumption DEF PutObject, procVars
<1>4. ASSUME NEW s \in Share, TimerDelete(s)
      PROVE  Shape'
  BY <1>4, ShareAssumption, LimitAssumption
  DEF TimerDelete, Delete, Deleted, Fault, procVars
<1>5. ASSUME NEW s \in Share, Expire(s)
      PROVE  Shape'
  BY <1>5, ShareAssumption, LimitAssumption DEF Expire, procVars
<1>6. ASSUME NEW s \in Share, CloseURL(s)
      PROVE  Shape'
  BY <1>6, ShareAssumption, LimitAssumption DEF CloseURL, procVars
<1>7. ASSUME NEW s \in Share, AbortOrphanUpload(s)
      PROVE  Shape'
  BY <1>7, ShareAssumption, LimitAssumption
  DEF AbortOrphanUpload, Aborted, procVars
<1>8. ASSUME NEW p \in Proc, NEW s \in Share, CompleteMultipartUpload(p, s)
      PROVE  Shape'
  BY <1>8, ShareAssumption, LimitAssumption
  DEF CompleteMultipartUpload, Start, procVars
<1>9. ASSUME NEW p \in Proc, NEW s \in Share, AbortMultipartUpload(p, s)
      PROVE  Shape'
  BY <1>9, ShareAssumption, LimitAssumption
  DEF AbortMultipartUpload, Start, Aborted, Fault, procVars
<1>10. ASSUME NEW p \in Proc, NEW s \in Share, RequestDownload(p, s)
      PROVE  Shape'
  BY <1>10, ShareAssumption, LimitAssumption
  DEF RequestDownload, Start, procVars
<1>11. ASSUME NEW p \in Proc, NEW s \in Share, AdminBurnShare(p, s)
      PROVE  Shape'
  BY <1>11, ShareAssumption, LimitAssumption
  DEF AdminBurnShare, Exists, Start, Delete, Deleted, Fault, procVars
<1>12. ASSUME NEW p \in Proc, Assemble(p)
      PROVE  Shape'
  <2>1. ProcShape
    BY <1>12, ReturnShape, GotoShape DEF Assemble
  <2>2. share[p] \in Share /\ status[share[p]] # "NONE"
    BY <1>12 DEF Assemble
  <2>. QED
    BY <1>12, <2>1, <2>2 DEF Assemble, ProcShape
<1>13. ASSUME NEW p \in Proc, Verify(p)
      PROVE  Shape'
  <2>1. ProcShape
    BY <1>13, ReturnShape, GotoShape DEF Verify
  <2>. QED
    BY <1>13, <2>1, LimitAssumption DEF Verify, Fault, ProcShape
<1>14. ASSUME NEW p \in Proc, Activate(p)
      PROVE  Shape'
  BY <1>14, ShareAssumption, LimitAssumption
  DEF Activate, UpdateStatus, Exists, Return, procVars
<1>15. ASSUME NEW p \in Proc, Reject(p)
      PROVE  Shape'
  BY <1>15, ShareAssumption, LimitAssumption
  DEF Reject, Delete, Deleted, Fault, Goto, procVars
<1>16. ASSUME NEW p \in Proc, RejectMark(p)
      PROVE  Shape'
  BY <1>16, ShareAssumption, LimitAssumption
  DEF RejectMark, UpdateStatus, Exists, Return, procVars
<1>17. ASSUME NEW p \in Proc, DeleteByToken(p)
      PROVE  Shape'
  BY <1>17, ShareAssumption, LimitAssumption
  DEF DeleteByToken, Return, procVars
<1>18. ASSUME NEW p \in Proc, CheckSize(p)
      PROVE  Shape'
  <2>1. ProcShape
    BY <1>18, ReturnShape, GotoShape DEF CheckSize
  <2>. QED
    BY <1>18, <2>1, LimitAssumption DEF CheckSize, Fault, ProcShape
<1>19. ASSUME NEW p \in Proc, Increment(p)
      PROVE  Shape'
  <2>1. CASE Return(p) /\ UNCHANGED count
    BY <1>19, <2>1, ReturnShape DEF Increment, ProcShape
  <2>2. CASE ~(Return(p) /\ UNCHANGED count)
    <3>1. share[p] \in Share /\ count[share[p]] + 1 \in 0 .. MaxCount
      BY <1>19, <2>2, LimitAssumption DEF Increment
    <3>2. burn' \in [Proc -> BOOLEAN]
      <4>. DEFINE due == count[share[p]] + 1 >= Limit
      <4>1. due \in BOOLEAN
        OBVIOUS
      <4>2. burn' = [burn EXCEPT ![p] = due]
        BY <1>19, <2>2 DEF Increment
      <4>. HIDE DEF due
      <4>. QED
        BY <4>1, <4>2
    <3>3. TypeOK'
      BY <1>19, <2>2, <3>1, <3>2 DEF Increment
    <3>4. ProcOK' /\ NewOK' /\ PurgeOK'
      BY <1>19, <2>2, <3>1 DEF Increment
    <3>. QED
      BY <3>3, <3>4
  <2>. QED
    BY <1>19, <2>1, <2>2 DEF Increment
<1>20. ASSUME NEW p \in Proc, Sign(p)
      PROVE  Shape'
  <2>1. ProcShape
    <3>1. CASE Return(p)
      BY <3>1, ReturnShape
    <3>2. CASE burn[p] /\ Goto(p, "burn")
      BY <1>20, <3>2 DEF Sign, ProcShape, Goto
    <3>. QED
      BY <1>20, <3>1, <3>2 DEF Sign
  <2>. QED
    BY <1>20, <2>1, LimitAssumption DEF Sign, Fault, ProcShape
<1>21. ASSUME NEW p \in Proc, MarkBurned(p)
      PROVE  Shape'
  BY <1>21, ShareAssumption, LimitAssumption
  DEF MarkBurned, UpdateStatus, Exists, Return, Fault, procVars
<1>22. ASSUME NEW p \in Proc, AdminMark(p)
      PROVE  Shape'
  BY <1>22, ShareAssumption, LimitAssumption
  DEF AdminMark, UpdateStatus, Exists, Return, procVars
<1>23. ASSUME ListAllForAdmin
      PROVE  Shape'
  BY <1>23, ShareAssumption, LimitAssumption
  DEF ListAllForAdmin, MarkExpired, PastDue, procVars
<1>24. ASSUME PurgeMark
      PROVE  Shape'
  BY <1>24, ShareAssumption, LimitAssumption
  DEF PurgeMark, MarkExpired, PastDue, Idle, procVars
<1>25. ASSUME PurgeSelect
      PROVE  Shape'
  BY <1>25, ShareAssumption, LimitAssumption
  DEF PurgeSelect, Purgeable, PastDue, procVars
<1>26. ASSUME PurgeDone
      PROVE  Shape'
  BY <1>26, ShareAssumption, LimitAssumption DEF PurgeDone, Idle, procVars
<1>27. ASSUME NEW s \in Share, PurgeClear(s)
      PROVE  Shape'
  BY <1>27, ShareAssumption, LimitAssumption
  DEF PurgeClear, UpdateStatus, Exists, procVars
<1>28. ASSUME NEW s \in Share, PurgeDelete(s)
      PROVE  Shape'
  BY <1>28, ShareAssumption, LimitAssumption
  DEF PurgeDelete, Delete, Deleted, Aborted, Fault, procVars
<1>29. ASSUME Tick
      PROVE  Shape'
  BY <1>29, ShareAssumption, LimitAssumption DEF Tick, procVars
<1>30. ASSUME Crash
      PROVE  Shape'
  <2>1. \A s \in Share : Cardinality(Burning(s)) \in Nat
    BY BurningFinite
  <2>2. lost' \in [Share -> Nat]
    BY <1>30, <2>1 DEF Crash, Burning
  <2>. QED
    BY <1>30, <2>2, LimitAssumption DEF Crash, Idle
<1>31. CASE UNCHANGED vars
  BY <1>31 DEF vars, procVars
<1>. QED
  BY <1>1, <1>2, <1>3, <1>4, <1>5, <1>6, <1>7, <1>8, <1>9, <1>10, <1>11,
     <1>12, <1>13, <1>14, <1>15, <1>16, <1>17, <1>18, <1>19, <1>20, <1>21,
     <1>22, <1>23, <1>24, <1>25, <1>26, <1>27, <1>28, <1>29, <1>30, <1>31
  DEF Next, Begin, Step, Purge

(* Every variable keeps its type, for all sets and all bounds.             *)
THEOREM TypeCorrect == Spec => []TypeOK
<1>1. Init => Shape
  BY InitShape
<1>2. Shape /\ [Next]_vars => Shape'
  BY NextShape
<1>3. Shape => TypeOK
  BY DEF Shape
<1>. QED
  BY <1>1, <1>2, <1>3, PTL DEF Spec

LEMMA NextFinal ==
  ASSUME Shape, Final, [Next]_vars
  PROVE  Final'
<1>. USE DEF Final, PendingOK, OneCompletion, BurnIsFinal, Pending, Completes,
             Works, Downloading, Shape, TypeOK, ProcOK, NewOK, Busy, Status,
             PC, rowVars, timeVars, procVars, boundVars, historyVars
<1>1. ASSUME NEW s \in Share, CreateUploadSession(s)
      PROVE  Final'
  BY <1>1 DEF CreateUploadSession
<1>2. ASSUME NEW s \in Share, CreateMultipartUploadSession(s)
      PROVE  Final'
  BY <1>2 DEF CreateMultipartUploadSession
<1>3. ASSUME NEW s \in Share, PutObject(s)
      PROVE  Final'
  BY <1>3 DEF PutObject
<1>4. ASSUME NEW s \in Share, TimerDelete(s)
      PROVE  Final'
  BY <1>4 DEF TimerDelete, Delete, Deleted, Fault
<1>5. ASSUME NEW s \in Share, Expire(s)
      PROVE  Final'
  BY <1>5 DEF Expire
<1>6. ASSUME NEW s \in Share, CloseURL(s)
      PROVE  Final'
  BY <1>6 DEF CloseURL
<1>7. ASSUME NEW s \in Share, AbortOrphanUpload(s)
      PROVE  Final'
  BY <1>7 DEF AbortOrphanUpload, Aborted
<1>8. ASSUME NEW p \in Proc, NEW s \in Share, CompleteMultipartUpload(p, s)
      PROVE  Final'
  BY <1>8 DEF CompleteMultipartUpload, Start
<1>9. ASSUME NEW p \in Proc, NEW s \in Share, AbortMultipartUpload(p, s)
      PROVE  Final'
  BY <1>9 DEF AbortMultipartUpload, Start, Aborted, Fault
<1>10. ASSUME NEW p \in Proc, NEW s \in Share, RequestDownload(p, s)
      PROVE  Final'
  BY <1>10 DEF RequestDownload, Start
<1>11. ASSUME NEW p \in Proc, NEW s \in Share, AdminBurnShare(p, s)
      PROVE  Final'
  BY <1>11 DEF AdminBurnShare, Exists, Start, Delete, Deleted, Fault
<1>12. ASSUME NEW p \in Proc, Assemble(p)
      PROVE  Final'
  BY SMTT(30), <1>12 DEF Assemble, Goto, Return
<1>13. ASSUME NEW p \in Proc, Verify(p)
      PROVE  Final'
  BY SMTT(30), <1>13 DEF Verify, Goto, Return, Fault
<1>14. ASSUME NEW p \in Proc, Activate(p)
      PROVE  Final'
  BY <1>14 DEF Activate, UpdateStatus, Exists, Return
<1>15. ASSUME NEW p \in Proc, Reject(p)
      PROVE  Final'
  BY <1>15 DEF Reject, Delete, Deleted, Fault, Goto
<1>16. ASSUME NEW p \in Proc, RejectMark(p)
      PROVE  Final'
  BY <1>16 DEF RejectMark, UpdateStatus, Exists, Return
<1>17. ASSUME NEW p \in Proc, DeleteByToken(p)
      PROVE  Final'
  BY <1>17 DEF DeleteByToken, Return
<1>18. ASSUME NEW p \in Proc, CheckSize(p)
      PROVE  Final'
  BY <1>18 DEF CheckSize, Goto, Return, Fault
<1>19. ASSUME NEW p \in Proc, Increment(p)
      PROVE  Final'
  <2>1. /\ pc[p] = "count" /\ UNCHANGED <<status, burnedAt, putURL, object>>
        /\ \/ share' = share /\ pc' = [pc EXCEPT ![p] = "sign"]
           \/ /\ share' = [share EXCEPT ![p] = NoShare]
              /\ pc' = [pc EXCEPT ![p] = "idle"]
    BY <1>19 DEF Increment, Return
  <2>. QED
    BY <2>1
<1>20. ASSUME NEW p \in Proc, Sign(p)
      PROVE  Final'
  BY <1>20 DEF Sign, Goto, Return, Fault
<1>21. ASSUME NEW p \in Proc, MarkBurned(p)
      PROVE  Final'
  BY SMTT(30), <1>21 DEF MarkBurned, UpdateStatus, Exists, Return, Fault
<1>22. ASSUME NEW p \in Proc, AdminMark(p)
      PROVE  Final'
  BY <1>22 DEF AdminMark, UpdateStatus, Exists, Return
<1>23. ASSUME ListAllForAdmin
      PROVE  Final'
  BY <1>23 DEF ListAllForAdmin, MarkExpired, PastDue
<1>24. ASSUME PurgeMark
      PROVE  Final'
  BY <1>24 DEF PurgeMark, MarkExpired, PastDue, Idle
<1>25. ASSUME PurgeSelect
      PROVE  Final'
  BY <1>25 DEF PurgeSelect, Purgeable, PastDue
<1>26. ASSUME PurgeDone
      PROVE  Final'
  BY <1>26 DEF PurgeDone, Idle
<1>27. ASSUME NEW s \in Share, PurgeClear(s)
      PROVE  Final'
  BY <1>27 DEF PurgeClear, UpdateStatus, Exists
<1>28. ASSUME NEW s \in Share, PurgeDelete(s)
      PROVE  Final'
  BY <1>28 DEF PurgeDelete, Delete, Deleted, Aborted, Fault
<1>29. ASSUME Tick
      PROVE  Final'
  BY <1>29 DEF Tick
<1>30. ASSUME Crash
      PROVE  Final'
  BY <1>30 DEF Crash, Idle
<1>31. CASE UNCHANGED vars
  BY <1>31 DEF vars
<1>. QED
  BY <1>1, <1>2, <1>3, <1>4, <1>5, <1>6, <1>7, <1>8, <1>9, <1>10, <1>11,
     <1>12, <1>13, <1>14, <1>15, <1>16, <1>17, <1>18, <1>19, <1>20, <1>21,
     <1>22, <1>23, <1>24, <1>25, <1>26, <1>27, <1>28, <1>29, <1>30, <1>31
  DEF Next, Begin, Step, Purge

LEMMA InitFinal == Init => Final
BY DEF Init, Final, PendingOK, OneCompletion, BurnIsFinal, Pending, Completes,
       Works

(* A share burned by its last download never comes back: while an upload   *)
(* can still turn the row ACTIVE there is nothing to download.             *)
THEOREM BurnsAreFinal == Spec => []BurnIsFinal
<1>1. Init => Shape /\ Final
  BY InitShape, InitFinal
<1>2. Shape /\ Final /\ [Next]_vars => Shape' /\ Final'
  BY NextShape, NextFinal
<1>3. Final => BurnIsFinal
  BY DEF Final
<1>. QED
  BY <1>1, <1>2, <1>3, PTL DEF Spec

LEMMA NextPurge ==
  ASSUME Shape, Final, PurgeInv, [Next]_vars
  PROVE  PurgeInv'
<1>. USE DEF PurgeInv, Over, Final, PendingOK, OneCompletion, BurnIsFinal,
             Pending, Completes, Works, Downloading, Shape, TypeOK, ProcOK,
             NewOK, PurgeOK, Busy, Status, PC, rowVars, timeVars, procVars,
             boundVars, historyVars
<1>1. ASSUME NEW s \in Share, CreateUploadSession(s)
      PROVE  PurgeInv'
  BY <1>1 DEF CreateUploadSession
<1>2. ASSUME NEW s \in Share, CreateMultipartUploadSession(s)
      PROVE  PurgeInv'
  BY <1>2 DEF CreateMultipartUploadSession
<1>3. ASSUME NEW s \in Share, PutObject(s)
      PROVE  PurgeInv'
  BY <1>3 DEF PutObject
<1>4. ASSUME NEW s \in Share, TimerDelete(s)
      PROVE  PurgeInv'
  BY <1>4 DEF TimerDelete, Delete, Deleted, Fault
<1>5. ASSUME NEW s \in Share, Expire(s)
      PROVE  PurgeInv'
  BY <1>5 DEF Expire
<1>6. ASSUME NEW s \in Share, CloseURL(s)
      PROVE  PurgeInv'
  BY <1>6 DEF CloseURL
<1>7. ASSUME NEW s \in Share, AbortOrphanUpload(s)
      PROVE  PurgeInv'
  BY <1>7 DEF AbortOrphanUpload, Aborted
<1>8. ASSUME NEW p \in Proc, NEW s \in Share, CompleteMultipartUpload(p, s)
      PROVE  PurgeInv'
  BY <1>8 DEF CompleteMultipartUpload, Start
<1>9. ASSUME NEW p \in Proc, NEW s \in Share, AbortMultipartUpload(p, s)
      PROVE  PurgeInv'
  BY <1>9 DEF AbortMultipartUpload, Start, Aborted, Fault
<1>10. ASSUME NEW p \in Proc, NEW s \in Share, RequestDownload(p, s)
      PROVE  PurgeInv'
  BY <1>10 DEF RequestDownload, Start
<1>11. ASSUME NEW p \in Proc, NEW s \in Share, AdminBurnShare(p, s)
      PROVE  PurgeInv'
  BY <1>11 DEF AdminBurnShare, Exists, Start, Delete, Deleted, Fault
<1>12. ASSUME NEW p \in Proc, Assemble(p)
      PROVE  PurgeInv'
  BY <1>12 DEF Assemble, Goto, Return
<1>13. ASSUME NEW p \in Proc, Verify(p)
      PROVE  PurgeInv'
  BY <1>13 DEF Verify, Goto, Return, Fault
<1>14. ASSUME NEW p \in Proc, Activate(p)
      PROVE  PurgeInv'
  BY <1>14 DEF Activate, UpdateStatus, Exists, Return
<1>15. ASSUME NEW p \in Proc, Reject(p)
      PROVE  PurgeInv'
  BY <1>15 DEF Reject, Delete, Deleted, Fault, Goto
<1>16. ASSUME NEW p \in Proc, RejectMark(p)
      PROVE  PurgeInv'
  BY <1>16 DEF RejectMark, UpdateStatus, Exists, Return
<1>17. ASSUME NEW p \in Proc, DeleteByToken(p)
      PROVE  PurgeInv'
  BY <1>17 DEF DeleteByToken, Return
<1>18. ASSUME NEW p \in Proc, CheckSize(p)
      PROVE  PurgeInv'
  BY <1>18 DEF CheckSize, Goto, Return, Fault
<1>19. ASSUME NEW p \in Proc, Increment(p)
      PROVE  PurgeInv'
  <2>1. /\ pc[p] = "count"
        /\ UNCHANGED <<status, expired, purge, object, adminBurned>>
        /\ \/ share' = share /\ pc' = [pc EXCEPT ![p] = "sign"]
           \/ /\ share' = [share EXCEPT ![p] = NoShare]
              /\ pc' = [pc EXCEPT ![p] = "idle"]
    BY <1>19 DEF Increment, Return
  <2>. QED
    BY <2>1
<1>20. ASSUME NEW p \in Proc, Sign(p)
      PROVE  PurgeInv'
  BY <1>20 DEF Sign, Goto, Return, Fault
<1>21. ASSUME NEW p \in Proc, MarkBurned(p)
      PROVE  PurgeInv'
  BY <1>21 DEF MarkBurned, UpdateStatus, Exists, Return, Fault
<1>22. ASSUME NEW p \in Proc, AdminMark(p)
      PROVE  PurgeInv'
  BY <1>22 DEF AdminMark, UpdateStatus, Exists, Return
<1>23. ASSUME ListAllForAdmin
      PROVE  PurgeInv'
  BY <1>23 DEF ListAllForAdmin, MarkExpired, PastDue
<1>24. ASSUME PurgeMark
      PROVE  PurgeInv'
  BY <1>24 DEF PurgeMark, MarkExpired, PastDue, Idle
<1>25. ASSUME PurgeSelect
      PROVE  PurgeInv'
  BY <1>25 DEF PurgeSelect, Purgeable, PastDue
<1>26. ASSUME PurgeDone
      PROVE  PurgeInv'
  BY <1>26 DEF PurgeDone, Idle
<1>27. ASSUME NEW s \in Share, PurgeClear(s)
      PROVE  PurgeInv'
  BY <1>27 DEF PurgeClear, UpdateStatus, Exists
<1>28. ASSUME NEW s \in Share, PurgeDelete(s)
      PROVE  PurgeInv'
  BY <1>28 DEF PurgeDelete, Delete, Deleted, Aborted, Fault
<1>29. ASSUME Tick
      PROVE  PurgeInv'
  BY <1>29 DEF Tick
<1>30. ASSUME Crash
      PROVE  PurgeInv'
  BY <1>30 DEF Crash, Idle
<1>31. CASE UNCHANGED vars
  BY <1>31 DEF vars
<1>. QED
  BY <1>1, <1>2, <1>3, <1>4, <1>5, <1>6, <1>7, <1>8, <1>9, <1>10, <1>11,
     <1>12, <1>13, <1>14, <1>15, <1>16, <1>17, <1>18, <1>19, <1>20, <1>21,
     <1>22, <1>23, <1>24, <1>25, <1>26, <1>27, <1>28, <1>29, <1>30, <1>31
  DEF Next, Begin, Step, Purge

(* The purge is never about to delete the object of a share a recipient    *)
(* may still ask for, unless the admin burned that share.                  *)
THEOREM PurgeIsSafe == Spec => []PurgeSparesActive
<1>1. Init => Shape /\ Final /\ PurgeInv
  BY InitShape, InitFinal DEF Init, Idle, PurgeInv, Pending, Completes, Works
<1>2. Shape /\ Final /\ PurgeInv /\ [Next]_vars => Shape' /\ Final' /\ PurgeInv'
  BY NextShape, NextFinal, NextPurge
<1>3. Shape /\ PurgeInv => PurgeSparesActive
  BY DEF Shape, TypeOK, PurgeInv, Over, PurgeSparesActive
<1>. QED
  BY <1>1, <1>2, <1>3, PTL DEF Spec

LEMMA SubsetCount ==
  ASSUME NEW S, NEW T, S \subseteq Proc, T \subseteq S
  PROVE  /\ Cardinality(S) \in Nat /\ Cardinality(T) \in Nat
         /\ Cardinality(T) <= Cardinality(S)
BY ShareAssumption, FS_Subset, FS_CardinalityType

LEMMA RemoveCount ==
  ASSUME NEW S, NEW T, NEW p \in S, S \subseteq Proc, T \subseteq S \ {p}
  PROVE  Cardinality(T) + 1 <= Cardinality(S) /\ Cardinality(T) \in Nat
<1>1. /\ IsFiniteSet(S) /\ Cardinality(S \ {p}) = Cardinality(S) - 1
      /\ Cardinality(S) \in Nat
  BY ShareAssumption, FS_Subset, FS_CardinalityType, FS_RemoveElement
<1>2. Cardinality(T) <= Cardinality(S \ {p}) /\ Cardinality(T) \in Nat
  BY SubsetCount
<1>. QED
  BY <1>1, <1>2

(* A goroutine does not count and burn at the same time.                   *)
LEMMA DisjointCount ==
  ASSUME Shape, NEW s \in Share
  PROVE  /\ Cardinality(Counting(s)) \in Nat
         /\ Cardinality(Burning(s)) \in Nat
         /\ Cardinality(Proc) \in Nat
         /\ Cardinality(Counting(s)) + Cardinality(Burning(s))
              <= Cardinality(Proc)
<1>1. Counting(s) \cap Burning(s) = {}
  BY DEF Shape, TypeOK, ProcOK, Counting, Burning, Works
<1>2. Counting(s) \cup Burning(s) \subseteq Proc
  BY DEF Counting, Burning
<1>3. /\ IsFiniteSet(Counting(s)) /\ Cardinality(Counting(s)) \in Nat
      /\ IsFiniteSet(Burning(s)) /\ Cardinality(Burning(s)) \in Nat
      /\ Cardinality(Proc) \in Nat
  BY BurningFinite
<1>4. Cardinality(Counting(s) \cup Burning(s))
        = Cardinality(Counting(s)) + Cardinality(Burning(s)) - 0
  BY <1>1, <1>3, FS_Union, FS_EmptySet
<1>5. Cardinality(Counting(s) \cup Burning(s)) <= Cardinality(Proc)
  BY <1>2, SubsetCount
<1>. QED
  BY <1>3, <1>4, <1>5

(* What most steps do to the count of a share: nobody starts to download   *)
(* one that is closed, no burn that is due goes away, and closed is for    *)
(* ever.                                                                   *)
Quiet(s) ==
  /\ Burning(s) \subseteq Burning(s)'
  /\ Closed(s)' => Counting(s)' \subseteq Counting(s)
  /\ Closed(s) => Closed(s)'
  /\ count'[s] = count[s] /\ lost'[s] = lost[s]

LEMMA QuietCount ==
  ASSUME Shape, Shape', NEW s \in Share, CountAt(s), Quiet(s)
  PROVE  CountAt(s)'
<1>1. count[s] \in Nat /\ lost[s] \in Nat
  BY LimitAssumption DEF Shape, TypeOK
<1>2. /\ Burning(s)' \subseteq Proc
      /\ Counting(s) \subseteq Proc
  BY DEF Burning, Counting
<1>3. /\ Cardinality(Burning(s)) <= Cardinality(Burning(s)')
      /\ Cardinality(Burning(s)') \in Nat
  BY <1>2, SubsetCount DEF Quiet
<1>4. Closed(s)' => /\ Cardinality(Counting(s)') <= Cardinality(Counting(s))
                    /\ Cardinality(Counting(s)') \in Nat
  BY <1>2, SubsetCount DEF Quiet
<1>. QED
  BY <1>1, <1>3, <1>4, DisjointCount, LimitAssumption DEF CountAt, Quiet

LEMMA IncrementCount ==
  ASSUME Shape, Shape', NEW p \in Proc, Increment(p),
         NEW s \in Share, CountAt(s)
  PROVE  CountAt(s)'
<1>1. CASE s # share[p] \/ Return(p)
  <2>1. Quiet(s)
    BY <1>1
    DEF Increment, Return, Quiet, Closed, Burning, Counting, Works, Shape,
        TypeOK, ProcOK, PC, historyVars
  <2>. QED
    BY <2>1, QuietCount
<1>2. CASE s = share[p] /\ ~Return(p)
  <2>1. /\ count[s] \in Nat /\ lost[s] \in Nat /\ lost'[s] = lost[s]
        /\ count'[s] = count[s] + 1
        /\ (Closed(s)' <=> Closed(s))
    BY <1>2, LimitAssumption
    DEF Increment, Shape, TypeOK, Closed, historyVars
  <2>2. /\ Cardinality(Counting(s)') + 1 <= Cardinality(Counting(s))
        /\ Cardinality(Counting(s)') \in Nat
    <3>1. p \in Counting(s) /\ Counting(s) \subseteq Proc
      BY <1>2 DEF Increment, Counting, Works
    <3>2. Counting(s)' \subseteq Counting(s) \ {p}
      BY <1>2 DEF Increment, Counting, Works, Shape, TypeOK
    <3>. QED
      BY <3>1, <3>2, RemoveCount
  <2>3. /\ Cardinality(Burning(s)) <= Cardinality(Burning(s)')
        /\ Cardinality(Burning(s)') \in Nat
    <3>1. Burning(s) \subseteq Burning(s)' /\ Burning(s)' \subseteq Proc
      BY <1>2 DEF Increment, Burning, Shape, TypeOK, ProcOK
    <3>. QED
      BY <3>1, SubsetCount
  <2>4. count[s] + 1 >= Limit =>
          Cardinality(Burning(s)) + 1 <= Cardinality(Burning(s)')
    <3>. SUFFICES ASSUME count[s] + 1 >= Limit
                  PROVE  Cardinality(Burning(s)) + 1
                           <= Cardinality(Burning(s)')
      OBVIOUS
    <3>1. p \in Burning(s)' /\ Burning(s)' \subseteq Proc
      BY <1>2 DEF Increment, Burning, Shape, TypeOK
    <3>2. Burning(s) \subseteq Burning(s)' \ {p}
      BY <1>2 DEF Increment, Burning, Shape, TypeOK, ProcOK
    <3>. QED
      BY <3>1, <3>2, RemoveCount
  <2>. QED
    BY <2>1, <2>2, <2>3, <2>4, DisjointCount, LimitAssumption DEF CountAt
<1>. QED
  BY <1>1, <1>2

(* A burn that is due and not recorded is in the history.                  *)
LEMMA LostCount ==
  ASSUME Shape, Shape', NEW p \in Proc, NEW s \in Share, CountAt(s),
         count'[s] = count[s], lost'[s] = lost[s] + 1,
         Burning(s) \ {p} \subseteq Burning(s)',
         Counting(s)' \subseteq Counting(s), Closed(s)' <=> Closed(s)
  PROVE  CountAt(s)'
<1>1. count[s] \in Nat /\ lost[s] \in Nat
  BY LimitAssumption DEF Shape, TypeOK
<1>2. Burning(s)' \subseteq Proc /\ Counting(s) \subseteq Proc
  BY DEF Burning, Counting
<1>3. /\ Cardinality(Burning(s)) <= Cardinality(Burning(s)') + 1
      /\ Cardinality(Burning(s)') \in Nat
  <2>1. /\ IsFiniteSet(Burning(s)') /\ Cardinality(Burning(s)') \in Nat
        /\ Cardinality(Burning(s)' \cup {p}) <= Cardinality(Burning(s)') + 1
        /\ Cardinality(Burning(s)' \cup {p}) \in Nat
    BY <1>2, ShareAssumption, FS_Subset, FS_CardinalityType, FS_AddElement
  <2>2. /\ Burning(s)' \cup {p} \subseteq Proc
        /\ Burning(s) \subseteq Burning(s)' \cup {p}
    BY <1>2
  <2>3. Cardinality(Burning(s)) <= Cardinality(Burning(s)' \cup {p})
    BY <2>2, SubsetCount
  <2>. QED
    BY <2>1, <2>3, BurningFinite
<1>4. /\ Cardinality(Counting(s)') <= Cardinality(Counting(s))
      /\ Cardinality(Counting(s)') \in Nat
  BY <1>2, SubsetCount
<1>. QED
  BY <1>1, <1>3, <1>4, DisjointCount, LimitAssumption DEF CountAt

LEMMA SignCount ==
  ASSUME Shape, Shape', NEW p \in Proc, Sign(p), NEW s \in Share, CountAt(s)
  PROVE  CountAt(s)'
<1>1. CASE s # share[p] \/ lost' = lost
  <2>1. Quiet(s)
    BY <1>1
    DEF Sign, Goto, Return, Quiet, Closed, Burning, Counting, Works, Shape,
        TypeOK, ProcOK, PC, rowVars
  <2>. QED
    BY <2>1, QuietCount
<1>2. CASE s = share[p] /\ lost' # lost
  BY SMTT(30), <1>2, LostCount
  DEF Sign, Return, Closed, Burning, Counting, Works, Shape, TypeOK, rowVars
<1>. QED
  BY <1>1, <1>2

LEMMA MarkBurnedCount ==
  ASSUME Shape, Shape', NEW p \in Proc, MarkBurned(p),
         NEW s \in Share, CountAt(s)
  PROVE  CountAt(s)'
<1>1. CASE s # share[p]
  <2>1. Quiet(s)
    BY <1>1
    DEF MarkBurned, UpdateStatus, Return, Quiet, Closed, Burning, Counting,
        Works, Shape, TypeOK, ProcOK, PC
  <2>. QED
    BY <2>1, QuietCount
<1>2. CASE s = share[p] /\ lost' # lost
  BY SMTT(30), <1>2, LostCount
  DEF MarkBurned, UpdateStatus, Return, Closed, Burning, Counting, Works,
      Shape, TypeOK
<1>3. CASE s = share[p] /\ lost' = lost
  <2>1. status[s] # "NONE"
    BY <1>3 DEF MarkBurned, Shape, NewOK, Busy
  <2>2. Closed(s)' /\ count'[s] = count[s] /\ lost'[s] = lost[s]
    BY <1>3, <2>1
    DEF MarkBurned, UpdateStatus, Exists, Closed, Shape, TypeOK
  <2>3. Counting(s)' \subseteq Counting(s) /\ Counting(s) \subseteq Proc
    BY <1>3 DEF MarkBurned, Return, Counting, Works, Shape, TypeOK
  <2>4. /\ Cardinality(Counting(s)') <= Cardinality(Counting(s))
        /\ Cardinality(Counting(s)') \in Nat
    BY <2>3, SubsetCount
  <2>5. count[s] \in Nat /\ lost[s] \in Nat
    BY LimitAssumption DEF Shape, TypeOK
  <2>. QED
    BY <2>2, <2>4, <2>5, DisjointCount, LimitAssumption DEF CountAt
<1>. QED
  BY <1>1, <1>2, <1>3

LEMMA CrashCount ==
  ASSUME Shape, Shape', Crash, NEW s \in Share, CountAt(s)
  PROVE  CountAt(s)'
<1>1. lost'[s] = lost[s] + Cardinality(Burning(s)) /\ count'[s] = count[s]
  BY DEF Crash, Burning, rowVars
<1>2. Burning(s)' = {} /\ Counting(s)' = {}
  BY DEF Crash, Burning, Counting, Works
<1>3. Cardinality(Burning(s)') = 0 /\ Cardinality(Counting(s)') = 0
  BY <1>2, FS_EmptySet
<1>4. Closed(s)' <=> Closed(s)
  BY DEF Crash, Closed, rowVars
<1>5. count[s] \in Nat /\ lost[s] \in Nat
  BY LimitAssumption DEF Shape, TypeOK
<1>. QED
  BY <1>1, <1>3, <1>4, <1>5, DisjointCount, LimitAssumption DEF CountAt

LEMMA NextCount ==
  ASSUME Shape, Shape', Final, CountInv, [Next]_vars
  PROVE  CountInv'
<1>. USE DEF Quiet, Closed, Counting, Burning, Final, BurnIsFinal, Works,
             Shape, TypeOK, ProcOK, NewOK, Busy, Status, PC, rowVars,
             timeVars, procVars, boundVars, historyVars
<1>. SUFFICES ASSUME NEW s \in Share, CountAt(s)
              PROVE  CountAt(s)'
  BY DEF CountInv
<1>1. ASSUME NEW t \in Share, CreateUploadSession(t)
      PROVE  Quiet(s)
  BY <1>1 DEF CreateUploadSession
<1>2. ASSUME NEW t \in Share, CreateMultipartUploadSession(t)
      PROVE  Quiet(s)
  BY <1>2 DEF CreateMultipartUploadSession
<1>3. ASSUME NEW t \in Share, PutObject(t)
      PROVE  Quiet(s)
  BY <1>3 DEF PutObject
<1>4. ASSUME NEW t \in Share, TimerDelete(t)
      PROVE  Quiet(s)
  BY <1>4 DEF TimerDelete, Delete, Deleted, Fault
<1>5. ASSUME NEW t \in Share, Expire(t)
      PROVE  Quiet(s)
  BY <1>5 DEF Expire
<1>6. ASSUME NEW t \in Share, CloseURL(t)
      PROVE  Quiet(s)
  BY <1>6 DEF CloseURL
<1>7. ASSUME NEW t \in Share, AbortOrphanUpload(t)
      PROVE  Quiet(s)
  BY <1>7 DEF AbortOrphanUpload, Aborted
<1>8. ASSUME NEW p \in Proc, NEW t \in Share, CompleteMultipartUpload(p, t)
      PROVE  Quiet(s)
  BY <1>8 DEF CompleteMultipartUpload, Start
<1>9. ASSUME NEW p \in Proc, NEW t \in Share, AbortMultipartUpload(p, t)
      PROVE  Quiet(s)
  BY <1>9 DEF AbortMultipartUpload, Start, Aborted, Fault
<1>10. ASSUME NEW p \in Proc, NEW t \in Share, RequestDownload(p, t)
      PROVE  Quiet(s)
  BY <1>10 DEF RequestDownload, Start
<1>11. ASSUME NEW p \in Proc, NEW t \in Share, AdminBurnShare(p, t)
      PROVE  Quiet(s)
  BY <1>11 DEF AdminBurnShare, Exists, Start, Delete, Deleted, Fault
<1>12. ASSUME NEW p \in Proc, Assemble(p)
      PROVE  Quiet(s)
  BY <1>12 DEF Assemble, Goto, Return
<1>13. ASSUME NEW p \in Proc, Verify(p)
      PROVE  Quiet(s)
  BY <1>13 DEF Verify, Goto, Return, Fault
<1>14. ASSUME NEW p \in Proc, Activate(p)
      PROVE  Quiet(s)
  BY <1>14 DEF Activate, UpdateStatus, Exists, Return
<1>15. ASSUME NEW p \in Proc, Reject(p)
      PROVE  Quiet(s)
  BY <1>15 DEF Reject, Delete, Deleted, Fault, Goto
<1>16. ASSUME NEW p \in Proc, RejectMark(p)
      PROVE  Quiet(s)
  BY <1>16 DEF RejectMark, UpdateStatus, Exists, Return
<1>17. ASSUME NEW p \in Proc, DeleteByToken(p)
      PROVE  Quiet(s)
  BY <1>17 DEF DeleteByToken, Return
<1>18. ASSUME NEW p \in Proc, CheckSize(p)
      PROVE  Quiet(s)
  BY <1>18 DEF CheckSize, Goto, Return, Fault
<1>19. ASSUME NEW p \in Proc, Increment(p)
      PROVE  CountAt(s)'
  BY <1>19, IncrementCount
<1>20. ASSUME NEW p \in Proc, Sign(p)
      PROVE  CountAt(s)'
  BY <1>20, SignCount
<1>21. ASSUME NEW p \in Proc, MarkBurned(p)
      PROVE  CountAt(s)'
  BY <1>21, MarkBurnedCount
<1>22. ASSUME NEW p \in Proc, AdminMark(p)
      PROVE  Quiet(s)
  BY <1>22 DEF AdminMark, UpdateStatus, Exists, Return
<1>23. ASSUME ListAllForAdmin
      PROVE  Quiet(s)
  BY <1>23 DEF ListAllForAdmin, MarkExpired, PastDue
<1>24. ASSUME PurgeMark
      PROVE  Quiet(s)
  BY <1>24 DEF PurgeMark, MarkExpired, PastDue, Idle
<1>25. ASSUME PurgeSelect
      PROVE  Quiet(s)
  BY <1>25 DEF PurgeSelect, Purgeable, PastDue
<1>26. ASSUME PurgeDone
      PROVE  Quiet(s)
  BY <1>26 DEF PurgeDone, Idle
<1>27. ASSUME NEW t \in Share, PurgeClear(t)
      PROVE  Quiet(s)
  BY <1>27 DEF PurgeClear, UpdateStatus, Exists
<1>28. ASSUME NEW t \in Share, PurgeDelete(t)
      PROVE  Quiet(s)
  BY <1>28 DEF PurgeDelete, Delete, Deleted, Aborted, Fault
<1>29. ASSUME Tick
      PROVE  Quiet(s)
  BY <1>29 DEF Tick
<1>30. ASSUME Crash
      PROVE  CountAt(s)'
  BY <1>30, CrashCount
<1>31. CASE UNCHANGED vars
  <2>1. Quiet(s)
    BY <1>31 DEF vars
  <2>. QED
    BY <2>1, QuietCount
<1>. QED
  BY QuietCount, <1>1, <1>2, <1>3, <1>4, <1>5, <1>6, <1>7, <1>8, <1>9, <1>10,
     <1>11, <1>12, <1>13, <1>14, <1>15, <1>16, <1>17, <1>18, <1>19, <1>20,
     <1>21, <1>22, <1>23, <1>24, <1>25, <1>26, <1>27, <1>28, <1>29, <1>30,
     <1>31
  DEF Next, Begin, Step, Purge

(* Downloads beyond the limit are bounded by the requests in flight and    *)
(* the burns that were lost.                                               *)
THEOREM DownloadsAreBounded == Spec => []DownloadsBounded
<1>1. Init => Shape /\ Final /\ CountInv
  <2>1. Init => CountInv
    BY LimitAssumption, BurningFinite
    DEF Init, CountInv, CountAt, Closed
  <2>. QED
    BY <2>1, InitShape, InitFinal
<1>2. Shape /\ Final /\ CountInv /\ [Next]_vars => Shape' /\ Final' /\ CountInv'
  BY NextShape, NextFinal, NextCount
<1>3. Shape /\ CountInv => DownloadsBounded
  <2>. SUFFICES ASSUME Shape, CountInv, NEW s \in Share
                PROVE  count[s] < Limit + Cardinality(Proc) + lost[s]
    BY DEF DownloadsBounded
  <2>1. count[s] \in Nat /\ lost[s] \in Nat
    BY LimitAssumption DEF Shape, TypeOK
  <2>. QED
    BY <2>1, DisjointCount, LimitAssumption DEF CountInv, CountAt
<1>. QED
  BY <1>1, <1>2, <1>3, PTL DEF Spec

=============================================================================
