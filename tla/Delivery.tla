------------------------------ MODULE Delivery ------------------------------
(***************************************************************************)
(* What the notification queue promises: a job that was accepted is tried  *)
(* until it is delivered; an e-mail is given up after MaxRetries retries,  *)
(* the other kinds after one try; and a job is lost only with the server   *)
(* or Redis.                                                               *)
(***************************************************************************)
EXTENDS Naturals

CONSTANTS Job, Email, MaxRetries

VARIABLES
  state,      \* what has become of each job
  tries       \* how often its delivery was tried

Tries(j) == IF j \in Email THEN MaxRetries + 1 ELSE 1

Init == state = [j \in Job |-> "none"] /\ tries = [j \in Job |-> 0]

Accept(j) ==
  /\ state[j] = "none"
  /\ state' = [state EXCEPT ![j] = "pending"]
  /\ UNCHANGED tries

Try(j) ==
  /\ state[j] = "pending"
  /\ tries' = [tries EXCEPT ![j] = @ + 1]
  /\ \/ state' = [state EXCEPT ![j] = "delivered"]
     \/ tries[j] + 1 < Tries(j) /\ UNCHANGED state
     \/ tries[j] + 1 = Tries(j) /\ state' = [state EXCEPT ![j] = "failed"]

Lose ==
  /\ \E L \in SUBSET {j \in Job : state[j] = "pending"} :
       /\ L # {}
       /\ state' = [j \in Job |-> IF j \in L THEN "lost" ELSE state[j]]
  /\ UNCHANGED tries

Next == Lose \/ \E j \in Job : Accept(j) \/ Try(j)

Spec == Init /\ [][Next]_<<state, tries>>
=============================================================================
