------------------------------ MODULE JobLedger ------------------------------
(***************************************************************************)
(* What the refresh queue promises of each job, whoever edits it: a job is *)
(* inserted once, as pending; it is handed to a refreshOne call only while *)
(* it is pending; after that its status is written only by a call that     *)
(* was handed it and has not returned, or by an admin; and a restart       *)
(* forgets every call without touching a single job.                       *)
(***************************************************************************)
CONSTANTS Jobs, Workers

VARIABLES
  status,   \* status of each job, "free" before it is inserted
  holders   \* the refreshOne calls that were handed the job and still run

ledgerVars == <<status, holders>>

Init ==
  /\ status = [j \in Jobs |-> "free"]
  /\ holders = [j \in Jobs |-> {}]

Insert(S) ==
  /\ S # {} /\ \A j \in S : status[j] = "free"
  /\ status' = [j \in Jobs |-> IF j \in S THEN "pending" ELSE status[j]]
  /\ UNCHANGED holders

\* A batch: each of its jobs goes to exactly one call.
HandOut(S) ==
  /\ S # {} /\ \A j \in S : status[j] = "pending"
  /\ status' = [j \in Jobs |-> IF j \in S THEN "in_progress" ELSE status[j]]
  /\ \E to \in [S -> Workers] :
       /\ \A j \in S, k \in Jobs : to[j] \notin holders[k]
       /\ \A j, k \in S : to[j] = to[k] => j = k
       /\ holders' = [j \in Jobs |->
                        IF j \in S THEN holders[j] \cup {to[j]} ELSE holders[j]]

\* A call's verdict on the job it holds, and its return (in either order or
\* in one step).
Write(j, w) ==
  /\ w \in holders[j]
  /\ \E s \in {"pending", "done", "failed"} : status' = [status EXCEPT ![j] = s]
  /\ holders' \in {holders, [holders EXCEPT ![j] = @ \ {w}]}

Return(j, w) ==
  /\ w \in holders[j]
  /\ holders' = [holders EXCEPT ![j] = @ \ {w}]
  /\ UNCHANGED status

Cancel(j) ==
  /\ status[j] \in {"pending", "in_progress"}
  /\ status' = [status EXCEPT ![j] = "failed"]
  /\ UNCHANGED holders

Retry(j) ==
  /\ status[j] \in {"failed", "in_progress"}
  /\ status' = [status EXCEPT ![j] = "pending"]
  /\ UNCHANGED holders

Forget ==
  /\ holders' = [j \in Jobs |-> {}]
  /\ UNCHANGED status

Next ==
  \/ \E S \in SUBSET Jobs : Insert(S) \/ HandOut(S)
  \/ \E j \in Jobs, w \in Workers : Write(j, w) \/ Return(j, w)
  \/ \E j \in Jobs : Cancel(j) \/ Retry(j)
  \/ Forget

Spec == Init /\ [][Next]_ledgerVars

=============================================================================
