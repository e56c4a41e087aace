-------------------------- MODULE RefreshQueueProofs --------------------------
(***************************************************************************)
(* What TLC finds on small instances of RefreshQueue, proved for every     *)
(* number of repositories, job rows and refreshOne calls, every batch size *)
(* and threshold, with and without the foreign key and the facet kinds,    *)
(* and for any number of crashes and database failures; and that the queue *)
(* implements JobLedger.                                                   *)
(***************************************************************************)
EXTENDS RefreshQueue, TLAPS

-----------------------------------------------------------------------------
(* Types of the table's values.                                            *)

LEMMA BumpType ==
  ASSUME NEW n \in 0..TerminalAttempts
  PROVE  Bump(n) \in 1..TerminalAttempts
BY QueueAssumption DEF Bump

LEMMA NewJobType ==
  ASSUME NEW r \in Repos, NEW k \in Kinds, NEW o \in Origins
  PROVE  /\ NewJob(r, k, o) \in Job
         /\ NewJob(r, k, o).status = "pending"
         /\ NewJob(r, k, o).lease = "none"
         /\ NewJob(r, k, o).repo = r
         /\ NewJob(r, k, o).origin = o
         /\ NewJob(r, k, o).attempts = 0
<1>1. "core" \in Kinds
  BY DEF Kinds
<1>2. 0 \in 0..TerminalAttempts
  BY QueueAssumption
<1>3. (RestrictFK /\ o # "lookup") \in BOOLEAN
  OBVIOUS
<1> QED
  BY <1>1, <1>2, <1>3 DEF NewJob, FreeSlot, Job, Statuses, Origins, Leases, Marks

\* What claimBatch writes over an eligible row.
LEMMA ClaimedType ==
  ASSUME NEW j \in Jobs, jobs[j] \in Job
  PROVE  /\ Claimed(j) \in Job
         /\ Claimed(j).status = "in_progress"
         /\ Claimed(j).lease = "held"
         /\ Claimed(j).repo = jobs[j].repo
         /\ Claimed(j).origin = jobs[j].origin /\ Claimed(j).kind = jobs[j].kind
         /\ Claimed(j).attempts \in 1..TerminalAttempts
<1>1. Bump(jobs[j].attempts) \in 1..TerminalAttempts
  BY BumpType DEF Job
<1>2. Bump(jobs[j].attempts) \in 0..TerminalAttempts
  BY <1>1
<1> QED
  BY <1>1, <1>2 DEF Claimed, Job, Statuses, Leases, Marks

\* What a verdict does to the table: it edits the row of the job its call
\* holds and no other.
LEMMA VerdictType ==
  ASSUME TypeOK, NEW w \in Workers, NEW s \in Statuses, NEW m \in Marks
  PROVE  /\ Verdict(w, s, m) \in [Jobs -> Job]
         /\ \A j \in Jobs :
              IF j = holds[w]
              THEN /\ Verdict(w, s, m)[j].status = s
                   /\ Verdict(w, s, m)[j].lease = "none"
                   /\ Verdict(w, s, m)[j].mark = m
                   /\ Verdict(w, s, m)[j].repo = jobs[j].repo
                   /\ Verdict(w, s, m)[j].kind = jobs[j].kind
                   /\ Verdict(w, s, m)[j].origin = jobs[j].origin
                   /\ Verdict(w, s, m)[j].attempts = jobs[j].attempts
              ELSE Verdict(w, s, m)[j] = jobs[j]
<1> DEFINE settled(j) == [jobs[j] EXCEPT !.status = s, !.due = FALSE,
                                        !.lease = "none", !.mark = m]
<1>1. jobs \in [Jobs -> Job]
  BY DEF TypeOK
<1>2. \A j \in Jobs :
        /\ settled(j) \in Job
        /\ settled(j).status = s /\ settled(j).lease = "none" /\ settled(j).mark = m
        /\ settled(j).repo = jobs[j].repo /\ settled(j).origin = jobs[j].origin
        /\ settled(j).attempts = jobs[j].attempts /\ settled(j).kind = jobs[j].kind
  BY ZenonT(40), <1>1 DEF Job, Leases
<1>3. Verdict(w, s, m) = [j \in Jobs |-> IF j = holds[w] THEN settled(j) ELSE jobs[j]]
  BY <1>1 DEF Verdict
<1> HIDE DEF settled
<1> QED
  BY <1>1, <1>2, <1>3

LEMMA CountedVerdictType ==
  ASSUME TypeOK, NEW w \in Workers, NEW s \in Statuses, NEW m \in Marks
  PROVE  /\ CountedVerdict(w, s, m) \in [Jobs -> Job]
         /\ \A j \in Jobs :
              IF j = holds[w]
              THEN /\ CountedVerdict(w, s, m)[j].status = s
                   /\ CountedVerdict(w, s, m)[j].lease = "none"
                   /\ CountedVerdict(w, s, m)[j].mark = m
                   /\ CountedVerdict(w, s, m)[j].repo = jobs[j].repo
                   /\ CountedVerdict(w, s, m)[j].kind = jobs[j].kind
                   /\ CountedVerdict(w, s, m)[j].origin = jobs[j].origin
                   /\ CountedVerdict(w, s, m)[j].attempts \in 1..TerminalAttempts
              ELSE CountedVerdict(w, s, m)[j] = jobs[j]
<1> DEFINE V == Verdict(w, s, m)
           counted(j) == [V[j] EXCEPT !.attempts = Bump(snap[w])]
<1>1. Bump(snap[w]) \in 1..TerminalAttempts /\ Bump(snap[w]) \in 0..TerminalAttempts
  BY BumpType DEF TypeOK
<1>2. /\ V \in [Jobs -> Job]
      /\ \A j \in Jobs :
           IF j = holds[w]
           THEN /\ V[j].status = s /\ V[j].lease = "none" /\ V[j].mark = m
                /\ V[j].repo = jobs[j].repo /\ V[j].origin = jobs[j].origin
                /\ V[j].kind = jobs[j].kind
           ELSE V[j] = jobs[j]
  BY VerdictType
<1>3. CountedVerdict(w, s, m) =
        [j \in Jobs |-> IF j = holds[w] THEN counted(j) ELSE V[j]]
  BY <1>2 DEF CountedVerdict
<1> HIDE DEF V
<1>4. \A j \in Jobs :
        /\ counted(j) \in Job
        /\ counted(j).status = V[j].status /\ counted(j).lease = V[j].lease
        /\ counted(j).mark = V[j].mark /\ counted(j).repo = V[j].repo
        /\ counted(j).origin = V[j].origin /\ counted(j).kind = V[j].kind
        /\ counted(j).attempts \in 1..TerminalAttempts
  BY <1>1, <1>2 DEF Job
<1> HIDE DEF counted
<1> QED
  BY <1>2, <1>3, <1>4

-----------------------------------------------------------------------------
(* What the steps that touch several rows do.                              *)

\* A sweep inserts pending jobs into free rows and leaves the others alone.
LEMMA SweepEffect ==
  ASSUME TypeOK, NEW k \in Kinds, Sweep(k)
  PROVE  \E S \in SUBSET Free :
           /\ S # {}
           /\ \A j \in Jobs \ S : jobs'[j] = jobs[j]
           /\ \A j \in S : \E r \in Repos : jobs'[j] = NewJob(r, k, "sweep")
           /\ jobs' \in [Jobs -> Job]
<1>1. PICK T \in SUBSET {r \in Repos : row[r] = "ok"} :
        \E slot \in [T -> Free] : InsertAll(slot, k)
  BY DEF Sweep
<1>2. PICK slot \in [T -> Free] : InsertAll(slot, k)
  BY <1>1
<1>3. /\ T # {}
      /\ jobs' = [j \in Jobs |->
                    IF \E r \in T : slot[r] = j
                    THEN NewJob(CHOOSE r \in T : slot[r] = j, k, "sweep")
                    ELSE jobs[j]]
  BY <1>2 DEF InsertAll
<1> DEFINE S == {slot[r] : r \in T}
<1>4. S \in SUBSET Free /\ S # {} /\ S \subseteq Jobs
  BY <1>3 DEF Free
<1>5. ASSUME NEW j \in Jobs \ S PROVE jobs'[j] = jobs[j]
  BY <1>3, <1>5
<1>6. ASSUME NEW j \in S
      PROVE  \E r \in Repos : jobs'[j] = NewJob(r, k, "sweep")
  <2>1. j \in Jobs /\ \E r \in T : slot[r] = j
    BY <1>4, <1>6
  <2>2. (CHOOSE r \in T : slot[r] = j) \in Repos
    BY <2>1
  <2>3. jobs'[j] = NewJob(CHOOSE r \in T : slot[r] = j, k, "sweep")
    BY <1>3, <2>1
  <2> QED BY <2>2, <2>3
<1>7. ASSUME NEW j \in Jobs PROVE jobs'[j] \in Job
  <2>1. CASE j \in S
    BY <1>6, <2>1, NewJobType DEF Origins
  <2>2. CASE j \notin S
    BY <1>5, <2>2 DEF TypeOK
  <2> QED BY <2>1, <2>2
<1>8. jobs' \in [Jobs -> Job]
  BY <1>3, <1>7
<1> HIDE DEF S
<1> QED
  BY <1>4, <1>5, <1>6, <1>8

\* A tick claims a batch of eligible rows, starts one idle call on each, and
\* leaves every other row and call alone.
LEMMA TickEffect ==
  ASSUME TypeOK, RunTick
  PROVE  \E S \in SUBSET Eligible : \E give \in [Idle -> S \cup {NoJob}] :
           /\ S # {} /\ StartBatch(S, give)
           /\ jobs' \in [Jobs -> Job]
           /\ snap' \in [Workers -> 0..TerminalAttempts]
<1>1. PICK S \in SUBSET Eligible :
        IsBatch(S) /\ \E give \in [Idle -> S \cup {NoJob}] : StartBatch(S, give)
  BY DEF RunTick
<1>2. PICK give \in [Idle -> S \cup {NoJob}] : StartBatch(S, give)
  BY <1>1
<1>3. S # {} /\ S \subseteq Jobs
  BY <1>1 DEF IsBatch, Eligible
<1>4. \A j \in Jobs : jobs[j] \in Job
  BY DEF TypeOK
<1>5. \A j \in S : Claimed(j) \in Job
  BY <1>3, <1>4, ClaimedType
<1>6. jobs' \in [Jobs -> Job]
  BY <1>2, <1>4, <1>5 DEF StartBatch
<1>7. ASSUME NEW w \in Workers
      PROVE  (IF w \in Idle /\ give[w] # NoJob THEN Bump(jobs[give[w]].attempts)
              ELSE snap[w]) \in 0..TerminalAttempts
  <2>1. CASE w \in Idle /\ give[w] # NoJob
    <3>1. give[w] \in Jobs
      BY <1>2, <1>3, <2>1
    <3>2. jobs[give[w]].attempts \in 0..TerminalAttempts
      BY <1>4, <3>1 DEF Job
    <3>3. Bump(jobs[give[w]].attempts) \in 0..TerminalAttempts
      BY <3>2, BumpType
    <3> QED BY <2>1, <3>3
  <2>2. CASE ~(w \in Idle /\ give[w] # NoJob)
    BY <2>2 DEF TypeOK
  <2> QED BY <2>1, <2>2
<1>8. snap' \in [Workers -> 0..TerminalAttempts]
  BY <1>2, <1>7 DEF StartBatch
<1> QED
  BY <1>2, <1>3, <1>6, <1>8

-----------------------------------------------------------------------------
(* Type correctness.                                                       *)

\* Moving a call to another phase, or returning from it, keeps the types of
\* the per-call variables.
LEMMA WorkerTypes ==
  ASSUME TypeOK, NEW w \in Workers,
         \/ Release(w)
         \/ \E p \in Phases : Enter(w, p)
  PROVE  /\ phase' \in [Workers -> Phases]
         /\ holds' \in [Workers -> Jobs \cup {NoJob}]
         /\ snap' \in [Workers -> 0..TerminalAttempts]
<1>1. 0 \in 0..TerminalAttempts
  BY QueueAssumption
<1> QED
  BY <1>1 DEF TypeOK, Release, Enter, Phases

LEMMA InitType == Init => TypeOK
<1> SUFFICES ASSUME Init PROVE TypeOK
  OBVIOUS
<1>1. 0 \in 0..TerminalAttempts /\ 0 \in 0..MaxCrashes /\ 0 \in 0..MaxDbFailures
  BY QueueAssumption
<1>2. FreeSlot \in Job
  BY <1>1 DEF FreeSlot, Job, Statuses, Kinds, Origins, Leases, Marks
<1>3. jobs \in [Jobs -> Job]
  BY <1>2 DEF Init
<1>4. row \in [Repos -> RowStates]
  BY QueueAssumption DEF Init, RowStates
<1> QED
  BY <1>1, <1>3, <1>4 DEF Init, TypeOK, Phases

\* The marker NotFound writes: the verdict, and the job no longer points at
\* the repository's row.
LEMMA UnrefType ==
  ASSUME TypeOK, NEW w \in Workers
  PROVE  LET marked == [CountedVerdict(w, "failed", "not_found")
                          EXCEPT ![holds[w]].ref = FALSE]
         IN  /\ marked \in [Jobs -> Job]
             /\ \A j \in Jobs :
                  IF j = holds[w]
                  THEN /\ marked[j].status = "failed" /\ marked[j].lease = "none"
                       /\ marked[j].mark = "not_found" /\ marked[j].repo = jobs[j].repo
                       /\ marked[j].origin = jobs[j].origin /\ marked[j].kind = jobs[j].kind
                       /\ marked[j].attempts \in 1..TerminalAttempts
                  ELSE marked[j] = jobs[j]
<1> DEFINE C == CountedVerdict(w, "failed", "not_found")
           unref(j) == [C[j] EXCEPT !.ref = FALSE]
<1>1. /\ C \in [Jobs -> Job]
      /\ \A j \in Jobs :
           IF j = holds[w]
           THEN /\ C[j].status = "failed" /\ C[j].lease = "none"
                /\ C[j].mark = "not_found" /\ C[j].repo = jobs[j].repo
                /\ C[j].origin = jobs[j].origin /\ C[j].kind = jobs[j].kind
                /\ C[j].attempts \in 1..TerminalAttempts
           ELSE C[j] = jobs[j]
  BY CountedVerdictType DEF Statuses, Marks
<1> HIDE DEF C
<1>2. [C EXCEPT ![holds[w]].ref = FALSE]
        = [j \in Jobs |-> IF j = holds[w] THEN unref(j) ELSE C[j]]
  BY <1>1
<1>3. \A j \in Jobs :
        /\ unref(j) \in Job
        /\ unref(j).status = C[j].status /\ unref(j).lease = C[j].lease
        /\ unref(j).mark = C[j].mark /\ unref(j).repo = C[j].repo
        /\ unref(j).origin = C[j].origin /\ unref(j).attempts = C[j].attempts
        /\ unref(j).kind = C[j].kind
  BY ZenonT(40), <1>1 DEF Job
<1> HIDE DEF unref
<1>4. /\ [C EXCEPT ![holds[w]].ref = FALSE] \in [Jobs -> Job]
      /\ \A j \in Jobs : [C EXCEPT ![holds[w]].ref = FALSE][j]
                         = IF j = holds[w] THEN unref(j) ELSE C[j]
  BY <1>1, <1>2, <1>3
<1> QED
  BY <1>1, <1>3, <1>4 DEF C

LEMMA RefreshStepType ==
  ASSUME TypeOK, NEW w \in Workers, RefreshStep(w)
  PROVE  TypeOK'
<1> USE DEF TypeOK, tableVars, budgetVars
<1>1. CASE Fetch(w)
  <2>1. Answers(w) \subseteq Phases
    BY DEF Answers, Phases
  <2>2. \E p \in Phases : Enter(w, p)
    BY <1>1, <2>1 DEF Fetch
  <2> QED BY <1>1, <2>2, WorkerTypes DEF Fetch
<1>2. CASE CreateRow(w) \/ UpdateRow(w)
  <2>1. row' \in [Repos -> RowStates]
    BY <1>2 DEF CreateRow, UpdateRow, RowStates
  <2>2. \E p \in Phases : Enter(w, p)
    BY <1>2 DEF CreateRow, UpdateRow, Caught, Phases
  <2> QED BY <1>2, <2>1, <2>2, WorkerTypes DEF CreateRow, UpdateRow
<1>3. CASE Store(w) \/ Touch(w)
  <2>1. \E p \in Phases : Enter(w, p)
    BY <1>3 DEF Store, Touch, Caught, Phases
  <2> QED BY <1>3, <2>1, WorkerTypes DEF Store, Touch
<1>4. CASE Finish(w)
  <2>1. jobs' \in [Jobs -> Job]
    BY <1>4, VerdictType DEF Finish, Statuses, Marks
  <2> QED BY <1>4, <2>1, WorkerTypes DEF Finish
<1>5. CASE NotFound(w)
  <2>0. past' \subseteq Jobs
    BY <1>5 DEF NotFound, PastAfter
  <2>1. CASE Enter(w, "fallback") /\ UNCHANGED tableVars
    <3>1. \E p \in Phases : Enter(w, p)
      BY <2>1 DEF Phases
    <3> QED BY <1>5, <2>0, <2>1, <3>1, WorkerTypes DEF NotFound
  <2>2. CASE /\ jobs' = [CountedVerdict(w, "failed", "not_found") EXCEPT ![holds[w]].ref = FALSE]
             /\ row' = [row EXCEPT ![job(w).repo] = "absent"]
             /\ Enter(w, "auditing")
    <3>1. jobs' \in [Jobs -> Job]
      BY <2>2, UnrefType
    <3>3. row' \in [Repos -> RowStates]
      BY <2>2 DEF RowStates
    <3>4. \E p \in Phases : Enter(w, p)
      BY <2>2 DEF Phases
    <3> QED BY <1>5, <2>0, <3>1, <3>3, <3>4, WorkerTypes DEF NotFound
  <2> QED BY <1>5, <2>1, <2>2 DEF NotFound
<1>6. CASE NotFoundFallback(w)
  <2>1. jobs' \in [Jobs -> Job]
    BY <1>6, CountedVerdictType DEF NotFoundFallback, Statuses, Marks
  <2> QED BY <1>6, <2>1, WorkerTypes DEF NotFoundFallback
<1>7. CASE Forbidden(w)
  <2>1. jobs' \in [Jobs -> Job]
    BY <1>7, VerdictType DEF Forbidden, Statuses, Marks
  <2> QED BY <1>7, <2>1, WorkerTypes DEF Forbidden
<1>8. CASE Transient(w)
  <2>1. jobs' \in [Jobs -> Job]
    BY <1>8, VerdictType DEF Transient, Statuses, Marks
  <2> QED BY <1>8, <2>1, WorkerTypes DEF Transient
<1>9. CASE Unexpected(w)
  <2>1. jobs' \in [Jobs -> Job]
    BY <1>9, CountedVerdictType DEF Unexpected, Statuses, Marks
  <2>2. Release(w) \/ \E p \in Phases : Enter(w, p)
    BY <1>9 DEF Unexpected, Phases
  <2> QED BY <1>9, <2>1, <2>2, WorkerTypes DEF Unexpected
<1>10. CASE Audit(w)
  BY <1>10, WorkerTypes DEF Audit
<1>11. CASE MarkFailed(w)
  <2>1. jobs' \in [Jobs -> Job]
    BY <1>11, VerdictType DEF MarkFailed, Statuses, Marks
  <2> QED BY <1>11, <2>1, WorkerTypes DEF MarkFailed
<1> QED
  BY <1>1, <1>2, <1>3, <1>4, <1>5, <1>6, <1>7, <1>8, <1>9, <1>10, <1>11
  DEF RefreshStep

LEMMA DbFailureType ==
  ASSUME TypeOK, NEW w \in Workers, DbFailure(w)
  PROVE  TypeOK'
<1> USE DEF TypeOK
<1>1. AfterDbFailure(w) \in Phases
  BY DEF AfterDbFailure, AfterFailedFinish, Caught, Phases
<1>2. Release(w) \/ \E p \in Phases : Enter(w, p)
  BY <1>1 DEF DbFailure
<1>3. dbFailures' \in 0..MaxDbFailures
  BY QueueAssumption DEF DbFailure
<1>4. row' \in [Repos -> RowStates]
  BY DEF DbFailure, RowStates
<1> QED
  BY <1>2, <1>3, <1>4, WorkerTypes DEF DbFailure

\* The admin routes: each edits one row.
LEMMA AdminEffect ==
  ASSUME TypeOK, NEW j \in Jobs, CancelJob(j) \/ RetryJob(j)
  PROVE  /\ jobs' \in [Jobs -> Job]
         /\ \A k \in Jobs \ {j} : jobs'[k] = jobs[k]
         /\ jobs'[j].status \in {"pending", "failed"}
         /\ jobs'[j].lease = "none" /\ jobs'[j].mark # "not_found"
         /\ jobs'[j].repo = jobs[j].repo /\ jobs'[j].kind = jobs[j].kind
<1> DEFINE cancelled == [jobs[j] EXCEPT !.status = "failed", !.due = FALSE,
                                       !.lease = "none", !.mark = "cancelled"]
           retried == [jobs[j] EXCEPT !.status = "pending", !.due = TRUE,
                                     !.lease = "none", !.mark = "none"]
<1>1. jobs \in [Jobs -> Job] /\ jobs[j] \in Job
  BY DEF TypeOK
<1>2. /\ cancelled \in Job /\ cancelled.status = "failed"
      /\ cancelled.lease = "none" /\ cancelled.repo = jobs[j].repo
      /\ cancelled.kind = jobs[j].kind /\ cancelled.mark # "not_found"
  BY <1>1 DEF Job, Statuses, Leases, Marks
<1>3. /\ retried \in Job /\ retried.status = "pending"
      /\ retried.lease = "none" /\ retried.repo = jobs[j].repo
      /\ retried.kind = jobs[j].kind /\ retried.mark # "not_found"
  BY <1>1 DEF Job, Statuses, Leases, Marks
<1>4. \/ jobs' = [jobs EXCEPT ![j] = cancelled]
      \/ jobs' = [jobs EXCEPT ![j] = retried]
  BY <1>1 DEF CancelJob, RetryJob
<1> HIDE DEF cancelled, retried
<1> QED
  BY <1>1, <1>2, <1>3, <1>4

\* The clock: one field of one row.
LEMMA ClockEffect ==
  ASSUME TypeOK, NEW j \in Jobs, BecomesDue(j) \/ LeaseExpires(j)
  PROVE  /\ jobs' \in [Jobs -> Job]
         /\ \A k \in Jobs \ {j} : jobs'[k] = jobs[k]
         /\ jobs'[j].status = jobs[j].status /\ jobs'[j].repo = jobs[j].repo
         /\ jobs'[j].attempts = jobs[j].attempts /\ jobs'[j].origin = jobs[j].origin
         /\ jobs'[j].mark = jobs[j].mark /\ jobs'[j].kind = jobs[j].kind
         /\ \/ jobs'[j].lease = jobs[j].lease
            \/ jobs[j].lease = "held" /\ jobs'[j].lease = "expired"
<1> DEFINE due == [jobs[j] EXCEPT !.due = TRUE]
           late == [jobs[j] EXCEPT !.lease = "expired"]
<1>1. jobs \in [Jobs -> Job] /\ jobs[j] \in Job
  BY DEF TypeOK
<1>2. /\ due \in Job /\ late \in Job
      /\ due.status = jobs[j].status /\ late.status = jobs[j].status
      /\ due.repo = jobs[j].repo /\ late.repo = jobs[j].repo
      /\ due.attempts = jobs[j].attempts /\ late.attempts = jobs[j].attempts
      /\ due.origin = jobs[j].origin /\ late.origin = jobs[j].origin
      /\ due.mark = jobs[j].mark /\ late.mark = jobs[j].mark
      /\ due.kind = jobs[j].kind /\ late.kind = jobs[j].kind
      /\ due.lease = jobs[j].lease /\ late.lease = "expired"
  BY <1>1 DEF Job, Leases
<1>3. \/ jobs' = [jobs EXCEPT ![j] = due]
      \/ jobs[j].lease = "held" /\ jobs' = [jobs EXCEPT ![j] = late]
  BY <1>1 DEF BecomesDue, LeaseExpires
<1> HIDE DEF due, late
<1> QED
  BY <1>1, <1>2, <1>3

LEMMA NextType == TypeOK /\ [Next]_vars => TypeOK'
<1> SUFFICES ASSUME TypeOK, [Next]_vars PROVE TypeOK'
  OBVIOUS
<1>1. ASSUME NEW r \in Repos, LookupMiss(r) PROVE TypeOK'
  BY <1>1 DEF LookupMiss, TypeOK, workerVars, budgetVars
<1>2. ASSUME NEW r \in Repos, EnqueueRefresh(r) PROVE TypeOK'
  <2>1. "core" \in Kinds /\ "lookup" \in Origins /\ Free \subseteq Jobs
    BY DEF Kinds, Origins, Free
  <2>2. jobs' \in [Jobs -> Job]
    BY <1>2, <2>1, NewJobType DEF EnqueueRefresh, TypeOK
  <2> QED BY <1>2, <2>2 DEF EnqueueRefresh, TypeOK, workerVars, budgetVars
<1>3. ASSUME NEW r \in Repos, EnqueueManualRefresh(r) PROVE TypeOK'
  <2>1. "core" \in Kinds /\ "manual" \in Origins /\ Free \subseteq Jobs
    BY DEF Kinds, Origins, Free
  <2>2. jobs' \in [Jobs -> Job]
    BY <1>3, <2>1, NewJobType DEF EnqueueManualRefresh, TypeOK
  <2> QED BY <1>3, <2>2 DEF EnqueueManualRefresh, TypeOK, workerVars, budgetVars
<1>4. ASSUME NEW k \in Kinds, Sweep(k) PROVE TypeOK'
  <2>1. jobs' \in [Jobs -> Job]
    BY <1>4, SweepEffect
  <2> QED BY <1>4, <2>1 DEF Sweep, TypeOK, workerVars, budgetVars
<1>5. CASE RunTick
  <2>1. PICK S \in SUBSET Eligible, give \in [Idle -> Jobs \cup {NoJob}] :
          /\ StartBatch(S, give)
          /\ jobs' \in [Jobs -> Job] /\ snap' \in [Workers -> 0..TerminalAttempts]
    BY <1>5, TickEffect DEF Eligible
  <2>2. phase' \in [Workers -> Phases] /\ holds' \in [Workers -> Jobs \cup {NoJob}]
    BY <2>1 DEF StartBatch, TypeOK, Phases
  <2> QED BY <1>5, <2>1, <2>2 DEF RunTick, TypeOK, budgetVars
<1>6. ASSUME NEW w \in Workers, RefreshStep(w) \/ DbFailure(w) PROVE TypeOK'
  BY <1>6, RefreshStepType, DbFailureType
<1>7. ASSUME NEW j \in Jobs, CancelJob(j) \/ RetryJob(j) PROVE TypeOK'
  BY <1>7, AdminEffect DEF CancelJob, RetryJob, TypeOK, workerVars, budgetVars
<1>8. ASSUME NEW j \in Jobs, BecomesDue(j) \/ LeaseExpires(j) PROVE TypeOK'
  BY <1>8, ClockEffect DEF BecomesDue, LeaseExpires, TypeOK, workerVars, budgetVars
<1>9. CASE Restart
  <2>1. 0 \in 0..TerminalAttempts /\ crashes' \in 0..MaxCrashes
    BY <1>9, QueueAssumption DEF Restart, TypeOK
  <2> QED BY <1>9, <2>1 DEF Restart, TypeOK, tableVars, Phases
<1>10. CASE UNCHANGED vars
  BY <1>10 DEF vars, TypeOK
<1> QED
  BY <1>1, <1>2, <1>3, <1>4, <1>5, <1>6, <1>7, <1>8, <1>9, <1>10 DEF Next

\* TypeOK holds in every reachable state, for all values of the constants.
THEOREM TypeCorrect == Spec => []TypeOK
<1> QED
  BY InitType, NextType, PTL DEF Spec

-----------------------------------------------------------------------------
(* What one step of a refreshOne call does.                                *)

\* The call's verdict on the job it holds.
VerdictBy(w) ==
  /\ phase[w] # "auditing"
  /\ \A j \in Jobs \ {holds[w]} : jobs'[j] = jobs[j]
  /\ holds[w] \in Jobs =>
       /\ jobs'[holds[w]].status \in {"pending", "done", "failed"}
       /\ jobs'[holds[w]].lease = "none"
       /\ jobs'[holds[w]].repo = jobs[holds[w]].repo
       /\ jobs'[holds[w]].origin = jobs[holds[w]].origin
       /\ jobs'[holds[w]].kind = jobs[holds[w]].kind
       /\ jobs'[holds[w]].status = "done" => phase[w] = "finishing"
       /\ jobs'[holds[w]].mark = "not_found" => phase[w] = "notfound"
       /\ \/ jobs'[holds[w]].attempts = jobs[holds[w]].attempts
          \/ jobs'[holds[w]].attempts \in 1..TerminalAttempts
       /\ phase[w] = "threw" => jobs'[holds[w]].status = "failed"
       /\ ~Release(w) => jobs'[holds[w]].status = "failed"
  /\ ~Release(w) => phase'[w] = "auditing"

\* A step that leaves the table alone: once the verdict has been written the
\* call only returns or falls through to runTick's handler.
QuietStep(w) ==
  /\ UNCHANGED jobs
  /\ \/ Release(w)
     \/ /\ phase'[w] \notin {"idle", "auditing"}
        /\ phase[w] = "auditing" => phase'[w] = "threw"
        /\ phase[w] # "threw"

CallMoves(w) ==
  /\ phase[w] # "idle"
  /\ Release(w) \/ \E p \in Phases \ {"idle"} : Enter(w, p)
  /\ VerdictBy(w) \/ QuietStep(w)
  /\ UNCHANGED <<asking, crashes, touched>>

LEMMA CallEffect ==
  ASSUME TypeOK, NEW w \in Workers, RefreshStep(w) \/ DbFailure(w)
  PROVE  CallMoves(w)
<1> USE DEF tableVars, budgetVars
<1>0. /\ holds[w] \in Jobs \cup {NoJob} /\ phase \in [Workers -> Phases]
      /\ \A p \in Phases : Enter(w, p) => phase'[w] = p
  BY DEF TypeOK, Enter
<1>1. ASSUME NEW s \in {"pending", "done", "failed"}, NEW m \in {"none"}, phase[w] # "auditing",
             phase[w] = "threw" => s = "failed", s = "done" => phase[w] = "finishing",
             ~Release(w) => s = "failed" /\ phase'[w] = "auditing",
             jobs' \in {Verdict(w, s, m), CountedVerdict(w, s, m)}
      PROVE  VerdictBy(w)
  <2>1. s \in Statuses /\ m \in Marks /\ m # "not_found"
    BY DEF Statuses, Marks
  <2> QED BY <1>1, <2>1, VerdictType, CountedVerdictType DEF VerdictBy
<1>2. CASE Fetch(w)
  <2>1. PICK p \in Answers(w) : Enter(w, p)
    BY <1>2 DEF Fetch
  <2>2. p \in Phases \ {"idle", "auditing", "threw"}
    BY DEF Answers, Phases
  <2> QED BY <1>0, <1>2, <2>1, <2>2 DEF Fetch, CallMoves, QuietStep
<1>3. CASE Store(w) \/ CreateRow(w) \/ UpdateRow(w) \/ Touch(w)
  BY <1>0, <1>3 DEF Store, CreateRow, UpdateRow, Touch, Caught, CallMoves, QuietStep, Phases
<1>4. CASE Finish(w) \/ Forbidden(w) \/ Transient(w) \/ MarkFailed(w)
  <2>1. VerdictBy(w)
    BY <1>1, <1>4 DEF Finish, Forbidden, Transient, MarkFailed, Marks
  <2> QED BY <1>4, <2>1 DEF Finish, Forbidden, Transient, MarkFailed, CallMoves
<1>5. CASE NotFound(w)
  <2>1. CASE Enter(w, "fallback") /\ UNCHANGED tableVars
    BY <1>0, <1>5, <2>1 DEF NotFound, CallMoves, QuietStep, Phases
  <2>2. CASE /\ jobs' = [CountedVerdict(w, "failed", "not_found") EXCEPT ![holds[w]].ref = FALSE]
             /\ Enter(w, "auditing")
    <3>1. VerdictBy(w)
      BY <1>0, <1>5, <2>2, UnrefType DEF VerdictBy, NotFound, Phases
    <3> QED BY <1>5, <2>2, <3>1 DEF NotFound, CallMoves, Phases
  <2> QED BY <1>5, <2>1, <2>2 DEF NotFound
<1>6. CASE NotFoundFallback(w)
  <2>1. VerdictBy(w)
    BY <1>1, <1>6 DEF NotFoundFallback, Marks
  <2> QED BY <1>6, <2>1 DEF NotFoundFallback, CallMoves
<1>7. CASE Unexpected(w)
  <2>1. VerdictBy(w)
    BY <1>0, <1>1, <1>7 DEF Unexpected, Marks, Phases
  <2> QED BY <1>7, <2>1 DEF Unexpected, CallMoves, Phases
<1>8. CASE Audit(w)
  BY <1>8 DEF Audit, CallMoves, QuietStep
<1>9. CASE DbFailure(w)
  <2>1. /\ AfterDbFailure(w) \in Phases \ {"idle", "auditing"}
        /\ phase[w] = "auditing" => AfterDbFailure(w) = "threw"
    BY DEF AfterDbFailure, AfterFailedFinish, Caught, Phases
  <2> QED BY <1>0, <1>9, <2>1 DEF DbFailure, CallMoves, QuietStep
<1> QED
  BY <1>2, <1>3, <1>4, <1>5, <1>6, <1>7, <1>8, <1>9 DEF RefreshStep

-----------------------------------------------------------------------------
(* Leases.                                                                 *)

LEMMA InitLease == Init => LeaseMarksClaim
BY DEF Init, LeaseMarksClaim, FreeSlot

LEMMA NextLease == TypeOK /\ LeaseMarksClaim /\ [Next]_vars => LeaseMarksClaim'
<1> SUFFICES ASSUME TypeOK, LeaseMarksClaim, [Next]_vars
             PROVE  LeaseMarksClaim'
  OBVIOUS
<1> USE DEF LeaseMarksClaim
<1>1. ASSUME NEW r \in Repos, EnqueueRefresh(r) \/ EnqueueManualRefresh(r)
      PROVE  LeaseMarksClaim'
  BY <1>1, NewJobType DEF EnqueueRefresh, EnqueueManualRefresh, TypeOK, Kinds, Origins
<1>2. ASSUME NEW k \in Kinds, Sweep(k) PROVE LeaseMarksClaim'
  BY <1>2, SweepEffect, NewJobType DEF Origins
<1>3. CASE RunTick
  BY <1>3, TickEffect, ClaimedType DEF TypeOK, StartBatch, Eligible
<1>4. ASSUME NEW w \in Workers, RefreshStep(w) \/ DbFailure(w) PROVE LeaseMarksClaim'
  <2>1. CallMoves(w)
    BY <1>4, CallEffect
  <2> QED BY <2>1 DEF CallMoves, VerdictBy, QuietStep
<1>5. ASSUME NEW j \in Jobs, CancelJob(j) \/ RetryJob(j) PROVE LeaseMarksClaim'
  BY <1>5, AdminEffect
<1>6. ASSUME NEW j \in Jobs, BecomesDue(j) \/ LeaseExpires(j) PROVE LeaseMarksClaim'
  BY <1>6, ClockEffect
<1>7. CASE UNCHANGED jobs
  BY <1>7
<1> QED
  BY <1>1, <1>2, <1>3, <1>4, <1>5, <1>6, <1>7
  DEF Next, LookupMiss, Restart, vars, tableVars

\* A row carries a lease exactly while it is in_progress.
THEOREM LeaseIsClaim == Spec => []LeaseMarksClaim
<1> QED
  BY InitLease, NextLease, TypeCorrect, PTL DEF Spec

-----------------------------------------------------------------------------
(* Ownership.                                                              *)

\* A call is idle exactly while it holds nothing, and what it holds is a row
\* that was inserted.
HoldersAreCalls ==
  \A w \in Workers :
    /\ phase[w] = "idle" <=> holds[w] = NoJob
    /\ holds[w] # NoJob => jobs[holds[w]].status # "free"

RowsAreNamed ==
  \A j \in Jobs : jobs[j].status # "free" => jobs[j].repo \in Repos

LEMMA InitHolders == Init => HoldersAreCalls /\ RowsAreNamed
BY DEF Init, HoldersAreCalls, RowsAreNamed, FreeSlot

\* Every insertion fills free rows with pending, unleased jobs.
LEMMA InsertEffect ==
  ASSUME TypeOK,
         \/ \E r \in Repos : EnqueueRefresh(r) \/ EnqueueManualRefresh(r)
         \/ \E k \in Kinds : Sweep(k)
  PROVE  \E S \in SUBSET Free :
           /\ \A j \in Jobs \ S : jobs'[j] = jobs[j]
           /\ \A j \in S : /\ jobs'[j].status = "pending" /\ jobs'[j].lease = "none"
                          /\ jobs'[j].repo \in Repos
           /\ UNCHANGED <<workerVars, touched>>
<1>1. ASSUME NEW r \in Repos, NEW j \in Free, NEW o \in Origins,
             jobs' = [jobs EXCEPT ![j] = NewJob(r, "core", o)]
      PROVE  /\ \A k \in Jobs \ {j} : jobs'[k] = jobs[k]
             /\ jobs'[j].status = "pending" /\ jobs'[j].lease = "none"
             /\ jobs'[j].repo \in Repos
  BY <1>1, NewJobType DEF TypeOK, Free, Kinds
<1>2. ASSUME NEW r \in Repos, NEW j \in Free, UNCHANGED <<workerVars, touched>>,
             \/ jobs' = [jobs EXCEPT ![j] = NewJob(r, "core", "lookup")]
             \/ jobs' = [jobs EXCEPT ![j] = NewJob(r, "core", "manual")]
      PROVE  \E S \in SUBSET Free :
               /\ \A k \in Jobs \ S : jobs'[k] = jobs[k]
               /\ \A k \in S : /\ jobs'[k].status = "pending" /\ jobs'[k].lease = "none"
                              /\ jobs'[k].repo \in Repos
               /\ UNCHANGED <<workerVars, touched>>
  <2>1. {j} \in SUBSET Free
    OBVIOUS
  <2>2. /\ \A k \in Jobs \ {j} : jobs'[k] = jobs[k]
        /\ jobs'[j].status = "pending" /\ jobs'[j].lease = "none"
        /\ jobs'[j].repo \in Repos
    BY <1>1, <1>2 DEF Origins
  <2> QED BY <1>2, <2>1, <2>2
<1>3. CASE \E r \in Repos : EnqueueRefresh(r)
  <2>1. CASE UNCHANGED jobs
    BY <1>3, <2>1 DEF EnqueueRefresh
  <2>2. CASE ~UNCHANGED jobs
    BY <1>2, <1>3, <2>2 DEF EnqueueRefresh
  <2> QED BY <2>1, <2>2
<1>4. CASE \E r \in Repos : EnqueueManualRefresh(r)
  BY <1>2, <1>4 DEF EnqueueManualRefresh
<1>5. CASE \E k \in Kinds : Sweep(k)
  <2>1. PICK k \in Kinds : Sweep(k)
    BY <1>5
  <2>2. PICK S \in SUBSET Free :
          /\ \A j \in Jobs \ S : jobs'[j] = jobs[j]
          /\ \A j \in S : \E r \in Repos : jobs'[j] = NewJob(r, k, "sweep")
    BY <2>1, SweepEffect
  <2>3. \A j \in S : /\ jobs'[j].status = "pending" /\ jobs'[j].lease = "none"
                   /\ jobs'[j].repo \in Repos
    BY <2>2, NewJobType DEF Origins
  <2> QED BY <2>1, <2>2, <2>3 DEF Sweep
<1> QED
  BY <1>3, <1>4, <1>5

LEMMA NextHolders ==
  TypeOK /\ HoldersAreCalls /\ RowsAreNamed /\ [Next]_vars
    => HoldersAreCalls' /\ RowsAreNamed'
<1> SUFFICES ASSUME TypeOK, HoldersAreCalls, RowsAreNamed, [Next]_vars
             PROVE  HoldersAreCalls' /\ RowsAreNamed'
  OBVIOUS
<1>0. NoJob \notin Jobs /\ holds \in [Workers -> Jobs \cup {NoJob}]
  BY QueueAssumption DEF TypeOK
<1>1. ASSUME UNCHANGED <<phase, holds>>,
             NEW S \in SUBSET Jobs,
             \A j \in Jobs \ S : jobs'[j] = jobs[j],
             \A j \in S : jobs'[j].status # "free" /\ jobs'[j].repo \in Repos
      PROVE  HoldersAreCalls' /\ RowsAreNamed'
  <2>1. \A j \in Jobs : jobs[j].status # "free" => jobs'[j].status # "free"
    BY <1>1
  <2>2. HoldersAreCalls'
    BY <1>0, <1>1, <2>1 DEF HoldersAreCalls
  <2>3. RowsAreNamed'
    BY <1>1 DEF RowsAreNamed
  <2> QED BY <2>2, <2>3
<1>2. CASE \/ \E r \in Repos : EnqueueRefresh(r) \/ EnqueueManualRefresh(r)
           \/ \E k \in Kinds : Sweep(k)
  <2>1. PICK S \in SUBSET Free :
          /\ \A j \in Jobs \ S : jobs'[j] = jobs[j]
          /\ \A j \in S : jobs'[j].status = "pending" /\ jobs'[j].repo \in Repos
          /\ UNCHANGED <<workerVars, touched>>
    BY <1>2, InsertEffect
  <2> QED BY <1>1, <2>1 DEF workerVars, Free
<1>3. CASE RunTick
  <2>1. PICK S \in SUBSET Eligible : \E give \in [Idle -> S \cup {NoJob}] : StartBatch(S, give)
    BY <1>3, TickEffect
  <2>2. PICK give \in [Idle -> S \cup {NoJob}] : StartBatch(S, give)
    BY <2>1
  <2>3. \A j \in S : j \in Jobs /\ jobs[j].status = "pending" /\ jobs[j] \in Job
    BY DEF Eligible, TypeOK
  <2>4. \A j \in S : jobs'[j].status = "in_progress" /\ jobs'[j].repo = jobs[j].repo
    BY <2>2, <2>3, ClaimedType DEF StartBatch
  <2>5. \A j \in Jobs \ S : jobs'[j] = jobs[j]
    BY <2>2 DEF StartBatch
  <2>6. RowsAreNamed'
    BY <2>3, <2>4, <2>5 DEF RowsAreNamed
  <2>7. ASSUME NEW w \in Workers
        PROVE  /\ phase'[w] = "idle" <=> holds'[w] = NoJob
               /\ holds'[w] # NoJob => jobs'[holds'[w]].status # "free"
    <3>1. CASE w \in Idle /\ give[w] # NoJob
      <4>1. phase'[w] = "fetching" /\ holds'[w] = give[w] /\ give[w] \in S
        BY <2>2, <3>1 DEF StartBatch
      <4> QED BY <1>0, <2>3, <2>4, <3>1, <4>1
    <3>2. CASE w \in Idle /\ give[w] = NoJob
      <4>1. phase'[w] = "idle" /\ holds'[w] = NoJob
        BY <2>2, <3>2 DEF StartBatch, Idle
      <4> QED BY <4>1
    <3>3. CASE w \notin Idle
      <4>1. phase'[w] = phase[w] /\ holds'[w] = holds[w]
        BY <2>2, <3>3 DEF StartBatch
      <4>2. \A j \in Jobs : jobs[j].status # "free" => jobs'[j].status # "free"
        BY <2>4, <2>5
      <4> QED BY <1>0, <4>1, <4>2 DEF HoldersAreCalls
    <3> QED BY <3>1, <3>2, <3>3
  <2> QED BY <2>6, <2>7 DEF HoldersAreCalls
<1>4. ASSUME NEW w \in Workers, RefreshStep(w) \/ DbFailure(w)
      PROVE  HoldersAreCalls' /\ RowsAreNamed'
  <2>1. CallMoves(w)
    BY <1>4, CallEffect
  <2>2. \A j \in Jobs : /\ jobs'[j].repo = jobs[j].repo
                        /\ \/ jobs'[j].status = jobs[j].status
                           \/ j = holds[w] /\ jobs'[j].status # "free"
    BY <2>1 DEF CallMoves, VerdictBy, QuietStep
  <2>3. RowsAreNamed'
    BY <1>0, <2>1, <2>2 DEF CallMoves, HoldersAreCalls, RowsAreNamed
  <2>4. \A v \in Workers \ {w} : phase'[v] = phase[v] /\ holds'[v] = holds[v]
    BY <2>1 DEF CallMoves, Release, Enter, TypeOK
  <2>5. \/ phase'[w] = "idle" /\ holds'[w] = NoJob
        \/ phase'[w] # "idle" /\ holds'[w] = holds[w]
    BY <2>1 DEF CallMoves, Release, Enter, TypeOK
  <2>6. phase[w] # "idle"
    BY <2>1 DEF CallMoves
  <2> QED BY <1>0, <2>2, <2>3, <2>4, <2>5, <2>6 DEF HoldersAreCalls
<1>5. ASSUME NEW j \in Jobs, CancelJob(j) \/ RetryJob(j)
      PROVE  HoldersAreCalls' /\ RowsAreNamed'
  <2>1. jobs[j].status # "free"
    BY <1>5 DEF CancelJob, RetryJob
  <2>2. /\ \A k \in Jobs \ {j} : jobs'[k] = jobs[k]
        /\ jobs'[j].status # "free" /\ jobs'[j].repo = jobs[j].repo
    BY <1>5, AdminEffect
  <2>3. jobs'[j].repo \in Repos
    BY <2>1, <2>2 DEF RowsAreNamed
  <2>4. UNCHANGED <<phase, holds>> /\ {j} \in SUBSET Jobs
    BY <1>5 DEF CancelJob, RetryJob, workerVars
  <2> QED BY <1>1, <2>2, <2>3, <2>4
<1>6. ASSUME NEW j \in Jobs, BecomesDue(j) \/ LeaseExpires(j)
      PROVE  HoldersAreCalls' /\ RowsAreNamed'
  <2>1. \A k \in Jobs : jobs'[k].status = jobs[k].status /\ jobs'[k].repo = jobs[k].repo
    BY <1>6, ClockEffect
  <2>2. UNCHANGED <<phase, holds>>
    BY <1>6 DEF BecomesDue, LeaseExpires, workerVars
  <2> QED BY <1>0, <2>1, <2>2 DEF HoldersAreCalls, RowsAreNamed
<1>7. CASE Restart
  BY <1>7 DEF Restart, tableVars, HoldersAreCalls, RowsAreNamed
<1>8. CASE UNCHANGED <<jobs, phase, holds>>
  BY <1>8 DEF HoldersAreCalls, RowsAreNamed
<1> QED
  BY <1>2, <1>3, <1>4, <1>5, <1>6, <1>7, <1>8
  DEF Next, LookupMiss, vars, workerVars

LEMMA InitOwner == Init => SingleOwner
BY QueueAssumption DEF Init, SingleOwner

LEMMA NextOwner ==
  TypeOK /\ HoldersAreCalls /\ SingleOwner /\ [Next]_vars => SingleOwner'
<1> SUFFICES ASSUME TypeOK, HoldersAreCalls, SingleOwner, [Next]_vars
             PROVE  SingleOwner'
  OBVIOUS
<1>0. /\ NoJob \notin Jobs /\ holds \in [Workers -> Jobs \cup {NoJob}]
      /\ phase \in [Workers -> Phases]
  BY QueueAssumption DEF TypeOK
\* A held job no admin touched is neither free nor pending.
<1>1. ASSUME NEW j \in Jobs, NEW w \in Workers, holds[w] = j,
             jobs[j].status \in {"free", "pending"}
      PROVE  j \in touched
  BY <1>1 DEF SingleOwner
<1>2. CASE \/ \E r \in Repos : EnqueueRefresh(r) \/ EnqueueManualRefresh(r)
           \/ \E k \in Kinds : Sweep(k)
  <2>1. PICK S \in SUBSET Free :
          /\ \A j \in Jobs \ S : jobs'[j] = jobs[j]
          /\ UNCHANGED <<workerVars, touched>>
    BY <1>2, InsertEffect
  <2>2. UNCHANGED <<phase, holds, touched>>
    BY <2>1 DEF workerVars
  <2>3. \A j \in Jobs \ touched, w \in Workers : holds[w] = j => jobs'[j] = jobs[j]
    BY <1>1, <2>1 DEF Free
  <2> QED BY <2>2, <2>3 DEF SingleOwner
<1>3. CASE RunTick
  <2>1. PICK S \in SUBSET Eligible : \E give \in [Idle -> S \cup {NoJob}] : StartBatch(S, give)
    BY <1>3, TickEffect
  <2>2. PICK give \in [Idle -> S \cup {NoJob}] : StartBatch(S, give)
    BY <2>1
  <2>3. \A j \in S : j \in Jobs /\ jobs[j].status = "pending" /\ jobs[j] \in Job
    BY DEF Eligible, TypeOK
  <2>4. \A j \in S : jobs'[j].status = "in_progress"
    BY <2>2, <2>3, ClaimedType DEF StartBatch
  <2>5. \A j \in Jobs \ S : jobs'[j] = jobs[j]
    BY <2>2 DEF StartBatch
  <2>6. touched' = touched
    BY <1>3 DEF RunTick
  <2>7. \A w \in Workers \ Idle : phase'[w] = phase[w] /\ holds'[w] = holds[w]
    BY <2>2 DEF StartBatch
  <2>8. \A w \in Idle : w \in Workers /\ holds'[w] = give[w]
    BY <2>2 DEF StartBatch, Idle
  <2>9. ASSUME NEW j \in Jobs \ touched, NEW w \in Workers, holds'[w] = j
        PROVE  /\ \A v \in Workers : holds'[v] = j => v = w
               /\ \/ jobs'[j].status = "in_progress"
                  \/ jobs'[j].status = "failed" /\ phase'[w] \in {"auditing", "threw"}
    <3>1. CASE w \in Idle
      <4>1. j \in S
        BY <1>0, <2>8, <2>9, <3>1
      <4>2. \A v \in Workers : holds[v] # j
        BY <1>1, <2>3, <4>1
      <4>3. ASSUME NEW v \in Workers, holds'[v] = j PROVE v = w
        <5>1. v \in Idle
          BY <2>7, <4>2, <4>3
        <5>2. give[v] = give[w] /\ give[v] # NoJob
          BY <1>0, <2>8, <2>9, <3>1, <4>3, <5>1
        <5> QED BY <2>2, <3>1, <5>1, <5>2 DEF StartBatch
      <4> QED BY <2>4, <4>1, <4>3
    <3>2. CASE w \notin Idle
      <4>1. holds[w] = j /\ phase'[w] = phase[w]
        BY <2>7, <2>9, <3>2
      <4>2. j \notin S
        BY <1>1, <2>3, <4>1
      <4>3. ASSUME NEW v \in Workers, holds'[v] = j PROVE v = w
        <5>1. v \notin Idle
          BY <1>0, <2>8, <4>2, <4>3
        <5> QED BY <2>7, <4>1, <4>3, <5>1 DEF SingleOwner
      <4>4. jobs'[j] = jobs[j]
        BY <2>5, <4>2
      <4> QED BY <4>1, <4>3, <4>4 DEF SingleOwner
    <3> QED BY <3>1, <3>2
  <2> QED BY <2>6, <2>9 DEF SingleOwner
<1>4. ASSUME NEW w \in Workers, RefreshStep(w) \/ DbFailure(w) PROVE SingleOwner'
  <2>1. CallMoves(w)
    BY <1>4, CallEffect
  <2>2. touched' = touched
    BY <2>1 DEF CallMoves
  <2>3. \A v \in Workers \ {w} : phase'[v] = phase[v] /\ holds'[v] = holds[v]
    BY <2>1 DEF CallMoves, Release, Enter, TypeOK
  <2>4. \/ holds'[w] = NoJob
        \/ holds'[w] = holds[w] /\ ~Release(w)
    BY <1>0, <2>1 DEF CallMoves, Release, Enter
  <2>5. ASSUME NEW j \in Jobs \ touched, NEW v \in Workers, holds'[v] = j
        PROVE  /\ \A u \in Workers : holds'[u] = j => u = v
               /\ \/ jobs'[j].status = "in_progress"
                  \/ jobs'[j].status = "failed" /\ phase'[v] \in {"auditing", "threw"}
    <3>1. \A u \in Workers : holds'[u] = j => holds[u] = j
      BY <1>0, <2>3, <2>4
    <3>2. /\ \A u \in Workers : holds'[u] = j => u = v
          /\ \/ jobs[j].status = "in_progress"
             \/ jobs[j].status = "failed" /\ phase[v] \in {"auditing", "threw"}
      BY <2>5, <3>1 DEF SingleOwner
    <3>3. CASE v # w
      <4>1. holds[w] # j
        BY <2>5, <3>1, <3>3 DEF SingleOwner
      <4>2. jobs'[j] = jobs[j]
        BY <2>1, <4>1 DEF CallMoves, VerdictBy, QuietStep
      <4> QED BY <2>3, <3>2, <3>3, <4>2
    <3>4. CASE v = w
      <4>1. holds[w] = j /\ ~Release(w)
        BY <1>0, <2>4, <2>5, <3>1, <3>4
      <4>2. CASE VerdictBy(w)
        BY <3>2, <3>4, <4>1, <4>2 DEF VerdictBy
      <4>3. CASE QuietStep(w)
        BY <3>2, <3>4, <4>1, <4>3 DEF QuietStep
      <4> QED BY <2>1, <4>2, <4>3 DEF CallMoves
    <3> QED BY <3>3, <3>4
  <2> QED BY <2>2, <2>5 DEF SingleOwner
<1>5. ASSUME NEW j \in Jobs, CancelJob(j) \/ RetryJob(j) PROVE SingleOwner'
  <2>1. /\ UNCHANGED <<phase, holds>> /\ touched' = touched \cup {j}
        /\ \A k \in Jobs \ {j} : jobs'[k] = jobs[k]
    BY <1>5, AdminEffect DEF CancelJob, RetryJob, workerVars
  <2> QED BY <2>1 DEF SingleOwner
<1>6. ASSUME NEW j \in Jobs, BecomesDue(j) \/ LeaseExpires(j) PROVE SingleOwner'
  <2>1. \A k \in Jobs : jobs'[k].status = jobs[k].status
    BY <1>6, ClockEffect
  <2>2. UNCHANGED <<phase, holds, touched>>
    BY <1>6 DEF BecomesDue, LeaseExpires, workerVars
  <2> QED BY <2>1, <2>2 DEF SingleOwner
<1>7. CASE Restart
  BY <1>0, <1>7 DEF Restart, SingleOwner
<1>8. CASE UNCHANGED <<jobs, phase, holds, touched>>
  BY <1>8 DEF SingleOwner
<1> QED
  BY <1>2, <1>3, <1>4, <1>5, <1>6, <1>7, <1>8
  DEF Next, LookupMiss, vars, workerVars

THEOREM HoldersCorrect == Spec => [](HoldersAreCalls /\ RowsAreNamed)
<1> QED
  BY InitHolders, NextHolders, TypeCorrect, PTL DEF Spec

\* Overlapping ticks never work one job twice: at most one refreshOne call
\* holds a job no admin has touched, and the job is in_progress until that
\* call's verdict.
THEOREM OwnershipCorrect == Spec => []SingleOwner
<1> QED
  BY InitOwner, NextOwner, TypeCorrect, HoldersCorrect, PTL DEF Spec

-----------------------------------------------------------------------------
(* Final verdicts.                                                         *)

LEMMA StepKeepsVerdicts ==
  ASSUME TypeOK, SingleOwner, [Next]_vars,
         NEW j \in Jobs \ touched', jobs[j].status \in {"done", "failed"}
  PROVE  jobs'[j].status = jobs[j].status
<1>1. CASE \/ \E r \in Repos : EnqueueRefresh(r) \/ EnqueueManualRefresh(r)
           \/ \E k \in Kinds : Sweep(k)
  BY <1>1, InsertEffect DEF Free
<1>2. CASE RunTick
  <2>1. PICK S \in SUBSET Eligible : \E give \in [Idle -> S \cup {NoJob}] : StartBatch(S, give)
    BY <1>2, TickEffect
  <2>2. j \notin S
    BY <2>1 DEF Eligible
  <2> QED BY <2>1, <2>2 DEF StartBatch
<1>3. ASSUME NEW w \in Workers, RefreshStep(w) \/ DbFailure(w)
      PROVE  jobs'[j].status = jobs[j].status
  <2>1. CallMoves(w)
    BY <1>3, CallEffect
  <2>2. j \notin touched
    BY <2>1 DEF CallMoves
  <2>3. CASE holds[w] # j
    BY <2>1, <2>3 DEF CallMoves, VerdictBy, QuietStep
  <2>4. CASE holds[w] = j
    <3>1. jobs[j].status = "failed" /\ phase[w] \in {"auditing", "threw"}
      BY <2>2, <2>4 DEF SingleOwner
    <3> QED BY <2>1, <2>4, <3>1 DEF CallMoves, VerdictBy, QuietStep
  <2> QED BY <2>3, <2>4
<1>4. ASSUME NEW k \in Jobs, CancelJob(k) \/ RetryJob(k)
      PROVE  jobs'[j].status = jobs[j].status
  <2>1. k # j
    BY <1>4 DEF CancelJob, RetryJob
  <2> QED BY <1>4, <2>1, AdminEffect
<1>5. ASSUME NEW k \in Jobs, BecomesDue(k) \/ LeaseExpires(k)
      PROVE  jobs'[j].status = jobs[j].status
  BY <1>5, ClockEffect
<1>6. CASE UNCHANGED jobs
  BY <1>6
<1> QED
  BY <1>1, <1>2, <1>3, <1>4, <1>5, <1>6
  DEF Next, LookupMiss, Restart, vars, tableVars

\* done and failed are final for every job no admin has touched.
THEOREM VerdictsAreFinal == Spec => TerminalStays
<1>1. TypeOK /\ SingleOwner /\ [Next]_vars
        => [\A j \in Jobs \ touched' :
              jobs[j].status \in {"done", "failed"} => jobs'[j].status = jobs[j].status]_vars
  BY StepKeepsVerdicts
<1> QED
  BY <1>1, TypeCorrect, OwnershipCorrect, PTL DEF Spec, TerminalStays

-----------------------------------------------------------------------------
(* Deduplication.                                                          *)

\* A job no admin touched that has ever been claimed has a counted attempt:
\* this is what tells a re-queued job from a fresh one.
ClaimsAreCounted ==
  \A j \in Jobs \ touched :
    jobs[j].status \in {"in_progress", "done", "failed"} => jobs[j].attempts # 0

LEMMA InitCounted == Init => ClaimsAreCounted
BY DEF Init, ClaimsAreCounted, FreeSlot

LEMMA NextCounted ==
  TypeOK /\ ClaimsAreCounted /\ SingleOwner /\ [Next]_vars => ClaimsAreCounted'
<1> SUFFICES ASSUME TypeOK, ClaimsAreCounted, SingleOwner, [Next]_vars
             PROVE  ClaimsAreCounted'
  OBVIOUS
<1>1. CASE \/ \E r \in Repos : EnqueueRefresh(r) \/ EnqueueManualRefresh(r)
           \/ \E k \in Kinds : Sweep(k)
  BY <1>1, InsertEffect DEF ClaimsAreCounted
<1>2. CASE RunTick
  <2>1. PICK S \in SUBSET Eligible : \E give \in [Idle -> S \cup {NoJob}] : StartBatch(S, give)
    BY <1>2, TickEffect
  <2>2. \A j \in S : j \in Jobs /\ jobs[j] \in Job
    BY DEF Eligible, TypeOK
  <2>3. \A j \in S : jobs'[j].attempts # 0
    BY <2>1, <2>2, ClaimedType DEF StartBatch
  <2>4. \A j \in Jobs \ S : jobs'[j] = jobs[j]
    BY <2>1 DEF StartBatch
  <2>5. touched' = touched
    BY <1>2 DEF RunTick
  <2> QED BY <2>3, <2>4, <2>5 DEF ClaimsAreCounted
<1>3. ASSUME NEW w \in Workers, RefreshStep(w) \/ DbFailure(w) PROVE ClaimsAreCounted'
  <2>1. CallMoves(w)
    BY <1>3, CallEffect
  <2>2. touched' = touched
    BY <2>1 DEF CallMoves
  <2>3. ASSUME NEW j \in Jobs \ touched, jobs'[j].status \in {"in_progress", "done", "failed"}
        PROVE  jobs'[j].attempts # 0
    <3>1. CASE jobs'[j] = jobs[j]
      BY <2>3, <3>1 DEF ClaimsAreCounted
    <3>2. CASE jobs'[j] # jobs[j]
      <4>1. holds[w] = j /\ VerdictBy(w)
        BY <2>1, <3>2 DEF CallMoves, VerdictBy, QuietStep
      <4>2. jobs[j].attempts # 0
        BY <4>1 DEF SingleOwner, ClaimsAreCounted
      <4> QED BY <4>1, <4>2 DEF VerdictBy
    <3> QED BY <3>1, <3>2
  <2> QED BY <2>2, <2>3 DEF ClaimsAreCounted
<1>4. ASSUME NEW j \in Jobs, CancelJob(j) \/ RetryJob(j) PROVE ClaimsAreCounted'
  <2>1. \A k \in Jobs \ {j} : jobs'[k] = jobs[k]
    BY <1>4, AdminEffect
  <2>2. touched' = touched \cup {j}
    BY <1>4 DEF CancelJob, RetryJob
  <2> QED BY <2>1, <2>2 DEF ClaimsAreCounted
<1>5. ASSUME NEW j \in Jobs, BecomesDue(j) \/ LeaseExpires(j) PROVE ClaimsAreCounted'
  BY <1>5, ClockEffect DEF BecomesDue, LeaseExpires, ClaimsAreCounted
<1>6. CASE UNCHANGED <<jobs, touched>>
  BY <1>6 DEF ClaimsAreCounted
<1> QED
  BY <1>1, <1>2, <1>3, <1>4, <1>5, <1>6
  DEF Next, LookupMiss, Restart, vars, tableVars

\* Only enqueueRefresh makes a fresh lookup job.
LEMMA FreshIsOld ==
  ASSUME TypeOK, ClaimsAreCounted, SingleOwner, [Next]_vars,
         ~ \E r \in Repos : EnqueueRefresh(r),
         NEW j \in Jobs, FreshLookup(j)'
  PROVE  FreshLookup(j) /\ jobs'[j].repo = jobs[j].repo
<1> USE DEF FreshLookup
<1>1. ASSUME NEW r \in Repos, EnqueueManualRefresh(r)
      PROVE  FreshLookup(j) /\ jobs'[j].repo = jobs[j].repo
  <2>1. PICK k \in Free : jobs' = [jobs EXCEPT ![k] = NewJob(r, "core", "manual")]
    BY <1>1 DEF EnqueueManualRefresh
  <2>2. k \in Jobs /\ NewJob(r, "core", "manual").origin = "manual"
    BY NewJobType DEF Free, Kinds, Origins
  <2>3. k # j
    BY <2>1, <2>2 DEF TypeOK
  <2> QED BY <1>1, <2>1, <2>3 DEF EnqueueManualRefresh, TypeOK
<1>2. ASSUME NEW k \in Kinds, Sweep(k)
      PROVE  FreshLookup(j) /\ jobs'[j].repo = jobs[j].repo
  <2>1. PICK S \in SUBSET Free :
          /\ \A i \in Jobs \ S : jobs'[i] = jobs[i]
          /\ \A i \in S : \E r \in Repos : jobs'[i] = NewJob(r, k, "sweep")
    BY <1>2, SweepEffect
  <2>2. j \notin S
    BY <2>1, NewJobType DEF Origins
  <2> QED BY <1>2, <2>1, <2>2 DEF Sweep
<1>3. CASE RunTick
  <2>1. PICK S \in SUBSET Eligible : \E give \in [Idle -> S \cup {NoJob}] : StartBatch(S, give)
    BY <1>3, TickEffect
  <2>2. j \notin S
    BY <2>1, ClaimedType DEF StartBatch, TypeOK
  <2> QED BY <1>3, <2>1, <2>2 DEF StartBatch, RunTick
<1>4. ASSUME NEW w \in Workers, RefreshStep(w) \/ DbFailure(w)
      PROVE  FreshLookup(j) /\ jobs'[j].repo = jobs[j].repo
  <2>1. CallMoves(w) /\ j \notin touched
    BY <1>4, CallEffect DEF CallMoves
  <2>2. CASE jobs'[j] = jobs[j]
    BY <2>1, <2>2
  <2>3. CASE jobs'[j] # jobs[j]
    <3>1. holds[w] = j /\ VerdictBy(w)
      BY <2>1, <2>3 DEF CallMoves, VerdictBy, QuietStep
    <3>2. jobs[j].attempts # 0
      BY <2>1, <3>1 DEF SingleOwner, ClaimsAreCounted
    <3> QED BY <3>1, <3>2 DEF VerdictBy
  <2> QED BY <2>2, <2>3
<1>5. ASSUME NEW k \in Jobs, CancelJob(k) \/ RetryJob(k)
      PROVE  FreshLookup(j) /\ jobs'[j].repo = jobs[j].repo
  <2>1. k # j /\ j \notin touched
    BY <1>5 DEF CancelJob, RetryJob
  <2> QED BY <1>5, <2>1, AdminEffect
<1>6. ASSUME NEW k \in Jobs, BecomesDue(k) \/ LeaseExpires(k)
      PROVE  FreshLookup(j) /\ jobs'[j].repo = jobs[j].repo
  BY <1>6, ClockEffect DEF BecomesDue, LeaseExpires
<1>7. CASE UNCHANGED <<jobs, touched>>
  BY <1>7
<1> QED
  BY <1>1, <1>2, <1>3, <1>4, <1>5, <1>6, <1>7
  DEF Next, LookupMiss, Restart, vars, tableVars

LEMMA NextDedup ==
  TypeOK /\ ClaimsAreCounted /\ SingleOwner /\ DedupFreshLookups /\ [Next]_vars
    => DedupFreshLookups'
<1> SUFFICES ASSUME TypeOK, ClaimsAreCounted, SingleOwner, DedupFreshLookups, [Next]_vars
             PROVE  DedupFreshLookups'
  OBVIOUS
<1>1. CASE ~ \E r \in Repos : EnqueueRefresh(r)
  BY <1>1, FreshIsOld DEF DedupFreshLookups
<1>2. ASSUME NEW r \in Repos, EnqueueRefresh(r) PROVE DedupFreshLookups'
  <2>1. touched' = touched
    BY <1>2 DEF EnqueueRefresh
  <2>2. CASE UNCHANGED jobs
    BY <2>1, <2>2 DEF DedupFreshLookups, FreshLookup
  <2>3. CASE ~UNCHANGED jobs
    <3>1. /\ PendingFor(r) = {}
          /\ \E j \in Free : jobs' = [jobs EXCEPT ![j] = NewJob(r, "core", "lookup")]
      BY <1>2, <2>3 DEF EnqueueRefresh
    <3>2. PICK j \in Free : jobs' = [jobs EXCEPT ![j] = NewJob(r, "core", "lookup")]
      BY <3>1
    <3>3. /\ j \in Jobs /\ jobs'[j].repo = r
          /\ \A k \in Jobs \ {j} : jobs'[k] = jobs[k]
      BY <3>2, NewJobType DEF Free, TypeOK, Kinds, Origins
    <3>4. \A k \in Jobs \ {j} : FreshLookup(k)' => FreshLookup(k) /\ jobs[k].repo # r
      BY <2>1, <3>1, <3>3 DEF FreshLookup, PendingFor
    <3> QED BY <3>3, <3>4 DEF DedupFreshLookups
  <2> QED BY <2>2, <2>3
<1> QED
  BY <1>1, <1>2

THEOREM CountingCorrect == Spec => []ClaimsAreCounted
<1> QED
  BY InitCounted, NextCounted, TypeCorrect, OwnershipCorrect, PTL DEF Spec

\* However lookups of one repository interleave, no two of the jobs they
\* inserted are waiting for their first claim at once.
THEOREM DedupCorrect == Spec => []DedupFreshLookups
<1>1. Init => DedupFreshLookups
  BY DEF Init, DedupFreshLookups, FreshLookup, FreeSlot
<1> QED
  BY <1>1, NextDedup, TypeCorrect, OwnershipCorrect, CountingCorrect, PTL DEF Spec

-----------------------------------------------------------------------------
(* The cache row and the verdicts of its repository.                       *)

\* A slot no insertion has filled names no repository, and a job that was over
\* when a 404 was recorded is over as long as no admin touches it.
SlotsAndPast ==
  /\ \A j \in Jobs : jobs[j].status = "free" => jobs[j].repo = NoRepo
  /\ \A j \in past \ touched : jobs[j].status \in {"done", "failed"}

\* A core job whose refresh has stored its row.
HasStored(j) ==
  /\ jobs[j].kind = "core"
  /\ \/ jobs[j].status = "done"
     \/ \E w \in Workers : holds[w] = j /\ phase[w] = "finishing"

\* The inductive form of RowMatchesVerdicts: the call between its write of the
\* row and its verdict counts too.
RowStory ==
  \A r \in Repos :
    /\ NegativeCached(r) /\ row[r] # "absent" => StoredSince(r)
    /\ row[r] = "absent" =>
         \A j \in Jobs \ touched : jobs[j].repo = r /\ HasStored(j) => Explained(r)

\* What no step does to a job.
LEMMA JobStep ==
  ASSUME TypeOK, HoldersAreCalls, [Next]_vars, NEW j \in Jobs
  PROVE  /\ jobs[j].status # "free" =>
              /\ jobs'[j].status # "free"
              /\ jobs'[j].repo = jobs[j].repo /\ jobs'[j].kind = jobs[j].kind
         /\ jobs[j].status = "free" =>
              \/ jobs'[j].status = "free" /\ jobs'[j].repo = jobs[j].repo
              \/ jobs'[j].status = "pending"
         /\ touched \subseteq touched'
<1>0. NoJob \notin Jobs BY QueueAssumption
<1>1. CASE \/ \E r \in Repos : EnqueueRefresh(r) \/ EnqueueManualRefresh(r)
           \/ \E k \in Kinds : Sweep(k)
  BY <1>1, InsertEffect DEF Free
<1>2. CASE RunTick
  <2>1. PICK S \in SUBSET Eligible : \E give \in [Idle -> S \cup {NoJob}] : StartBatch(S, give)
    BY <1>2, TickEffect
  <2>2. /\ \A i \in S : i \in Jobs /\ jobs[i] \in Job /\ jobs[i].status = "pending"
        /\ \A i \in Jobs : jobs'[i] = IF i \in S THEN Claimed(i) ELSE jobs[i]
    BY <2>1 DEF Eligible, TypeOK, StartBatch
  <2>3. UNCHANGED touched BY <1>2 DEF RunTick
  <2> QED BY <2>2, <2>3, ClaimedType
<1>3. ASSUME NEW w \in Workers, RefreshStep(w) \/ DbFailure(w)
      PROVE  /\ UNCHANGED touched
             /\ \/ jobs'[j] = jobs[j]
                \/ /\ jobs[j].status # "free" /\ jobs'[j].status # "free"
                   /\ jobs'[j].repo = jobs[j].repo /\ jobs'[j].kind = jobs[j].kind
  <2>1. CallMoves(w) BY <1>3, CallEffect
  <2>2. CASE holds[w] # j \/ QuietStep(w)
    BY <2>1, <2>2 DEF CallMoves, VerdictBy, QuietStep
  <2>3. CASE holds[w] = j /\ VerdictBy(w)
    BY <1>0, <2>1, <2>3 DEF CallMoves, VerdictBy, HoldersAreCalls
  <2> QED BY <2>1, <2>2, <2>3 DEF CallMoves
<1>4. ASSUME NEW k \in Jobs, CancelJob(k) \/ RetryJob(k)
      PROVE  /\ touched \subseteq touched'
             /\ \/ jobs'[j] = jobs[j]
                \/ /\ jobs[j].status # "free" /\ jobs'[j].status # "free"
                   /\ jobs'[j].repo = jobs[j].repo /\ jobs'[j].kind = jobs[j].kind
  <2>1. jobs[k].status # "free" /\ touched' = touched \cup {k}
    BY <1>4 DEF CancelJob, RetryJob
  <2> QED BY <1>4, <2>1, AdminEffect
<1>5. ASSUME NEW k \in Jobs, BecomesDue(k) \/ LeaseExpires(k)
      PROVE  /\ UNCHANGED touched
             /\ jobs'[j].status = jobs[j].status
             /\ jobs'[j].repo = jobs[j].repo /\ jobs'[j].kind = jobs[j].kind
  BY <1>5, ClockEffect DEF BecomesDue, LeaseExpires
<1>6. CASE UNCHANGED <<jobs, touched>> BY <1>6
<1> QED
  BY <1>1, <1>2, <1>3, <1>4, <1>5, <1>6, InsertEffect
  DEF Next, LookupMiss, Restart, vars, tableVars

\* A claimed job keeps its count.
LEMMA CountStep ==
  ASSUME TypeOK, [Next]_vars, NEW j \in Jobs, jobs[j].status # "free", jobs[j].attempts > 0
  PROVE  j \in touched' \/ jobs'[j].attempts > 0
<1>0. TerminalAttempts \in Nat BY QueueAssumption
<1>1. CASE \/ \E r \in Repos : EnqueueRefresh(r) \/ EnqueueManualRefresh(r)
           \/ \E k \in Kinds : Sweep(k)
  BY <1>1, InsertEffect DEF Free
<1>2. CASE RunTick
  <2>1. PICK S \in SUBSET Eligible : \E give \in [Idle -> S \cup {NoJob}] : StartBatch(S, give)
    BY <1>2, TickEffect
  <2>2. jobs'[j] = IF j \in S THEN Claimed(j) ELSE jobs[j] BY <2>1 DEF StartBatch
  <2>3. Claimed(j).attempts \in 1..TerminalAttempts BY ClaimedType DEF TypeOK
  <2> QED BY <1>0, <2>2, <2>3
<1>3. ASSUME NEW w \in Workers, RefreshStep(w) \/ DbFailure(w) PROVE jobs'[j].attempts > 0
  <2>1. CallMoves(w) BY <1>3, CallEffect
  <2> QED BY <1>0, <2>1 DEF CallMoves, VerdictBy, QuietStep
<1>4. ASSUME NEW k \in Jobs, CancelJob(k) \/ RetryJob(k)
      PROVE  j \in touched' \/ jobs'[j].attempts > 0
  <2>1. touched' = touched \cup {k} BY <1>4 DEF CancelJob, RetryJob
  <2> QED BY <1>4, <2>1, AdminEffect
<1>5. ASSUME NEW k \in Jobs, BecomesDue(k) \/ LeaseExpires(k) PROVE jobs'[j].attempts > 0
  BY <1>5, ClockEffect
<1>6. CASE UNCHANGED jobs BY <1>6
<1> QED
  BY <1>1, <1>2, <1>3, <1>4, <1>5, <1>6 DEF Next, LookupMiss, Restart, vars, tableVars

\* Only the call's own steps, and the claim, move it to another phase.
LEMMA PhaseStep ==
  ASSUME TypeOK, [Next]_vars, NEW v \in Workers, phase'[v] \notin {"idle", "fetching"}
  PROVE  /\ holds'[v] = holds[v]
         /\ phase'[v] = phase[v] \/ RefreshStep(v) \/ DbFailure(v)
<1>1. CASE \/ \E r \in Repos : EnqueueRefresh(r) \/ EnqueueManualRefresh(r)
           \/ \E k \in Kinds : Sweep(k)
  BY <1>1, InsertEffect DEF workerVars
<1>2. CASE RunTick
  <2>1. PICK S \in SUBSET Eligible : \E give \in [Idle -> S \cup {NoJob}] : StartBatch(S, give)
    BY <1>2, TickEffect
  <2>2. v \notin Idle BY <2>1 DEF StartBatch, Idle
  <2> QED BY <2>1, <2>2 DEF StartBatch
<1>3. ASSUME NEW w \in Workers, RefreshStep(w) \/ DbFailure(w)
      PROVE  holds'[v] = holds[v] /\ (phase'[v] = phase[v] \/ v = w)
  <2>1. Release(w) \/ \E p \in Phases \ {"idle"} : Enter(w, p)
    BY <1>3, CallEffect DEF CallMoves
  <2> QED BY <2>1 DEF Release, Enter, TypeOK
<1>4. CASE Restart BY <1>4 DEF Restart
<1>5. CASE UNCHANGED workerVars BY <1>5 DEF workerVars
<1> QED
  BY <1>1, <1>2, <1>3, <1>4, <1>5
  DEF Next, LookupMiss, CancelJob, RetryJob, BecomesDue, LeaseExpires, vars, workerVars

\* A verdict of done is written by the call that had stored the row, and a call
\* comes to that point only past a row that is there.
LEMMA StoredStep ==
  ASSUME TypeOK, HoldersAreCalls, [Next]_vars, NEW j \in Jobs, jobs[j].status # "free",
         HasStored(j)', row[jobs[j].repo] = "absent"
  PROVE  HasStored(j)
<1>0. jobs[j].kind = "core" /\ jobs'[j].kind = "core" BY JobStep DEF HasStored
<1>1. ASSUME jobs'[j].status = "done"
      PROVE  HasStored(j)
  <2> SUFFICES ASSUME jobs[j].status # "done" PROVE HasStored(j) BY <1>0 DEF HasStored
  <2>1. CASE \/ \E r \in Repos : EnqueueRefresh(r) \/ EnqueueManualRefresh(r)
             \/ \E k \in Kinds : Sweep(k)
    BY <1>1, <2>1, InsertEffect DEF Free
  <2>2. CASE RunTick
    <3>1. PICK S \in SUBSET Eligible : \E give \in [Idle -> S \cup {NoJob}] : StartBatch(S, give)
      BY <2>2, TickEffect
    <3>2. jobs'[j] = IF j \in S THEN Claimed(j) ELSE jobs[j] BY <3>1 DEF StartBatch
    <3>3. Claimed(j).status = "in_progress" BY ClaimedType DEF TypeOK
    <3> QED BY <1>1, <3>2, <3>3
  <2>3. ASSUME NEW w \in Workers, RefreshStep(w) \/ DbFailure(w) PROVE HasStored(j)
    <3>1. CallMoves(w) BY <2>3, CallEffect
    <3>2. holds[w] = j /\ VerdictBy(w)
      BY <1>1, <3>1 DEF CallMoves, VerdictBy, QuietStep
    <3>3. phase[w] = "finishing" BY <1>1, <3>2 DEF VerdictBy
    <3> QED BY <1>0, <3>2, <3>3 DEF HasStored
  <2>4. ASSUME NEW k \in Jobs, CancelJob(k) \/ RetryJob(k) PROVE HasStored(j)
    BY <1>1, <2>4, AdminEffect
  <2>5. ASSUME NEW k \in Jobs, BecomesDue(k) \/ LeaseExpires(k) PROVE HasStored(j)
    BY <1>1, <2>5, ClockEffect
  <2>6. CASE UNCHANGED jobs BY <1>1, <2>6
  <2> QED
    BY <2>1, <2>2, <2>3, <2>4, <2>5, <2>6 DEF Next, LookupMiss, Restart, vars, tableVars
<1>2. ASSUME NEW w \in Workers, holds'[w] = j, phase'[w] = "finishing"
      PROVE  HasStored(j)
  <2>1. holds[w] = j /\ (phase'[w] = phase[w] \/ RefreshStep(w) \/ DbFailure(w))
    BY <1>2, PhaseStep
  <2>2. CASE phase'[w] = phase[w] BY <1>0, <1>2, <2>1, <2>2 DEF HasStored
  <2>3. CASE phase'[w] # phase[w] /\ RefreshStep(w)
    <3>0. phase \in [Workers -> Phases] /\ ~IsFacet(w) /\ row[job(w).repo] = "absent"
      BY <1>0, <2>1 DEF TypeOK, IsFacet, job
    <3>1. \A p : Enter(w, p) => phase'[w] = p BY <3>0 DEF Enter
    <3>2. ~Release(w) BY <1>2, <3>0 DEF Release
    <3> QED
      BY <1>2, <2>3, <3>0, <3>1, <3>2
      DEF RefreshStep, Fetch, Answers, Store, CreateRow, UpdateRow, Touch, Caught, Finish,
          NotFound, NotFoundFallback, Forbidden, Transient, Unexpected, Audit, MarkFailed
  <2>4. CASE DbFailure(w)
    <3>1. AfterDbFailure(w) # "finishing" BY DEF AfterDbFailure, AfterFailedFinish, Caught
    <3> QED BY <1>2, <2>4, <3>1 DEF DbFailure, Enter, Release, TypeOK
  <2> QED BY <2>1, <2>2, <2>3, <2>4
<1>3. CASE \E w \in Workers : holds'[w] = j /\ phase'[w] = "finishing" BY <1>2, <1>3
<1> QED BY <1>1, <1>3 DEF HasStored

\* Only the 404 transaction writes a marker.
LEMMA MarkStep ==
  ASSUME TypeOK, HoldersAreCalls, [Next]_vars, NEW r \in Repos, NegativeCached(r)',
         \A w \in Workers : NotFound(w) => holds[w] \notin Jobs \/ jobs[holds[w]].repo # r \/ UNCHANGED jobs
  PROVE  NegativeCached(r)
<1>0. PICK j \in Jobs : /\ jobs'[j].repo = r
                        /\ jobs'[j].status = "failed" /\ jobs'[j].mark = "not_found"
  BY DEF NegativeCached
<1> DEFINE Marked == /\ jobs[j].repo = r
                     /\ jobs[j].status = "failed" /\ jobs[j].mark = "not_found"
<1> SUFFICES Marked BY DEF NegativeCached
<1>1. CASE \/ \E q \in Repos : EnqueueRefresh(q) \/ EnqueueManualRefresh(q)
           \/ \E k \in Kinds : Sweep(k)
  BY <1>0, <1>1, InsertEffect
<1>2. CASE RunTick
  <2>1. PICK S \in SUBSET Eligible : \E give \in [Idle -> S \cup {NoJob}] : StartBatch(S, give)
    BY <1>2, TickEffect
  <2>2. jobs'[j] = IF j \in S THEN Claimed(j) ELSE jobs[j] BY <2>1 DEF StartBatch
  <2>3. Claimed(j).status = "in_progress" BY ClaimedType DEF TypeOK
  <2> QED BY <1>0, <2>2, <2>3
<1>3. ASSUME NEW w \in Workers, RefreshStep(w) \/ DbFailure(w) PROVE Marked
  <2>1. CallMoves(w) BY <1>3, CallEffect
  <2>2. CASE jobs'[j] = jobs[j] BY <1>0, <2>2
  <2>3. CASE jobs'[j] # jobs[j]
    <3>1. holds[w] = j /\ VerdictBy(w) BY <2>1, <2>3 DEF CallMoves, VerdictBy, QuietStep
    <3>2. phase[w] = "notfound" /\ jobs'[j].repo = jobs[j].repo BY <1>0, <3>1 DEF VerdictBy
    <3>3. ~UNCHANGED jobs BY <2>3
    <3>4. ~DbFailure(w) BY <3>3 DEF DbFailure
    <3>5. NotFound(w)
      BY <1>3, <3>2, <3>4
      DEF RefreshStep, Fetch, Store, CreateRow, UpdateRow, Touch, Finish, NotFoundFallback,
          Forbidden, Transient, Unexpected, Audit, MarkFailed
    <3> QED BY <1>0, <3>1, <3>2, <3>3, <3>5
  <2> QED BY <2>2, <2>3
<1>4. ASSUME NEW k \in Jobs, CancelJob(k) \/ RetryJob(k) PROVE Marked
  BY <1>0, <1>4, AdminEffect
<1>5. ASSUME NEW k \in Jobs, BecomesDue(k) \/ LeaseExpires(k) PROVE Marked
  BY <1>0, <1>5, ClockEffect
<1>6. CASE UNCHANGED jobs BY <1>0, <1>6
<1> QED
  BY <1>1, <1>2, <1>3, <1>4, <1>5, <1>6 DEF Next, LookupMiss, Restart, vars, tableVars

\* The two ways a row changes.
StoresRow(w) ==
  /\ phase[w] \in {"creating", "updating"} /\ ~IsFacet(w)
  /\ row' = [row EXCEPT ![job(w).repo] = "ok"]
  /\ UNCHANGED <<jobs, past, touched>>

RecordsLoss(w) ==
  /\ phase[w] = "notfound"
  /\ row' = [row EXCEPT ![job(w).repo] = "absent"]
  /\ past' = past \cup PastAfter(job(w).repo)
  /\ UNCHANGED touched
  /\ jobs'[holds[w]].status = "failed" /\ jobs'[holds[w]].repo = job(w).repo
  /\ \A j \in Jobs \ {holds[w]} : jobs'[j] = jobs[j]

CreatingIsCore == \A w \in Workers : phase[w] = "creating" => ~IsFacet(w)

LEMMA RowStep ==
  ASSUME TypeOK, HoldersAreCalls, CreatingIsCore, [Next]_vars
  PROVE  \/ /\ UNCHANGED <<row, past>>
            /\ \A r \in Repos : NegativeCached(r)' => NegativeCached(r)
         \/ \E w \in Workers : StoresRow(w) \/ RecordsLoss(w)
<1> DEFINE Quiet == /\ UNCHANGED <<row, past>>
                    /\ \A r \in Repos : NegativeCached(r)' => NegativeCached(r)
<1>1. ASSUME NEW w \in Workers, NotFound(w) PROVE Quiet \/ RecordsLoss(w)
  <2>1. CASE DeleteBlocked(holds[w])
    <3>1. UNCHANGED <<jobs, row, past>> BY <1>1, <2>1 DEF NotFound, tableVars
    <3> QED BY <3>1 DEF NegativeCached
  <2>2. CASE ~DeleteBlocked(holds[w])
    <3>1. holds[w] \in Jobs BY <1>1 DEF NotFound, HoldersAreCalls, TypeOK
    <3>2. jobs' = [CountedVerdict(w, "failed", "not_found") EXCEPT ![holds[w]].ref = FALSE]
      BY <1>1, <2>2 DEF NotFound
    <3>3. /\ jobs'[holds[w]].status = "failed" /\ jobs'[holds[w]].repo = job(w).repo
          /\ \A j \in Jobs \ {holds[w]} : jobs'[j] = jobs[j]
      BY <3>1, <3>2, UnrefType DEF job
    <3> QED BY <1>1, <2>2, <3>3 DEF NotFound, RecordsLoss
  <2> QED BY <2>1, <2>2
<1>2. CASE \E w \in Workers : NotFound(w) BY <1>1, <1>2
<1>3. CASE ~\E w \in Workers : NotFound(w)
  <2>1. \A r \in Repos : NegativeCached(r)' => NegativeCached(r) BY <1>3, MarkStep
  <2>2. ASSUME NEW w \in Workers, CreateRow(w) \/ UpdateRow(w) \/ DbFailure(w)
        PROVE  UNCHANGED <<row, past>> \/ StoresRow(w)
    <3>1. CASE CreateRow(w)
      BY <3>1 DEF CreateRow, StoresRow, CreatingIsCore
    <3>2. CASE UpdateRow(w) /\ IsFacet(w)
      BY <3>2 DEF UpdateRow, TypeOK
    <3>3. CASE UpdateRow(w) /\ ~IsFacet(w)
      BY <3>3 DEF UpdateRow, StoresRow
    <3>4. CASE DbFailure(w)
      BY <3>4 DEF DbFailure, StoresRow
    <3> QED BY <2>2, <3>1, <3>2, <3>3, <3>4
  <2>3. CASE \E w \in Workers : CreateRow(w) \/ UpdateRow(w) \/ DbFailure(w)
    BY <2>1, <2>2, <2>3
  <2>4. CASE ~\E w \in Workers : CreateRow(w) \/ UpdateRow(w) \/ DbFailure(w)
    <3>1. UNCHANGED <<row, past>>
      BY <1>3, <2>4
      DEF Next, LookupMiss, EnqueueRefresh, EnqueueManualRefresh, Sweep, RunTick, RefreshStep,
          Fetch, Store, Touch, Finish, NotFoundFallback, Forbidden, Transient, Unexpected,
          Audit, MarkFailed, CancelJob, RetryJob, BecomesDue, LeaseExpires, Restart, vars, tableVars
    <3> QED BY <2>1, <3>1
  <2> QED BY <2>3, <2>4
<1> QED BY <1>2, <1>3

LEMMA InitStory == Init => SlotsAndPast /\ CreatingIsCore /\ RowStory
BY DEF Init, SlotsAndPast, CreatingIsCore, RowStory, NegativeCached, HasStored, FreeSlot

LEMMA NextStory ==
  /\ TypeOK /\ HoldersAreCalls /\ RowsAreNamed /\ SingleOwner /\ ClaimsAreCounted
  /\ SlotsAndPast /\ CreatingIsCore /\ RowStory /\ [Next]_vars
  => SlotsAndPast' /\ CreatingIsCore' /\ RowStory'
<1> SUFFICES ASSUME TypeOK, HoldersAreCalls, RowsAreNamed, SingleOwner, ClaimsAreCounted,
                    SlotsAndPast, CreatingIsCore, RowStory, [Next]_vars
             PROVE  SlotsAndPast' /\ CreatingIsCore' /\ RowStory'
  OBVIOUS
<1>0. /\ NoRepo \notin Repos /\ NoJob \notin Jobs /\ row \in [Repos -> RowStates]
      /\ holds \in [Workers -> Jobs \cup {NoJob}] /\ phase \in [Workers -> Phases]
  BY QueueAssumption DEF TypeOK
\* A job that names a repository is no empty slot.
<1>a. \A j \in Jobs : jobs[j].repo \in Repos => jobs[j].status # "free"
  BY <1>0 DEF SlotsAndPast
<1>b. ASSUME NEW w \in Workers, phase[w] # "idle"
      PROVE  holds[w] \in Jobs /\ job(w).repo \in Repos
  BY <1>0, <1>b DEF HoldersAreCalls, RowsAreNamed, job
<1>c. ASSUME NEW w \in Workers, RecordsLoss(w)
      PROVE  \A j \in Jobs : j \in past' \ past =>
               jobs[j].repo = job(w).repo /\ jobs'[j].status \in {"done", "failed"}
  <2> SUFFICES ASSUME NEW j \in Jobs, j \in past', j \notin past
               PROVE  jobs[j].repo = job(w).repo /\ jobs'[j].status \in {"done", "failed"}
    OBVIOUS
  <2>1. j \in {k \in Jobs : jobs'[k].repo = job(w).repo /\ jobs'[k].status \in {"done", "failed"}}
    BY <1>c DEF RecordsLoss, PastAfter
  <2>2. jobs[j].repo = jobs'[j].repo
    BY <1>c DEF RecordsLoss, job
  <2> QED BY <2>1, <2>2
<1>d. touched \subseteq touched'
  BY JobStep DEF TypeOK
<1>1. SlotsAndPast'
  <2>1. \A j \in Jobs : jobs'[j].status = "free" => jobs'[j].repo = NoRepo
    BY JobStep DEF SlotsAndPast
  <2>2. ASSUME NEW j \in past' \ touched' PROVE jobs'[j].status \in {"done", "failed"}
    <3>0. past' \subseteq Jobs BY NextType DEF TypeOK
    <3>1. CASE j \in past
      <4>1. jobs[j].status \in {"done", "failed"} BY <1>d, <2>2, <3>1 DEF SlotsAndPast
      <4> QED BY <2>2, <3>0, <4>1, StepKeepsVerdicts
    <3>2. CASE j \notin past
      <4>1. \E w \in Workers : RecordsLoss(w)
        BY <2>2, <3>2, RowStep DEF StoresRow
      <4> QED BY <1>c, <2>2, <3>0, <3>2, <4>1
    <3> QED BY <3>1, <3>2
  <2> QED BY <2>1, <2>2 DEF SlotsAndPast
<1>2. CreatingIsCore'
  <2> SUFFICES ASSUME NEW w \in Workers, phase'[w] = "creating" PROVE ~IsFacet(w)'
    BY DEF CreatingIsCore
  <2>1. /\ holds'[w] = holds[w]
        /\ phase'[w] = phase[w] \/ RefreshStep(w) \/ DbFailure(w)
    BY PhaseStep
  <2>2. phase[w] # "idle" /\ ~IsFacet(w)
    <3>1. CASE phase'[w] = phase[w] BY <3>1 DEF CreatingIsCore
    <3>2. CASE phase'[w] # phase[w] /\ RefreshStep(w)
      <4>1. \A p : Enter(w, p) => phase'[w] = p BY <1>0 DEF Enter
      <4>2. ~Release(w) BY <1>0 DEF Release
      <4>3. phase[w] # "idle" BY <3>2, CallEffect DEF CallMoves
      <4> QED
        BY <3>2, <4>1, <4>2, <4>3
        DEF RefreshStep, Fetch, Answers, Store, CreateRow, UpdateRow, Touch, Caught, Finish,
            NotFound, NotFoundFallback, Forbidden, Transient, Unexpected, Audit, MarkFailed
    <3>3. CASE DbFailure(w)
      <4>1. AfterDbFailure(w) # "creating" BY DEF AfterDbFailure, AfterFailedFinish, Caught
      <4> QED BY <1>0, <3>3, <4>1 DEF DbFailure, Enter, Release
    <3> QED BY <2>1, <3>1, <3>2, <3>3
  <2>3. jobs'[holds[w]].kind = jobs[holds[w]].kind
    BY <1>a, <1>b, <2>2, JobStep DEF job
  <2> QED BY <2>1, <2>2, <2>3 DEF IsFacet, job
<1>3. ASSUME NEW r \in Repos, Explained(r) PROVE Explained(r)'
  <2>1. PICK j \in Jobs : jobs[j].repo = r /\ (jobs[j].status = "failed" \/ j \in touched)
    BY <1>3 DEF Explained
  <2>2. jobs'[j].repo = r BY <1>a, <2>1, JobStep
  <2>3. jobs'[j].status = "failed" \/ j \in touched'
    BY <1>d, <2>1, StepKeepsVerdicts
  <2> QED BY <2>2, <2>3 DEF Explained
<1>4. ASSUME NEW r \in Repos, StoredSince(r),
             \A j \in Jobs : jobs[j].repo = r /\ j \in past' => j \in past
      PROVE  StoredSince(r)'
  <2>1. PICK j \in Jobs : /\ jobs[j].repo = r /\ jobs[j].kind = "core"
                          /\ j \in touched \/ (j \notin past /\ jobs[j].attempts > 0)
    BY <1>4 DEF StoredSince
  <2>2. jobs'[j].repo = r /\ jobs'[j].kind = "core" BY <1>a, <2>1, JobStep
  <2>3. j \in touched' \/ (j \notin past' /\ jobs'[j].attempts > 0)
    BY <1>4, <1>a, <1>d, <2>1, CountStep
  <2> QED BY <2>2, <2>3 DEF StoredSince
\* Where the row was gone before, nothing new counts as stored.
<1>5. ASSUME NEW r \in Repos, row[r] = "absent",
             NEW j \in Jobs \ touched', jobs'[j].repo = r, HasStored(j)'
      PROVE  Explained(r)'
  <2>1. jobs[j].status # "free"
    <3> SUFFICES ASSUME jobs[j].status = "free" PROVE FALSE OBVIOUS
    <3>1. jobs'[j].status \in {"free", "pending"} BY JobStep
    <3>2. PICK w \in Workers : holds'[w] = j /\ phase'[w] = "finishing"
      BY <1>5, <3>1 DEF HasStored
    <3>3. holds[w] = j BY <3>2, PhaseStep
    <3> QED BY <1>0, <3>3 DEF HoldersAreCalls
  <2>2. jobs[j].repo = r BY <1>5, <2>1, JobStep
  <2>3. HasStored(j) BY <1>5, <2>1, <2>2, StoredStep
  <2>4. j \notin touched BY <1>5, <1>d
  <2>5. Explained(r) BY <1>5, <2>2, <2>3, <2>4 DEF RowStory
  <2> QED BY <1>3, <2>5
<1> DEFINE Told(r) ==
      /\ NegativeCached(r)' /\ row'[r] # "absent" => StoredSince(r)'
      /\ row'[r] = "absent" =>
           \A j \in Jobs \ touched' : jobs'[j].repo = r /\ HasStored(j)' => Explained(r)'
<1> HIDE DEF Told
<1>6. ASSUME UNCHANGED <<row, past>>, \A r \in Repos : NegativeCached(r)' => NegativeCached(r),
             NEW r \in Repos
      PROVE  Told(r)
  <2>1. NegativeCached(r)' /\ row'[r] # "absent" => StoredSince(r)'
    BY <1>4, <1>6 DEF RowStory
  <2> QED BY <1>5, <1>6, <2>1 DEF Told
<1>7. ASSUME NEW w \in Workers, StoresRow(w), NEW r \in Repos PROVE Told(r)
  <2>0. phase[w] # "idle" BY <1>7 DEF StoresRow
  <2>1. CASE r # job(w).repo
    <3>1. row'[r] = row[r] /\ (NegativeCached(r)' => NegativeCached(r)) /\ past' = past
      BY <1>0, <1>7, <2>1 DEF StoresRow, NegativeCached
    <3>2. NegativeCached(r)' /\ row'[r] # "absent" => StoredSince(r)'
      BY <1>4, <3>1 DEF RowStory
    <3> QED BY <1>5, <3>1, <3>2 DEF Told
  <2>2. CASE r = job(w).repo
    <3>1. row'[r] = "ok" BY <1>0, <1>7, <2>2 DEF StoresRow
    <3>2. holds[w] \in Jobs /\ jobs[holds[w]].repo = r /\ jobs[holds[w]].kind = "core"
      BY <1>7, <1>b, <2>0, <2>2 DEF StoresRow, IsFacet, job
    <3>3. holds[w] \notin touched =>
            /\ jobs[holds[w]].status = "in_progress" /\ holds[w] \notin past
            /\ jobs[holds[w]].attempts > 0
      <4>1. holds[w] \notin touched => jobs[holds[w]].status = "in_progress"
        BY <1>7, <3>2 DEF SingleOwner, StoresRow
      <4>2. holds[w] \notin touched => jobs[holds[w]].attempts # 0
        BY <3>2, <4>1 DEF ClaimsAreCounted
      <4>3. jobs[holds[w]].attempts \in 0..TerminalAttempts BY <3>2 DEF TypeOK, Job
      <4>4. holds[w] \notin touched => jobs[holds[w]].attempts > 0
        BY <4>2, <4>3, QueueAssumption
      <4>5. holds[w] \notin touched => holds[w] \notin past BY <4>1 DEF SlotsAndPast
      <4> QED BY <4>1, <4>4, <4>5
    <3>4. StoredSince(r)'
      BY <1>7, <3>2, <3>3 DEF StoresRow, StoredSince
    <3> QED BY <3>1, <3>4 DEF Told
  <2> QED BY <2>1, <2>2
<1>8. ASSUME NEW w \in Workers, RecordsLoss(w), NEW r \in Repos PROVE Told(r)
  <2>0. phase[w] # "idle" /\ holds[w] \in Jobs BY <1>8, <1>b DEF RecordsLoss
  <2>1. CASE r # job(w).repo
    <3>1. row'[r] = row[r] BY <1>0, <1>8, <2>1 DEF RecordsLoss
    <3>2. NegativeCached(r)' => NegativeCached(r)
      BY <1>8, <2>0, <2>1 DEF RecordsLoss, NegativeCached, job
    <3>3. \A j \in Jobs : jobs[j].repo = r /\ j \in past' => j \in past
      BY <1>c, <1>8, <2>1
    <3>4. NegativeCached(r)' /\ row'[r] # "absent" => StoredSince(r)'
      BY <1>4, <3>1, <3>2, <3>3 DEF RowStory
    <3> QED BY <1>5, <3>1, <3>4 DEF Told
  <2>2. CASE r = job(w).repo
    <3>1. row'[r] = "absent" BY <1>0, <1>8, <2>2 DEF RecordsLoss
    <3>2. Explained(r)' BY <1>8, <2>0, <2>2 DEF RecordsLoss, Explained, job
    <3> QED BY <3>1, <3>2 DEF Told
  <2> QED BY <2>1, <2>2
<1>9. \A r \in Repos : Told(r) BY <1>6, <1>7, <1>8, RowStep
<1>10. RowStory' BY <1>9 DEF Told, RowStory
<1> QED BY <1>1, <1>2, <1>10

\* A cached repository whose 404 is on record has been at work for again since
\* the record was made, and a stored row that is missing is explained by a
\* failed job: with or without the foreign key, for any number of jobs, calls,
\* failed statements and deaths of the process.
THEOREM RowAndVerdictsAgree == Spec => []RowMatchesVerdicts
<1>1. RowStory => RowMatchesVerdicts
  BY DEF RowStory, RowMatchesVerdicts, HasStored
<1>2. Spec => [](SlotsAndPast /\ CreatingIsCore /\ RowStory)
  BY InitStory, NextStory, TypeCorrect, HoldersCorrect, OwnershipCorrect, CountingCorrect, PTL
  DEF Spec
<1> QED
  BY <1>1, <1>2, PTL

-----------------------------------------------------------------------------
(* The queue implements JobLedger: every step of RefreshQueue is a ledger  *)
(* step on the statuses of the jobs and the sets of calls that hold them,  *)
(* or leaves both alone.                                                   *)

\* The refinement mapping.
status == [j \in Jobs |-> jobs[j].status]
holders == [j \in Jobs |-> {w \in Workers : holds[w] = j}]

\* A ledger step or a stutter of the mapped variables.
LedgerStep == Ledger!Next \/ UNCHANGED <<status, holders>>

LEMMA LedgerInsert ==
  ASSUME NEW S \in SUBSET Jobs, S # {}, \A j \in S : status[j] = "free",
         status' = [j \in Jobs |-> IF j \in S THEN "pending" ELSE status[j]],
         UNCHANGED holders
  PROVE  LedgerStep
<1>1. Ledger!Insert(S)
  BY DEF Ledger!Insert, status, holders
<1> QED
  BY <1>1 DEF LedgerStep, Ledger!Next

LEMMA LedgerWrite ==
  ASSUME NEW j \in Jobs, NEW w \in Workers, w \in holders[j],
         NEW s \in {"pending", "done", "failed"}, status' = [status EXCEPT ![j] = s],
         holders' \in {holders, [holders EXCEPT ![j] = @ \ {w}]}
  PROVE  LedgerStep
<1>1. Ledger!Write(j, w)
  BY DEF Ledger!Write, status, holders
<1> QED
  BY <1>1 DEF LedgerStep, Ledger!Next

LEMMA LedgerReturn ==
  ASSUME NEW j \in Jobs, NEW w \in Workers, w \in holders[j],
         UNCHANGED status, holders' = [holders EXCEPT ![j] = @ \ {w}]
  PROVE  LedgerStep
<1>1. Ledger!Return(j, w)
  BY DEF Ledger!Return, status, holders
<1> QED
  BY <1>1 DEF LedgerStep, Ledger!Next

LEMMA LedgerCancel ==
  ASSUME NEW j \in Jobs, status[j] \in {"pending", "in_progress"},
         status' = [status EXCEPT ![j] = "failed"], UNCHANGED holders
  PROVE  LedgerStep
<1>1. Ledger!Cancel(j)
  BY DEF Ledger!Cancel, status, holders
<1> QED
  BY <1>1 DEF LedgerStep, Ledger!Next

LEMMA LedgerRetry ==
  ASSUME NEW j \in Jobs, status[j] \in {"failed", "in_progress"},
         status' = [status EXCEPT ![j] = "pending"], UNCHANGED holders
  PROVE  LedgerStep
<1>1. Ledger!Retry(j)
  BY DEF Ledger!Retry, status, holders
<1> QED
  BY <1>1 DEF LedgerStep, Ledger!Next

LEMMA LedgerForget ==
  ASSUME holders' = [j \in Jobs |-> {}], UNCHANGED status
  PROVE  LedgerStep
<1>1. Ledger!Forget
  BY DEF Ledger!Forget, status, holders
<1> QED
  BY <1>1 DEF LedgerStep, Ledger!Next

LEMMA InitLedger == Init => Ledger!Init
BY QueueAssumption DEF Init, Ledger!Init, FreeSlot

\* A step that leaves the calls alone leaves every holder set alone.
LEMMA HoldersSame == UNCHANGED holds => holders' = holders
BY DEF holders

LEMMA InsertLedger ==
  ASSUME TypeOK,
         \/ \E r \in Repos : EnqueueRefresh(r) \/ EnqueueManualRefresh(r)
         \/ \E k \in Kinds : Sweep(k)
  PROVE  LedgerStep
<1>1. PICK S \in SUBSET Free :
        /\ \A j \in Jobs \ S : jobs'[j] = jobs[j]
        /\ \A j \in S : jobs'[j].status = "pending"
        /\ UNCHANGED <<workerVars, touched>>
  BY InsertEffect
<1>2. holders' = holders
  BY <1>1, HoldersSame DEF workerVars
<1>3. status' = [j \in Jobs |-> IF j \in S THEN "pending" ELSE status[j]]
  BY <1>1 DEF status, Free
<1>4. \A j \in S : status[j] = "free"
  BY DEF status, Free
<1>5. CASE S = {}
  <2>1. status' = status
    BY <1>3, <1>5 DEF status
  <2> QED BY <1>2, <2>1 DEF LedgerStep
<1>6. CASE S # {}
  <2>1. S \in SUBSET Jobs
    BY DEF Free
  <2> QED BY <1>2, <1>3, <1>4, <1>6, <2>1, LedgerInsert
<1> QED
  BY <1>5, <1>6

LEMMA TickLedger ==
  ASSUME TypeOK, HoldersAreCalls, RunTick
  PROVE  LedgerStep
<1>0. /\ NoJob \notin Jobs /\ holds \in [Workers -> Jobs \cup {NoJob}]
      /\ \A w \in Idle : w \in Workers /\ holds[w] = NoJob
  BY QueueAssumption DEF TypeOK, HoldersAreCalls, Idle
<1>1. PICK S \in SUBSET Eligible : S # {} /\ \E give \in [Idle -> S \cup {NoJob}] : StartBatch(S, give)
  BY TickEffect
<1>2. PICK give \in [Idle -> S \cup {NoJob}] : StartBatch(S, give)
  BY <1>1
<1>3. \A j \in S : j \in Jobs /\ jobs[j].status = "pending" /\ jobs[j] \in Job
  BY DEF Eligible, TypeOK
<1>4. \A j \in S : status[j] = "pending"
  BY <1>3 DEF status
<1>5. status' = [j \in Jobs |-> IF j \in S THEN "in_progress" ELSE status[j]]
  <2>1. \A j \in S : jobs'[j].status = "in_progress"
    BY <1>2, <1>3, ClaimedType DEF StartBatch
  <2>2. \A j \in Jobs \ S : jobs'[j] = jobs[j]
    BY <1>2 DEF StartBatch
  <2> QED BY <2>1, <2>2 DEF status
<1> DEFINE to == [j \in S |-> CHOOSE w \in Idle : give[w] = j]
<1>6. \A j \in S : to[j] \in Idle /\ give[to[j]] = j
  BY <1>2 DEF StartBatch
<1>7. to \in [S -> Workers]
  BY <1>0, <1>6
<1> HIDE DEF to
<1>8. \A j \in S, k \in Jobs : to[j] \notin holders[k]
  BY <1>0, <1>6 DEF holders
<1>9. \A j, k \in S : to[j] = to[k] => j = k
  BY <1>6
<1>10. ASSUME NEW j \in Jobs
       PROVE  holders'[j] = IF j \in S THEN holders[j] \cup {to[j]} ELSE holders[j]
  <2>1. \A w \in Workers : holds'[w] = IF w \in Idle THEN give[w] ELSE holds[w]
    BY <1>2 DEF StartBatch
  <2>2. holders'[j] = {w \in Workers : holds'[w] = j}
    BY DEF holders
  <2>3. CASE j \in S
    <3>1. \A w \in Idle : give[w] = j <=> w = to[j]
      BY <1>0, <1>2, <1>3, <1>6, <2>3 DEF StartBatch
    <3>2. \A w \in Workers : holds'[w] = j <=> w = to[j] \/ holds[w] = j
      BY <1>0, <1>6, <2>1, <2>3, <3>1
    <3> QED BY <1>7, <2>2, <2>3, <3>2 DEF holders
  <2>4. CASE j \notin S
    <3>1. \A w \in Idle : give[w] # j
      BY <1>0, <2>4
    <3>2. \A w \in Workers : holds'[w] = j <=> holds[w] = j
      BY <1>0, <2>1, <3>1
    <3> QED BY <2>2, <2>4, <3>2 DEF holders
  <2> QED BY <2>3, <2>4
<1>11. holders' = [j \in Jobs |-> IF j \in S THEN holders[j] \cup {to[j]} ELSE holders[j]]
  BY <1>10 DEF holders
<1>12. Ledger!HandOut(S)
  BY <1>1, <1>4, <1>5, <1>7, <1>8, <1>9, <1>11 DEF Ledger!HandOut, status, holders
<1> QED
  BY <1>3, <1>12 DEF Ledger!Next, LedgerStep

LEMMA CallLedger ==
  ASSUME TypeOK, HoldersAreCalls, NEW w \in Workers, RefreshStep(w) \/ DbFailure(w)
  PROVE  LedgerStep
<1> DEFINE h == holds[w]
<1>1. CallMoves(w)
  BY CallEffect
<1>2. h \in Jobs /\ w \in holders[h]
  BY <1>1 DEF CallMoves, TypeOK, HoldersAreCalls, holders
<1>3. \/ Release(w) /\ holders' = [holders EXCEPT ![h] = @ \ {w}]
      \/ ~Release(w) /\ holders' = holders
  <2>1. CASE Release(w)
    <3>1. holds' = [holds EXCEPT ![w] = NoJob] /\ NoJob \notin Jobs
      BY <2>1, QueueAssumption DEF Release
    <3>2. \A j \in Jobs : {v \in Workers : holds'[v] = j}
                          = IF j = h THEN holders[j] \ {w} ELSE holders[j]
      BY <3>1 DEF TypeOK, holders
    <3> QED BY <1>2, <2>1, <3>2 DEF holders
  <2>2. CASE ~Release(w)
    <3>1. UNCHANGED holds
      BY <1>1, <2>2 DEF CallMoves, Enter
    <3> QED BY <2>2, <3>1, HoldersSame
  <2> QED BY <2>1, <2>2
<1>4. CASE VerdictBy(w)
  <2>1. /\ jobs'[h].status \in {"pending", "done", "failed"}
        /\ status' = [status EXCEPT ![h] = jobs'[h].status]
    BY <1>2, <1>4 DEF VerdictBy, status
  <2> HIDE DEF h
  <2> QED BY <1>2, <1>3, <2>1, LedgerWrite
<1>5. CASE QuietStep(w)
  <2>1. UNCHANGED status
    BY <1>5 DEF QuietStep, status
  <2> HIDE DEF h
  <2>2. CASE Release(w)
    BY <1>2, <1>3, <2>1, <2>2, LedgerReturn
  <2>3. CASE ~Release(w)
    BY <1>3, <2>1, <2>3 DEF LedgerStep
  <2> QED BY <2>2, <2>3
<1> QED
  BY <1>1, <1>4, <1>5 DEF CallMoves

LEMMA AdminLedger ==
  ASSUME TypeOK, NEW j \in Jobs, CancelJob(j) \/ RetryJob(j)
  PROVE  LedgerStep
<1>1. UNCHANGED holders
  BY HoldersSame DEF CancelJob, RetryJob, workerVars
<1>2. jobs \in [Jobs -> Job] /\ status[j] = jobs[j].status
  BY DEF TypeOK, status
<1>3. ASSUME NEW s, jobs'[j].status = s, \A k \in Jobs \ {j} : jobs'[k] = jobs[k]
      PROVE  status' = [status EXCEPT ![j] = s]
  BY <1>3 DEF status
<1>4. CASE CancelJob(j)
  <2>1. /\ jobs'[j].status = "failed"
        /\ \A k \in Jobs \ {j} : jobs'[k] = jobs[k]
    BY <1>2, <1>4 DEF CancelJob, Job
  <2>2. status[j] \in {"pending", "in_progress"}
    BY <1>2, <1>4 DEF CancelJob
  <2> QED BY <1>1, <1>3, <2>1, <2>2, LedgerCancel
<1>5. CASE RetryJob(j)
  <2>1. /\ jobs'[j].status = "pending"
        /\ \A k \in Jobs \ {j} : jobs'[k] = jobs[k]
    BY <1>2, <1>5 DEF RetryJob, Job
  <2>2. status[j] \in {"failed", "in_progress"}
    BY <1>2, <1>5 DEF RetryJob
  <2> QED BY <1>1, <1>3, <2>1, <2>2, LedgerRetry
<1> QED
  BY <1>4, <1>5

LEMMA StepLedger ==
  ASSUME TypeOK, HoldersAreCalls, [Next]_vars
  PROVE  LedgerStep
<1>1. ASSUME NEW j \in Jobs, BecomesDue(j) \/ LeaseExpires(j)
      PROVE  LedgerStep
  <2>1. status' = status
    BY <1>1, ClockEffect DEF status
  <2>2. holders' = holders
    BY <1>1, HoldersSame DEF BecomesDue, LeaseExpires, workerVars
  <2> QED BY <2>1, <2>2 DEF LedgerStep
<1>2. CASE Restart
  <2>1. UNCHANGED status
    BY <1>2 DEF Restart, tableVars, status
  <2>2. holders' = [j \in Jobs |-> {}]
    BY <1>2, QueueAssumption DEF Restart, holders
  <2> QED BY <2>1, <2>2, LedgerForget
<1>3. CASE UNCHANGED <<jobs, holds>>
  BY <1>3 DEF LedgerStep, status, holders
<1> QED
  BY <1>1, <1>2, <1>3, InsertLedger, TickLedger, CallLedger, AdminLedger
  DEF Next, LookupMiss, vars, workerVars

LEMMA NextLedger ==
  TypeOK /\ HoldersAreCalls /\ [Next]_vars => [Ledger!Next]_(Ledger!ledgerVars)
<1>1. UNCHANGED <<status, holders>> => UNCHANGED Ledger!ledgerVars
  BY DEF Ledger!ledgerVars, status, holders
<1> QED
  BY <1>1, StepLedger DEF LedgerStep

\* Refinement: the refresh queue keeps the ledger's promises, for any number
\* of jobs, calls, crashes and failures.
THEOREM QueueImplementsLedger == Spec => LedgerSpec
<1> QED
  BY InitLedger, NextLedger, TypeCorrect, HoldersCorrect, PTL
  DEF Spec, LedgerSpec, Ledger!Spec

=============================================================================
