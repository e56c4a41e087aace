---------------------------- MODULE RefreshQueue ----------------------------
(***************************************************************************)
(* The refresh queue: the `refresh_jobs` table, everything that inserts    *)
(* into it (lookups, sweeps, admin triggers), the tick that claims batches *)
(* from it, the refreshOne calls that work a claimed job, and the admin    *)
(* cancel/retry routes that edit it.  One process, many asynchronous       *)
(* activities: every `await` of the code is a point where another step can *)
(* come between, so a refreshOne call is a chain of steps, one per         *)
(* database write or GitHub answer.                                        *)
(*                                                                         *)
(* Clock readings are abstracted.  scheduled_for is the flag `due`, which  *)
(* only time raises, and locked_until is "none", "held" or "expired".      *)
(* Only the order in which priorities are claimed is kept; among equal     *)
(* priorities the claim is free.  scheduled_for is never read unless the   *)
(* job is pending, so `due` is FALSE in every other status.  `mark` is the *)
(* part of last_error that anyone tells apart: the "not_found:" prefix     *)
(* lookupRepo searches failed jobs for and an admin's "cancelled by        *)
(* admin".                                                                 *)
(***************************************************************************)
EXTENDS Naturals, FiniteSets

CONSTANTS
  Repos,             \* owner/name pairs
  Jobs,              \* bound: rows of refresh_jobs that can ever be inserted
  Workers,           \* bound: refreshOne calls that can be in flight at once
  Facets,            \* kinds M27_REFRESH_BY_KIND adds; {} when the flag is off
  BatchSize,         \* SCHEDULER_BATCH_SIZE
  TerminalAttempts,  \* 5 in handleError
  RestrictFK,        \* does refresh_jobs.repository_id carry its foreign key?
  LegacyRows,        \* fetch_status values older releases or imports left
  MaxCrashes,        \* bound: process deaths
  MaxDbFailures,     \* bound: database statements that fail
  NoJob, NoRepo      \* "no row"

ASSUME QueueAssumption ==
  /\ Facets \subseteq {"releases", "branches"}
  /\ BatchSize \in Nat \ {0}
  /\ TerminalAttempts \in Nat \ {0}
  /\ RestrictFK \in BOOLEAN
  /\ LegacyRows \subseteq {"error", "not_found"}
  /\ MaxCrashes \in Nat /\ MaxDbFailures \in Nat
  /\ NoJob \notin Jobs
  /\ NoRepo \notin Repos

VARIABLES
  jobs,        \* the refresh_jobs table
  row,         \* fetch_status of each repository's row, or "absent"
  asking,      \* repositories some lookupRepo found missing and will enqueue
  phase,       \* where each refreshOne call stands
  holds,       \* the job it was given
  snap,        \* job.attempts as claimBatch returned it
  crashes, dbFailures,
  touched,     \* history: jobs an admin has cancelled or retried
  past         \* history: jobs that were settled when a 404 of their repository
               \* was recorded

tableVars == <<jobs, row>>
workerVars == <<phase, holds, snap>>
budgetVars == <<crashes, dbFailures>>
vars == <<jobs, row, asking, phase, holds, snap, crashes, dbFailures, touched, past>>

Kinds == {"core"} \cup Facets
Statuses == {"free", "pending", "in_progress", "done", "failed"}
Origins == {"manual", "lookup", "sweep"}
Leases == {"none", "held", "expired"}
Marks == {"none", "not_found", "cancelled"}
RowStates == {"absent", "ok", "error", "not_found"}
Phases == {"idle", "fetching", "storing", "creating", "updating", "touching",
           "finishing", "notfound", "fallback", "forbidden", "transient",
           "unexpected", "auditing", "threw"}

Job == [status : Statuses, repo : Repos \cup {NoRepo}, kind : Kinds,
        origin : Origins, due : BOOLEAN, lease : Leases,
        attempts : 0..TerminalAttempts, mark : Marks, ref : BOOLEAN]

FreeSlot == [status |-> "free", repo |-> NoRepo, kind |-> "core",
             origin |-> "lookup", due |-> FALSE, lease |-> "none",
             attempts |-> 0, mark |-> "none", ref |-> FALSE]

\* The program itself stores only 'ok'.  lookupRepo treats 'forbidden' like
\* 'error', which stands for both.
Init ==
  /\ jobs = [j \in Jobs |-> FreeSlot]
  /\ row \in [Repos -> {"absent", "ok"} \cup LegacyRows]
  /\ asking = {}
  /\ phase = [w \in Workers |-> "idle"]
  /\ holds = [w \in Workers |-> NoJob]
  /\ snap = [w \in Workers |-> 0]
  /\ crashes = 0 /\ dbFailures = 0
  /\ touched = {} /\ past = {}

-----------------------------------------------------------------------------
(* Reading the table.                                                      *)

Priority(origin) ==
  CASE origin = "manual" -> 10 [] origin = "lookup" -> 70 [] OTHER -> 99

PendingFor(r) == {j \in Jobs : jobs[j].repo = r /\ jobs[j].status = "pending"}

NegativeCached(r) ==
  \E j \in Jobs : /\ jobs[j].repo = r
                  /\ jobs[j].status = "failed" /\ jobs[j].mark = "not_found"

Free == {j \in Jobs : jobs[j].status = "free"}

\* Faulty variants of a definition stand just before it; a property named in
\* the comment must tell them apart.
\* StuckJobReclaimed's mechanism without its safeguard: SingleOwner.
EligibleByLease == {j \in Jobs : /\ jobs[j].status \in {"pending", "in_progress"}
                                 /\ jobs[j].due \/ jobs[j].status = "in_progress"
                                 /\ jobs[j].lease # "held"}

\* Exhausted jobs filtered out by the claim: PendingIsClaimed.
EligibleUntilExhausted == {j \in Jobs : /\ jobs[j].status = "pending"
                                        /\ jobs[j].due
                                        /\ jobs[j].lease # "held"
                                        /\ jobs[j].attempts < TerminalAttempts}

Eligible == {j \in Jobs : /\ jobs[j].status = "pending"
                          /\ jobs[j].due
                          /\ jobs[j].lease # "held"}

\* attempts only matters up to the threshold, so it saturates there.
Bump(n) == IF n < TerminalAttempts THEN n + 1 ELSE n

-----------------------------------------------------------------------------
(* Inserting jobs.                                                         *)

NewJob(r, k, o) ==
  [FreeSlot EXCEPT !.status = "pending", !.repo = r, !.kind = k,
                   !.origin = o, !.due = TRUE, !.ref = RestrictFK /\ o # "lookup"]

\* lookupRepo up to the enqueue: neither the row nor a negative-cache marker
\* answers the query.
LookupMiss(r) ==
  /\ r \notin asking
  /\ row[r] \notin {"ok", "not_found"}
  /\ ~NegativeCached(r)
  /\ asking' = asking \cup {r}
  /\ UNCHANGED <<jobs, row, workerVars, budgetVars, touched, past>>

\* No findFirst in the transaction: DedupFreshLookups.
EnqueueRefreshBlindly(r) ==
  /\ r \in asking
  /\ asking' = asking \ {r}
  /\ \E j \in Free : jobs' = [jobs EXCEPT ![j] = NewJob(r, "core", "lookup")]
  /\ UNCHANGED <<row, workerVars, budgetVars, touched, past>>

\* enqueueRefresh: one serializable transaction, after the checks above.
EnqueueRefresh(r) ==
  /\ r \in asking
  /\ asking' = asking \ {r}
  /\ \/ PendingFor(r) # {} /\ UNCHANGED jobs
     \/ /\ PendingFor(r) = {}
        /\ \E j \in Free : jobs' = [jobs EXCEPT ![j] = NewJob(r, "core", "lookup")]
  /\ UNCHANGED <<row, workerVars, budgetVars, touched, past>>

\* POST /api/admin/refresh, action=trigger: no look at what is queued already.
\* The read of the row and the insert are one step here and in Sweep: an insert
\* that comes after the row's deletion fails on the key, or, without the key,
\* gives the job an insert just before the deletion would have given.
EnqueueManualRefresh(r) ==
  /\ row[r] # "absent"
  /\ \E j \in Free : jobs' = [jobs EXCEPT ![j] = NewJob(r, "core", "manual")]
  /\ UNCHANGED <<row, asking, workerVars, budgetVars, touched, past>>

\* sweepFacet: one job for every 'ok' row whose timestamp is past the cutoff
\* (which rows those are is left open), again without looking at the queue.
InsertAll(slot, k) ==
  /\ DOMAIN slot # {}
  /\ \A r, q \in DOMAIN slot : slot[r] = slot[q] => r = q
  /\ jobs' = [j \in Jobs |-> IF \E r \in DOMAIN slot : slot[r] = j
                             THEN NewJob(CHOOSE r \in DOMAIN slot : slot[r] = j, k, "sweep")
                             ELSE jobs[j]]

Sweep(k) ==
  /\ \E S \in SUBSET {r \in Repos : row[r] = "ok"} :
       \E slot \in [S -> Free] : InsertAll(slot, k)
  /\ UNCHANGED <<row, asking, workerVars, budgetVars, touched, past>>

-----------------------------------------------------------------------------
(* The tick: claimBatch, then refreshOne for every claimed job.            *)

Idle == {w \in Workers : phase[w] = "idle"}

\* ORDER BY priority LIMIT batchSize.
IsBatch(S) ==
  /\ S \subseteq Eligible /\ S # {}
  /\ Cardinality(S) = BatchSize \/ S = Eligible
  /\ Cardinality(S) <= BatchSize
  /\ \A j \in S, k \in Eligible \ S :
       Priority(jobs[j].origin) <= Priority(jobs[k].origin)

Claimed(j) == [jobs[j] EXCEPT !.status = "in_progress", !.due = FALSE,
                              !.lease = "held", !.attempts = Bump(@)]

\* `give` says which refreshOne call gets which job of the batch.
StartBatch(S, give) ==
  /\ \A j \in S : \E w \in Idle : give[w] = j
  /\ \A v, w \in Idle : give[v] = give[w] => v = w \/ give[v] = NoJob
  /\ jobs' = [j \in Jobs |-> IF j \in S THEN Claimed(j) ELSE jobs[j]]
  /\ phase' = [w \in Workers |->
                 IF w \in Idle /\ give[w] # NoJob THEN "fetching" ELSE phase[w]]
  /\ holds' = [w \in Workers |-> IF w \in Idle THEN give[w] ELSE holds[w]]
  /\ snap' = [w \in Workers |->
                IF w \in Idle /\ give[w] # NoJob THEN Bump(jobs[give[w]].attempts)
                                                ELSE snap[w]]

RunTick ==
  /\ \E S \in SUBSET Eligible :
       IsBatch(S) /\ \E give \in [Idle -> S \cup {NoJob}] : StartBatch(S, give)
  /\ UNCHANGED <<row, asking, budgetVars, touched, past>>

-----------------------------------------------------------------------------
(* refreshOne, for the call w.                                             *)

job(w) == jobs[holds[w]]
IsFacet(w) == job(w).kind # "core"

Enter(w, p) == phase' = [phase EXCEPT ![w] = p] /\ UNCHANGED <<holds, snap>>

Release(w) ==
  /\ phase' = [phase EXCEPT ![w] = "idle"]
  /\ holds' = [holds EXCEPT ![w] = NoJob]
  /\ snap' = [snap EXCEPT ![w] = 0]

\* Every verdict is an unconditional UPDATE ... WHERE id = job.id.
Verdict(w, s, m) ==
  [jobs EXCEPT ![holds[w]] = [@ EXCEPT !.status = s, !.due = FALSE,
                                       !.lease = "none", !.mark = m]]

CountedVerdict(w, s, m) ==
  [Verdict(w, s, m) EXCEPT ![holds[w]].attempts = Bump(snap[w])]

\* What fetchRepoCore can report; a 304 needs the ETag of an existing row.
\* The facet fetchers rethrow what Octokit threw (its 304 included, so their
\* callers' 304 branch never runs), and every failure of theirs ends in
\* handlePerFacetError's last branch, which reschedules like a transient one.
Answers(w) ==
  IF IsFacet(w) THEN {"storing", "transient"}
  ELSE {"storing", "notfound", "forbidden", "transient", "unexpected"}
         \cup (IF row[job(w).repo] = "absent" THEN {} ELSE {"touching"})

Fetch(w) ==
  /\ phase[w] = "fetching"
  /\ \E p \in Answers(w) : Enter(w, p)
  /\ UNCHANGED <<tableVars, asking, budgetVars, touched, past>>

\* Where an error thrown inside the call's own try block goes.
Caught(w) == IF IsFacet(w) THEN "transient" ELSE "unexpected"

\* 200: storeRepoMetadata and the facet writers first look the row up.  A facet
\* writer that finds none does nothing.
Store(w) ==
  /\ phase[w] = "storing"
  /\ Enter(w, IF row[job(w).repo] # "absent" THEN "updating"
              ELSE IF IsFacet(w) THEN "finishing" ELSE "creating")
  /\ UNCHANGED <<tableVars, asking, budgetVars, touched, past>>

\* createRepo, or, when another call has created the row meanwhile, the update
\* of that row: either way the core row is there.
CreateRow(w) ==
  /\ phase[w] = "creating"
  /\ row' = [row EXCEPT ![job(w).repo] = "ok"]
  /\ Enter(w, "updating")
  /\ UNCHANGED <<jobs, asking, budgetVars, touched, past>>

\* The writes by row id, child tables included, throw if the row has gone.  (A
\* row deleted and created again counts as the same row.)
UpdateRow(w) ==
  /\ phase[w] = "updating"
  /\ \/ /\ row[job(w).repo] = "absent"
        /\ Enter(w, Caught(w))
        /\ UNCHANGED row
     \/ /\ row[job(w).repo] # "absent"
        /\ row' = [row EXCEPT ![job(w).repo] = IF IsFacet(w) THEN @ ELSE "ok"]
        /\ Enter(w, "finishing")
  /\ UNCHANGED <<jobs, asking, budgetVars, touched, past>>

\* 304: bump lastFetchedAt, by row id too.
Touch(w) ==
  /\ phase[w] = "touching"
  /\ Enter(w, IF row[job(w).repo] = "absent" THEN Caught(w) ELSE "finishing")
  /\ UNCHANGED <<tableVars, asking, budgetVars, touched, past>>

Finish(w) ==
  /\ phase[w] = "finishing"
  /\ jobs' = Verdict(w, "done", "none")
  /\ Release(w)
  /\ UNCHANGED <<row, asking, budgetVars, touched, past>>

\* Another job still points at the row: ON DELETE RESTRICT.
DeleteBlocked(j) ==
  /\ RestrictFK /\ row[jobs[j].repo] # "absent"
  /\ \E k \in Jobs \ {j} : jobs[k].repo = jobs[j].repo /\ jobs[k].ref

PastAfter(r) ==
  {j \in Jobs : jobs'[j].repo = r /\ jobs'[j].status \in {"done", "failed"}}

\* The job is marked before the deletion is tried, not with it: RowMatchesVerdicts.
NotFoundInTwo(w) ==
  /\ phase[w] = "notfound"
  /\ jobs' = [CountedVerdict(w, "failed", "not_found") EXCEPT ![holds[w]].ref = FALSE]
  /\ past' = past \cup PastAfter(job(w).repo)
  /\ IF DeleteBlocked(holds[w])
       THEN Enter(w, "fallback") /\ UNCHANGED row
       ELSE Enter(w, "auditing") /\ row' = [row EXCEPT ![job(w).repo] = "absent"]
  /\ UNCHANGED <<asking, budgetVars, touched>>

\* 404/410: one transaction marks the job and deletes the row.
NotFound(w) ==
  /\ phase[w] = "notfound"
  /\ \/ /\ DeleteBlocked(holds[w])
        /\ Enter(w, "fallback")
        /\ UNCHANGED <<tableVars, past>>
     \/ /\ ~DeleteBlocked(holds[w])
        /\ jobs' = [CountedVerdict(w, "failed", "not_found") EXCEPT ![holds[w]].ref = FALSE]
        /\ row' = [row EXCEPT ![job(w).repo] = "absent"]
        /\ past' = past \cup PastAfter(job(w).repo)
        /\ Enter(w, "auditing")
  /\ UNCHANGED <<asking, budgetVars, touched>>

\* The transaction failed: back to the queue with the failure ladder.
NotFoundFallback(w) ==
  /\ phase[w] = "fallback"
  /\ jobs' = CountedVerdict(w, "pending", "none")
  /\ Release(w)
  /\ UNCHANGED <<row, asking, budgetVars, touched, past>>

\* Returns without a verdict: HeldJobSettles.
ForbiddenSilently(w) ==
  /\ phase[w] = "forbidden"
  /\ Release(w)
  /\ UNCHANGED <<tableVars, asking, budgetVars, touched, past>>

Forbidden(w) ==
  /\ phase[w] = "forbidden"
  /\ jobs' = Verdict(w, "failed", "none")
  /\ Release(w)
  /\ UNCHANGED <<row, asking, budgetVars, touched, past>>

Transient(w) ==
  /\ phase[w] = "transient"
  /\ jobs' = Verdict(w, "pending", "none")
  /\ Release(w)
  /\ UNCHANGED <<row, asking, budgetVars, touched, past>>

\* The failure ladder, terminal once attempts reaches the threshold.
IsTerminal(w) == Bump(snap[w]) >= TerminalAttempts

Unexpected(w) ==
  /\ phase[w] = "unexpected"
  /\ \/ /\ IsTerminal(w)
        /\ jobs' = CountedVerdict(w, "failed", "none")
        /\ Enter(w, "auditing")
     \/ /\ ~IsTerminal(w)
        /\ jobs' = CountedVerdict(w, "pending", "none")
        /\ Release(w)
  /\ UNCHANGED <<row, asking, budgetVars, touched, past>>

\* The audit row written after a terminal verdict.
Audit(w) ==
  /\ phase[w] = "auditing"
  /\ Release(w)
  /\ UNCHANGED <<tableVars, asking, budgetVars, touched, past>>

\* refreshOne threw: runTick marks the job failed.
MarkFailed(w) ==
  /\ phase[w] = "threw"
  /\ jobs' = Verdict(w, "failed", "none")
  /\ Release(w)
  /\ UNCHANGED <<row, asking, budgetVars, touched, past>>

\* The facet jobs' `return finishJob(...)` is not awaited inside their try, so a
\* failed one leaves refreshOne; refreshCore awaits its own UPDATE.
AfterFailedFinish(w) == IF IsFacet(w) THEN "threw" ELSE Caught(w)

\* A failed audit write treated as one more transient error: TerminalStays.
AfterDbFailureAuditing(w) ==
  CASE phase[w] \in {"storing", "creating", "updating", "touching"} -> Caught(w)
    [] phase[w] = "finishing" -> AfterFailedFinish(w)
    [] phase[w] = "notfound" -> "fallback"
    [] phase[w] = "auditing" -> "transient"
    [] OTHER -> "threw"

\* The statement a phase is about to run fails.  Inside refreshCore's try the
\* error goes to handleError, in a facet's try to handlePerFacetError; outside
\* a try it reaches runTick; there, it is swallowed and the job left as it is.
AfterDbFailure(w) ==
  CASE phase[w] \in {"storing", "creating", "updating", "touching"} -> Caught(w)
    [] phase[w] = "finishing" -> AfterFailedFinish(w)
    [] phase[w] = "notfound" -> "fallback"
    [] OTHER -> "threw"

DbFailure(w) ==
  /\ phase[w] # "idle"
  /\ dbFailures < MaxDbFailures
  /\ dbFailures' = dbFailures + 1
  /\ IF phase[w] = "threw" THEN Release(w) ELSE Enter(w, AfterDbFailure(w))
  /\ \/ UNCHANGED row
     \/ \* the core row was updated, a later write of storeRepoMetadata failed
        /\ phase[w] = "updating" /\ ~IsFacet(w) /\ row[job(w).repo] # "absent"
        /\ row' = [row EXCEPT ![job(w).repo] = "ok"]
  /\ UNCHANGED <<jobs, asking, crashes, touched, past>>

RefreshStep(w) ==
  \/ Fetch(w) \/ Store(w) \/ CreateRow(w) \/ UpdateRow(w) \/ Touch(w) \/ Finish(w)
  \/ NotFound(w) \/ NotFoundFallback(w) \/ Forbidden(w) \/ Transient(w)
  \/ Unexpected(w) \/ Audit(w) \/ MarkFailed(w)

-----------------------------------------------------------------------------
(* Admin routes: a read and an UPDATE conditional on the status read, so    *)
(* the status the write takes effect on is the one the guard saw.           *)

CancelJob(j) ==
  /\ jobs[j].status \in {"pending", "in_progress"}
  /\ jobs' = [jobs EXCEPT ![j] = [@ EXCEPT !.status = "failed", !.due = FALSE,
                                           !.lease = "none", !.mark = "cancelled"]]
  /\ touched' = touched \cup {j}
  /\ UNCHANGED <<row, asking, workerVars, budgetVars, past>>

\* Keeps the old lease: LeaseMarksClaim.
RetryJobKeepingLease(j) ==
  /\ jobs[j].status \in {"failed", "in_progress"}
  /\ jobs' = [jobs EXCEPT ![j] = [@ EXCEPT !.status = "pending", !.due = TRUE,
                                           !.mark = "none"]]
  /\ touched' = touched \cup {j}
  /\ UNCHANGED <<row, asking, workerVars, budgetVars, past>>

\* No look at the status: LedgerSpec.
RetryJobAnyStatus(j) ==
  /\ jobs[j].status # "free"
  /\ jobs' = [jobs EXCEPT ![j] = [@ EXCEPT !.status = "pending", !.due = TRUE,
                                           !.lease = "none", !.mark = "none"]]
  /\ touched' = touched \cup {j}
  /\ UNCHANGED <<row, asking, workerVars, budgetVars, past>>

RetryJob(j) ==
  /\ jobs[j].status \in {"failed", "in_progress"}
  /\ jobs' = [jobs EXCEPT ![j] = [@ EXCEPT !.status = "pending", !.due = TRUE,
                                           !.lease = "none", !.mark = "none"]]
  /\ touched' = touched \cup {j}
  /\ UNCHANGED <<row, asking, workerVars, budgetVars, past>>

-----------------------------------------------------------------------------
(* Time and the process.                                                   *)

BecomesDue(j) ==
  /\ jobs[j].status = "pending" /\ ~jobs[j].due
  /\ jobs' = [jobs EXCEPT ![j].due = TRUE]
  /\ UNCHANGED <<row, asking, workerVars, budgetVars, touched, past>>

LeaseExpires(j) ==
  /\ jobs[j].lease = "held"
  /\ jobs' = [jobs EXCEPT ![j].lease = "expired"]
  /\ UNCHANGED <<row, asking, workerVars, budgetVars, touched, past>>

\* A crash, or a shutdown (which awaits no refreshOne call), and the restart.
\* Start-up looks at no job.
Restart ==
  /\ crashes < MaxCrashes
  /\ crashes' = crashes + 1
  /\ asking' = {}
  /\ phase' = [w \in Workers |-> "idle"]
  /\ holds' = [w \in Workers |-> NoJob]
  /\ snap' = [w \in Workers |-> 0]
  /\ UNCHANGED <<tableVars, dbFailures, touched, past>>

-----------------------------------------------------------------------------
Next ==
  \/ \E r \in Repos : LookupMiss(r) \/ EnqueueRefresh(r) \/ EnqueueManualRefresh(r)
  \/ \E k \in Kinds : Sweep(k)
  \/ RunTick
  \/ \E w \in Workers : RefreshStep(w) \/ DbFailure(w)
  \/ \E j \in Jobs : CancelJob(j) \/ RetryJob(j) \/ BecomesDue(j) \/ LeaseExpires(j)
  \/ Restart

Spec == Init /\ [][Next]_vars

\* The interval keeps ticking, clocks advance, and an await eventually
\* resolves.  Nothing is assumed of callers, admins, failures or GitHub's
\* choice of answer.
Fairness ==
  /\ WF_vars(RunTick)
  /\ \A w \in Workers : WF_vars(RefreshStep(w))
  /\ \A r \in Repos : WF_vars(EnqueueRefresh(r))
  /\ \A j \in Jobs : WF_vars(BecomesDue(j)) /\ WF_vars(LeaseExpires(j))

FairSpec == Spec /\ Fairness

-----------------------------------------------------------------------------
(* Properties.                                                             *)

TypeOK ==
  /\ jobs \in [Jobs -> Job]
  /\ row \in [Repos -> RowStates]
  /\ asking \subseteq Repos
  /\ phase \in [Workers -> Phases]
  /\ holds \in [Workers -> Jobs \cup {NoJob}]
  /\ snap \in [Workers -> 0..TerminalAttempts]
  /\ crashes \in 0..MaxCrashes /\ dbFailures \in 0..MaxDbFailures
  /\ touched \subseteq Jobs /\ past \subseteq Jobs

\* A row carries a lease exactly while it is in_progress, whoever wrote it
\* last: so the lease test of claimBatch never hides a pending job, and an
\* expired lease never brings an in_progress one back.
LeaseMarksClaim ==
  \A j \in Jobs : jobs[j].lease # "none" <=> jobs[j].status = "in_progress"

\* As long as no admin has cancelled or retried a job, at most one refreshOne
\* call works on it, and until that call has written its verdict the job is
\* in_progress: overlapping ticks never fetch one job twice.
SingleOwner ==
  \A j \in Jobs \ touched, w \in Workers : holds[w] = j =>
    /\ \A v \in Workers : holds[v] = j => v = w
    /\ \/ jobs[j].status = "in_progress"
       \/ jobs[j].status = "failed" /\ phase[w] \in {"auditing", "threw"}

\* Concurrent lookups of one repository leave one fresh job, not several
\* (jobs an admin re-queued aside): the serializable findFirst + create.
FreshLookup(j) ==
  /\ j \notin touched /\ jobs[j].origin = "lookup"
  /\ jobs[j].status = "pending" /\ jobs[j].attempts = 0

DedupFreshLookups ==
  \A j, k \in Jobs : FreshLookup(j) /\ FreshLookup(k) /\ jobs[j].repo = jobs[k].repo
                     => j = k

\* done and failed are final for a job no admin has touched.
TerminalStays ==
  [][\A j \in Jobs \ touched' :
       jobs[j].status \in {"done", "failed"} => jobs'[j].status = jobs[j].status]_vars

\* The cache and the queue agree about a repository, through failed statements,
\* a foreign key that refuses the deletion, deaths of the process and jobs that
\* race each other (jobs an admin touched aside).  With its 404 on record it has
\* a row only if a refresh that was not over by then has been at work for it;
\* and the row a finished refresh stored is missing only where a failed job says
\* why.
StoredSince(r) ==
  \E j \in Jobs : /\ jobs[j].repo = r /\ jobs[j].kind = "core"
                  /\ j \in touched \/ (j \notin past /\ jobs[j].attempts > 0)

Explained(r) ==
  \E j \in Jobs : jobs[j].repo = r /\ (jobs[j].status = "failed" \/ j \in touched)

RowMatchesVerdicts ==
  \A r \in Repos :
    /\ NegativeCached(r) /\ row[r] # "absent" => StoredSince(r)
    /\ row[r] = "absent" =>
         \A j \in Jobs \ touched :
           jobs[j].repo = r /\ jobs[j].kind = "core" /\ jobs[j].status = "done"
             => Explained(r)

\* The queue implements the ledger.
Ledger == INSTANCE JobLedger WITH
  status <- [j \in Jobs |-> jobs[j].status],
  holders <- [j \in Jobs |-> {w \in Workers : holds[w] = j}]

LedgerSpec == Ledger!Spec

\* A job waiting in the queue is claimed, or taken out of it by an admin,
\* unless another one that is at least as urgent is waiting too; deaths of
\* the process in between lose nothing.
Outranked(j) ==
  \E k \in Jobs \ {j} : /\ jobs[k].status = "pending"
                         /\ Priority(jobs[k].origin) <= Priority(jobs[j].origin)

PendingIsClaimed ==
  \A j \in Jobs :
    jobs[j].status = "pending" ~> jobs[j].status # "pending" \/ Outranked(j)

\* A job whose call survives to the end is settled, however often the
\* database fails on the way, short of failing under runTick's own handler.
HeldJobSettles ==
  \A j \in Jobs, w \in Workers :
    holds[w] = j /\ crashes = MaxCrashes /\ dbFailures = MaxDbFailures
      ~> jobs[j].status # "in_progress"

\* tick.ts: a job whose failure-mark fails "will time out via its lease and
\* the scheduler will reclaim it".
StuckJobReclaimed ==
  \A j \in Jobs : jobs[j].status = "in_progress" ~> jobs[j].status # "in_progress"

=============================================================================
