-------------------------- MODULE WebhookDelivery --------------------------
(***************************************************************************)
(* Webhook deliveries: the rows the audit hook fans out to the active      *)
(* subscriptions, the worker that POSTs what is pending, and the admin     *)
(* routes that retry a delivery or disable and re-arm a subscription.      *)
(*                                                                         *)
(* The scheduler starts a worker tick every 15 seconds and never asks if   *)
(* the last one is done; a tick claims nothing, it only reads its batch,   *)
(* and then works through it one await at a time: look the subscription    *)
(* up, POST, mark the row, disable the subscription.                       *)
(* An error in any of these abandons the rest of the batch.                *)
(*                                                                         *)
(* next_retry_at is "now" once it has come, "backoff" or "year" while it   *)
(* lies ahead, "null" when cleared.  The event and the filter it must      *)
(* match are left out: any set of active subscriptions may match.          *)
(***************************************************************************)
EXTENDS Naturals, Sequences, SequencesExt

CONSTANTS
  Subs,           \* subscriptions (nothing in the program deletes one)
  Deliveries,     \* bound: rows of webhook_deliveries that can be inserted
  Ticks,          \* bound: runWorkerTick calls in flight
  BatchSize,      \* WEBHOOK_WORKER_BATCH_SIZE
  MaxAttempts,    \* MAX_ATTEMPTS
  MaxRetries,     \* bound: clicks on an admin's "retry"
  MaxFailures,    \* bound: failed statements and process deaths
  NoSub

ASSUME WebhookAssumption ==
  /\ BatchSize \in Nat \ {0} /\ MaxAttempts \in Nat \ {0}
  /\ MaxRetries \in Nat /\ MaxFailures \in Nat
  /\ NoSub \notin Subs

VARIABLES
  row,       \* webhook_deliveries
  queue,     \* the pending rows by next_retry_at
  active,    \* webhook_subscriptions.active
  fanout,    \* subscriptions an event in flight still inserts a row for
  phase,     \* where each tick stands
  batch,     \* what it has still to process, as read: the head is current
  outcome,   \* the verdict on its head
  retries, failures,
  shared,    \* history: rows two ticks held at once
  retried,   \* history: rows an admin retried
  rearmed    \* history: subscriptions an admin re-armed

tickVars == <<phase, batch, outcome>>
history == <<shared, retried, rearmed>>
vars == <<row, queue, active, fanout, phase, batch, outcome, retries, failures,
          shared, retried, rearmed>>

Statuses == {"free", "pending", "delivered", "failed", "dead"}
Phases == {"idle", "next", "posting", "marking", "disabling"}
Outcomes == {"none", "delivered", "failed", "dead", "inactive"}

Row == [status : Statuses, sub : Subs \cup {NoSub}, attempts : 0..MaxAttempts,
        next : {"now", "backoff", "year", "null"}]
Read == [id : Deliveries, attempts : 0..MaxAttempts]

Init ==
  /\ row = [d \in Deliveries |->
              [status |-> "free", sub |-> NoSub, attempts |-> 0, next |-> "null"]]
  /\ queue = <<>>
  /\ active = [s \in Subs |-> TRUE]
  /\ fanout = {}
  /\ phase = [t \in Ticks |-> "idle"]
  /\ batch = [t \in Ticks |-> <<>>]
  /\ outcome = [t \in Ticks |-> "none"]
  /\ retries = 0 /\ failures = 0
  /\ shared = {} /\ retried = {} /\ rearmed = {}

\* A row is pending at most once.
Without(d) ==
  IF \E i \in 1..Len(queue) : queue[i] = d
    THEN RemoveAt(queue, CHOOSE i \in 1..Len(queue) : queue[i] = d)
    ELSE queue
Held(t) == {batch[t][i].id : i \in 1..Len(batch[t])}

\* attempt_count only matters up to the threshold, so it saturates there.
Bump(n) == IF n < MaxAttempts THEN n + 1 ELSE n

-----------------------------------------------------------------------------
(* The audit hook.                                                         *)

\* fanOutAuditEvent: whom an event concerns is read once.  Bounds: one event in
\* flight, and none once the rows have run out.
AuditEvent ==
  /\ fanout = {} /\ \E d \in Deliveries : row[d].status = "free"
  /\ \E S \in SUBSET {s \in Subs : active[s]} : S # {} /\ fanout' = S
  /\ UNCHANGED <<row, queue, active, tickVars, retries, failures, history>>

\* Faulty variants of a definition stand just before it; the property named in
\* the comment must tell them apart.
\* next_retry_at left null, which the claim's query skips: PendingIsProcessed.
EnqueueDeliveryUndated(s) ==
  /\ s \in fanout
  /\ fanout' = fanout \ {s}
  /\ \E d \in Deliveries :
       /\ row[d].status = "free"
       /\ row' = [row EXCEPT ![d] = [status |-> "pending", sub |-> s,
                                     attempts |-> 0, next |-> "null"]]
  /\ UNCHANGED <<queue, active, tickVars, retries, failures, history>>

EnqueueDelivery(s) ==
  /\ s \in fanout
  /\ fanout' = fanout \ {s}
  /\ \E d \in Deliveries :
       /\ row[d].status = "free"
       /\ row' = [row EXCEPT ![d] = [status |-> "pending", sub |-> s,
                                     attempts |-> 0, next |-> "now"]]
       /\ queue' = Append(queue, d)
  /\ UNCHANGED <<active, tickVars, retries, failures, history>>

-----------------------------------------------------------------------------
(* The worker.                                                             *)

Enter(t, p) == phase' = [phase EXCEPT ![t] = p]

Decide(t, o) == outcome' = [outcome EXCEPT ![t] = o] /\ Enter(t, "marking")

\* On to the next row of the batch, or the end of the tick.
Advance(t) ==
  /\ batch' = [batch EXCEPT ![t] = Tail(@)]
  /\ outcome' = [outcome EXCEPT ![t] = "none"]
  /\ Enter(t, IF Len(batch[t]) = 1 THEN "idle" ELSE "next")

\* claimDueDeliveries: a read and nothing else.  Whatever makes a row pending
\* sets next_retry_at to the present, so every pending row is due.
Claim(t) ==
  /\ phase[t] = "idle" /\ queue # <<>>
  /\ LET n == IF Len(queue) < BatchSize THEN Len(queue) ELSE BatchSize IN
     /\ batch' = [batch EXCEPT ![t] =
                    [i \in 1..n |-> [id |-> queue[i], attempts |-> row[queue[i]].attempts]]]
     /\ shared' = shared \cup
          ({queue[i] : i \in 1..n} \cap UNION {Held(u) : u \in Ticks \ {t}})
  /\ Enter(t, "next")
  /\ UNCHANGED <<row, queue, active, fanout, outcome, retries, failures,
                 retried, rearmed>>

current(t) == Head(batch[t])
sub(t) == row[current(t).id].sub

LookUp(t) ==
  /\ phase[t] = "next"
  /\ IF active[sub(t)] THEN Enter(t, "posting") /\ UNCHANGED outcome
                       ELSE Decide(t, "inactive")
  /\ UNCHANGED <<row, queue, active, fanout, batch, retries, failures, history>>

\* attemptDelivery: 2xx, a permanent 4xx, or anything else, timeouts included.
Post(t) ==
  /\ phase[t] = "posting"
  /\ \E answer \in {"ok", "permanent", "transient"} :
       Decide(t, CASE answer = "ok" -> "delivered"
                   [] answer = "permanent" -> "dead"
                   [] OTHER -> IF current(t).attempts + 1 >= MaxAttempts
                               THEN "dead" ELSE "failed")
  /\ UNCHANGED <<row, queue, active, fanout, batch, retries, failures, history>>

Stored(o) == IF o = "inactive" THEN "failed" ELSE o

NextRetry(o) ==
  CASE o = "failed" -> "backoff" [] o = "inactive" -> "year" [] OTHER -> "null"

Marked(r, o) ==
  [status |-> Stored(o), sub |-> r.sub, attempts |-> Bump(r.attempts), next |-> NextRetry(o)]

\* Forgets what follows a dead letter: DeadLetterDisables.
MarkOnly(t) ==
  /\ phase[t] = "marking"
  /\ LET d == current(t).id IN
     /\ row' = [row EXCEPT ![d] = Marked(row[d], outcome[t])]
     /\ queue' = Without(d)
  /\ Advance(t)
  /\ UNCHANGED <<active, fanout, retries, failures, history>>

\* markDelivery...: an UPDATE by id, whatever the row says by now.  The
\* recordDeliveryResult that follows writes only what the admin list shows; a
\* failure of it is no different from one of the await after it.
Mark(t) ==
  /\ phase[t] = "marking"
  /\ LET d == current(t).id IN
     /\ row' = [row EXCEPT ![d] = Marked(row[d], outcome[t])]
     /\ queue' = Without(d)
  /\ IF outcome[t] = "dead" THEN Enter(t, "disabling") /\ UNCHANGED <<batch, outcome>>
                            ELSE Advance(t)
  /\ UNCHANGED <<active, fanout, retries, failures, history>>

Disable(t) ==
  /\ phase[t] = "disabling"
  /\ active' = [active EXCEPT ![sub(t)] = FALSE]
  /\ Advance(t)
  /\ UNCHANGED <<row, queue, fanout, retries, failures, history>>

WorkerStep(t) ==
  LookUp(t) \/ Post(t) \/ Mark(t) \/ Disable(t)

-----------------------------------------------------------------------------
(* Admin routes, failures, time.                                           *)

\* retryDelivery: no look at the status, and the attempts stay spent.
RetryDelivery(d) ==
  /\ retries < MaxRetries /\ row[d].status # "free"
  /\ retries' = retries + 1
  /\ row' = [row EXCEPT ![d] = [@ EXCEPT !.status = "pending", !.next = "now"]]
  /\ queue' = Append(Without(d), d)
  /\ retried' = retried \cup {d}
  /\ UNCHANGED <<active, fanout, tickVars, failures, shared, rearmed>>

DisableSubscription(s) ==
  /\ active' = [active EXCEPT ![s] = FALSE]
  /\ UNCHANGED <<row, queue, fanout, tickVars, retries, failures, history>>

ReArmSubscription(s) ==
  /\ active' = [active EXCEPT ![s] = TRUE]
  /\ rearmed' = rearmed \cup {s}
  /\ UNCHANGED <<row, queue, fanout, tickVars, retries, failures, shared, retried>>

BackoffPasses(d) ==
  /\ row[d].next = "backoff"
  /\ row' = [row EXCEPT ![d].next = "now"]
  /\ UNCHANGED <<queue, active, fanout, tickVars, retries, failures, history>>

\* An error after the POST counts as one of the POST: TerminalStays.
AbandonTickAsFailed(t) ==
  /\ phase[t] \notin {"idle", "posting"} /\ failures < MaxFailures
  /\ failures' = failures + 1
  /\ Decide(t, "failed")
  /\ UNCHANGED <<row, queue, active, fanout, batch, retries, history>>

\* A statement fails: the rest of the batch is abandoned.  (attemptDelivery
\* catches whatever its POST throws.)
AbandonTick(t) ==
  /\ phase[t] \notin {"idle", "posting"} /\ failures < MaxFailures
  /\ failures' = failures + 1
  /\ phase' = [phase EXCEPT ![t] = "idle"]
  /\ batch' = [batch EXCEPT ![t] = <<>>]
  /\ outcome' = [outcome EXCEPT ![t] = "none"]
  /\ UNCHANGED <<row, queue, active, fanout, retries, history>>

\* One insert of a fan-out fails, and the others are none the wiser.
EnqueueFails(s) ==
  /\ s \in fanout /\ failures < MaxFailures
  /\ failures' = failures + 1
  /\ fanout' = fanout \ {s}
  /\ UNCHANGED <<row, queue, active, tickVars, retries, history>>

\* A death of the process, or a shutdown, which waits for no tick.
Restart ==
  /\ failures < MaxFailures
  /\ failures' = failures + 1
  /\ fanout' = {}
  /\ phase' = [t \in Ticks |-> "idle"]
  /\ batch' = [t \in Ticks |-> <<>>]
  /\ outcome' = [t \in Ticks |-> "none"]
  /\ UNCHANGED <<row, queue, active, retries, history>>

-----------------------------------------------------------------------------
Next ==
  \/ AuditEvent
  \/ \E s \in Subs : \/ EnqueueDelivery(s) \/ EnqueueFails(s)
                     \/ DisableSubscription(s) \/ ReArmSubscription(s)
  \/ \E t \in Ticks : Claim(t) \/ WorkerStep(t) \/ AbandonTick(t)
  \/ \E d \in Deliveries : RetryDelivery(d) \/ BackoffPasses(d)
  \/ Restart

Spec == Init /\ [][Next]_vars

\* The interval keeps firing, awaits resolve (a POST times out after ten
\* seconds) and time passes.  Nothing is assumed of events, admins, failures
\* or what a receiver answers.
Fairness ==
  /\ WF_vars(\E t \in Ticks : Claim(t))
  /\ \A t \in Ticks : WF_vars(WorkerStep(t))
  /\ \A d \in Deliveries : WF_vars(BackoffPasses(d))

FairSpec == Spec /\ Fairness

-----------------------------------------------------------------------------
(* Properties.                                                             *)

TypeOK ==
  /\ row \in [Deliveries -> Row]
  /\ queue \in Seq(Deliveries)
  /\ active \in [Subs -> BOOLEAN]
  /\ fanout \subseteq Subs
  /\ phase \in [Ticks -> Phases]
  /\ batch \in [Ticks -> Seq(Read)]
  /\ outcome \in [Ticks -> Outcomes]
  /\ retries \in 0..MaxRetries /\ failures \in 0..MaxFailures
  /\ shared \subseteq Deliveries /\ retried \subseteq Deliveries
  /\ rearmed \subseteq Subs

\* delivered and dead are final for a row that no admin retried and that was
\* never in two ticks' batches at once.
TerminalStays ==
  [][\A d \in Deliveries \ (shared' \cup retried') :
       row[d].status \in {"delivered", "dead"} => row'[d].status = row[d].status]_vars

\* A dead letter has disabled its subscription, or a tick is about to, unless
\* an admin has re-armed it or something failed in between.
DeadLetterDisables ==
  \A d \in Deliveries : row[d].status = "dead" =>
    \/ ~active[row[d].sub]
    \/ row[d].sub \in rearmed
    \/ \E t \in Ticks : phase[t] = "disabling" /\ sub(t) = row[d].sub
    \/ failures > 0

\* A pending row is processed, whatever ticks were abandoned before and
\* whatever else is queued.
PendingIsProcessed ==
  \A d \in Deliveries : row[d].status = "pending" ~> row[d].status # "pending"

\* webhooks/db.ts: markDeliveryFailed marks a delivery "as transiently failed
\* (will retry)".
FailedIsRetried ==
  \A d \in Deliveries :
    row[d].status = "failed" /\ row[d].next = "backoff" ~> row[d].status # "failed"

=============================================================================
