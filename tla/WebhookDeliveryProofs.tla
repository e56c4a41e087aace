------------------------ MODULE WebhookDeliveryProofs ------------------------
(***************************************************************************)
(* Theorems about WebhookDelivery: type correctness, that a dead letter    *)
(* disables its subscription, and that settled rows stay settled, for any  *)
(* number of subscriptions, rows and overlapping ticks, any batch size and *)
(* number of attempts, and any admin clicks and failures.                  *)
(***************************************************************************)
EXTENDS WebhookDelivery, SequenceTheorems, TLAPS

-----------------------------------------------------------------------------
(* Sequences.                                                              *)

\* What is left of a sequence without one of its elements.
LEMMA RemoveAtFacts ==
  ASSUME NEW X, NEW s \in Seq(X), NEW i \in 1..Len(s)
  PROVE  /\ RemoveAt(s, i) \in Seq(X)
         /\ Len(RemoveAt(s, i)) = Len(s) - 1
         /\ \A k \in 1..(Len(s) - 1) :
              RemoveAt(s, i)[k] = IF k < i THEN s[k] ELSE s[k + 1]
<1> DEFINE a == SubSeq(s, 1, i - 1)
           b == SubSeq(s, i + 1, Len(s))
<1>1. a \in Seq(X) /\ Len(a) = i - 1 /\ \A k \in 1..(i - 1) : a[k] = s[k]
  <2>1. \A k \in 1..(i - 1) : s[k] \in X OBVIOUS
  <2>2. Len(a) = IF 1 <= i - 1 THEN (i - 1) - 1 + 1 ELSE 0 BY <2>1, SubSeqProperties
  <2> QED BY <2>1, <2>2, SubSeqProperties
<1>2. b \in Seq(X) /\ Len(b) = Len(s) - i /\ \A k \in 1..(Len(s) - i) : b[k] = s[k + i]
  <2>1. \A k \in (i + 1)..Len(s) : s[k] \in X OBVIOUS
  <2>2. Len(b) = IF i + 1 <= Len(s) THEN Len(s) - (i + 1) + 1 ELSE 0 BY <2>1, SubSeqProperties
  <2> QED BY <2>1, <2>2, SubSeqProperties
<1>3. RemoveAt(s, i) = a \o b BY DEF RemoveAt
<1> HIDE DEF a, b
<1>4. /\ a \o b \in Seq(X) /\ Len(a \o b) = Len(a) + Len(b)
      /\ \A k \in 1..(Len(a) + Len(b)) :
           (a \o b)[k] = IF k <= Len(a) THEN a[k] ELSE b[k - Len(a)]
  BY <1>1, <1>2, ConcatProperties
<1>5. ASSUME NEW k \in 1..(Len(s) - 1)
      PROVE  RemoveAt(s, i)[k] = IF k < i THEN s[k] ELSE s[k + 1]
  <2>1. CASE k < i BY <2>1, <1>1, <1>2, <1>3, <1>4
  <2>2. CASE ~(k < i)
    <3>1. k - (i - 1) \in 1..(Len(s) - i) BY <2>2
    <3>2. b[k - (i - 1)] = s[k - (i - 1) + i] BY <3>1, <1>2
    <3> QED BY <2>2, <3>1, <3>2, <1>1, <1>2, <1>3, <1>4
  <2> QED BY <2>1, <2>2
<1> QED BY <1>1, <1>2, <1>3, <1>4, <1>5

\* The queue without one row: the same rows in the same order but for that one,
\* which is gone if it was there once.
LEMMA WithoutFacts ==
  ASSUME queue \in Seq(Deliveries), NEW d
  PROVE  /\ Without(d) \in Seq(Deliveries)
         /\ \A k \in 1..Len(Without(d)) : \E i \in 1..Len(queue) : Without(d)[k] = queue[i]
         /\ (\A i, j \in 1..Len(queue) : queue[i] = queue[j] => i = j) =>
              /\ \A k, l \in 1..Len(Without(d)) : Without(d)[k] = Without(d)[l] => k = l
              /\ \A k \in 1..Len(Without(d)) : Without(d)[k] # d
<1>1. CASE \E i \in 1..Len(queue) : queue[i] = d
  <2>1. PICK i \in 1..Len(queue) :
          i = (CHOOSE j \in 1..Len(queue) : queue[j] = d) /\ queue[i] = d
    BY <1>1
  <2>2. Without(d) = RemoveAt(queue, i) BY <1>1, <2>1 DEF Without
  <2>3. /\ Without(d) \in Seq(Deliveries) /\ Len(Without(d)) = Len(queue) - 1
        /\ \A k \in 1..(Len(queue) - 1) :
             Without(d)[k] = IF k < i THEN queue[k] ELSE queue[k + 1]
    BY <2>2, RemoveAtFacts
  <2>4. Len(queue) \in Nat OBVIOUS
  <2>5. \A k \in 1..(Len(queue) - 1) : k \in 1..Len(queue) /\ k + 1 \in 1..Len(queue) BY <2>4
  <2>6. \A k \in 1..Len(Without(d)) : \E j \in 1..Len(queue) : Without(d)[k] = queue[j]
    BY <2>3, <2>5
  <2>7. ASSUME \A m, j \in 1..Len(queue) : queue[m] = queue[j] => m = j,
               NEW k \in 1..Len(Without(d))
        PROVE  Without(d)[k] # d
    <3>1. CASE k < i BY <3>1, <2>1, <2>3, <2>5, <2>7
    <3>2. CASE ~(k < i) BY <3>2, <2>1, <2>3, <2>5, <2>7
    <3> QED BY <3>1, <3>2
  <2>8. ASSUME \A m, j \in 1..Len(queue) : queue[m] = queue[j] => m = j,
               NEW k \in 1..Len(Without(d)), NEW l \in 1..Len(Without(d)),
               Without(d)[k] = Without(d)[l]
        PROVE  k = l
    <3>1. k \in 1..(Len(queue) - 1) /\ l \in 1..(Len(queue) - 1) BY <2>3
    <3>2. CASE k < i /\ l < i BY <3>1, <3>2, <2>3, <2>5, <2>8
    <3>3. CASE k < i /\ ~(l < i)
      <4>1. queue[k] = queue[l + 1] BY <3>1, <3>3, <2>3, <2>8
      <4>2. k = l + 1 BY <3>1, <4>1, <2>5, <2>8
      <4> QED BY <3>1, <3>3, <4>2
    <3>4. CASE ~(k < i) /\ l < i
      <4>1. queue[k + 1] = queue[l] BY <3>1, <3>4, <2>3, <2>8
      <4>2. k + 1 = l BY <3>1, <4>1, <2>5, <2>8
      <4> QED BY <3>1, <3>4, <4>2
    <3>5. CASE ~(k < i) /\ ~(l < i)
      <4>1. queue[k + 1] = queue[l + 1] BY <3>1, <3>5, <2>3, <2>8
      <4>2. k + 1 = l + 1 BY <3>1, <4>1, <2>5, <2>8
      <4> QED BY <3>1, <4>2
    <3> QED BY <3>2, <3>3, <3>4, <3>5
  <2> QED BY <2>3, <2>6, <2>7, <2>8
<1>2. CASE ~\E i \in 1..Len(queue) : queue[i] = d
  <2>1. Without(d) = queue BY <1>2 DEF Without
  <2> QED BY <1>2, <2>1
<1> QED BY <1>1, <1>2

\* The rest of a batch.
LEMMA TailFacts ==
  ASSUME NEW X, NEW s \in Seq(X), s # <<>>
  PROVE  /\ Tail(s) \in Seq(X) /\ Head(s) = s[1] /\ Len(s) \in Nat \ {0}
         /\ Len(Tail(s)) = Len(s) - 1
         /\ \A k \in 1..(Len(s) - 1) : Tail(s)[k] = s[k + 1] /\ k + 1 \in 1..Len(s)
         /\ Len(s) = 1 <=> Tail(s) = <<>>
<1>1. Len(s) \in Nat \ {0} BY EmptySeq
<1>2. Tail(s) \in Seq(X) /\ Head(s) = s[1] /\ Len(Tail(s)) = Len(s) - 1
  BY <1>1, HeadTailProperties
<1>3. \A k \in 1..(Len(s) - 1) : Tail(s)[k] = s[k + 1] /\ k + 1 \in 1..Len(s)
  BY <1>1, HeadTailProperties
<1>4. Len(s) = 1 => Tail(s) = <<>>
  <2>1. \A q \in Seq(X) : q # <<>> => Len(q) \in Nat \ {0} BY EmptySeq
  <2>2. Tail(s) # <<>> => Len(Tail(s)) # 0 BY <2>1, <1>2
  <2> QED BY <2>2, <1>2
<1>5. Tail(s) = <<>> => Len(s) = 1 BY <1>1, <1>2, EmptySeq
<1> QED BY <1>1, <1>2, <1>3, <1>4, <1>5

-----------------------------------------------------------------------------
(* Types.                                                                  *)

\* A tick is idle when its batch is through, and about to write a verdict only
\* when it has one.
Busy ==
  \A t \in Ticks : /\ phase[t] = "idle" <=> batch[t] = <<>>
                   /\ phase[t] = "marking" => outcome[t] # "none"

TypeInv == TypeOK /\ Busy

\* TypeOK by parts: the rows and subscriptions, the ticks, the history.
RowsOK ==
  /\ row \in [Deliveries -> Row] /\ queue \in Seq(Deliveries)
  /\ active \in [Subs -> BOOLEAN] /\ fanout \subseteq Subs
  /\ retries \in 0..MaxRetries /\ failures \in 0..MaxFailures
  /\ retried \subseteq Deliveries /\ rearmed \subseteq Subs
TicksOK ==
  /\ phase \in [Ticks -> Phases] /\ batch \in [Ticks -> Seq(Read)]
  /\ outcome \in [Ticks -> Outcomes]
  /\ Busy

LEMMA TypeParts == TypeInv <=> RowsOK /\ TicksOK /\ shared \subseteq Deliveries
BY DEF TypeInv, TypeOK, RowsOK, TicksOK

LEMMA BumpType == ASSUME NEW n \in 0..MaxAttempts PROVE Bump(n) \in 0..MaxAttempts
BY WebhookAssumption DEF Bump

\* The row a busy tick is at.
LEMMA CurrentFacts ==
  ASSUME TicksOK, NEW t \in Ticks, phase[t] # "idle"
  PROVE  /\ batch[t] # <<>> /\ batch[t] \in Seq(Read) /\ 1 \in 1..Len(batch[t])
         /\ current(t) = batch[t][1] /\ current(t).id \in Deliveries
         /\ current(t).id \in Held(t)
<1>1. batch[t] # <<>> /\ batch[t] \in Seq(Read) BY DEF TicksOK, Busy
<1>2. Head(batch[t]) = batch[t][1] /\ Len(batch[t]) \in Nat \ {0} BY <1>1, TailFacts
<1>3. batch[t][1] \in Read BY <1>1, <1>2
<1> QED BY <1>1, <1>2, <1>3 DEF current, Read, Held

\* What a claim reads: the first rows of the queue.
LEMMA ClaimFacts ==
  ASSUME RowsOK, TicksOK, NEW t \in Ticks, Claim(t)
  PROVE  /\ phase[t] = "idle" /\ phase' = [phase EXCEPT ![t] = "next"]
         /\ UNCHANGED <<row, queue, active, fanout, outcome, retries, failures, retried, rearmed>>
         /\ \A u \in Ticks \ {t} : batch'[u] = batch[u]
         /\ batch' \in [Ticks -> Seq(Read)] /\ batch'[t] # <<>>
         /\ Len(batch'[t]) \in 1..Len(queue)
         /\ \A i \in 1..Len(batch'[t]) :
              i \in 1..Len(queue) /\ batch'[t][i].id = queue[i]
         /\ shared \subseteq shared' /\ shared' \subseteq Deliveries \cup shared
         /\ \A i \in 1..Len(batch'[t]) : \A u \in Ticks \ {t} :
              queue[i] \in Held(u) => queue[i] \in shared'
<1>1. PICK n \in 1..Len(queue) :
        /\ batch' = [batch EXCEPT ![t] =
             [i \in 1..n |-> [id |-> queue[i], attempts |-> row[queue[i]].attempts]]]
        /\ shared' = shared \cup
             ({queue[i] : i \in 1..n} \cap UNION {Held(u) : u \in Ticks \ {t}})
  <2> DEFINE n == IF Len(queue) < BatchSize THEN Len(queue) ELSE BatchSize
  <2>1. queue # <<>> /\ queue \in Seq(Deliveries) BY DEF Claim, RowsOK
  <2>2. Len(queue) \in Nat \ {0} BY <2>1, EmptySeq
  <2>3. n \in 1..Len(queue) BY <2>2, WebhookAssumption
  <2> QED BY <2>3 DEF Claim
<1> DEFINE b == [i \in 1..n |-> [id |-> queue[i], attempts |-> row[queue[i]].attempts]]
<1>2. Len(queue) \in Nat /\ \A i \in 1..Len(queue) : queue[i] \in Deliveries BY DEF RowsOK
<1>3. n \in Nat /\ \A i \in 1..n : i \in 1..Len(queue) BY <1>2
<1>4. \A i \in 1..n : b[i] \in Read BY <1>2, <1>3 DEF RowsOK, Row, Read
<1>5. b \in Seq(Read) BY <1>3, <1>4
<1>6. Len(b) = n BY <1>3
<1>7. batch'[t] = b BY <1>1 DEF TicksOK
<1>8. \A i \in 1..n : b[i].id = queue[i] OBVIOUS
<1> HIDE DEF b
<1>9. b # <<>> BY <1>5, <1>6, EmptySeq
<1>10. batch' \in [Ticks -> Seq(Read)] /\ \A u \in Ticks \ {t} : batch'[u] = batch[u]
  BY <1>1, <1>5, <1>7 DEF TicksOK, b
<1>11. shared \subseteq shared' /\ shared' \subseteq Deliveries \cup shared
  BY <1>1, <1>2, <1>3
<1>12. \A i \in 1..n : \A u \in Ticks \ {t} : queue[i] \in Held(u) => queue[i] \in shared'
  BY <1>1
<1>13. /\ phase[t] = "idle" /\ phase' = [phase EXCEPT ![t] = "next"]
       /\ UNCHANGED <<row, queue, active, fanout, outcome, retries, failures, retried, rearmed>>
  BY DEF Claim, Enter
<1> QED BY <1>3, <1>6, <1>7, <1>8, <1>9, <1>10, <1>11, <1>12, <1>13

\* The end of a row: the next one, or the end of the tick.
LEMMA AdvanceFacts ==
  ASSUME TicksOK, NEW t \in Ticks, phase[t] # "idle", Advance(t)
  PROVE  /\ TicksOK' /\ batch' = [batch EXCEPT ![t] = Tail(batch[t])]
         /\ phase'[t] \in {"idle", "next"} /\ \A u \in Ticks \ {t} : phase'[u] = phase[u]
<1>1. batch[t] # <<>> /\ batch[t] \in Seq(Read) BY CurrentFacts
<1>2. Tail(batch[t]) \in Seq(Read) /\ (Len(batch[t]) = 1 <=> Tail(batch[t]) = <<>>)
  BY <1>1, TailFacts
<1>3. /\ batch' = [batch EXCEPT ![t] = Tail(batch[t])]
      /\ outcome' = [outcome EXCEPT ![t] = "none"]
      /\ phase' = [phase EXCEPT ![t] = IF Len(batch[t]) = 1 THEN "idle" ELSE "next"]
  BY DEF Advance, Enter
<1>4. batch' \in [Ticks -> Seq(Read)] BY <1>2, <1>3 DEF TicksOK
<1>5. phase' \in [Ticks -> Phases] /\ outcome' \in [Ticks -> Outcomes]
  BY <1>3 DEF TicksOK, Phases, Outcomes
<1>6. Busy' BY <1>2, <1>3 DEF TicksOK, Busy
<1> QED BY <1>3, <1>4, <1>5, <1>6 DEF TicksOK

LEMMA InitType == Init => TypeInv
<1> SUFFICES ASSUME Init PROVE TypeInv OBVIOUS
<1>1. RowsOK BY WebhookAssumption, EmptySeq DEF Init, RowsOK, Row, Statuses
<1>2. TicksOK BY EmptySeq DEF Init, TicksOK, Busy, Phases, Outcomes
<1> QED BY <1>1, <1>2, TypeParts DEF Init

LEMMA NextRows ==
  ASSUME TypeInv, [Next]_vars
  PROVE  RowsOK'
<1> RowsOK /\ TicksOK BY TypeParts
<1> USE WebhookAssumption DEF RowsOK, tickVars, history
<1>1. CASE AuditEvent BY <1>1 DEF AuditEvent
<1>2. ASSUME NEW s \in Subs, EnqueueDelivery(s) PROVE RowsOK'
  <2>1. PICK d \in Deliveries :
          /\ row' = [row EXCEPT ![d] = [status |-> "pending", sub |-> s,
                                        attempts |-> 0, next |-> "now"]]
          /\ queue' = Append(queue, d)
    BY <1>2 DEF EnqueueDelivery
  <2>2. [status |-> "pending", sub |-> s, attempts |-> 0, next |-> "now"] \in Row
    BY DEF Row, Statuses
  <2>3. row' \in [Deliveries -> Row] BY <2>1, <2>2
  <2>4. queue' \in Seq(Deliveries) BY <2>1, AppendProperties
  <2> QED BY <1>2, <2>3, <2>4 DEF EnqueueDelivery
<1>3. ASSUME NEW s \in Subs, EnqueueFails(s) \/ DisableSubscription(s) \/ ReArmSubscription(s)
      PROVE  RowsOK'
  <2>1. CASE EnqueueFails(s)
    <3>1. failures' \in 0..MaxFailures BY <2>1 DEF EnqueueFails
    <3> QED BY <2>1, <3>1 DEF EnqueueFails
  <2>2. CASE DisableSubscription(s) BY <2>2 DEF DisableSubscription
  <2>3. CASE ReArmSubscription(s) BY <2>3 DEF ReArmSubscription
  <2> QED BY <1>3, <2>1, <2>2, <2>3
<1>4. ASSUME NEW t \in Ticks, Claim(t) PROVE RowsOK' BY <1>4, ClaimFacts
<1>5. ASSUME NEW t \in Ticks, LookUp(t) \/ Post(t) PROVE RowsOK'
  BY <1>5 DEF LookUp, Post
<1>6. ASSUME NEW t \in Ticks, Mark(t) PROVE RowsOK'
  <2> DEFINE d == current(t).id
  <2>1. d \in Deliveries BY <1>6, CurrentFacts DEF Mark
  <2>2. outcome[t] \in Outcomes \ {"none"} BY <1>6 DEF Mark, TicksOK, Busy
  <2>3. Stored(outcome[t]) \in Statuses BY <2>2 DEF Stored, Outcomes, Statuses
  <2>4. NextRetry(outcome[t]) \in {"now", "backoff", "year", "null"} BY DEF NextRetry
  <2>5. row[d] \in Row BY <2>1
  <2>6. Bump(row[d].attempts) \in 0..MaxAttempts BY <2>5, BumpType DEF Row
  <2>7. Marked(row[d], outcome[t]) \in Row BY <2>3, <2>4, <2>5, <2>6 DEF Marked, Row
  <2>8. row' \in [Deliveries -> Row]
    <3>1. row' = [row EXCEPT ![d] = Marked(row[d], outcome[t])] BY <1>6 DEF Mark
    <3> QED BY <2>7, <3>1
  <2>9. queue' \in Seq(Deliveries) BY <1>6, WithoutFacts DEF Mark
  <2> QED BY <1>6, <2>8, <2>9 DEF Mark
<1>7. ASSUME NEW t \in Ticks, Disable(t) PROVE RowsOK' BY <1>7 DEF Disable
<1>8. ASSUME NEW t \in Ticks, AbandonTick(t) PROVE RowsOK' BY <1>8 DEF AbandonTick
<1>9. ASSUME NEW d \in Deliveries, RetryDelivery(d) PROVE RowsOK'
  <2>a. row' = [row EXCEPT ![d] = [@ EXCEPT !.status = "pending", !.next = "now"]]
    BY <1>9 DEF RetryDelivery
  <2>b. row[d] \in Row OBVIOUS
  <2>1. row' \in [Deliveries -> Row] BY <2>a, <2>b DEF Row, Statuses
  <2>2. queue' \in Seq(Deliveries) BY <1>9, WithoutFacts, AppendProperties DEF RetryDelivery
  <2> QED BY <1>9, <2>1, <2>2 DEF RetryDelivery
<1>10. ASSUME NEW d \in Deliveries, BackoffPasses(d) PROVE RowsOK'
  BY <1>10 DEF BackoffPasses, Row
<1>11. CASE Restart BY <1>11 DEF Restart
<1>12. CASE UNCHANGED vars BY <1>12 DEF vars
<1> QED BY <1>1, <1>2, <1>3, <1>4, <1>5, <1>6, <1>7, <1>8, <1>9, <1>10, <1>11, <1>12
        DEF Next, WorkerStep

LEMMA NextTicks ==
  ASSUME TypeInv, [Next]_vars
  PROVE  TicksOK' /\ shared' \subseteq Deliveries
<1> RowsOK /\ TicksOK /\ shared \subseteq Deliveries BY TypeParts
<1> USE DEF TicksOK, Busy, Phases, Outcomes, tickVars, history
<1>1. CASE UNCHANGED <<tickVars, shared>> BY <1>1
<1>2. ASSUME NEW t \in Ticks, Claim(t) PROVE TicksOK' /\ shared' \subseteq Deliveries
  <2> HIDE DEF Busy, TicksOK
  <2>1. phase' \in [Ticks -> Phases] BY <1>2, ClaimFacts DEF TicksOK
  <2>2. batch' \in [Ticks -> Seq(Read)] BY <1>2, ClaimFacts
  <2>3. outcome' \in [Ticks -> Outcomes] BY <1>2, ClaimFacts DEF TicksOK
  <2>4. Busy' BY <1>2, ClaimFacts DEF Busy, TicksOK
  <2>5. shared' \subseteq Deliveries BY <1>2, ClaimFacts
  <2> QED BY <2>1, <2>2, <2>3, <2>4, <2>5 DEF TicksOK
<1>3. ASSUME NEW t \in Ticks, LookUp(t) PROVE TicksOK' /\ shared' \subseteq Deliveries
  BY <1>3 DEF LookUp, Decide, Enter
<1>4. ASSUME NEW t \in Ticks, Post(t) PROVE TicksOK' /\ shared' \subseteq Deliveries
  <2>1. PICK o \in {"delivered", "dead", "failed"} : Decide(t, o) BY <1>4 DEF Post
  <2> QED BY <1>4, <2>1 DEF Post, Decide, Enter
<1>5. ASSUME NEW t \in Ticks, Mark(t) PROVE TicksOK' /\ shared' \subseteq Deliveries
  <2>1. CASE outcome[t] = "dead" BY <1>5, <2>1 DEF Mark, Enter
  <2>2. CASE outcome[t] # "dead" BY <1>5, <2>2, AdvanceFacts DEF Mark
  <2> QED BY <2>1, <2>2
<1>6. ASSUME NEW t \in Ticks, Disable(t) PROVE TicksOK' /\ shared' \subseteq Deliveries
  BY <1>6, AdvanceFacts DEF Disable
<1>7. ASSUME NEW t \in Ticks, AbandonTick(t) PROVE TicksOK' /\ shared' \subseteq Deliveries
  BY <1>7, EmptySeq DEF AbandonTick
<1>8. CASE Restart BY <1>8, EmptySeq DEF Restart
<1> HIDE DEF TicksOK, Busy, Phases, Outcomes
<1>9. CASE UNCHANGED vars BY <1>9, <1>1 DEF vars
<1> QED BY <1>1, <1>2, <1>3, <1>4, <1>5, <1>6, <1>7, <1>8, <1>9
        DEF Next, WorkerStep, AuditEvent, EnqueueDelivery, EnqueueFails, DisableSubscription,
            ReArmSubscription, RetryDelivery, BackoffPasses

LEMMA NextType == TypeInv /\ [Next]_vars => TypeInv'
<1> SUFFICES ASSUME TypeInv, [Next]_vars PROVE TypeInv' OBVIOUS
<1>1. RowsOK' /\ TicksOK' /\ shared' \subseteq Deliveries BY NextRows, NextTicks
<1> QED BY <1>1 DEF TypeInv, TypeOK, RowsOK, TicksOK

\* Every reachable state is well typed.
THEOREM DeliveryTypeOK == Spec => []TypeOK
<1>1. TypeInv => TypeOK BY DEF TypeInv
<1> QED BY InitType, NextType, <1>1, PTL DEF Spec

-----------------------------------------------------------------------------
(* What a tick holds.                                                      *)

\* The queue lists pending rows, each once.
Queued ==
  /\ \A i \in 1..Len(queue) : row[queue[i]].status = "pending"
  /\ \A i, j \in 1..Len(queue) : queue[i] = queue[j] => i = j

\* A row that is in a batch has been inserted, and one that has been inserted
\* belongs to a subscription.
Inserted ==
  /\ \A d \in Deliveries : row[d].status # "free" => row[d].sub \in Subs
  /\ \A t \in Ticks : \A i \in 1..Len(batch[t]) : row[batch[t][i].id].status # "free"

\* A batch lists a row once; two ticks hold only shared rows; and what a tick
\* has still to mark is pending, but for shared and retried rows.
HeldOnce ==
  \A t \in Ticks : \A i, j \in 1..Len(batch[t]) : batch[t][i].id = batch[t][j].id => i = j
HeldShared ==
  \A t, u \in Ticks : t # u => Held(t) \cap Held(u) \subseteq shared
Unmarked(t, i) == i # 1 \/ phase[t] # "disabling"
HeldPending ==
  \A t \in Ticks : \A i \in 1..Len(batch[t]) :
    LET d == batch[t][i].id
    IN  Unmarked(t, i) /\ d \notin shared \cup retried => row[d].status = "pending"

\* Every action but a claim leaves each tick with its batch, the rest of it, or
\* none of it.
LEMMA BatchesShrink ==
  ASSUME TypeInv, [Next]_vars, NEW t \in Ticks, ~\E u \in Ticks : Claim(u)
  PROVE  /\ \/ batch'[t] = batch[t]
            \/ batch'[t] = <<>>
            \/ phase[t] # "idle" /\ batch[t] # <<>> /\ batch'[t] = Tail(batch[t])
         /\ shared' = shared
<1> RowsOK /\ TicksOK BY TypeParts
<1> USE DEF tickVars, history
<1>1. CASE UNCHANGED <<batch, shared>> BY <1>1
<1>2. ASSUME NEW u \in Ticks, phase[u] # "idle", Advance(u), shared' = shared
      PROVE  /\ \/ batch'[t] = batch[t]
                \/ phase[t] # "idle" /\ batch[t] # <<>> /\ batch'[t] = Tail(batch[t])
             /\ shared' = shared
  <2>1. batch' = [batch EXCEPT ![u] = Tail(batch[u])] BY <1>2, AdvanceFacts
  <2>2. batch[u] # <<>> BY <1>2, CurrentFacts
  <2> QED BY <1>2, <2>1, <2>2 DEF TicksOK
<1>3. ASSUME NEW u \in Ticks, Mark(u)
      PROVE  UNCHANGED <<batch, shared>> \/ (phase[u] # "idle" /\ Advance(u) /\ shared' = shared)
  BY <1>3 DEF Mark
<1>4. ASSUME NEW u \in Ticks, Disable(u)
      PROVE  phase[u] # "idle" /\ Advance(u) /\ shared' = shared
  BY <1>4 DEF Disable
<1>5. ASSUME NEW u \in Ticks, AbandonTick(u)
      PROVE  (batch'[t] = batch[t] \/ batch'[t] = <<>>) /\ shared' = shared
  BY <1>5 DEF AbandonTick, TicksOK
<1>6. CASE Restart BY <1>6 DEF Restart
<1>7. ASSUME NEW u \in Ticks, LookUp(u) \/ Post(u) PROVE UNCHANGED <<batch, shared>>
  BY <1>7 DEF LookUp, Post
<1>8. CASE UNCHANGED vars BY <1>8, <1>1 DEF vars
<1> QED BY <1>1, <1>2, <1>3, <1>4, <1>5, <1>6, <1>7, <1>8
        DEF Next, WorkerStep, AuditEvent, EnqueueDelivery, EnqueueFails, DisableSubscription,
            ReArmSubscription, RetryDelivery, BackoffPasses

\* What is in a batch after such an action was in it before, one place further
\* back at most.
LEMMA ShrunkFrom ==
  ASSUME TypeInv, [Next]_vars, NEW t \in Ticks, ~\E u \in Ticks : Claim(u)
  PROVE  \E s \in {0, 1} :
           /\ \A i \in 1..Len(batch'[t]) : i + s \in 1..Len(batch[t]) /\ batch'[t][i] = batch[t][i + s]
           /\ s = 0 => batch'[t] = batch[t] \/ batch'[t] = <<>>
<1> TicksOK BY TypeParts
<1>0. batch[t] \in Seq(Read) BY DEF TicksOK
<1>1. CASE batch'[t] = batch[t]
  <2>1. \A i \in 1..Len(batch'[t]) : i + 0 \in 1..Len(batch[t]) /\ batch'[t][i] = batch[t][i + 0]
    BY <1>0, <1>1
  <2> QED BY <1>1, <2>1
<1>2. CASE batch'[t] = <<>>
  <2>1. 1..Len(batch'[t]) = {} BY <1>2, EmptySeq
  <2> QED BY <1>2, <2>1
<1>3. CASE batch[t] # <<>> /\ batch'[t] = Tail(batch[t])
  <2>1. \A i \in 1..Len(batch'[t]) : i + 1 \in 1..Len(batch[t]) /\ batch'[t][i] = batch[t][i + 1]
    BY <1>0, <1>3, TailFacts
  <2> QED BY <2>1
<1> QED BY <1>1, <1>2, <1>3, BatchesShrink

\* No action frees a row or moves one to another subscription.
LEMMA RowsStay ==
  ASSUME TypeInv, [Next]_vars, NEW d \in Deliveries, row[d].status # "free"
  PROVE  row'[d].status # "free" /\ row'[d].sub = row[d].sub
<1> RowsOK /\ TicksOK BY TypeParts
<1> USE DEF RowsOK, tickVars, history
<1>1. CASE UNCHANGED row BY <1>1
<1>2. ASSUME NEW s \in Subs, EnqueueDelivery(s)
      PROVE  row'[d].status # "free" /\ row'[d].sub = row[d].sub
  BY <1>2 DEF EnqueueDelivery
<1>3. ASSUME NEW t \in Ticks, Mark(t)
      PROVE  row'[d].status # "free" /\ row'[d].sub = row[d].sub
  <2>1. outcome[t] \in Outcomes \ {"none"} BY <1>3 DEF Mark, TicksOK, Busy
  <2>2. Stored(outcome[t]) # "free" BY <2>1 DEF Stored, Outcomes
  <2> DEFINE e == current(t).id
  <2>3. row' = [row EXCEPT ![e] = Marked(row[e], outcome[t])] BY <1>3 DEF Mark
  <2>4. e \in Deliveries BY <1>3, CurrentFacts DEF Mark
  <2>5. /\ Marked(row[e], outcome[t]).status # "free"
        /\ Marked(row[e], outcome[t]).sub = row[e].sub
    BY <2>2 DEF Marked
  <2> QED BY <2>3, <2>4, <2>5
<1>4. ASSUME NEW e \in Deliveries, RetryDelivery(e) \/ BackoffPasses(e)
      PROVE  row'[d].status # "free" /\ row'[d].sub = row[d].sub
  <2>1. row[d] \in Row /\ row[e] \in Row OBVIOUS
  <2>2. CASE RetryDelivery(e) BY <2>1, <2>2 DEF RetryDelivery, Row
  <2>3. CASE BackoffPasses(e) BY <2>1, <2>3 DEF BackoffPasses, Row
  <2> QED BY <1>4, <2>2, <2>3
<1>5. CASE UNCHANGED vars BY <1>5 DEF vars
<1> QED BY <1>1, <1>2, <1>3, <1>4, <1>5
        DEF Next, WorkerStep, AuditEvent, EnqueueFails, DisableSubscription,
            ReArmSubscription, Claim, LookUp, Post, Disable, AbandonTick, Restart

LEMMA QueuedStep ==
  ASSUME TypeInv, [Next]_vars, Queued, Inserted
  PROVE  Queued'
<1> RowsOK /\ TicksOK BY TypeParts
<1> USE DEF RowsOK, tickVars, history
<1>1. CASE UNCHANGED <<row, queue>> BY <1>1 DEF Queued
<1>2. ASSUME NEW s \in Subs, EnqueueDelivery(s) PROVE Queued'
  <2>1. PICK d \in Deliveries :
          /\ row[d].status = "free"
          /\ row' = [row EXCEPT ![d] = [status |-> "pending", sub |-> s,
                                        attempts |-> 0, next |-> "now"]]
          /\ queue' = Append(queue, d)
    BY <1>2 DEF EnqueueDelivery
  <2>2. /\ Len(queue') = Len(queue) + 1 /\ queue'[Len(queue) + 1] = d /\ Len(queue) \in Nat
        /\ \A i \in 1..Len(queue) : queue'[i] = queue[i] /\ queue[i] \in Deliveries
    BY <2>1, AppendProperties
  <2>3. \A i \in 1..Len(queue) : queue[i] # d BY <2>1 DEF Queued
  <2>4. \A e \in Deliveries \ {d} : row'[e] = row[e] BY <2>1
  <2>5. row'[d].status = "pending" BY <2>1
  <2> QED BY SMTT(20), <2>2, <2>3, <2>4, <2>5 DEF Queued
<1>3. ASSUME NEW t \in Ticks, Mark(t) PROVE Queued'
  <2> DEFINE d == current(t).id
  <2>1. row' = [row EXCEPT ![d] = Marked(row[d], outcome[t])] /\ queue' = Without(d)
    BY <1>3 DEF Mark
  <2>2. \A e \in Deliveries \ {d} : row'[e] = row[e] BY <2>1
  <2>3. /\ \A k \in 1..Len(queue') : \E i \in 1..Len(queue) : queue'[k] = queue[i]
        /\ \A k, l \in 1..Len(queue') : queue'[k] = queue'[l] => k = l
        /\ \A k \in 1..Len(queue') : queue'[k] # d
    BY <2>1, WithoutFacts DEF Queued
  <2>4. \A i \in 1..Len(queue) : queue[i] \in Deliveries OBVIOUS
  <2> QED BY <2>2, <2>3, <2>4 DEF Queued
<1>4. ASSUME NEW d \in Deliveries, RetryDelivery(d) PROVE Queued'
  <2> DEFINE rest == Without(d)
  <2>1. queue' = Append(rest, d) BY <1>4 DEF RetryDelivery
  <2>2. \A e \in Deliveries \ {d} : row'[e] = row[e] BY <1>4 DEF RetryDelivery
  <2>3. row'[d].status = "pending"
    <3>1. row[d] \in Row OBVIOUS
    <3> QED BY <1>4, <3>1 DEF RetryDelivery, Row
  <2>4. /\ rest \in Seq(Deliveries)
        /\ \A k \in 1..Len(rest) : \E i \in 1..Len(queue) : rest[k] = queue[i]
        /\ \A k, l \in 1..Len(rest) : rest[k] = rest[l] => k = l
        /\ \A k \in 1..Len(rest) : rest[k] # d
    BY WithoutFacts DEF Queued
  <2>5. \A i \in 1..Len(queue) : queue[i] \in Deliveries OBVIOUS
  <2>6. \A k \in 1..Len(rest) : rest[k] \in Deliveries /\ row[rest[k]].status = "pending"
    BY <2>4, <2>5 DEF Queued
  <2> HIDE DEF rest
  <2>7. /\ Len(queue') = Len(rest) + 1 /\ queue'[Len(rest) + 1] = d /\ Len(rest) \in Nat
        /\ \A k \in 1..Len(rest) : queue'[k] = rest[k]
    BY <2>1, <2>4, AppendProperties
  <2>8. \A k \in 1..Len(rest) : row'[rest[k]].status = "pending" BY <2>2, <2>4, <2>6
  <2>9. \A k \in 1..Len(queue') : k = Len(rest) + 1 \/ k \in 1..Len(rest) BY <2>7
  <2>10. \A k \in 1..Len(queue') : row'[queue'[k]].status = "pending" BY <2>3, <2>7, <2>8, <2>9
  <2>11. \A k, l \in 1..Len(queue') : queue'[k] = queue'[l] => k = l BY ZenonT(40), <2>4, <2>7, <2>9
  <2> QED BY <2>10, <2>11 DEF Queued
<1>5. ASSUME NEW d \in Deliveries, BackoffPasses(d) PROVE Queued'
  <2>1. queue' = queue BY <1>5 DEF BackoffPasses
  <2>2. \A e \in Deliveries : row'[e].status = row[e].status
    <3>1. \A e \in Deliveries : row[e] \in Row OBVIOUS
    <3> QED BY <1>5, <3>1 DEF BackoffPasses, Row
  <2>3. \A i \in 1..Len(queue) : queue[i] \in Deliveries OBVIOUS
  <2> QED BY <2>1, <2>2, <2>3 DEF Queued
<1>6. ASSUME NEW t \in Ticks, Claim(t) PROVE Queued'
  BY <1>1, <1>6 DEF Claim
<1>7. CASE UNCHANGED vars BY <1>1, <1>7 DEF vars
<1> QED BY <1>1, <1>2, <1>3, <1>4, <1>5, <1>6, <1>7
        DEF Next, WorkerStep, AuditEvent, EnqueueFails, DisableSubscription,
            ReArmSubscription, LookUp, Post, Disable, AbandonTick, Restart

LEMMA InsertedStep ==
  ASSUME TypeInv, [Next]_vars, Queued, Inserted
  PROVE  Inserted'
<1> RowsOK /\ TicksOK BY TypeParts
<1> USE DEF RowsOK, tickVars, history
<1>1. ASSUME NEW d \in Deliveries, row[d].status = "free", row'[d].status # "free"
      PROVE  row'[d].sub \in Subs
  <2>1. CASE UNCHANGED row BY <1>1, <2>1
  <2>2. ASSUME NEW s \in Subs, EnqueueDelivery(s) PROVE row'[d].sub \in Subs
    <3>1. PICK e \in Deliveries :
            row' = [row EXCEPT ![e] = [status |-> "pending", sub |-> s,
                                       attempts |-> 0, next |-> "now"]]
      BY <2>2 DEF EnqueueDelivery
    <3> QED BY <1>1, <3>1
  <2>3. ASSUME NEW t \in Ticks, Mark(t) PROVE row'[d].sub \in Subs
    <3>1. current(t).id # d BY <1>1, <2>3, CurrentFacts DEF Mark, Inserted
    <3> QED BY <1>1, <2>3, <3>1 DEF Mark
  <2>4. ASSUME NEW e \in Deliveries, RetryDelivery(e) PROVE row'[d].sub \in Subs
    BY <1>1, <2>4 DEF RetryDelivery
  <2>5. ASSUME NEW e \in Deliveries, BackoffPasses(e) PROVE row'[d].sub \in Subs
    <3>1. row[d] \in Row OBVIOUS
    <3> QED BY <1>1, <2>5, <3>1 DEF BackoffPasses, Row
  <2>6. CASE UNCHANGED vars BY <1>1, <2>6 DEF vars
  <2> QED BY <2>1, <2>2, <2>3, <2>4, <2>5, <2>6
          DEF Next, WorkerStep, AuditEvent, EnqueueFails, DisableSubscription,
              ReArmSubscription, Claim, LookUp, Post, Disable, AbandonTick, Restart
<1>2. \A d \in Deliveries : row'[d].status # "free" => row'[d].sub \in Subs
  BY <1>1, RowsStay DEF Inserted
<1>3. ASSUME NEW t \in Ticks, NEW i \in 1..Len(batch'[t])
      PROVE  row'[batch'[t][i].id].status # "free"
  <2>1. ASSUME NEW u \in Ticks, Claim(u) PROVE row'[batch'[t][i].id].status # "free"
    <3>1. row' = row BY <2>1 DEF Claim
    <3>2. CASE t = u BY <1>3, <2>1, <3>1, <3>2, ClaimFacts DEF Queued
    <3>3. CASE t # u
      <4>1. batch'[t] = batch[t] BY <2>1, <3>3, ClaimFacts
      <4> QED BY <1>3, <3>1, <4>1 DEF Inserted
    <3> QED BY <3>2, <3>3
  <2>2. CASE ~\E u \in Ticks : Claim(u)
    <3>1. PICK k \in 1..Len(batch[t]) : batch'[t][i] = batch[t][k] BY <1>3, <2>2, ShrunkFrom
    <3>2. batch[t][k] \in Read BY DEF TicksOK
    <3>3. batch[t][k].id \in Deliveries BY <3>2 DEF Read
    <3> QED BY <3>1, <3>3, RowsStay DEF Inserted
  <2> QED BY <2>1, <2>2
<1> QED BY <1>2, <1>3 DEF Inserted

LEMMA HeldStep ==
  ASSUME TypeInv, [Next]_vars, Queued, HeldOnce, HeldShared
  PROVE  HeldOnce' /\ HeldShared'
<1> RowsOK /\ TicksOK BY TypeParts
<1>1. ASSUME NEW c \in Ticks, Claim(c) PROVE HeldOnce' /\ HeldShared'
  <2>1. /\ \A u \in Ticks \ {c} : batch'[u] = batch[u]
        /\ \A i \in 1..Len(batch'[c]) : i \in 1..Len(queue) /\ batch'[c][i].id = queue[i]
        /\ shared \subseteq shared'
        /\ \A i \in 1..Len(batch'[c]) : \A u \in Ticks \ {c} :
             queue[i] \in Held(u) => queue[i] \in shared'
    BY <1>1, ClaimFacts
  <2>2. HeldOnce' BY <2>1 DEF HeldOnce, Queued
  <2>3. \A u \in Ticks \ {c} : Held(u)' = Held(u) BY <2>1 DEF Held
  <2>4. \A u \in Ticks \ {c} : Held(u) \cap Held(c)' \subseteq shared' BY <2>1 DEF Held
  <2>5. HeldShared' BY <2>1, <2>3, <2>4 DEF HeldShared
  <2> QED BY <2>2, <2>5
<1>2. CASE ~\E c \in Ticks : Claim(c)
  <2>1. ASSUME NEW t \in Ticks
        PROVE  Held(t)' \subseteq Held(t)
    <3>1. \A i \in 1..Len(batch'[t]) : \E k \in 1..Len(batch[t]) : batch'[t][i] = batch[t][k]
      BY <1>2, ShrunkFrom
    <3> QED BY <3>1 DEF Held
  <2>2. ASSUME NEW t \in Ticks, NEW i \in 1..Len(batch'[t]), NEW j \in 1..Len(batch'[t]),
               batch'[t][i].id = batch'[t][j].id
        PROVE  i = j
    <3>1. PICK s \in {0, 1} : \A k \in 1..Len(batch'[t]) :
            k + s \in 1..Len(batch[t]) /\ batch'[t][k] = batch[t][k + s]
      BY <1>2, ShrunkFrom
    <3>a. batch[t][i + s].id = batch[t][j + s].id BY <2>2, <3>1
    <3>b. i + s \in 1..Len(batch[t]) /\ j + s \in 1..Len(batch[t]) BY <3>1
    <3>2. i + s = j + s BY <3>a, <3>b DEF HeldOnce
    <3>3. i \in Int /\ j \in Int OBVIOUS
    <3> QED BY <3>2, <3>3
  <2>3. ASSUME NEW t \in Ticks PROVE shared' = shared BY <1>2, BatchesShrink
  <2>4. HeldOnce' BY <2>2 DEF HeldOnce
  <2>5. HeldShared' BY <2>1, <2>3 DEF HeldShared
  <2> QED BY <2>4, <2>5
<1> QED BY <1>1, <1>2

-----------------------------------------------------------------------------
(* Verdicts.                                                               *)

\* A row changes its status when a tick marks it, when it is inserted and when
\* an admin retries it.
LEMMA StatusChanges ==
  ASSUME TypeInv, [Next]_vars, NEW d \in Deliveries, row'[d].status # row[d].status
  PROVE  \/ \E t \in Ticks : Mark(t) /\ current(t).id = d
         \/ row'[d].status = "pending" /\ (row[d].status = "free" \/ d \in retried')
<1> RowsOK /\ TicksOK BY TypeParts
<1> USE DEF RowsOK, tickVars, history
<1>a. \A e \in Deliveries : row[e] \in Row OBVIOUS
<1>1. ASSUME NEW s \in Subs, EnqueueDelivery(s)
      PROVE  row'[d].status = "pending" /\ row[d].status = "free"
  <2>1. PICK e \in Deliveries :
          /\ row[e].status = "free"
          /\ row' = [row EXCEPT ![e] = [status |-> "pending", sub |-> s,
                                        attempts |-> 0, next |-> "now"]]
    BY <1>1 DEF EnqueueDelivery
  <2>2. d = e BY <2>1
  <2> QED BY <2>1, <2>2
<1>2. ASSUME NEW t \in Ticks, Mark(t) PROVE current(t).id = d
  BY <1>2 DEF Mark
<1>3. ASSUME NEW e \in Deliveries, RetryDelivery(e)
      PROVE  row'[d].status = "pending" /\ d \in retried'
  <2>1. d = e BY <1>3 DEF RetryDelivery
  <2> QED BY <1>3, <1>a, <2>1 DEF RetryDelivery, Row
<1>4. ASSUME NEW e \in Deliveries, BackoffPasses(e) PROVE FALSE
  BY <1>4, <1>a DEF BackoffPasses, Row
<1>5. row' # row OBVIOUS
<1>6. ~UNCHANGED vars BY <1>5 DEF vars
<1> QED BY <1>1, <1>2, <1>3, <1>4, <1>5, <1>6
        DEF Next, WorkerStep, AuditEvent, EnqueueFails, DisableSubscription,
            ReArmSubscription, Claim, LookUp, Post, Disable, AbandonTick, Restart

\* A tick that is about to disable a subscription goes on to, or something fails.
LEMMA DisablingGoesOn ==
  ASSUME TypeInv, [Next]_vars, NEW t \in Ticks, phase[t] = "disabling"
  PROVE  \/ phase'[t] = "disabling" /\ batch'[t] = batch[t]
         \/ Disable(t) /\ batch'[t] = Tail(batch[t])
         \/ failures' > 0 /\ batch'[t] = <<>>
<1> RowsOK /\ TicksOK BY TypeParts
<1> USE DEF tickVars, history
<1>1. CASE UNCHANGED <<phase, batch>> BY <1>1
<1>2. ASSUME NEW u \in Ticks, Claim(u)
      PROVE  phase'[t] = "disabling" /\ batch'[t] = batch[t]
  BY <1>2, ClaimFacts DEF TicksOK
<1>3. ASSUME NEW u \in Ticks, LookUp(u) \/ Post(u)
      PROVE  phase'[t] = "disabling" /\ batch'[t] = batch[t]
  <2>1. u # t BY <1>3 DEF LookUp, Post
  <2>2. \E p \in Phases : phase' = [phase EXCEPT ![u] = p]
    BY <1>3 DEF LookUp, Post, Decide, Enter, Phases
  <2> QED BY <1>3, <2>1, <2>2 DEF LookUp, Post, TicksOK
<1>4. ASSUME NEW u \in Ticks, Mark(u)
      PROVE  phase'[t] = "disabling" /\ batch'[t] = batch[t]
  <2>1. u # t BY <1>4 DEF Mark
  <2>2. CASE outcome[u] = "dead" BY <1>4, <2>1, <2>2 DEF Mark, Enter, TicksOK
  <2>3. CASE outcome[u] # "dead"
    <3>1. Advance(u) /\ phase[u] # "idle" BY <1>4, <2>3 DEF Mark
    <3> QED BY <2>1, <3>1, AdvanceFacts DEF TicksOK
  <2> QED BY <2>2, <2>3
<1>5. ASSUME NEW u \in Ticks, Disable(u), u # t
      PROVE  phase'[t] = "disabling" /\ batch'[t] = batch[t]
  BY <1>5, AdvanceFacts DEF Disable, TicksOK
<1>6. CASE Disable(t)
  <2>1. Advance(t) /\ phase[t] # "idle" BY <1>6 DEF Disable
  <2> QED BY <1>6, <2>1, AdvanceFacts DEF TicksOK
<1>7. ASSUME NEW u \in Ticks, AbandonTick(u)
      PROVE  \/ phase'[t] = "disabling" /\ batch'[t] = batch[t]
             \/ failures' > 0 /\ batch'[t] = <<>>
  BY <1>7, WebhookAssumption DEF AbandonTick, TicksOK, RowsOK
<1>8. CASE Restart
  BY <1>8, WebhookAssumption DEF Restart, RowsOK
<1>9. CASE UNCHANGED vars BY <1>1, <1>9 DEF vars
<1> QED BY <1>1, <1>2, <1>3, <1>4, <1>5, <1>6, <1>7, <1>8, <1>9
        DEF Next, WorkerStep, AuditEvent, EnqueueDelivery, EnqueueFails, DisableSubscription,
            ReArmSubscription, RetryDelivery, BackoffPasses

\* What a tick leaves when it marks its row dead.
LEMMA MarkDead ==
  ASSUME TypeInv, NEW t \in Ticks, Mark(t), row'[current(t).id].status = "dead"
  PROVE  phase'[t] = "disabling" /\ batch'[t] = batch[t]
<1> RowsOK /\ TicksOK BY TypeParts
<1>1. current(t).id \in Deliveries BY CurrentFacts DEF Mark
<1>2. row'[current(t).id].status = Stored(outcome[t])
  BY <1>1 DEF Mark, Marked, RowsOK
<1>3. outcome[t] = "dead" BY <1>2 DEF Stored
<1> QED BY <1>3 DEF Mark, Enter, TicksOK

LEMMA HeldPendingStep ==
  ASSUME TypeInv, [Next]_vars, Queued, Inserted, HeldOnce, HeldShared, HeldPending
  PROVE  HeldPending'
<1> RowsOK /\ TicksOK BY TypeParts
<1> SUFFICES ASSUME NEW t \in Ticks, NEW i \in 1..Len(batch'[t]),
                    i # 1 \/ phase'[t] # "disabling",
                    batch'[t][i].id \notin shared' \cup retried'
             PROVE  row'[batch'[t][i].id].status = "pending"
  BY DEF HeldPending, Unmarked
<1>1. ASSUME NEW c \in Ticks, Claim(c)
      PROVE  row'[batch'[t][i].id].status = "pending"
  <2>1. row' = row /\ retried' = retried /\ shared \subseteq shared' BY <1>1, ClaimFacts
  <2>2. CASE t = c BY <1>1, <2>1, <2>2, ClaimFacts DEF Queued
  <2>3. CASE t # c
    <3>1. batch'[t] = batch[t] /\ phase'[t] = phase[t] BY <1>1, <2>3, ClaimFacts DEF TicksOK
    <3> QED BY <2>1, <3>1 DEF HeldPending, Unmarked
  <2> QED BY <2>2, <2>3
<1>2. CASE ~\E c \in Ticks : Claim(c)
  <2>1. shared' = shared BY <1>2, BatchesShrink
  <2>2. PICK s \in {0, 1} :
          /\ i + s \in 1..Len(batch[t]) /\ batch'[t][i] = batch[t][i + s]
          /\ s = 0 => batch'[t] = batch[t] \/ batch'[t] = <<>>
    BY <1>2, ShrunkFrom
  <2> DEFINE k == i + s
             d == batch[t][k].id
  <2>3. d \in Deliveries /\ d \in Held(t)
    <3>1. batch[t][k] \in Read BY <2>2 DEF TicksOK
    <3> QED BY <2>2, <3>1 DEF Read, Held
  <2>4. batch[t] \in Seq(Read) /\ batch[t] # <<>>
    <3>1. batch[t] \in Seq(Read) BY DEF TicksOK
    <3>2. batch[t] = <<>> => Len(batch[t]) = 0 BY EmptySeq
    <3> QED BY <2>2, <3>1, <3>2
  <2>5. batch'[t] # <<>>
    <3>1. batch'[t] = <<>> => Len(batch'[t]) = 0 BY EmptySeq
    <3> QED BY <3>1
  <2>6. s = 0 => batch'[t] = batch[t] BY <2>2, <2>5
  <2>7. Tail(batch[t]) # batch[t]
    <3>1. Len(Tail(batch[t])) = Len(batch[t]) - 1 /\ Len(batch[t]) \in Nat BY <2>4, TailFacts
    <3>2. Len(Tail(batch[t])) # Len(batch[t]) BY <3>1
    <3> QED BY <3>2, Zenon
  <2>8. Unmarked(t, k)
    <3>1. CASE s = 1
      <4>1. k # 1 BY <3>1
      <4> QED BY <4>1 DEF Unmarked
    <3>2. CASE s = 0
      <4>1. batch'[t] = batch[t] BY <2>6, <3>2
      <4>2. phase[t] = "disabling" => phase'[t] = "disabling"
        BY <2>4, <2>7, <4>1, DisablingGoesOn
      <4>3. k = i BY <3>2
      <4> QED BY <4>2, <4>3 DEF Unmarked
    <3> QED BY <3>1, <3>2
  <2>9. retried \subseteq retried'
    BY DEF Next, vars, tickVars, history, WorkerStep, AuditEvent, EnqueueDelivery, EnqueueFails,
           DisableSubscription, ReArmSubscription, Claim, LookUp, Post, Mark, Disable,
           AbandonTick, RetryDelivery, BackoffPasses, Restart
  <2>10. d \notin shared \cup retried /\ d \notin retried' BY <2>1, <2>2, <2>9
  <2>11. row[d].status = "pending" BY <2>2, <2>8, <2>10 DEF HeldPending
  <2>12. ASSUME NEW u \in Ticks, Mark(u), current(u).id = d, row'[d].status # "pending"
         PROVE  FALSE
    <3>1. phase[u] = "marking" /\ d \in Held(u) BY <2>12, CurrentFacts DEF Mark
    <3>2. u = t BY <2>3, <2>10, <3>1 DEF HeldShared
    <3>3. 1 \in 1..Len(batch[t]) /\ batch[t][1].id = d
      BY <2>12, <3>1, <3>2, CurrentFacts
    <3>4. k = 1 BY <2>2, <3>3 DEF HeldOnce
    <3>5. i = 1 /\ s = 0 BY <2>2, <3>4
    <3>6. batch'[t] = batch[t] BY <2>6, <3>5
    <3>7. CASE outcome[t] = "dead"
      <4>1. phase'[t] = "disabling" BY <2>12, <3>2, <3>7 DEF Mark, Enter, TicksOK
      <4> QED BY <3>5, <4>1
    <3>8. CASE outcome[t] # "dead"
      <4>1. Advance(t) BY <2>12, <3>2, <3>8 DEF Mark
      <4>2. batch'[t] = Tail(batch[t]) BY <3>1, <3>2, <4>1, AdvanceFacts DEF TicksOK
      <4> QED BY <2>7, <3>6, <4>2
    <3> QED BY <3>7, <3>8
  <2>13. row'[d].status = "pending" BY <2>3, <2>11, <2>12, StatusChanges
  <2> QED BY <2>2, <2>13
<1> QED BY <1>1, <1>2

LEMMA DeadLetterStep ==
  ASSUME TypeInv, [Next]_vars, Inserted, DeadLetterDisables
  PROVE  DeadLetterDisables'
<1> RowsOK /\ TicksOK BY TypeParts
<1> SUFFICES ASSUME NEW d \in Deliveries, row'[d].status = "dead"
             PROVE  \/ ~active'[row'[d].sub]
                    \/ row'[d].sub \in rearmed'
                    \/ \E t \in Ticks : phase'[t] = "disabling" /\ sub(t)' = row'[d].sub
                    \/ failures' > 0
  BY DEF DeadLetterDisables
<1>1. CASE row[d].status # "dead"
  <2>1. PICK t \in Ticks : Mark(t) /\ current(t).id = d BY <1>1, StatusChanges
  <2>2. phase'[t] = "disabling" /\ batch'[t] = batch[t] BY <2>1, MarkDead
  <2>3. sub(t)' = row'[d].sub BY <2>1, <2>2 DEF sub, current
  <2> QED BY <2>2, <2>3
<1>2. CASE row[d].status = "dead"
  <2> DEFINE s == row[d].sub
  <2>1. row'[d].sub = s /\ s \in Subs BY <1>2, RowsStay DEF Inserted
  <2>2. rearmed \subseteq rearmed' /\ (active'[s] /\ ~active[s] => s \in rearmed')
    <3> USE DEF tickVars, history, RowsOK
    <3>1. CASE UNCHANGED <<active, rearmed>> BY <3>1
    <3>2. ASSUME NEW u \in Subs, DisableSubscription(u) \/ ReArmSubscription(u)
          PROVE  rearmed \subseteq rearmed' /\ (active'[s] /\ ~active[s] => s \in rearmed')
      BY <2>1, <3>2 DEF DisableSubscription, ReArmSubscription
    <3>3. ASSUME NEW t \in Ticks, Disable(t)
          PROVE  rearmed \subseteq rearmed' /\ (active'[s] /\ ~active[s] => s \in rearmed')
      BY <2>1, <3>3 DEF Disable
    <3>4. CASE UNCHANGED vars BY <3>1, <3>4 DEF vars
    <3> QED BY <3>1, <3>2, <3>3, <3>4
            DEF Next, WorkerStep, AuditEvent, EnqueueDelivery, EnqueueFails, Claim, LookUp,
                Post, Mark, AbandonTick, RetryDelivery, BackoffPasses, Restart
  <2>3. CASE ~active[s] \/ s \in rearmed BY <2>1, <2>2, <2>3
  <2>4. ASSUME NEW t \in Ticks, phase[t] = "disabling", sub(t) = s
        PROVE  \/ ~active'[s]
               \/ phase'[t] = "disabling" /\ sub(t)' = s
               \/ failures' > 0
    <3>1. CASE phase'[t] = "disabling" /\ batch'[t] = batch[t]
      <4>1. current(t).id \in Deliveries /\ current(t) = batch[t][1] /\ 1 \in 1..Len(batch[t])
        BY <2>4, CurrentFacts
      <4>2. row'[current(t).id].sub = s BY <2>4, <4>1, RowsStay DEF Inserted, sub
      <4> QED BY <3>1, <4>2 DEF sub, current
    <3>2. CASE Disable(t) BY <2>1, <2>4, <3>2 DEF Disable, RowsOK
    <3> QED BY <2>4, <3>1, <3>2, DisablingGoesOn
  <2>5. failures > 0 => failures' > 0
    <3>1. failures' = failures \/ failures' = failures + 1
      BY DEF Next, vars, tickVars, history, WorkerStep, AuditEvent, EnqueueDelivery, EnqueueFails,
             DisableSubscription, ReArmSubscription, Claim, LookUp, Post, Mark, Disable,
             AbandonTick, RetryDelivery, BackoffPasses, Restart
    <3>2. failures \in Nat BY WebhookAssumption DEF RowsOK
    <3> QED BY <3>1, <3>2
  <2> QED BY <1>2, <2>1, <2>3, <2>4, <2>5 DEF DeadLetterDisables
<1> QED BY <1>1, <1>2

-----------------------------------------------------------------------------
(* The theorems.                                                           *)

IInv ==
  /\ TypeInv /\ Queued /\ Inserted /\ HeldOnce /\ HeldShared /\ HeldPending
  /\ DeadLetterDisables

LEMMA InitInv == Init => IInv
<1> SUFFICES ASSUME Init PROVE IInv OBVIOUS
<1>1. TypeInv BY InitType
<1>2. \A t \in Ticks : 1..Len(batch[t]) = {} BY EmptySeq DEF Init
<1>3. 1..Len(queue) = {} BY EmptySeq DEF Init
<1>4. \A d \in Deliveries : row[d].status = "free" BY DEF Init
<1>5. Queued BY <1>3 DEF Queued
<1>6. Inserted BY <1>2, <1>4 DEF Inserted
<1>7. HeldOnce /\ HeldShared /\ HeldPending BY <1>2 DEF HeldOnce, HeldShared, HeldPending, Held
<1>8. DeadLetterDisables BY <1>4 DEF DeadLetterDisables
<1> QED BY <1>1, <1>5, <1>6, <1>7, <1>8 DEF IInv

LEMMA NextInv == IInv /\ [Next]_vars => IInv'
BY NextType, QueuedStep, InsertedStep, HeldStep, HeldPendingStep, DeadLetterStep DEF IInv

\* A dead letter disables its subscription, unless an admin re-arms it or a
\* statement or the process fails before the second write.
THEOREM DeadLettersDisable == Spec => []DeadLetterDisables
<1>1. IInv => DeadLetterDisables BY DEF IInv
<1> QED BY InitInv, NextInv, <1>1, PTL DEF Spec

\* delivered and dead are final for a row that no admin retried and that never
\* was in two batches.
THEOREM SettledForEver == Spec => TerminalStays
<1>1. ASSUME IInv, [Next]_vars, NEW d \in Deliveries \ (shared' \cup retried'),
             row[d].status \in {"delivered", "dead"}
      PROVE  row'[d].status = row[d].status
  <2> RowsOK /\ TicksOK BY <1>1, TypeParts DEF IInv
  <2> SUFFICES ASSUME row'[d].status # row[d].status PROVE FALSE OBVIOUS
  <2>1. PICK t \in Ticks : Mark(t) /\ current(t).id = d BY <1>1, StatusChanges DEF IInv
  <2>2. shared' = shared /\ retried' = retried BY <2>1 DEF Mark, history
  <2>3. phase[t] = "marking" /\ 1 \in 1..Len(batch[t]) /\ batch[t][1].id = d
    BY <2>1, CurrentFacts DEF Mark
  <2>4. row[d].status = "pending" BY <1>1, <2>2, <2>3 DEF IInv, HeldPending, Unmarked
  <2> QED BY <1>1, <2>4
<1>2. IInv /\ [Next]_vars =>
        [\A d \in Deliveries \ (shared' \cup retried') :
           row[d].status \in {"delivered", "dead"} => row'[d].status = row[d].status]_vars
  BY <1>1
<1> QED BY InitInv, NextInv, <1>2, PTL DEF Spec, TerminalStays

=============================================================================
