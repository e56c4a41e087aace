------------------------ MODULE SchedulerPauseProofs ------------------------
(***************************************************************************)
(* SchedulerPause for any set of tokens and any number of calls in flight: *)
(* the scheduler never sleeps without an alarm, and nobody leaves the      *)
(* pause flag up without answering for it.                                 *)
(***************************************************************************)
EXTENDS SchedulerPause, TLAPS

\* The resume timer is armed exactly during an automatic pause: without this
\* neither way out of the pause would be known to exist in every asleep state.
AlarmIsAutoPause == autoResumeTimer <=> autoPaused

IInv == TypeOK /\ AlarmIsAutoPause /\ AsleepOnlyWithAlarm /\ PauseHasOwner

\* What the two ways out of an automatic pause, and the way in, leave behind.
LEMMA WakeUpEffect ==
  ASSUME WakeUp
  PROVE  ~autoPaused' /\ ~autoResumeTimer' /\ ~pausedFlag' /\ tickInterval' = TRUE
BY DEF WakeUp

LEMMA InitPause == Init => IInv
<1>1. Init => TypeOK
  <2>1. 0 \in 0..MaxCalls
    BY PauseAssumption
  <2> SUFFICES ASSUME Init PROVE TypeOK
    OBVIOUS
  <2>2. pool \subseteq Tokens /\ spent \subseteq pool
    BY DEF Init
  <2>3. calls \in 0..MaxCalls
    BY <2>1 DEF Init
  <2>4. /\ started \in BOOLEAN /\ pausedFlag \in BOOLEAN /\ autoPaused \in BOOLEAN
        /\ autoResumeTimer \in BOOLEAN /\ tickInterval \in BOOLEAN
        /\ heldByAdmin \in BOOLEAN
    BY DEF Init
  <2> QED BY <2>2, <2>3, <2>4 DEF TypeOK
<1>2. Init => AlarmIsAutoPause /\ AsleepOnlyWithAlarm /\ PauseHasOwner
  BY DEF Init, AlarmIsAutoPause, AsleepOnlyWithAlarm, PauseHasOwner
<1> QED
  BY <1>1, <1>2 DEF IInv

\* Type correctness is preserved by every step.
LEMMA NextType == TypeOK /\ [Next]_vars => TypeOK'
<1> SUFFICES ASSUME TypeOK, [Next]_vars PROVE TypeOK'
  OBVIOUS
<1> USE DEF TypeOK, poolVars, flagVars
<1>1. ASSUME NEW t \in Tokens, UsageRecorded(t) \/ WindowPasses(t) \/ AddToken(t) \/ RemoveToken(t)
      PROVE  TypeOK'
  BY <1>1 DEF UsageRecorded, WindowPasses, AddToken, RemoveToken
<1>2. CASE CallReturns
  BY <1>2, PauseAssumption DEF CallReturns
<1>3. CASE RunTick
  <2>1. calls' \in 0..MaxCalls
    BY <1>3, PauseAssumption DEF RunTick, AutoPause, WorkTick
  <2>2. /\ pausedFlag' \in BOOLEAN /\ autoPaused' \in BOOLEAN
        /\ autoResumeTimer' \in BOOLEAN /\ tickInterval' \in BOOLEAN
    BY <1>3 DEF RunTick, AutoPause, WorkTick, WakeUp
  <2> QED BY <1>3, <2>1, <2>2 DEF RunTick
<1>4. CASE TimerFires \/ Pause \/ Resume \/ Stop
  BY <1>4 DEF TimerFires, WakeUp, Pause, Resume, Stop
<1>5. CASE UNCHANGED vars
  BY <1>5 DEF vars
<1> QED
  BY <1>1, <1>2, <1>3, <1>4, <1>5 DEF Next, IntervalFires, AdminTick

LEMMA NextPause == IInv /\ [Next]_vars => IInv'
<1> SUFFICES ASSUME IInv, [Next]_vars PROVE IInv'
  OBVIOUS
<1>1. TypeOK'
  BY NextType DEF IInv
<1> SUFFICES AlarmIsAutoPause' /\ AsleepOnlyWithAlarm' /\ PauseHasOwner'
  BY <1>1 DEF IInv
<1> USE DEF IInv, AlarmIsAutoPause, AsleepOnlyWithAlarm, PauseHasOwner, flagVars
<1>2. ASSUME NEW t \in Tokens, UsageRecorded(t) \/ WindowPasses(t) \/ AddToken(t) \/ RemoveToken(t)
      PROVE  AlarmIsAutoPause' /\ AsleepOnlyWithAlarm' /\ PauseHasOwner'
  BY <1>2 DEF UsageRecorded, WindowPasses, AddToken, RemoveToken
<1>3. CASE RunTick
  <2>1. CASE AutoPause
    BY <1>3, <2>1 DEF RunTick, AutoPause
  <2>2. CASE WorkTick
    BY <1>3, <2>2, WakeUpEffect DEF RunTick, WorkTick
  <2> QED BY <1>3, <2>1, <2>2 DEF RunTick
<1>4. CASE TimerFires
  BY <1>4, WakeUpEffect DEF TimerFires
<1>5. CASE CallReturns \/ Pause \/ Resume \/ Stop
  BY <1>5 DEF CallReturns, Pause, Resume, Stop
<1>6. CASE UNCHANGED vars
  BY <1>6 DEF vars
<1> QED
  BY <1>2, <1>3, <1>4, <1>5, <1>6 DEF Next, IntervalFires, AdminTick

LEMMA PauseInvariant == Spec => []IInv
BY InitPause, NextPause, PTL DEF Spec

\* Variables keep their types.
THEOREM PauseTypeCorrect == Spec => []TypeOK
<1>1. IInv => TypeOK
  BY DEF IInv
<1> QED BY <1>1, PauseInvariant, PTL

\* Until stop(), whenever the tick's interval is off, an automatic pause is on
\* and its resume timer armed.
THEOREM NeverAsleepForGood == Spec => []AsleepOnlyWithAlarm
<1>1. IInv => AsleepOnlyWithAlarm
  BY DEF IInv
<1> QED BY <1>1, PauseInvariant, PTL

\* The pause flag is never left up by a path that meant to lift it.
THEOREM PauseIsOwned == Spec => []PauseHasOwner
<1>1. IInv => PauseHasOwner
  BY DEF IInv
<1> QED BY <1>1, PauseInvariant, PTL

=============================================================================
