--------------------------- MODULE SchedulerPause ---------------------------
(***************************************************************************)
(* Who may tick: the process-local pause flag an admin toggles, the        *)
(* automatic pause runTick enters when every pooled GitHub token is        *)
(* exhausted, the interval that automatic pause clears, and the timer that *)
(* is to bring it back.  runTick decides all of this before its first      *)
(* await, so each of its runs is one step here; the claim that may follow  *)
(* only shows as refreshOne calls in flight, which is how tokens become    *)
(* exhausted while the scheduler sleeps.                                   *)
(*                                                                         *)
(* Clock readings are abstracted: a token is in `spent` while its quota is *)
(* used up and its window has not passed, and the resume timer, set for    *)
(* the earliest reset, may fire before or after any other window passes.   *)
(* One instance of the scheduler's modules is modelled: the flags are      *)
(* module-local, so every caller is taken to share them.                   *)
(***************************************************************************)
EXTENDS Naturals

CONSTANTS
  Tokens,    \* GitHub tokens
  MaxCalls   \* bound: refreshOne calls in flight

ASSUME PauseAssumption == MaxCalls \in Nat

VARIABLES
  pool,             \* tokens in the in-memory pool
  spent,            \* those with no quota left in a window still open
  calls,            \* refreshOne calls in flight
  started,          \* activeHandle: startScheduler ran, stop() has not
  pausedFlag,       \* state.ts
  autoPaused,       \* tick.ts
  autoResumeTimer,  \* tick.ts: is the timer armed?
  tickInterval,     \* refresh-tick.ts: is the interval running?
  heldByAdmin       \* history: the last admin to touch the flag paused it

poolVars == <<pool, spent>>
flagVars == <<pausedFlag, autoPaused, autoResumeTimer, tickInterval>>
vars == <<pool, spent, calls, started, pausedFlag, autoPaused, autoResumeTimer,
          tickInterval, heldByAdmin>>

Init ==
  /\ pool \in SUBSET Tokens
  /\ spent \in SUBSET pool
  /\ calls = 0
  /\ started = TRUE
  /\ pausedFlag = FALSE /\ autoPaused = FALSE /\ autoResumeTimer = FALSE
  /\ tickInterval = TRUE
  /\ heldByAdmin = FALSE

-----------------------------------------------------------------------------
(* The pool, as the scheduler sees it.                                     *)

\* poolStatus().
Active == pool \ spent
Exhausted == pool \cap spent

\* recordUsage in some call: the answer's headers say what is left.  The call
\* that hits the threshold of consecutive 429s drops the token.
UsageRecorded(t) ==
  /\ calls > 0 /\ t \in pool
  /\ \/ spent' = spent \cup {t} /\ UNCHANGED pool
     \/ spent' = spent \ {t} /\ UNCHANGED pool
     \/ spent' = spent \ {t} /\ pool' = pool \ {t}
  /\ UNCHANGED <<calls, started, flagVars, heldByAdmin>>

CallReturns ==
  /\ calls > 0
  /\ calls' = calls - 1
  /\ UNCHANGED <<poolVars, started, flagVars, heldByAdmin>>

WindowPasses(t) ==
  /\ t \in spent
  /\ spent' = spent \ {t}
  /\ UNCHANGED <<pool, calls, started, flagVars, heldByAdmin>>

\* The token routes: a row comes with the quota stored in it.  (The reload of
\* the pool on the first fetch amounts to several of these.)
AddToken(t) ==
  /\ started
  /\ pool' = pool \cup {t}
  /\ spent' \in {spent \ {t}, spent \cup {t}}
  /\ UNCHANGED <<calls, started, flagVars, heldByAdmin>>

RemoveToken(t) ==
  /\ started /\ t \in pool
  /\ pool' = pool \ {t}
  /\ spent' = spent \ {t}
  /\ UNCHANGED <<calls, started, flagVars, heldByAdmin>>

-----------------------------------------------------------------------------
(* runTick.                                                                *)

\* Faulty variants of a definition stand just before it; the property named in
\* the comment must tell them apart.

\* Sleeps without setting the alarm: SleepEnds.
AutoPauseUnalarmed ==
  /\ Active = {} /\ Exhausted # {}
  /\ IF autoPaused THEN UNCHANGED flagVars
     ELSE /\ autoPaused' = TRUE
          /\ pausedFlag' = TRUE
          /\ tickInterval' = FALSE
          /\ UNCHANGED autoResumeTimer
  /\ UNCHANGED calls

\* Every token exhausted: nothing is claimed, and the first tick to see it
\* puts the scheduler to sleep.
AutoPause ==
  /\ Active = {} /\ Exhausted # {}
  /\ IF autoPaused THEN UNCHANGED flagVars
     ELSE /\ autoPaused' = TRUE
          /\ pausedFlag' = TRUE
          /\ tickInterval' = FALSE
          /\ autoResumeTimer' = TRUE
  /\ UNCHANGED calls

\* Wakes the interval and leaves the flag up: PauseHasOwner.
WakeUpFlagged ==
  /\ autoPaused' = FALSE
  /\ autoResumeTimer' = FALSE
  /\ tickInterval' = TRUE
  /\ UNCHANGED pausedFlag

\* The way out of the automatic pause, from a tick or from the timer.
WakeUp ==
  /\ autoPaused' = FALSE
  /\ autoResumeTimer' = FALSE
  /\ pausedFlag' = FALSE
  /\ tickInterval' = TRUE

\* Otherwise the tick lifts an automatic pause if a token is usable again, and
\* claims unless the flag (still) says no.
WorkTick ==
  /\ Active # {} \/ Exhausted = {}
  /\ IF autoPaused /\ Active # {} THEN WakeUp ELSE UNCHANGED flagVars
  /\ \/ pausedFlag' /\ UNCHANGED calls
     \/ ~pausedFlag' /\ calls' \in calls..MaxCalls

RunTick == (AutoPause \/ WorkTick) /\ UNCHANGED <<poolVars, started, heldByAdmin>>

IntervalFires == tickInterval /\ ~pausedFlag /\ RunTick

\* POST /api/admin/queue/tick runs the tick whatever the flag says.
AdminTick == started /\ RunTick

\* Clears the flags and forgets the interval: AsleepOnlyWithAlarm.
TimerFiresFlagsOnly ==
  /\ autoResumeTimer
  /\ autoPaused' = FALSE
  /\ autoResumeTimer' = FALSE
  /\ pausedFlag' = FALSE
  /\ UNCHANGED <<tickInterval, poolVars, calls, started, heldByAdmin>>

TimerFires ==
  /\ autoResumeTimer
  /\ WakeUp
  /\ UNCHANGED <<poolVars, calls, started, heldByAdmin>>

-----------------------------------------------------------------------------
(* The admin's switch and shutdown.                                        *)

Pause ==
  /\ started
  /\ pausedFlag' = TRUE
  /\ heldByAdmin' = TRUE
  /\ UNCHANGED <<poolVars, calls, started, autoPaused, autoResumeTimer, tickInterval>>

Resume ==
  /\ started
  /\ pausedFlag' = FALSE
  /\ heldByAdmin' = FALSE
  /\ UNCHANGED <<poolVars, calls, started, autoPaused, autoResumeTimer, tickInterval>>

\* stop(): the resume timer is left armed.
Stop ==
  /\ started
  /\ started' = FALSE
  /\ tickInterval' = FALSE
  /\ UNCHANGED <<poolVars, calls, pausedFlag, autoPaused, autoResumeTimer, heldByAdmin>>

-----------------------------------------------------------------------------
Next ==
  \/ \E t \in Tokens : \/ UsageRecorded(t) \/ WindowPasses(t)
                       \/ AddToken(t) \/ RemoveToken(t)
  \/ CallReturns
  \/ IntervalFires \/ AdminTick \/ TimerFires
  \/ Pause \/ Resume \/ Stop

Spec == Init /\ [][Next]_vars

\* Timers fire.  Nothing is assumed of admins, GitHub or the tokens' windows.
FairSpec == Spec /\ WF_vars(TimerFires)

-----------------------------------------------------------------------------
(* Properties.                                                             *)

TypeOK ==
  /\ pool \subseteq Tokens /\ spent \subseteq pool
  /\ calls \in 0..MaxCalls
  /\ started \in BOOLEAN /\ pausedFlag \in BOOLEAN /\ autoPaused \in BOOLEAN
  /\ autoResumeTimer \in BOOLEAN /\ tickInterval \in BOOLEAN
  /\ heldByAdmin \in BOOLEAN

\* Until stop(), the interval is off only during an automatic pause whose
\* resume timer is armed: the scheduler never falls asleep for good, whatever
\* ticks, admin clicks and pool changes come in between.
AsleepOnlyWithAlarm ==
  started /\ ~tickInterval => autoPaused /\ autoResumeTimer

\* The flag is up only while somebody answers for it, an automatic pause or an
\* admin who has not resumed: no way out of the automatic pause leaves it up.
PauseHasOwner == pausedFlag => autoPaused \/ heldByAdmin

\* Unless an admin holds it or it is stopped, the scheduler is again and again
\* awake: its interval running and the flag down.
SleepEnds == []<>((tickInterval /\ ~pausedFlag) \/ heldByAdmin \/ ~started)
=============================================================================
