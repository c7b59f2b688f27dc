------------------------ MODULE LightPlayer_proofs -------------------------
(***************************************************************************)
(* The player keeps its types and its schedule, for every set of programs  *)
(* and of timestamps.                                                      *)
(***************************************************************************)
EXTENDS LightPlayerAnswers, Executor_proofs

---------------------------------------------------------------------------
(* Types.                                                                  *)

(* sb_light_player_init() leaves a player that is in range.               *)
LEMMA InitType == Init => TypeOK
  BY ExecutorInitType, ExecutorAssumption, LightPlayerAssumption
     DEF Init, TypeOK, SeekStates

(* One step of seek(), or of the call of step() it waits for.              *)
LEMMA NextType ==
  ASSUME TypeOK, Next
  PROVE  TypeOK'
<1> USE DEF SeekStates
<1>1. CASE \E t \in Targets : Seek(t)
  <2>1. PICK t \in Targets : Seek(t)
    BY <1>1
  <2>2. t \in Nat
    BY LightPlayerAssumption
  <2>3. ExecutorTypeOK'
    BY <2>1, RewindType, ExecutorStutterType DEF Seek, GoBack, TypeOK
  <2>4. QED
    BY <2>1, <2>2, <2>3 DEF Seek, GoBack, TypeOK
<1>2. CASE SeekStep
  BY <1>2, BeginStepType DEF SeekStep, TypeOK
<1>3. CASE SeekStepReturns
  <2>1. nextTimestamp' \in Nat
    BY <1>3 DEF SeekStepReturns, TimestampAfterStep, TypeOK, ExecutorTypeOK, ClockTypeOK
  <2>2. QED
    BY <1>3, <2>1, ExecutorStutterType DEF SeekStepReturns, TimestampAfterStep, TypeOK
<1>4. CASE Arrive
  BY <1>4, BeginStepType DEF Arrive, TypeOK
<1>5. CASE SeekReturns
  <2>1. nextTimestamp' \in Nat
    BY <1>5 DEF SeekReturns, TypeOK, ExecutorTypeOK, ClockTypeOK
  <2>2. QED
    BY <1>5, <2>1, ExecutorStutterType DEF SeekReturns, TypeOK
<1>6. CASE InStep
  BY <1>6, ContinueStepType DEF InStep, TypeOK, playerVars
<1>7. QED
  BY <1>1, <1>2, <1>3, <1>4, <1>5, <1>6 DEF Next, ContinueSeek

(* A step that leaves the player alone keeps types.                       *)
LEMMA StutterType ==
  ASSUME TypeOK, UNCHANGED vars
  PROVE  TypeOK'
  BY ExecutorStutterType DEF vars, playerVars, TypeOK

(* Every variable of the player and of its executor stays in its range,    *)
(* whatever the program's bytes and the timestamps asked for.              *)
THEOREM TypeCorrect == Spec => []TypeOK
<1>1. Init => TypeOK
  BY InitType
<1>2. TypeOK /\ [Next]_vars => TypeOK'
  BY NextType, StutterType
<1>3. QED
  BY <1>1, <1>2, PTL DEF Spec

---------------------------------------------------------------------------
(* The schedule.                                                           *)

(* What is known when a command is executed.                               *)
LEMMA AtCommand ==
  ASSUME IInv, phase = "command"
  PROVE  /\ ~resetFlag /\ ~ended /\ ~fade.active
         /\ now \in Nat /\ lastReset \in Nat /\ cumulative \in Nat
         /\ Fetched.delay \in Nat /\ Fetched.delay < TimeModulus
         /\ now = wakeup /\ wakeup = lastReset + cumulative
         /\ WakeupAfterDelay = now + Fetched.delay
<1>1. /\ ~resetFlag /\ ~ended /\ ~fade.active
      /\ now = wakeup /\ wakeup = lastReset + cumulative
  BY DEF IInv, SeekInv, InCall, TypeOK, SeekStates, PhaseInv, FadeTracksWakeup,
         ExecutesOnTime, ScheduleInv
<1>2. /\ now \in Nat /\ lastReset \in Nat /\ cumulative \in Nat
      /\ Fetched.delay \in Nat /\ Fetched.delay < TimeModulus
  BY FetchedType DEF IInv, TypeOK, ExecutorTypeOK, StoreTypeOK, ClockTypeOK,
                     CallTypeOK, Instruction
<1>3. WakeupAfterDelay = now + Fetched.delay
  BY <1>1, <1>2 DEF WakeupAfterDelay, Larger
<1>4. QED
  BY <1>1, <1>2, <1>3

(* A fade that is started when its command is due lasts until the wakeup   *)
(* time: the unsigned subtraction does not wrap.                           *)
LEMMA FadeLastsUntilWakeup ==
  ASSUME IInv, phase = "command", NEW c, FadeTo(c)
  PROVE  fade'.start + fade'.duration = WakeupAfterDelay
<1>1. WakeupAfterDelay - now = Fetched.delay
  BY AtCommand
<1>2. Fetched.delay % TimeModulus = Fetched.delay
  BY AtCommand, ExecutorAssumption, ModSmall
<1>3. fade'.start = now /\ fade'.duration = Fetched.delay
  BY <1>1, <1>2 DEF FadeTo
<1>4. QED
  BY <1>3, AtCommand

(* The schedule after a command.                                           *)
ScheduleAfterCommand ==
  /\ phase' # "command" /\ ~resetFlag' /\ now' = now
  /\ phase' \in {"idle", "crashed"}
  /\ now <= wakeup'
  /\ ~ended' => wakeup' = lastReset' + cumulative'
  /\ fade'.active => fade'.start + fade'.duration = wakeup' /\ ~ended'

(* A command handler that starts on time leaves the executor on schedule. *)
LEMMA HandlerSchedule ==
  ASSUME IInv, ExecuteNextCommand
  PROVE  ScheduleAfterCommand
<1>1. phase = "command"
  BY CommandPhase
<1> USE <1>1, AtCommand
<1>2. ASSUME NEW op, Handles(op)
      PROVE  phase' = "idle" /\ ~resetFlag' /\ now' = now
  BY <1>2 DEF Handles
<1>3. ASSUME NEW op, Handles(op), NoDelay, fade' = fade
      PROVE  ScheduleAfterCommand
  BY <1>2, <1>3 DEF NoDelay, ScheduleAfterCommand
<1>4. ASSUME NEW op, Handles(op), Delay, fade' = fade
      PROVE  ScheduleAfterCommand
  BY <1>2, <1>4 DEF Delay, ScheduleAfterCommand
<1>5. ASSUME NEW op, Handles(op), Delay, NEW c, FadeTo(c), ended' = ended
      PROVE  ScheduleAfterCommand
  BY <1>2, <1>5, FadeLastsUntilWakeup DEF Delay, ScheduleAfterCommand
<1>6. CASE End \/ Invalid \/ Nop \/ LoopBegin \/ LoopEnd \/ Jump
            \/ TriggeredJump \/ SetPyro \/ SetPyroAll
  BY <1>3, <1>6 DEF End, Invalid, Nop, LoopBegin, LoopEnd, Jump, TriggeredJump,
                    SetPyro, SetPyroAll, fadeVars
<1>7. CASE Sleep \/ SetColor \/ SetColorFromChannels
  BY <1>4, <1>7 DEF Sleep, SetColor, SetColorFromChannels, ShowColor, fadeVars
<1>8. CASE Fade \/ FadeFromChannels
  BY <1>5, <1>8 DEF Fade, FadeFromChannels, statusVars
<1>9. CASE WaitUntil
  <2>1. phase' = "idle" /\ ~resetFlag' /\ now' = now
    BY <1>2, <1>9 DEF WaitUntil
  <2>2. /\ wakeup' = Larger(wakeup, lastReset + Fetched.delay)
        /\ cumulative' = wakeup' - lastReset
        /\ lastReset' = lastReset /\ fade' = fade
    BY <1>9 DEF WaitUntil, fadeVars
  <2>3. wakeup' \in Nat /\ wakeup' >= now
    BY <2>2 DEF Larger
  <2>4. QED
    BY <2>1, <2>2, <2>3 DEF ScheduleAfterCommand
<1>10. CASE ResetClock
  BY <1>2, <1>10 DEF ResetClock, ScheduleAfterCommand, fadeVars
<1>11. CASE UseWildSource
  BY <1>11 DEF UseWildSource, ScheduleAfterCommand, clockVars, fadeVars, statusVars
<1>12. QED
  BY <1>6, <1>7, <1>8, <1>9, <1>10, <1>11 DEF ExecuteNextCommand

(* The parts of the invariant, at each step.                               *)
ScheduleParts ==
  SeekInv /\ HandOverInv /\ ScheduleInv /\ PhaseInv /\ ExecutesOnTime /\ FadeTracksWakeup

(* The start of seek() keeps the schedule, with a rewind or without.      *)
LEMMA SeekSchedule ==
  ASSUME IInv, NEW t \in Nat, Seek(t)
  PROVE  ScheduleParts'
<1> USE DEF IInv, SeekInv, InCall, TypeOK, SeekStates, ExecutorTypeOK
<1>1. CASE Rewind /\ currentTimestamp' = 0 /\ nextTimestamp' = 0
  <2>1. /\ phase' = "idle" /\ resetFlag' = TRUE /\ seekState' = "loop" /\ target' = t
        /\ fade' = [fade EXCEPT !.active = FALSE]
    BY <1>1 DEF Seek, Rewind, CancelFade, callVars
  <2>2. ~fade'.active
    BY <2>1 DEF FadeTypeOK
  <2>3. QED
    BY <1>1, <2>1, <2>2 DEF ScheduleParts, HandOverInv, ScheduleInv, PhaseInv,
                            ExecutesOnTime, FadeTracksWakeup
<1>2. CASE /\ t >= currentTimestamp
           /\ UNCHANGED <<currentTimestamp, nextTimestamp, executorVars>>
  <2>1. /\ seekState = "ready" /\ seekState' = "loop" /\ target' = t
        /\ UNCHANGED <<currentTimestamp, nextTimestamp, now, phase, wakeup,
                       resetFlag, lastReset, cumulative, ended, fade>>
    BY <1>2 DEF Seek, GoBack, executorVars, callVars, clockVars, statusVars, fadeVars
  <2>2. QED
    BY <1>2, <2>1 DEF ScheduleParts, HandOverInv, ScheduleInv, PhaseInv,
                      ExecutesOnTime, FadeTracksWakeup
<1>3. QED
  BY <1>1, <1>2 DEF Seek, GoBack

(* A call of step() begins, at a time that the executor is not behind.     *)
LEMMA BeginStepSchedule ==
  ASSUME IInv, NEW t \in Nat, BeginStep(t), ~resetFlag => t <= wakeup
  PROVE  /\ now' = t /\ ~resetFlag' /\ phase' # "idle" /\ phase' # "command"
         /\ ScheduleInv' /\ PhaseInv' /\ FadeTracksWakeup'
<1> USE DEF IInv, TypeOK, ExecutorTypeOK
<1>1. /\ now' = t /\ ~resetFlag'
      /\ phase' = IF ended THEN "ended" ELSE "triggers"
      /\ fade' = fade /\ ended' = ended
  BY DEF BeginStep, clockVars, statusVars
<1>2. CASE resetFlag
  <2>1. lastReset' = t /\ cumulative' = 0 /\ wakeup' = t
    BY <1>2 DEF BeginStep, SetClockOrigin
  <2>2. QED
    BY <1>1, <1>2, <2>1 DEF ScheduleInv, PhaseInv, FadeTracksWakeup
<1>3. CASE ~resetFlag
  <2>1. UNCHANGED <<lastReset, cumulative, wakeup>>
    BY <1>3 DEF BeginStep, clockVars
  <2>2. QED
    BY <1>1, <1>3, <2>1 DEF ScheduleInv, PhaseInv, FadeTracksWakeup
<1>4. QED
  BY <1>2, <1>3

(* The two calls of step() in seek() begin at a time the executor is      *)
(* ready for.                                                             *)
LEMMA StepsSchedule ==
  ASSUME IInv, SeekStep \/ Arrive
  PROVE  ScheduleParts'
<1> USE DEF IInv, SeekInv, InCall, TypeOK, SeekStates, HandOverInv
<1>1. CASE SeekStep
  <2>1. /\ seekState = "loop" /\ target > nextTimestamp /\ BeginStep(nextTimestamp)
        /\ seekState' = "stepping"
        /\ UNCHANGED <<currentTimestamp, nextTimestamp, target>>
    BY <1>1 DEF SeekStep
  <2>2. ~resetFlag => nextTimestamp <= wakeup
    BY <2>1
  <2>3. QED
    BY <2>1, <2>2, BeginStepSchedule DEF ScheduleParts, ExecutesOnTime
<1>2. CASE Arrive
  <2>1. /\ seekState = "loop" /\ target <= nextTimestamp /\ BeginStep(target)
        /\ seekState' = "arriving"
        /\ UNCHANGED <<currentTimestamp, nextTimestamp, target>>
    BY <1>2 DEF Arrive
  <2>2. ~resetFlag => target <= wakeup
    BY <2>1
  <2>3. QED
    BY <2>1, <2>2, BeginStepSchedule DEF ScheduleParts, ExecutesOnTime
<1>3. QED
  BY <1>1, <1>2

(* What seek() does with the wakeup time a call of step() returns keeps   *)
(* the schedule.                                                          *)
LEMMA ReturnsSchedule ==
  ASSUME IInv, SeekStepReturns \/ SeekReturns
  PROVE  ScheduleParts'
<1>1. UNCHANGED <<now, phase, wakeup, resetFlag, lastReset, cumulative, ended, fade>>
  BY DEF SeekStepReturns, TimestampAfterStep, SeekReturns, executorVars, callVars, clockVars,
         statusVars, fadeVars
<1>2. now \in Nat /\ wakeup \in Nat /\ now <= wakeup /\ ~resetFlag
  BY DEF IInv, TypeOK, ExecutorTypeOK, ClockTypeOK, CallTypeOK, SeekInv, ScheduleInv,
         SeekStepReturns, SeekReturns
<1>3. /\ nextTimestamp' = wakeup /\ currentTimestamp' = now
      /\ target' = target /\ target >= now
      /\ phase = "idle" /\ seekState' \in {"ready", "loop"}
  BY <1>2 DEF IInv, SeekInv, SeekStepReturns, TimestampAfterStep,
                 SeekReturns, TypeOK
<1>4. QED
  BY <1>1, <1>2, <1>3
     DEF IInv, ScheduleParts, SeekInv, InCall, HandOverInv, ScheduleInv, PhaseInv,
         ExecutesOnTime, FadeTracksWakeup

(* The steps of the executor leave the state of seek() alone.              *)
LEMMA InStepKeepsSeek ==
  ASSUME IInv, UNCHANGED playerVars, phase # "idle", now' = now, ~resetFlag'
  PROVE  SeekInv' /\ HandOverInv'
  BY DEF IInv, SeekInv, InCall, HandOverInv, playerVars, TypeOK, SeekStates

(* The parts of a call of step() that seek() makes keep the schedule.     *)
LEMMA InStepSchedule ==
  ASSUME IInv, InStep
  PROVE  ScheduleParts'
<1> USE DEF IInv, TypeOK, ExecutorTypeOK
<1>1. ASSUME phase # "idle" PROVE ~resetFlag
  BY <1>1 DEF SeekInv, InCall, SeekStates
<1>2. UNCHANGED playerVars
  BY DEF InStep
<1>3. CASE StepWhenEnded
  <2>1. /\ phase = "ended" /\ phase' = "idle" /\ wakeup' = now + IdleDelay
        /\ UNCHANGED <<now, resetFlag, ended, fade>>
    BY <1>3 DEF StepWhenEnded, IdleWakeup, statusVars, fadeVars
  <2>2. ended /\ ~resetFlag /\ ~fade.active
    BY <2>1, <1>1 DEF PhaseInv, FadeTracksWakeup
  <2>3. QED
    BY <1>2, <2>1, <2>2, InStepKeepsSeek, ExecutorAssumption
       DEF ScheduleParts, ScheduleInv, PhaseInv, ExecutesOnTime, FadeTracksWakeup,
           CallTypeOK
<1>4. CASE CheckAndFireTriggers
  <2>1. /\ phase = "triggers" /\ phase' = "fade"
        /\ UNCHANGED <<now, resetFlag, ended, fade, wakeup, lastReset, cumulative>>
    BY <1>4 DEF CheckAndFireTriggers, statusVars, fadeVars, clockVars
  <2>2. QED
    BY <1>1, <1>2, <2>1, InStepKeepsSeek
       DEF ScheduleParts, ScheduleInv, PhaseInv, ExecutesOnTime, FadeTracksWakeup
<1>5. CASE AdvanceFade
  <2>1. /\ phase = "fade" /\ ~resetFlag /\ ~ended
        /\ phase' = IF now >= wakeup THEN "command" ELSE "idle"
        /\ UNCHANGED <<now, resetFlag, ended, wakeup, lastReset, cumulative>>
    BY <1>5, <1>1 DEF AdvanceFade, statusVars, clockVars, PhaseInv
  <2>2. now <= wakeup /\ now \in Nat /\ wakeup \in Nat
    BY <2>1 DEF ScheduleInv, ClockTypeOK, CallTypeOK
  <2>3. fade'.active => /\ fade'.start + fade'.duration = wakeup
                        /\ now < wakeup
    <3>1. CASE ~fade.active
      BY <1>5, <3>1 DEF AdvanceFade
    <3>2. CASE fade.active
      <4>1. PICK p \in {Progress(fade, now)} : fade' = [fade EXCEPT !.active = p[1] < p[2]]
        BY <1>5, <3>2 DEF AdvanceFade
      <4>2. fade.start + fade.duration = wakeup
        BY <3>2 DEF FadeTracksWakeup
      <4>3. /\ fade'.start = fade.start /\ fade'.duration = fade.duration
            /\ fade'.active => p[1] < p[2]
        BY <4>1 DEF FadeTypeOK
      <4>4. ASSUME now >= wakeup PROVE ~(p[1] < p[2])
        BY <2>2, <4>1, <4>2, <4>4 DEF Progress, FadeTypeOK
      <4>5. QED
        BY <2>2, <4>2, <4>3, <4>4
    <3>3. QED
      BY <3>1, <3>2
  <2>4. QED
    BY <1>2, <2>1, <2>2, <2>3, InStepKeepsSeek
       DEF ScheduleParts, ScheduleInv, PhaseInv, ExecutesOnTime, FadeTracksWakeup
<1>6. CASE ExecuteNextCommand
  <2>1. ScheduleAfterCommand
    BY <1>6, HandlerSchedule
  <2>2. phase = "command"
    BY <1>6, CommandPhase
  <2>3. SeekInv' /\ HandOverInv'
    BY <1>2, <2>1, <2>2, InStepKeepsSeek DEF ScheduleAfterCommand
  <2>4. QED
    BY <2>1, <2>3
       DEF ScheduleAfterCommand, ScheduleParts, ScheduleInv, PhaseInv, ExecutesOnTime,
           FadeTracksWakeup
<1>7. QED
  BY <1>3, <1>4, <1>5, <1>6 DEF InStep, ContinueStep

---------------------------------------------------------------------------
(* The theorems.                                                           *)

(* A new player satisfies the inductive invariant.                        *)
LEMMA InvInit == Init => IInv
<1> SUFFICES ASSUME Init PROVE IInv
  OBVIOUS
<1>1. TypeOK
  BY InitType
<1>2. ScheduleParts
  BY DEF Init, ExecutorInit, ScheduleParts, SeekInv, InCall, HandOverInv, ScheduleInv,
         PhaseInv, ExecutesOnTime, FadeTracksWakeup
<1>3. QED
  BY <1>1, <1>2 DEF IInv, ScheduleParts

(* Every step of seek() and of the executor below it keeps the inductive  *)
(* invariant.                                                             *)
LEMMA InvNext == IInv /\ [Next]_vars => IInv'
<1> SUFFICES ASSUME IInv, [Next]_vars PROVE IInv'
  OBVIOUS
<1>1. TypeOK'
  BY NextType, StutterType DEF IInv
<1>2. ScheduleParts'
  <2>1. CASE \E t \in Targets : Seek(t)
    BY <2>1, SeekSchedule, LightPlayerAssumption
  <2>2. CASE SeekStep \/ Arrive
    BY <2>2, StepsSchedule
  <2>3. CASE SeekStepReturns \/ SeekReturns
    BY <2>3, ReturnsSchedule
  <2>4. CASE InStep
    BY <2>4, InStepSchedule
  <2>5. CASE UNCHANGED vars
    BY <2>5 DEF IInv, vars, playerVars, executorVars, callVars, clockVars, statusVars,
                fadeVars, ScheduleParts, SeekInv, InCall, HandOverInv, ScheduleInv,
                PhaseInv, ExecutesOnTime, FadeTracksWakeup
  <2>6. QED
    BY <2>1, <2>2, <2>3, <2>4, <2>5 DEF Next, ContinueSeek
<1>3. QED
  BY <1>1, <1>2 DEF IInv, ScheduleParts

(* The inductive invariant of the player: seek() and the executor agree on *)
(* the time and on the next wakeup whenever control passes between them.   *)
THEOREM Invariance == Spec => []IInv
  BY InvInit, InvNext, PTL DEF Spec

(* A command is executed by the player exactly when it is due.             *)
THEOREM CommandsExecuteOnTime == Spec => []ExecutesOnTime
<1>1. IInv => ExecutesOnTime
  BY DEF IInv
<1>2. QED
  BY <1>1, Invariance, PTL

(* A fade ends at the wakeup time of the executor, so no command, end of   *)
(* program or restart finds it half done.                                  *)
THEOREM FadesEndAtWakeup == Spec => []FadeTracksWakeup
<1>1. IInv => FadeTracksWakeup
  BY DEF IInv
<1>2. QED
  BY <1>1, Invariance, PTL

(* The time returned by seek() is not before the time that was asked for.  *)
THEOREM NextIsNotBefore == Spec => []NextNotBeforeTarget
<1>1. IInv => NextNotBeforeTarget
  BY DEF IInv, NextNotBeforeTarget, HandOverInv, TypeOK
<1>2. QED
  BY <1>1, Invariance, PTL

(* The player calls step() at times that never decrease, unless it has     *)
(* rewound the executor.                                                   *)
THEOREM TimeGoesForward == Spec => StepTimesGoForward
<1>1. IInv /\ [Next]_vars => [now' >= now \/ resetFlag]_now
  <2> SUFFICES ASSUME IInv, [Next]_vars, ~resetFlag, now' # now
               PROVE  now' >= now
    BY DEF IInv, TypeOK
  <2>1. now \in Nat /\ wakeup \in Nat /\ now <= wakeup
    BY DEF IInv, TypeOK, ExecutorTypeOK, CallTypeOK, ClockTypeOK, ScheduleInv
  <2>2. CASE SeekStep
    BY <2>1, <2>2 DEF SeekStep, BeginStep, IInv, HandOverInv
  <2>3. CASE Arrive
    BY <2>1, <2>3 DEF Arrive, BeginStep, IInv, HandOverInv, SeekInv
  <2>4. CASE InStep
    <3>1. now' = now
      BY <2>4, HandlerSchedule
         DEF InStep, ContinueStep, StepWhenEnded, CheckAndFireTriggers, AdvanceFade,
             ScheduleAfterCommand
    <3>2. QED
      BY <3>1
  <2>5. QED
    BY <2>2, <2>3, <2>4
       DEF Next, ContinueSeek, Seek, GoBack, SeekStepReturns, SeekReturns, Rewind, vars,
           executorVars, callVars
<1>2. QED
  BY <1>1, Invariance, PTL DEF Spec, StepTimesGoForward

(* The player implements the playhead: each step moves the head as the     *)
(* abstract specification allows, or leaves it where it is.                *)
THEOREM PlayerImplementsPlayhead == Spec => P!HeadSafety
<1>1. Init => P!HeadInit
  BY DEF Init, P!HeadInit
<1>2. IInv /\ [Next]_vars => [P!HeadNext]_(P!headVars)
  <2> SUFFICES ASSUME IInv, [Next]_vars PROVE [P!HeadNext]_(P!headVars)
    OBVIOUS
  <2> USE DEF P!headVars
  <2>1. ASSUME NEW t \in Targets, Seek(t) PROVE P!Ask
    <3>1. /\ seekState = "ready" /\ seekState' = "loop" /\ target' = t
          /\ currentTimestamp' = IF t < currentTimestamp THEN 0 ELSE currentTimestamp
      BY <2>1, LightPlayerAssumption DEF Seek, GoBack, IInv, TypeOK
    <3>2. QED
      BY <3>1 DEF P!Ask
  <2>2. CASE SeekStep \/ Arrive
    BY <2>2 DEF SeekStep, Arrive
  <2>3. CASE SeekStepReturns
    <3>1. /\ seekState = "stepping" /\ seekState' = "loop" /\ target' = target
          /\ currentTimestamp' = nextTimestamp
          /\ currentTimestamp <= nextTimestamp /\ nextTimestamp < target
          /\ currentTimestamp \in Nat /\ nextTimestamp \in Nat /\ target \in Nat
      BY <2>3 DEF SeekStepReturns, TimestampAfterStep, IInv, SeekInv, HandOverInv, TypeOK
    <3>2. CASE currentTimestamp = nextTimestamp
      BY <3>1, <3>2
    <3>3. CASE currentTimestamp # nextTimestamp
      BY <3>1, <3>3 DEF P!HeadNext, P!Advance
    <3>4. QED
      BY <3>2, <3>3
  <2>4. CASE SeekReturns
    BY <2>4 DEF SeekReturns, P!HeadNext, P!Answer
  <2>5. CASE InStep \/ UNCHANGED vars
    BY <2>5 DEF InStep, vars, playerVars
  <2>6. QED
    BY <2>1, <2>2, <2>3, <2>4, <2>5 DEF Next, ContinueSeek, P!HeadNext
<1>3. QED
  BY <1>1, <1>2, Invariance, PTL DEF Spec, P!HeadSafety

---------------------------------------------------------------------------
(* Colours.                                                                *)

(* At its end a fade shows the colour it was meant to reach.               *)
LEMMA FadeEndsAtEndColor ==
  ASSUME NEW from \in Color, NEW to \in Color
  PROVE  Interpolate(from, to, <<1, 1>>) = to
<1>1. ASSUME NEW i \in 1 .. 3
      PROVE  (from[i] * 1 + (to[i] - from[i]) * 1) \div 1 = to[i]
  <2>1. from[i] \in Int /\ to[i] \in Int
    BY DEF Color, Byte
  <2>2. QED
    BY <2>1
<1>2. QED
  BY <1>1 DEF Interpolate, Color

(* A progress that is not below 1 is 1.                                    *)
LEMMA ProgressEnds ==
  ASSUME FadeTypeOK, CallTypeOK, LET p == Progress(fade, now) IN ~(p[1] < p[2])
  PROVE  Progress(fade, now) = <<1, 1>>
  BY DEF Progress, FadeTypeOK, CallTypeOK

(* A fade that takes time and is started when it is due is running.        *)
LEMMA LongFadeRuns ==
  ASSUME IInv, phase = "command", Fetched.delay > 0, NEW c, FadeTo(c)
  PROVE  fade'.active /\ color' = startColor
<1>1. (WakeupAfterDelay - now) % TimeModulus = Fetched.delay
  <2>1. WakeupAfterDelay - now = Fetched.delay
    BY AtCommand
  <2>2. QED
    BY <2>1, AtCommand, ExecutorAssumption, ModSmall
<1>2. QED
  BY <1>1 DEF FadeTo

(* Nothing else but a handler executes a fade or sets a colour, and none   *)
(* does both.                                                              *)
LEMMA AtOnceChanges ==
  ASSUME atOnce' = AtOnceNext
  PROVE  /\ ExecutesFade /\ Fetched.delay = 0 /\ ~resetFlag' => atOnce'
         /\ ~ExecutesFade /\ ~SetColor /\ ~SetColorFromChannels /\ ~resetFlag' /\ atOnce => atOnce'
<1>1. CASE ExecutesFade
  <2>1. ~SetColor /\ ~SetColorFromChannels
    BY <1>1 DEF ExecutesFade, Fade, FadeFromChannels, SetColor, SetColorFromChannels, Handles
  <2>2. QED
    BY <1>1, <2>1 DEF AtOnceNext
<1>2. CASE ~ExecutesFade
  BY <1>2 DEF AtOnceNext
<1>3. QED
  BY <1>1, <1>2

(* A fade of no length is not running after its first step.                *)
LEMMA FadesAtOnce ==
  ASSUME IInv, ExecuteNextCommand, ExecutesFade, atOnce' = AtOnceNext
  PROVE  /\ fade'.active \/ atOnce'
         /\ fade'.active => color' = startColor
<1>1. phase = "command" /\ ~resetFlag /\ resetFlag' = resetFlag
  BY CommandPhase, AtCommand DEF ExecutesFade, Fade, FadeFromChannels, Handles
<1>2. PICK c : FadeTo(c)
  BY DEF ExecutesFade, Fade, FadeFromChannels
<1>3. CASE Fetched.delay = 0
  BY <1>1, <1>2, <1>3, AtOnceChanges DEF FadeTo
<1>4. CASE Fetched.delay > 0
  BY <1>1, <1>2, <1>4, LongFadeRuns
<1>5. Fetched.delay = 0 \/ Fetched.delay > 0
  BY <1>1, AtCommand
<1>6. QED
  BY <1>3, <1>4, <1>5

(* What a handler does to the colours.                                     *)
LEMMA HandlerColors ==
  ASSUME IInv, ColorInv, ExecuteNextCommand, atOnce' = AtOnceNext
  PROVE  ColorInv' /\ (fade' # fade /\ fade'.active /\ ~atOnce => color' = color)
<1>1. phase = "command" /\ ~resetFlag /\ ~fade.active /\ (~atOnce => startColor = color)
  BY CommandPhase, AtCommand DEF ColorInv
<1>2. CASE ExecutesFade
  BY <1>1, <1>2, FadesAtOnce DEF ColorInv
<1>3. CASE SetColor \/ SetColorFromChannels
  BY <1>3 DEF SetColor, SetColorFromChannels, ShowColor, ColorInv
<1>4. CASE /\ ~ExecutesFade /\ ~SetColor /\ ~SetColorFromChannels
           /\ \/ End \/ Invalid \/ Nop \/ Sleep \/ WaitUntil \/ ResetClock \/ LoopBegin
              \/ LoopEnd \/ Jump \/ TriggeredJump \/ SetPyro \/ SetPyroAll \/ UseWildSource
  <2>1. UNCHANGED <<color, startColor, fade>>
    BY <1>4 DEF End, Invalid, Nop, Sleep, WaitUntil, ResetClock, LoopBegin, LoopEnd, Jump,
                TriggeredJump, SetPyro, SetPyroAll, UseWildSource, fadeVars, outputVars
  <2>2. QED
    BY <1>1, <1>4, <2>1, AtOnceChanges DEF ColorInv
<1>5. QED
  BY <1>2, <1>3, <1>4 DEF ExecuteNextCommand, ExecutesFade

(* The part of the property that is about one step.                        *)
Continuous == fade' # fade /\ phase = "command" /\ fade'.active /\ ~atOnce => color' = color

(* Every step keeps the colours together, and a fade that is started does  *)
(* not change a colour that is not that of a fade of no length.            *)
LEMMA NextColors ==
  ASSUME IInv, ColorInv, Next, atOnce' = AtOnceNext
  PROVE  ColorInv' /\ Continuous
<1>1. TypeOK /\ FadeTypeOK /\ CallTypeOK
  BY DEF IInv, TypeOK, ExecutorTypeOK
<1>2. CASE \E t \in Targets : Seek(t)
  <2>1. PICK t \in Targets : Seek(t)
    BY <1>2
  <2>2. CASE Rewind
    BY <2>2, <1>1 DEF Rewind, ColorInv, Continuous, CancelFade, FadeTypeOK
  <2>3. CASE UNCHANGED executorVars
    <3>1. UNCHANGED <<fade, color, startColor, resetFlag, phase>>
      BY <2>3 DEF executorVars, outputVars, fadeVars, clockVars, callVars
    <3>2. phase # "command"
      BY <2>1 DEF Seek, IInv, SeekInv, InCall
    <3>3. ~ExecutesFade /\ ~SetColor /\ ~SetColorFromChannels
      BY <3>2 DEF ExecutesFade, Fade, FadeFromChannels, SetColor, SetColorFromChannels, Handles
    <3>4. QED
      BY <3>1, <3>3, AtOnceChanges DEF ColorInv, Continuous
  <2>4. QED
    BY <2>1, <2>2, <2>3 DEF Seek, GoBack
<1>3. CASE SeekStep \/ Arrive
  <2>1. PICK t : BeginStep(t)
    BY <1>3 DEF SeekStep, Arrive
  <2>2. fade' = fade /\ resetFlag \in BOOLEAN /\ phase = "idle"
    BY <2>1, <1>1 DEF BeginStep, TypeOK, ExecutorTypeOK, ClockTypeOK
  <2>3. ~ExecutesFade /\ ~SetColor /\ ~SetColorFromChannels
    BY <2>2 DEF ExecutesFade, Fade, FadeFromChannels, SetColor, SetColorFromChannels, Handles
  <2>4. QED
    BY <2>1, <2>2, <2>3, AtOnceChanges DEF BeginStep, clockVars, ColorInv, Continuous
<1>4. CASE \/ SeekStepReturns \/ SeekReturns \/ StepWhenEnded \/ CheckAndFireTriggers
           \/ (AdvanceFade /\ ~fade.active)
  <2>1. UNCHANGED <<fade, color, startColor, resetFlag>> /\ phase # "command"
    BY <1>4 DEF SeekStepReturns, SeekReturns, StepWhenEnded, CheckAndFireTriggers, AdvanceFade,
                executorVars, outputVars, fadeVars, clockVars
  <2>2. ~ExecutesFade /\ ~SetColor /\ ~SetColorFromChannels
    BY <2>1 DEF ExecutesFade, Fade, FadeFromChannels, SetColor, SetColorFromChannels, Handles
  <2>3. QED
    BY <2>1, <2>2, AtOnceChanges DEF ColorInv, Continuous
<1>5. CASE AdvanceFade /\ fade.active
  <2>1. phase # "command"
    BY <1>5 DEF AdvanceFade
  <2>2. PICK p \in {Progress(fade, now)} :
          /\ color' = Interpolate(startColor, endColor, p)
          /\ fade' = [fade EXCEPT !.active = p[1] < p[2]]
          /\ startColor' = IF p[1] < p[2] THEN startColor ELSE endColor
    BY <1>5 DEF AdvanceFade
  <2>3. CASE p[1] < p[2]
    <3>1. fade'.active
      BY <1>1, <2>2, <2>3 DEF FadeTypeOK
    <3>2. QED
      BY <2>1, <3>1 DEF ColorInv, Continuous
  <2>4. CASE ~(p[1] < p[2])
    <3>1. p = <<1, 1>>
      BY <1>1, <2>2, <2>4, ProgressEnds
    <3>2. color' = endColor /\ startColor' = endColor
      BY <1>1, <2>2, <2>4, <3>1, FadeEndsAtEndColor DEF FadeTypeOK
    <3>3. QED
      BY <2>1, <3>2 DEF ColorInv, Continuous
  <2>5. QED
    BY <2>3, <2>4
<1>6. CASE ExecuteNextCommand
  BY <1>6, HandlerColors DEF Continuous
<1>7. QED
  BY <1>2, <1>3, <1>4, <1>5, <1>6 DEF Next, ContinueSeek, InStep, ContinueStep

(* The history does not hold up the player: its invariant is still one.    *)
LEMMA AnswersInvariance == AnswersSpec => []IInv
<1>1. AnswersInit => IInv
  BY InvInit DEF AnswersInit
<1>2. IInv /\ [AnswersNext]_answerVars => IInv'
  BY InvNext DEF AnswersNext, answerVars
<1>3. QED
  BY <1>1, <1>2, PTL DEF AnswersSpec

(* A fade starts from the colour that is shown unless a fade of no length  *)
(* has shown it, for every program and every sequence of seeks: rewinds,   *)
(* ends of fades, and colours set in between included.                     *)
THEOREM FadesContinue == AnswersSpec => FadesAreContinuous
<1>1. AnswersInit => ColorInv
  BY DEF AnswersInit, Init, ExecutorInit, ColorInv
<1>2. /\ IInv /\ ColorInv /\ [AnswersNext]_answerVars
      => ColorInv' /\ [phase = "command" /\ fade'.active /\ ~atOnce => color' = color]_fade
  <2> SUFFICES ASSUME IInv, ColorInv, [AnswersNext]_answerVars
               PROVE  /\ ColorInv'
                      /\ [phase = "command" /\ fade'.active /\ ~atOnce => color' = color]_fade
    OBVIOUS
  <2>1. CASE AnswersNext
    BY <2>1, NextColors DEF AnswersNext, Continuous
  <2>2. CASE UNCHANGED answerVars
    BY <2>2 DEF answerVars, vars, executorVars, outputVars, fadeVars, clockVars, ColorInv
  <2>3. QED
    BY <2>1, <2>2
<1>3. QED
  BY <1>1, <1>2, AnswersInvariance, PTL DEF AnswersSpec, FadesAreContinuous

===========================================================================
