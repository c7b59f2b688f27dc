-------------------------- MODULE MainLoop_proofs --------------------------
(***************************************************************************)
(* The executor in a main loop keeps its types, its schedule and the rule  *)
(* that one trigger watches a channel, for every set of programs and every *)
(* sequence of clock readings that does not go backwards.                  *)
(***************************************************************************)
EXTENDS MainLoop, Executor_proofs

---------------------------------------------------------------------------
(* Types.                                                                  *)

(* A new executor is in range.                                            *)
LEMMA InitType == Init => TypeOK
  BY ExecutorInitType, MainLoopAssumption DEF Init, TypeOK

(* The host and its signal source keep types.                             *)
LEMMA EnvironmentType ==
  ASSUME TypeOK, Environment
  PROVE  TypeOK'
<1>1. signal' \in [Channels -> SignalValues] /\ signalSource' \in Sources
      /\ triggers' = triggers
  BY DEF Environment, SignalChanges, SetSignalSource, TypeOK, ExecutorTypeOK,
         TriggersTypeOK, Sources
<1>2. QED
  BY <1>1 DEF Environment, TypeOK, ExecutorTypeOK, StoreTypeOK, ClockTypeOK,
     FadeTypeOK, OutputTypeOK, StatusTypeOK, CallTypeOK, LoopTypeOK, TriggersTypeOK,
     storeVars, clockVars, fadeVars, outputVars, statusVars, callVars, loopVars

(* Every step of the main loop keeps types.                               *)
LEMMA NextType == TypeOK /\ [Next]_vars => TypeOK'
  BY MainLoopAssumption, BeginStepType, ContinueStepType, RewindType, StopType,
     EnvironmentType, ExecutorStutterType
     DEF TypeOK, Next, CallStep, vars

(* Every variable of the executor stays in its range, also the loop stack, *)
(* the triggers and the suspend counter, which the host never sees.        *)
THEOREM TypeCorrect == Spec => []TypeOK
  BY InitType, NextType, PTL DEF Spec

---------------------------------------------------------------------------
(* The schedule.                                                           *)

(* The executor between its own steps: rewinding it, stopping it, changing *)
(* its inputs or beginning a call.                                         *)
LEMMA CallsSchedule ==
  ASSUME ScheduleInv, CallStep \/ Rewind \/ Stop \/ Environment \/ UNCHANGED vars
  PROVE  CallInv' /\ LateCallsDoNotDrift' /\ FatalErrorsStop'
<1> USE DEF ScheduleInv, CallInv, LateCallsDoNotDrift, FatalErrorsStop, TypeOK,
            ExecutorTypeOK
<1>1. CASE CallStep
  <2>1. PICK t \in HostTimes : t >= now /\ BeginStep(t)
    BY <1>1 DEF CallStep
  <2>2. /\ phase' = IF ended THEN "ended" ELSE "triggers"
        /\ now' = t /\ ~resetFlag' /\ t \in Nat
        /\ UNCHANGED <<ended, error>>
    BY <2>1, MainLoopAssumption DEF BeginStep, clockVars, statusVars
  <2>3. CASE resetFlag
    <3>1. lastReset' = t /\ cumulative' = 0 /\ wakeup' = t
      BY <2>1, <2>3 DEF BeginStep, SetClockOrigin
    <3>2. QED
      BY <2>2, <3>1
  <2>4. CASE ~resetFlag
    <3>1. UNCHANGED <<lastReset, cumulative, wakeup>>
      BY <2>1, <2>4 DEF BeginStep, clockVars
    <3>2. QED
      BY <2>1, <2>2, <2>4, <3>1 DEF CallTypeOK, ClockTypeOK
  <2>5. QED
    BY <2>3, <2>4
<1>2. CASE Rewind
  <2>1. resetFlag' = TRUE /\ phase' = "idle" /\ error' = "SUCCESS"
    BY <1>2 DEF Rewind, callVars
  <2>2. QED
    BY <2>1 DEF FatalErrors
<1>3. CASE Stop
  <2>1. /\ ended' = TRUE /\ phase = "idle"
        /\ UNCHANGED <<phase, now, resetFlag, lastReset>>
    BY <1>3 DEF Stop, callVars, clockVars
  <2>2. QED
    BY <2>1
<1>4. CASE Environment \/ UNCHANGED vars
  <2>1. UNCHANGED <<phase, now, resetFlag, lastReset, cumulative, wakeup, ended, error>>
    BY <1>4 DEF Environment, vars, executorVars, callVars, clockVars, statusVars
  <2>2. QED
    BY <2>1
<1>5. QED
  BY <1>1, <1>2, <1>3, <1>4

(* A command is executed: the next wakeup is where its duration puts it.   *)
LEMMA HandlerSchedule ==
  ASSUME ScheduleInv, ExecuteNextCommand
  PROVE  CallInv' /\ LateCallsDoNotDrift' /\ FatalErrorsStop'
<1> DEFINE OnSchedule == \/ wakeup = lastReset + cumulative
                         \/ wakeup < lastReset /\ cumulative = 0
<1>1. /\ phase = "command" /\ ~resetFlag /\ ~ended /\ now >= wakeup
      /\ lastReset <= now /\ OnSchedule /\ error \notin FatalErrors
  BY CommandPhase DEF ScheduleInv, CallInv, LateCallsDoNotDrift, FatalErrorsStop
<1>2. /\ now \in Nat /\ lastReset \in Nat /\ cumulative \in Nat /\ wakeup \in Nat
      /\ Fetched.delay \in Nat
  BY FetchedType DEF ScheduleInv, TypeOK, ExecutorTypeOK, StoreTypeOK, ClockTypeOK,
                     CallTypeOK, Instruction
<1>3. /\ phase' \in {"idle", "crashed"} /\ ~resetFlag' /\ now' = now
  BY <1>1 DEF ExecuteNextCommand, End, Invalid, Nop, Sleep, WaitUntil, ResetClock,
     SetColor, Fade, SetColorFromChannels, FadeFromChannels, LoopBegin, LoopEnd, Jump,
     TriggeredJump, SetPyro, SetPyroAll, UseWildSource, Handles, clockVars
<1>4. lastReset' <= now /\ OnSchedule'
  <2>1. CASE NoDelay
    BY <2>1, <1>1 DEF NoDelay
  <2>2. CASE Delay
    BY <2>2, <1>1, <1>2 DEF Delay, WakeupAfterDelay, Larger
  <2>3. CASE WaitUntil
    <3>1. wakeup' \in Nat /\ wakeup' >= lastReset
      BY <2>3, <1>2 DEF WaitUntil, Larger
    <3>2. cumulative' = wakeup' - lastReset /\ lastReset' = lastReset
      BY <2>3 DEF WaitUntil
    <3>3. wakeup' = lastReset' + cumulative'
      <4>1. \A a, b \in Nat : a = b + (a - b)
        OBVIOUS
      <4>2. QED
        BY <4>1, <3>1, <3>2, <1>2
    <3>4. QED
      BY <3>2, <3>3, <1>1
  <2>4. CASE ResetClock
    BY <2>4, <1>1, <1>2 DEF ResetClock
  <2>5. CASE UseWildSource
    BY <2>5, <1>1 DEF UseWildSource, clockVars
  <2>6. QED
    BY <2>1, <2>2, <2>3, <2>4, <2>5
       DEF ExecuteNextCommand, End, Invalid, Nop, Sleep, SetColor, Fade,
           SetColorFromChannels, FadeFromChannels, LoopBegin, LoopEnd, Jump,
           TriggeredJump, SetPyro, SetPyroAll
<1>5. error' \in FatalErrors => ended'
  <2>1. CASE UNCHANGED statusVars \/ ended' = TRUE
    BY <2>1, <1>1 DEF statusVars
  <2>2. CASE SetColorFromChannels \/ FadeFromChannels
    <3>1. PICK c \in ChannelColors, code \in Errors : ReadsChannels(c, code) /\ error' = code
      BY <2>2 DEF SetColorFromChannels, FadeFromChannels
    <3>2. QED
      BY <3>1, <1>1 DEF ReadsChannels, FatalErrors
  <2>3. CASE TriggeredJump
    BY <2>3, <1>1 DEF TriggeredJump
  <2>4. QED
    BY <2>1, <2>2, <2>3
       DEF ExecuteNextCommand, End, Invalid, Nop, Sleep, WaitUntil, ResetClock, SetColor,
           Fade, LoopBegin, LoopEnd, Jump, SetPyro, SetPyroAll, UseWildSource, StopWith
<1>6. QED
  BY <1>3, <1>4, <1>5 DEF CallInv, LateCallsDoNotDrift, FatalErrorsStop

(* The parts of step() before the command handlers keep the schedule.     *)
LEMMA StepSchedule ==
  ASSUME ScheduleInv, StepWhenEnded \/ CheckAndFireTriggers \/ AdvanceFade
  PROVE  CallInv' /\ LateCallsDoNotDrift' /\ FatalErrorsStop'
<1> USE DEF ScheduleInv, CallInv, LateCallsDoNotDrift, FatalErrorsStop
<1>1. CASE StepWhenEnded
  <2>1. /\ phase = "ended" /\ phase' = "idle"
        /\ UNCHANGED <<now, resetFlag, ended, error, lastReset>>
    BY <1>1 DEF StepWhenEnded, statusVars
  <2>2. QED
    BY <2>1
<1>2. CASE CheckAndFireTriggers
  <2>1. /\ phase = "triggers" /\ phase' = "fade"
        /\ UNCHANGED <<now, resetFlag, ended, error, wakeup, lastReset, cumulative>>
    BY <1>2 DEF CheckAndFireTriggers, statusVars, clockVars
  <2>2. QED
    BY <2>1
<1>3. CASE AdvanceFade
  <2>1. /\ phase = "fade" /\ phase' = IF now >= wakeup THEN "command" ELSE "idle"
        /\ UNCHANGED <<now, resetFlag, ended, error, wakeup, lastReset, cumulative>>
    BY <1>3 DEF AdvanceFade, statusVars, clockVars
  <2>2. QED
    BY <2>1
<1>4. QED
  BY <1>1, <1>2, <1>3

(* The schedule of the executor is never lost, however late step() is     *)
(* called.                                                                *)
THEOREM ScheduleInvariance == Spec => []ScheduleInv
<1>1. Init => ScheduleInv
  <2> SUFFICES ASSUME Init PROVE ScheduleInv
    OBVIOUS
  <2>1. TypeOK
    BY InitType
  <2>2. QED
    BY <2>1 DEF Init, ExecutorInit, ScheduleInv, CallInv, LateCallsDoNotDrift,
                FatalErrorsStop, FatalErrors
<1>2. ScheduleInv /\ [Next]_vars => ScheduleInv'
  <2> SUFFICES ASSUME ScheduleInv, [Next]_vars PROVE ScheduleInv'
    OBVIOUS
  <2>1. TypeOK'
    BY NextType DEF ScheduleInv
  <2>2. QED
    BY <2>1, CallsSchedule, HandlerSchedule, StepSchedule
       DEF ScheduleInv, Next, ContinueStep
<1>3. QED
  BY <1>1, <1>2, PTL DEF Spec

(* However late the host calls step(), the next wakeup is where the        *)
(* durations of the commands put it.                                       *)
THEOREM NoDrift == Spec => []LateCallsDoNotDrift
<1>1. ScheduleInv => LateCallsDoNotDrift
  BY DEF ScheduleInv
<1>2. QED
  BY <1>1, ScheduleInvariance, PTL

(* No command is executed before the time the commands before it take.     *)
THEOREM NothingIsEarly == Spec => []NeverEarly
<1>1. ScheduleInv => NeverEarly
  BY DEF ScheduleInv, CallInv, LateCallsDoNotDrift, NeverEarly, TypeOK, ExecutorTypeOK,
         ClockTypeOK, CallTypeOK
<1>2. QED
  BY <1>1, ScheduleInvariance, PTL

(* A program that has met a fatal error is stopped until it is rewound.    *)
THEOREM FatalErrorsAreFinal == Spec => []FatalErrorsStop
<1>1. ScheduleInv => FatalErrorsStop
  BY DEF ScheduleInv
<1>2. QED
  BY <1>1, ScheduleInvariance, PTL

---------------------------------------------------------------------------
(* The triggers.                                                           *)

(* Setting up a trigger: the slot that is chosen is the only one that may  *)
(* already watch the channel.                                              *)
LEMMA TriggeredJumpSlots ==
  ASSUME SlotsInv, TriggeredJump
  PROVE  FreeSlotsOnZero' /\ OneTriggerPerNonzeroChannel'
<1> USE DEF OneTriggerPerNonzeroChannel
<1> DEFINE channel == Fetched.channel
           slot    == FirstSlotFor(channel)
           armed   == [Watching(triggers[slot], channel, Fetched.edge)
                         EXCEPT !.oneShot = Fetched.oneShot]
<1>1. /\ triggers \in [Slots -> TriggerRecord]
      /\ \A s \in Slots : triggers[s].active => triggers[s].channel \in Channels
  BY DEF SlotsInv, TypeOK, ExecutorTypeOK, TriggersTypeOK
<1>2. CASE SlotsFor(channel) = {}
  <2>1. UNCHANGED triggers
    BY <1>2 DEF TriggeredJump
  <2>2. QED
    BY <2>1 DEF SlotsInv, FreeSlotsOnZero
<1>3. CASE SlotsFor(channel) # {}
  <2>1. slot \in Slots /\ slot \in SlotsFor(channel)
    BY <1>3, FirstSlotType
  <2>2. triggers' = [triggers EXCEPT ![slot] = armed]
    BY <1>3 DEF TriggeredJump
  <2>3. \/ armed.active /\ armed.channel = channel
        \/ ~armed.active /\ armed.channel = 0
    BY <1>1, <2>1, WatchingChannel
  <2>4. ASSUME NEW s \in Slots, s # slot, triggers[s].active, armed.active,
               triggers[s].channel # 0
        PROVE  triggers[s].channel # armed.channel
    <3> SUFFICES ASSUME triggers[s].channel = channel PROVE FALSE
      BY <2>3, <2>4
    <3>1. triggers[slot].channel = channel
      BY <2>1 DEF SlotsFor
    <3>2. triggers[slot].active
      BY <2>1, <2>4, <3>1 DEF SlotsInv, FreeSlotsOnZero
    <3>3. QED
      BY <1>1, <2>1, <2>4, <3>1, <3>2 DEF SlotsInv
  <2> HIDE DEF armed, slot, channel
  <2>5. QED
    BY <1>1, <2>1, <2>2, <2>3, <2>4 DEF SlotsInv, FreeSlotsOnZero
<1>4. QED
  BY <1>2, <1>3

(* Every step keeps the slots of the triggers apart.                      *)
LEMMA NextSlots ==
  ASSUME SlotsInv, [Next]_vars
  PROVE  FreeSlotsOnZero' /\ OneTriggerPerNonzeroChannel'
<1>1. CASE UNCHANGED triggers
  BY <1>1 DEF SlotsInv, FreeSlotsOnZero, OneTriggerPerNonzeroChannel
<1>2. CASE CheckAndFireTriggers
  <2>1. ASSUME NEW s \in Slots
        PROVE  \/ /\ triggers'[s].active = triggers[s].active
                  /\ triggers'[s].channel = triggers[s].channel
               \/ ~triggers'[s].active /\ triggers'[s].channel = 0
    BY <1>2, CheckedChannel
       DEF CheckAndFireTriggers, SlotsInv, TypeOK, ExecutorTypeOK, TriggersTypeOK
  <2>2. QED
    BY <2>1 DEF SlotsInv, FreeSlotsOnZero, OneTriggerPerNonzeroChannel
<1>3. CASE TriggeredJump
  BY <1>3, TriggeredJumpSlots
<1>4. QED
  BY <1>1, <1>2, <1>3
     DEF Next, CallStep, BeginStep, ContinueStep, StepWhenEnded, AdvanceFade, Rewind,
         Stop, Environment, SignalChanges, SetSignalSource, ExecuteNextCommand, End,
         Invalid, Nop, Sleep, WaitUntil, ResetClock, SetColor, Fade,
         SetColorFromChannels, FadeFromChannels, LoopBegin, LoopEnd, Jump, SetPyro,
         SetPyroAll, UseWildSource, vars, executorVars, triggerVars

(* Channel 0 aside, a channel is never watched by two triggers.            *)
THEOREM OneTriggerEach == Spec => []OneTriggerPerNonzeroChannel
<1>1. Init => SlotsInv
  <2> SUFFICES ASSUME Init PROVE SlotsInv
    OBVIOUS
  <2>1. TypeOK
    BY InitType
  <2>2. ASSUME NEW s \in Slots
        PROVE  ~triggers[s].active /\ triggers[s].channel = 0
    BY DEF Init, ExecutorInit, TriggersInit, FreshTrigger
  <2>3. QED
    BY <2>1, <2>2 DEF SlotsInv, FreeSlotsOnZero, OneTriggerPerNonzeroChannel
<1>2. SlotsInv /\ [Next]_vars => SlotsInv'
  BY NextType, NextSlots DEF SlotsInv
<1>3. SlotsInv => OneTriggerPerNonzeroChannel
  BY DEF SlotsInv
<1>4. QED
  BY <1>1, <1>2, <1>3, PTL DEF Spec

===========================================================================
