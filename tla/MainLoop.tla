------------------------------ MODULE MainLoop ----------------------------
(***************************************************************************)
(* An executor in the main loop of a host device.  The host calls step()   *)
(* with the time of its clock, whenever it gets to it: a call may come     *)
(* long after the wakeup time the last one returned.  Between calls the    *)
(* host may rewind or stop the program and attach or detach its signal     *)
(* source, and the channels of the source change.                          *)
(***************************************************************************)
EXTENDS Executor

CONSTANTS
  HostTimes,       \* the readings of the host's clock
  Sources0         \* what the uninitialised source pointer may be

ASSUME MainLoopAssumption ==
  /\ HostTimes \subseteq Nat
  /\ Sources0 \subseteq Sources

vars == executorVars

Init == ExecutorInit /\ wakeup = 0 /\ signalSource \in Sources0

CallStep == \E t \in HostTimes : t >= now /\ BeginStep(t)

Environment ==
  /\ phase = "idle"
  /\ SignalChanges \/ SetSignalSource
  /\ UNCHANGED <<storeVars, clockVars, fadeVars, outputVars, statusVars,
                 callVars, loopVars>>

Next == CallStep \/ ContinueStep \/ Rewind \/ Stop \/ Environment

Spec == Init /\ [][Next]_vars

(* The types of the executor's fields, in any main loop (see there).       *)
TypeOK == ExecutorTypeOK

---------------------------------------------------------------------------
(* A late call does not delay the commands that follow: the next wakeup is *)
(* where the durations of the commands put it, counted from the last reset *)
(* of the internal clock.  Only a reset ("RESET_CLOCK") that is executed   *)
(* late moves the schedule, and then the wakeup time is past.              *)
LateCallsDoNotDrift ==
  ~ended /\ ~resetFlag =>
    \/ wakeup = lastReset + cumulative
    \/ wakeup < lastReset /\ cumulative = 0

(* Nor does it make anything happen early: the commands executed so far    *)
(* are due.                                                                *)
NeverEarly == phase = "command" => now >= lastReset + cumulative

(* A channel is watched by one trigger ("When the channel already had a    *)
(* previous trigger, this function will return the same trigger",          *)
(* executor.h, findTriggerForChannelIndex()), whatever is watched and      *)
(* released, and in whatever order.  Channel 0, whose index is also that   *)
(* of the free slots, is an exception in the code.                         *)
OneTriggerPerNonzeroChannel ==
  \A r, s \in Slots :
    /\ r # s
    /\ triggers[r].active /\ triggers[s].active
    /\ triggers[r].channel # 0
    => triggers[r].channel # triggers[s].channel

(* A program that has met an error it cannot continue from is stopped, and *)
(* stays so until it is rewound, which also clears the error.              *)
FatalErrors == {"INVALID_COMMAND_CODE", "INVALID_ADDRESS",
                "NO_MORE_AVAILABLE_TRIGGERS"}

FatalErrorsStop == error \in FatalErrors => ended

---------------------------------------------------------------------------
(* Why these hold: inductive invariants.                                   *)

CallInv ==
  /\ phase # "idle" => ~resetFlag
  /\ phase = "ended" => ended
  /\ phase \in {"triggers", "fade", "command"} => ~ended
  /\ phase = "command" => now >= wakeup
  /\ ~resetFlag => lastReset <= now

ScheduleInv == TypeOK /\ CallInv /\ LateCallsDoNotDrift /\ FatalErrorsStop

(* A slot that is free has the index of channel 0.                         *)
FreeSlotsOnZero ==
  \A s \in Slots : ~triggers[s].active => triggers[s].channel = 0

SlotsInv == TypeOK /\ FreeSlotsOnZero /\ OneTriggerPerNonzeroChannel

===========================================================================
