---------------------------- MODULE LightPlayer ---------------------------
(***************************************************************************)
(* sb_light_player_t and BytecodePlayer: a playhead over a light program   *)
(* that can be moved to any time, forwards or backwards, by driving an     *)
(* executor.  A query (colour, pyro channels, seek) moves the playhead to  *)
(* its timestamp and reads the executor's outputs there.                   *)
(*                                                                         *)
(* seek() is the only operation; it is broken at every call of step().     *)
(***************************************************************************)
EXTENDS Executor

CONSTANTS
  Targets,         \* timestamps that are asked for
  Sources0         \* what the uninitialised source pointer may be

ASSUME LightPlayerAssumption ==
  /\ Targets \subseteq Nat
  /\ Sources0 \subseteq Sources

VARIABLES
  currentTimestamp,   \* m_currentTimestamp
  nextTimestamp,      \* m_nextTimestamp
  target,             \* argument of the last seek()
  seekState           \* what seek() is doing, see SeekStates

playerVars == <<currentTimestamp, nextTimestamp, target, seekState>>
vars       == <<playerVars, executorVars>>

(*   "ready"     no call is in progress                                    *)
(*   "loop"      at the head of the loop                                   *)
(*   "stepping"  in the call of step() in the loop                         *)
(*   "arriving"  in the last call of step(), at the target                 *)
SeekStates == {"ready", "loop", "stepping", "arriving"}

(* The types of the player and its executor (see ExecutorTypeOK).          *)
TypeOK ==
  /\ ExecutorTypeOK
  /\ currentTimestamp \in Nat /\ nextTimestamp \in Nat /\ target \in Nat
  /\ seekState \in SeekStates

(* sb_light_player_init: the executor makes a step at time 0 without a     *)
(* store, is then given its store, and rewinds.                            *)
Init ==
  /\ ExecutorInit /\ wakeup = IdleDelay /\ signalSource \in Sources0
  /\ currentTimestamp = 0 /\ nextTimestamp = 0 /\ target = 0
  /\ seekState = "ready"

(* Mutant: the executor is not told.                                       *)
GoBackAlone ==
  currentTimestamp' = 0 /\ nextTimestamp' = 0 /\ UNCHANGED executorVars

GoBack == Rewind /\ currentTimestamp' = 0 /\ nextTimestamp' = 0

(* seek(t) begins.  To go backwards it restarts the program.               *)
Seek(t) ==
  /\ seekState = "ready"
  /\ target' = t
  /\ seekState' = "loop"
  /\ \/ /\ t < currentTimestamp
        /\ GoBack
     \/ /\ t >= currentTimestamp
        /\ UNCHANGED <<currentTimestamp, nextTimestamp, executorVars>>

SeekStep ==
  /\ seekState = "loop" /\ target > nextTimestamp
  /\ BeginStep(nextTimestamp)
  /\ seekState' = "stepping"
  /\ UNCHANGED <<currentTimestamp, nextTimestamp, target>>

(* Mutant: a wakeup time that is now is taken for one in the past.         *)
TimestampPastNow ==
  IF wakeup <= nextTimestamp THEN nextTimestamp + 1 ELSE wakeup

TimestampAfterStep ==
  IF wakeup < nextTimestamp THEN nextTimestamp + 1 ELSE wakeup

SeekStepReturns ==
  /\ seekState = "stepping" /\ phase = "idle"
  /\ currentTimestamp' = nextTimestamp
  /\ nextTimestamp' = TimestampAfterStep
  /\ seekState' = "loop"
  /\ UNCHANGED <<target, executorVars>>

Arrive ==
  /\ seekState = "loop" /\ target <= nextTimestamp
  /\ BeginStep(target)
  /\ seekState' = "arriving"
  /\ UNCHANGED <<currentTimestamp, nextTimestamp, target>>

(* Mutant: the playhead goes on to the next command.                       *)
SeekReturnsAtWakeup ==
  /\ seekState = "arriving" /\ phase = "idle"
  /\ nextTimestamp' = wakeup
  /\ currentTimestamp' = wakeup
  /\ seekState' = "ready"
  /\ UNCHANGED <<target, executorVars>>

SeekReturns ==
  /\ seekState = "arriving" /\ phase = "idle"
  /\ nextTimestamp' = wakeup
  /\ currentTimestamp' = target
  /\ seekState' = "ready"
  /\ UNCHANGED <<target, executorVars>>

InStep == ContinueStep /\ UNCHANGED playerVars

ContinueSeek == SeekStep \/ SeekStepReturns \/ Arrive \/ SeekReturns \/ InStep

Next == (\E t \in Targets : Seek(t)) \/ ContinueSeek

Spec == Init /\ [][Next]_vars

(* The library is sequential: a call that was made keeps running.          *)
FairSpec == Spec /\ WF_vars(ContinueSeek)

---------------------------------------------------------------------------
(* A command is executed exactly when it is due: the loop of seek() never  *)
(* steps over the wakeup time of the executor, so a show is played by the  *)
(* player without the delays that a late call of step() would cause.       *)
ExecutesOnTime == phase = "command" => now = wakeup

(* A running fade ends at the next wakeup, so it is over when the next     *)
(* command is executed, when the program ends, and when the clock is       *)
(* reset: no handler finds a fade half done.                               *)
FadeTracksWakeup ==
  fade.active => /\ fade.start + fade.duration = wakeup
                 /\ phase # "command" /\ ~ended /\ ~resetFlag

(* bytecode_player.h, seek(): the timestamp returned for the next command  *)
(* "is guaranteed to be at least as large as the given timestamp".         *)
NextNotBeforeTarget ==
  seekState = "ready" => nextTimestamp >= currentTimestamp

(* The times given to step() never decrease, except when the program is    *)
(* restarted, which rewinds the executor first ("The executor assumes that *)
(* time always goes forward", executor.h).                                 *)
StepTimesGoForward == [][now' >= now \/ resetFlag]_now

(* Every call of seek() returns.                                           *)
SeekTerminates == seekState # "ready" ~> seekState = "ready"

(* The player implements the playhead.                                     *)
P == INSTANCE Playhead WITH Points <- Targets, head <- currentTimestamp,
                            goal <- target, busy <- seekState # "ready"

ImplementsPlayhead == P!HeadSpec

---------------------------------------------------------------------------
(* Why these hold: an inductive invariant.                                 *)

(* The loop hands every time over to the executor, and gets a wakeup time  *)
(* back that is not in the past.                                           *)
InCall == phase # "idle"

SeekInv ==
  /\ seekState \in {"ready", "loop"} => ~InCall
  /\ seekState # "ready" => target >= currentTimestamp
  /\ seekState = "stepping" => now = nextTimestamp /\ nextTimestamp < target
  /\ seekState = "arriving" => now = target
  /\ seekState \in {"stepping", "arriving"} => ~resetFlag

(* Between two calls of step() the player knows when the executor wants to *)
(* be called again, except when the program has been restarted.            *)
HandOverInv ==
  /\ currentTimestamp <= nextTimestamp
  /\ resetFlag => currentTimestamp = 0 /\ nextTimestamp = 0
  /\ ~resetFlag /\ seekState \in {"ready", "loop"} =>
       nextTimestamp = wakeup /\ currentTimestamp = now

(* The executor is never behind its schedule.                              *)
ScheduleInv ==
  ~resetFlag => /\ now <= wakeup
                /\ ~ended => wakeup = lastReset + cumulative

PhaseInv ==
  /\ phase = "ended" => ended
  /\ phase \in {"triggers", "fade", "command"} => ~ended

(* The inductive invariant: after every step of seek() and of the executor,*)
(* what one of them remembers about time fits what the other one does.     *)
IInv == /\ TypeOK /\ SeekInv /\ HandOverInv /\ ScheduleInv /\ PhaseInv
        /\ ExecutesOnTime /\ FadeTracksWakeup

===========================================================================
