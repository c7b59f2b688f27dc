----------------------------- MODULE Executor -----------------------------
(***************************************************************************)
(* CommandExecutor: runs a light program against a clock.                  *)
(*                                                                         *)
(* The host calls step(now) again and again.  A call first acts on a       *)
(* pending clock reset, then checks the triggers, then advances the        *)
(* running fade, and at last executes one command if its time has come.    *)
(* These parts are steps of their own here; "phase" says which one is next *)
(* ("idle": no call is in progress).  Each command handler is an action.   *)
(*                                                                         *)
(* Times are milliseconds of the host's clock.  The clock skew factor is   *)
(* its default, 1, and floating-point arithmetic is exact.                 *)
(* m_currentCommandStartTime equals now whenever it is read and has no     *)
(* variable.                                                               *)
(***************************************************************************)
EXTENDS Bytecode, LoopStack, Triggers

CONSTANTS
  Programs,        \* the light programs considered, decoded (see Bytecode)
  IntMax,          \* jump addresses from IntMax on are invalid (INT_MAX)
  IdleDelay,       \* wakeup delay of a finished program (60000)
  TimeModulus,     \* number of values of the host's unsigned long
  SuspendLimit     \* a short holds -SuspendLimit .. SuspendLimit - 1 (2^15)

(* A function from locations to instructions, such as Decode returns.  The *)
(* delays fit an unsigned long.                                            *)
IsProgram(p) ==
  \A loc \in DOMAIN p : /\ loc \in Nat
                         /\ p[loc] \in Instruction
                         /\ p[loc].delay < TimeModulus

ASSUME ProgramsAssumption == \A p \in Programs : IsProgram(p)

ASSUME ExecutorAssumption ==
  /\ HalfFrame \in Nat \ {0}
  /\ IdleDelay \in Nat \ {0}
  /\ IntMax \in Nat \ {0}
  /\ TimeModulus \in Nat \ {0}
  /\ SuspendLimit \in Nat \ {0}

VARIABLES
  program,         \* the program in the bytecode store; never changes
  pc,              \* m_nextIndex of the store
  suspendCounter,  \* m_suspendCounter of the store
  color, pyro,     \* outputs: current colour, pyro channels that are on
  ended,
  cumulative,      \* m_cumulativeDurationSinceStart
  lastReset,       \* m_lastClockResetTime
  wakeup,          \* m_nextWakeupTime
  resetFlag,       \* m_resetClockFlag
  fade,            \* m_transition
  startColor,      \* of the transition handler
  endColor,
  error,           \* last error code given to the error handler
  now,             \* argument of the last call of step()
  phase            \* what is left of that call

storeVars    == <<program, pc, suspendCounter>>
clockVars    == <<cumulative, lastReset, wakeup, resetFlag>>
fadeVars     == <<fade, startColor, endColor>>
outputVars   == <<color, pyro>>
statusVars   == <<ended, error>>
callVars     == <<now, phase>>
executorVars == <<storeVars, clockVars, fadeVars, outputVars, statusVars,
                  callVars, loopVars, triggerVars>>

Phases == {"idle", "ended", "triggers", "fade", "command", "crashed"}

Errors == {"SUCCESS", "INVALID_COMMAND_CODE", "OPERATION_NOT_SUPPORTED",
           "INVALID_ADDRESS", "INVALID_CHANNEL_INDEX",
           "NO_MORE_AVAILABLE_TRIGGERS"}

StoreTypeOK  == /\ IsProgram(program) /\ pc \in Nat
                /\ suspendCounter \in -SuspendLimit .. SuspendLimit - 1
ClockTypeOK  == /\ cumulative \in Nat /\ lastReset \in Nat /\ wakeup \in Nat
                /\ resetFlag \in BOOLEAN
FadeTypeOK   == /\ fade \in [active: BOOLEAN, start: Nat, duration: Nat]
                /\ startColor \in Color /\ endColor \in Color
OutputTypeOK == color \in Color /\ pyro \in SUBSET PyroChannels
StatusTypeOK == ended \in BOOLEAN /\ error \in Errors
CallTypeOK   == now \in Nat /\ phase \in Phases

(* Every field has a value of its type: in particular the loop stack never *)
(* grows past its one overflowing item, an active trigger watches a        *)
(* channel that exists, and the suspend counter stays in its short.        *)
ExecutorTypeOK ==
  /\ StoreTypeOK /\ ClockTypeOK /\ FadeTypeOK /\ OutputTypeOK
  /\ StatusTypeOK /\ CallTypeOK /\ LoopTypeOK /\ TriggersTypeOK

(* Mutant: a wakeup time is set even if it is before the present one.      *)
Second(a, b) == b

Larger(a, b) == IF a < b THEN b ELSE a

StoreIsEmpty == DOMAIN program = {}

(***************************************************************************)
(* The state after the constructor and setBytecodeStore().  Time fields    *)
(* the constructor leaves uninitialised are zero here: the reset that is   *)
(* pending writes them before they are read.                               *)
(***************************************************************************)
ExecutorInit ==
  /\ program \in Programs /\ pc = 0 /\ suspendCounter = 0
  /\ color = Black /\ pyro = {} /\ startColor = Black /\ endColor = Black
  /\ ended = StoreIsEmpty /\ error = "SUCCESS"
  /\ cumulative = 0 /\ lastReset = 0 /\ resetFlag = TRUE
  /\ fade = [active |-> FALSE, start |-> 0, duration |-> 0]
  /\ now = 0 /\ phase = "idle"
  /\ NoLoops
  /\ TriggersInit

---------------------------------------------------------------------------
(* Calls from the host, between two calls of step().                       *)

(* Mutants: rewind() leaves the fade running, or the pyro channels on.     *)
FadeRunsOn   == UNCHANGED fade
PyroStaysOn  == UNCHANGED pyro

CancelFade   == fade' = [fade EXCEPT !.active = FALSE]
ClearPyro    == pyro' = {}

(* rewind(): neither the triggers nor the suspend counter are touched.     *)
Rewind ==
  /\ phase = "idle"
  /\ pc' = 0 /\ ended' = StoreIsEmpty
  /\ ClearLoops
  /\ CancelFade
  /\ ClearPyro /\ color' = Black
  /\ error' = "SUCCESS" /\ resetFlag' = TRUE
  /\ UNCHANGED <<program, suspendCounter, startColor, endColor, cumulative,
                 lastReset, wakeup, callVars, triggerVars>>

Stop ==
  /\ phase = "idle"
  /\ ended' = TRUE
  /\ UNCHANGED <<storeVars, clockVars, fadeVars, outputVars, error, callVars,
                 loopVars, triggerVars>>

---------------------------------------------------------------------------
(* One call of step(t).                                                    *)

(* Mutants: a reset of the clock that leaves something as it was.          *)
ClockOriginKeepingWakeup(t)   == lastReset' = t /\ cumulative' = 0 /\ UNCHANGED wakeup
ClockOriginKeepingDuration(t) == lastReset' = t /\ wakeup' = t /\ UNCHANGED cumulative

SetClockOrigin(t) == lastReset' = t /\ cumulative' = 0 /\ wakeup' = t

(* The call begins: a pending reset makes t the origin of the internal     *)
(* clock, and black the colour to start from.                              *)
BeginStep(t) ==
  /\ phase = "idle"
  /\ now' = t
  /\ \/ /\ resetFlag
        /\ SetClockOrigin(t)
        /\ color' = Black /\ startColor' = Black
        /\ resetFlag' = FALSE
     \/ /\ ~resetFlag
        /\ UNCHANGED <<clockVars, color, startColor>>
  /\ phase' = IF ended THEN "ended" ELSE "triggers"
  /\ UNCHANGED <<storeVars, fade, endColor, pyro, statusVars, loopVars,
                 triggerVars>>

IdleWakeup == now + IdleDelay

StepWhenEnded ==
  /\ phase = "ended"
  /\ wakeup' = IdleWakeup
  /\ phase' = "idle"
  /\ UNCHANGED <<storeVars, cumulative, lastReset, resetFlag, fadeVars,
                 outputVars, statusVars, now, loopVars, triggerVars>>

(* A signed short that wraps.                                              *)
Short(n) == ((n + SuspendLimit) % (2 * SuspendLimit)) - SuspendLimit

(* Every trigger that fires resumes the store.  (No code gives a trigger   *)
(* another action than RESUME, the first of the enumeration.)              *)
CheckAndFireTriggers ==
  /\ phase = "triggers"
  /\ triggers' = [s \in Slots |-> Checked(triggers[s], now)]
  /\ suspendCounter' =
       Short(suspendCounter - Cardinality({s \in Slots : Fires(triggers[s], now)}))
  /\ phase' = "fade"
  /\ UNCHANGED <<program, pc, clockVars, fadeVars, outputVars, statusVars,
                 now, loopVars, signalSource, signal>>

(* Mutant: progress is not limited to 1.                                   *)
UnlimitedProgress(f, t) ==
  IF t < f.start THEN <<0, 1>> ELSE <<t - f.start, Larger(1, f.duration)>>

(* Progress of a fade at time t, as a fraction <<numerator, denominator>>. *)
Progress(f, t) ==
  CASE t < f.start                -> <<0, 1>>
    [] t >= f.start + f.duration  -> <<1, 1>>
    [] OTHER                      -> <<t - f.start, f.duration>>

(* Interpolation is linear and rounds towards zero.                        *)
Interpolate(from, to, p) ==
  [i \in 1 .. 3 |-> (from[i] * p[2] + (to[i] - from[i]) * p[1]) \div p[2]]

AdvanceFade ==
  /\ phase = "fade"
  /\ phase' = IF now >= wakeup THEN "command" ELSE "idle"
  /\ \/ /\ fade.active
        /\ LET p == Progress(fade, now)
           IN  /\ color' = Interpolate(startColor, endColor, p)
               /\ fade' = [fade EXCEPT !.active = p[1] < p[2]]
               /\ startColor' = IF p[1] < p[2] THEN startColor ELSE endColor
     \/ /\ ~fade.active
        /\ UNCHANGED <<color, fade, startColor>>
  /\ UNCHANGED <<storeVars, clockVars, endColor, pyro, statusVars, now,
                 loopVars, triggerVars>>

---------------------------------------------------------------------------
(* The command that is fetched, and what handlers have in common.          *)

Suspended == suspendCounter > 0

Fetched ==
  IF Suspended THEN Blank("NOP", pc)
  ELSE IF pc \in DOMAIN program THEN program[pc]
  ELSE Blank("END", pc)

(* A handler runs to its end and the call of step() returns.               *)
Handles(op) ==
  /\ phase = "command"
  /\ Fetched.op = op
  /\ phase' = "idle"
  /\ UNCHANGED <<program, suspendCounter, now, resetFlag, signalSource, signal>>

FallThrough == pc' = Fetched.next

(* Mutant: durations are counted from the time of the call.                *)
WakeupFromNow == Larger(wakeup, now + Fetched.delay)

(* handleDelayByte: the wakeup time never moves backwards.                 *)
WakeupAfterDelay ==
  Larger(wakeup, lastReset + cumulative + Fetched.delay)

Delay ==
  /\ cumulative' = cumulative + Fetched.delay
  /\ wakeup' = WakeupAfterDelay
  /\ UNCHANGED lastReset

NoDelay == UNCHANGED <<cumulative, lastReset, wakeup>>

(* Mutant: the next fade starts from an older colour.                      *)
ShowColorOnly(c) == color' = c /\ UNCHANGED <<startColor, fade, endColor, pyro>>

(* setCurrentColorAndResetTransition                                       *)
ShowColor(c) ==
  /\ color' = c /\ startColor' = c
  /\ UNCHANGED <<fade, endColor, pyro>>

(* fadeColorOfLEDStrip: the fade lasts until the wakeup time, by unsigned  *)
(* subtraction, and makes its first step at once.                          *)
FadeTo(c) ==
  LET duration == (WakeupAfterDelay - now) % TimeModulus
  IN  /\ endColor' = c
      /\ fade' = [active |-> duration > 0, start |-> now, duration |-> duration]
      /\ color' = IF duration > 0 THEN startColor ELSE c
      /\ UNCHANGED <<startColor, pyro>>

IsAddressValid(address) == address < IntMax

(* Mutant: an error that does not stop the program.                        *)
ReportOnly(code) == error' = code /\ UNCHANGED ended

StopWith(code) == ended' = TRUE /\ error' = code

---------------------------------------------------------------------------
(* The handlers.                                                           *)

End ==
  /\ Handles("END") /\ FallThrough /\ NoDelay
  /\ ended' = TRUE
  /\ UNCHANGED <<error, fadeVars, outputVars, loopVars, triggers>>

Invalid ==
  /\ Handles("INVALID") /\ FallThrough /\ NoDelay
  /\ StopWith("INVALID_COMMAND_CODE")
  /\ UNCHANGED <<fadeVars, outputVars, loopVars, triggers>>

Nop ==
  /\ Handles("NOP") /\ FallThrough /\ NoDelay
  /\ UNCHANGED <<statusVars, fadeVars, outputVars, loopVars, triggers>>

Sleep ==
  /\ Handles("SLEEP") /\ FallThrough /\ Delay
  /\ UNCHANGED <<statusVars, fadeVars, outputVars, loopVars, triggers>>

WaitUntil ==
  /\ Handles("WAIT_UNTIL") /\ FallThrough
  /\ wakeup' = Larger(wakeup, lastReset + Fetched.delay)
  /\ cumulative' = wakeup' - lastReset
  /\ UNCHANGED <<lastReset, statusVars, fadeVars, outputVars, loopVars, triggers>>

ResetClock ==
  /\ Handles("RESET_CLOCK") /\ FallThrough
  /\ lastReset' = now /\ cumulative' = 0
  /\ UNCHANGED <<wakeup, statusVars, fadeVars, outputVars, loopVars, triggers>>

SetColor ==
  /\ Handles("SET_COLOR") /\ FallThrough /\ Delay
  /\ ShowColor(Fetched.rgb)
  /\ UNCHANGED <<statusVars, loopVars, triggers>>

Fade ==
  /\ Handles("FADE") /\ FallThrough /\ Delay
  /\ FadeTo(Fetched.rgb)
  /\ UNCHANGED <<statusVars, loopVars, triggers>>

(* The colour read from three channels of the source, and the error this   *)
(* leaves behind.  How the source filters a channel is not specified.      *)
ReadsChannels(c, code) ==
  \/ signalSource = "null" /\ c = Black /\ code = "OPERATION_NOT_SUPPORTED"
  \/ /\ signalSource = "bound"
     /\ \A i \in 1 .. 3 : IF Fetched.rgb[i] \in Channels
                          THEN c[i] \in SignalValues ELSE c[i] = 0
     /\ code = IF \A i \in 1 .. 3 : Fetched.rgb[i] \in Channels
               THEN error ELSE "INVALID_CHANNEL_INDEX"

ChannelColors == [1 .. 3 -> SignalValues \cup {0}]

SetColorFromChannels ==
  /\ Handles("SET_FROM_CHANNELS") /\ FallThrough /\ Delay
  /\ \E c \in ChannelColors, code \in Errors :
       /\ ReadsChannels(c, code) /\ ShowColor(c) /\ error' = code
  /\ UNCHANGED <<ended, loopVars, triggers>>

FadeFromChannels ==
  /\ Handles("FADE_FROM_CHANNELS") /\ FallThrough /\ Delay
  /\ \E c \in ChannelColors, code \in Errors :
       /\ ReadsChannels(c, code) /\ FadeTo(c) /\ error' = code
  /\ UNCHANGED <<ended, loopVars, triggers>>

LoopBegin ==
  /\ Handles("LOOP_BEGIN") /\ FallThrough /\ NoDelay
  /\ BeginLoop(Fetched.next, Fetched.count)
  /\ UNCHANGED <<statusVars, fadeVars, outputVars, triggers>>

LoopEnd ==
  /\ Handles("LOOP_END") /\ NoDelay
  /\ EndLoop
  /\ pc' = IF EndLoopTarget = NOWHERE THEN Fetched.next ELSE EndLoopTarget
  /\ UNCHANGED <<statusVars, fadeVars, outputVars, triggers>>

Jump ==
  /\ Handles("JUMP") /\ NoDelay
  /\ \/ /\ IsAddressValid(Fetched.address)
        /\ pc' = Fetched.address
        /\ ClearLoops
        /\ UNCHANGED statusVars
     \/ /\ ~IsAddressValid(Fetched.address)
        /\ FallThrough
        /\ StopWith("INVALID_ADDRESS")
        /\ UNCHANGED loopVars
  /\ UNCHANGED <<fadeVars, outputVars, triggers>>

(* An invalid address stops the program, but the trigger is set up all the *)
(* same.  A valid one is not stored anywhere.                              *)
TriggeredJump ==
  LET channel == Fetched.channel
      slot    == FirstSlotFor(channel)
      bad     == ~IsAddressValid(Fetched.address)
      full    == SlotsFor(channel) = {}
  IN  /\ Handles("TRIGGERED_JUMP") /\ FallThrough /\ NoDelay
      /\ signalSource # "wild" \/ full
      /\ triggers' =
           IF full THEN triggers
           ELSE [triggers EXCEPT
                   ![slot] = [Watching(@, channel, Fetched.edge)
                                EXCEPT !.oneShot = Fetched.oneShot]]
      /\ ended' = (ended \/ bad \/ full)
      /\ error' = IF full THEN "NO_MORE_AVAILABLE_TRIGGERS"
                  ELSE IF bad THEN "INVALID_ADDRESS" ELSE error
      /\ UNCHANGED <<fadeVars, outputVars, loopVars>>

SetPyro ==
  /\ Handles("SET_PYRO") /\ FallThrough /\ NoDelay
  /\ pyro' = IF Fetched.turnOn THEN pyro \cup Fetched.pyro
                               ELSE pyro \ Fetched.pyro
  /\ UNCHANGED <<color, statusVars, fadeVars, loopVars, triggers>>

SetPyroAll ==
  /\ Handles("SET_PYRO_ALL") /\ FallThrough /\ NoDelay
  /\ pyro' = Fetched.pyro
  /\ UNCHANGED <<color, statusVars, fadeVars, loopVars, triggers>>

(* A command that calls the signal source through a wild pointer.          *)
UseWildSource ==
  /\ phase = "command" /\ signalSource = "wild"
  /\ \/ Fetched.op \in {"SET_FROM_CHANNELS", "FADE_FROM_CHANNELS"}
     \/ Fetched.op = "TRIGGERED_JUMP" /\ SlotsFor(Fetched.channel) # {}
  /\ phase' = "crashed"
  /\ UNCHANGED <<storeVars, clockVars, fadeVars, outputVars, statusVars, now,
                 loopVars, triggerVars>>

ExecuteNextCommand ==
  \/ End \/ Invalid \/ Nop \/ Sleep \/ WaitUntil \/ ResetClock
  \/ SetColor \/ Fade \/ SetColorFromChannels \/ FadeFromChannels
  \/ LoopBegin \/ LoopEnd \/ Jump \/ TriggeredJump
  \/ SetPyro \/ SetPyroAll
  \/ UseWildSource

(* What remains of a call of step() once it has begun.                     *)
ContinueStep ==
  \/ StepWhenEnded
  \/ CheckAndFireTriggers
  \/ AdvanceFade
  \/ ExecuteNextCommand

===========================================================================
