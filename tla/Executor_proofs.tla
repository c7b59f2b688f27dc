-------------------------- MODULE Executor_proofs -------------------------
(***************************************************************************)
(* Type correctness of the executor: no command, and no other part of a    *)
(* call of step(), takes a variable out of the range of its C++ type.      *)
(***************************************************************************)
EXTENDS Executor, FiniteSetTheorems, SequenceTheorems, TLAPS

---------------------------------------------------------------------------
(* Helpers.                                                                *)

(* A remainder is below its divisor, whatever the dividend.  (Stated once, *)
(* because the solver gets lost in larger terms that contain it.)          *)
LEMMA ModRange ==
  ASSUME NEW a \in Int, NEW n \in Nat \ {0}
  PROVE  a % n \in 0 .. n - 1
  BY SMT

(* A number below the modulus is its own remainder.                       *)
LEMMA ModSmall ==
  ASSUME NEW a \in Nat, NEW n \in Nat, a < n
  PROVE  a % n = a
  BY SMT

(* A signed short stays in its range (resume() on the suspend counter).    *)
LEMMA ShortType ==
  ASSUME NEW n \in Int
  PROVE  Short(n) \in -SuspendLimit .. SuspendLimit - 1
<1>1. SuspendLimit \in Nat \ {0}
  BY ExecutorAssumption
<1>2. 2 * SuspendLimit \in Nat \ {0} /\ n + SuspendLimit \in Int
  BY <1>1
<1>3. (n + SuspendLimit) % (2 * SuspendLimit) \in 0 .. 2 * SuspendLimit - 1
  BY <1>2, ModRange
<1>4. QED
  BY <1>1, <1>3 DEF Short

(* A quotient whose dividend is between 0 and 255 divisors is a byte.      *)
LEMMA ByteQuotient ==
  ASSUME NEW a \in Int, NEW d \in Nat \ {0}, 0 <= a, a <= 255 * d
  PROVE  a \div d \in Byte
  BY SMT DEF Byte

(* The colour of a fade lies between its end points, so it is a colour     *)
(* (sb_rgb_color_linear_interpolation).                                    *)
LEMMA InterpolateType ==
  ASSUME NEW from \in Color, NEW to \in Color,
         NEW c \in Nat, NEW d \in Nat \ {0}, c <= d
  PROVE  Interpolate(from, to, <<c, d>>) \in Color
<1>1. ASSUME NEW i \in 1 .. 3
      PROVE  (from[i] * d + (to[i] - from[i]) * c) \div d \in Byte
  <2> DEFINE f == from[i]
             t == to[i]
  <2>1. f \in 0 .. 255 /\ t \in 0 .. 255
    BY DEF Color, Byte
  <2> HIDE DEF f, t
  <2>2. f * (d - c) >= 0 /\ f * (d - c) <= 255 * (d - c)
    BY <2>1, SMT
  <2>3. t * c >= 0 /\ t * c <= 255 * c
    BY <2>1, SMT
  <2>4. f * d + (t - f) * c = f * (d - c) + t * c
    BY <2>1, SMT
  <2>5. f * (d - c) \in Int /\ t * c \in Int
    BY <2>1, SMT
  <2>6. f * d + (t - f) * c \in Int /\ 0 <= f * d + (t - f) * c
        /\ f * d + (t - f) * c <= 255 * d
    BY <2>2, <2>3, <2>4, <2>5, SMT
  <2>7. QED
    BY <2>6, ByteQuotient DEF f, t
<1>2. QED
  BY <1>1 DEF Interpolate, Color

(* What is fetched is an instruction whose delay fits an unsigned long,    *)
(* also when the store is suspended and past the end of the program.       *)
LEMMA FetchedType ==
  ASSUME IsProgram(program), pc \in Nat
  PROVE  Fetched \in Instruction /\ Fetched.delay < TimeModulus
<1>1. ASSUME NEW op \in Ops
      PROVE  Blank(op, pc) \in Instruction /\ Blank(op, pc).delay < TimeModulus
  BY ExecutorAssumption
     DEF Blank, Instruction, Black, Color, Byte, Edges
<1>2. "NOP" \in Ops /\ "END" \in Ops
  BY DEF Ops
<1>3. QED
  BY <1>1, <1>2 DEF Fetched, IsProgram

---------------------------------------------------------------------------
(* Parts of the handlers.                                                  *)

(* A handler that adds a delay to the clock.                               *)
LEMMA DelayType ==
  ASSUME StoreTypeOK, ClockTypeOK
  PROVE  /\ WakeupAfterDelay \in Nat
         /\ Delay /\ UNCHANGED resetFlag => ClockTypeOK'
<1>1. Fetched.delay \in Nat
  BY FetchedType DEF StoreTypeOK, Instruction
<1>2. QED
  BY <1>1 DEF WakeupAfterDelay, Larger, Delay, ClockTypeOK

(* A fade that is started, even when it should have ended already.         *)
LEMMA FadeToType ==
  ASSUME StoreTypeOK, ClockTypeOK, FadeTypeOK, OutputTypeOK, CallTypeOK,
         NEW c \in Color, FadeTo(c)
  PROVE  FadeTypeOK' /\ OutputTypeOK'
<1> DEFINE duration == (WakeupAfterDelay - now) % TimeModulus
<1>1. duration \in Nat
  <2>1. WakeupAfterDelay - now \in Int
    BY DelayType DEF CallTypeOK
  <2>2. QED
    BY <2>1, ModRange, ExecutorAssumption
<1>2. /\ endColor' = c /\ startColor' = startColor /\ pyro' = pyro
      /\ fade' = [active |-> duration > 0, start |-> now, duration |-> duration]
      /\ color' = IF duration > 0 THEN startColor ELSE c
  BY DEF FadeTo
<1> HIDE DEF duration
<1>3. QED
  BY <1>1, <1>2 DEF FadeTypeOK, OutputTypeOK, CallTypeOK

(* The loop stack holds at most one item more than it has room for.        *)
LEMMA BeginLoopType ==
  ASSUME LoopTypeOK, NEW location \in Nat, NEW count \in Byte,
         BeginLoop(location, count)
  PROVE  LoopTypeOK'
<1> USE MaxLoopDepthAssumption
<1>1. (numLoops + 1) % 256 \in 0 .. 255 /\ location % 256 \in 0 .. 255
  BY ModRange DEF LoopTypeOK
<1>2. location - (location % 256) \in Nat
  BY SMT
<1>3. ASSUME NEW start \in Nat, PushLoop(start, count), Len(loops) <= MaxLoopDepth
      PROVE  loops' \in Seq(LoopItem) /\ Len(loops') <= MaxLoopDepth + 1
  BY <1>3 DEF PushLoop, LoopItem, LoopTypeOK, Byte
<1>4. CASE LoopStackFull /\ UNCHANGED loopVars
  BY <1>4 DEF LoopTypeOK, loopVars
<1>5. CASE /\ Len(loops) < MaxLoopDepth
           /\ PushLoop(location, count)
           /\ numLoops' = (numLoops + 1) % 256
  BY <1>1, <1>3, <1>5 DEF LoopTypeOK
<1>6. CASE /\ ~LoopStackFull
           /\ \E low \in {location % 256, (numLoops + 1) % 256} :
                /\ PushLoop(location - (location % 256) + low, count)
                /\ numLoops' = low
  <2>1. PICK low \in {location % 256, (numLoops + 1) % 256} :
          /\ PushLoop(location - (location % 256) + low, count)
          /\ numLoops' = low
    BY <1>6
  <2>2. location - (location % 256) + low \in Nat
    BY <1>1, <1>2, <2>1
  <2>3. QED
    BY <1>1, <1>3, <1>6, <2>1, <2>2 DEF LoopTypeOK, LoopStackFull
<1>7. QED
  BY <1>4, <1>5, <1>6 DEF BeginLoop

(* LoopStack::end() keeps the stack and its count in range, and returns a *)
(* location or NOWHERE.                                                   *)
LEMMA EndLoopType ==
  ASSUME LoopTypeOK
  PROVE  /\ EndLoop => LoopTypeOK'
         /\ EndLoopTarget = NOWHERE \/ EndLoopTarget \in Nat
<1>1. ASSUME loops # << >>
      PROVE  /\ Len(loops) \in 1 .. MaxLoopDepth + 1
             /\ TopLoop \in LoopItem
  BY <1>1, MaxLoopDepthAssumption DEF TopLoop, LoopTypeOK
<1>2. ASSUME UNCHANGED loopVars
      PROVE  LoopTypeOK'
  BY <1>2 DEF loopVars, LoopTypeOK
<1>3. ASSUME /\ loops # << >>
             /\ loops' = SubSeq(loops, 1, Len(loops) - 1)
             /\ numLoops' = (numLoops - 1) % 256
      PROVE  LoopTypeOK'
  <2>1. numLoops' \in 0 .. 255
    BY <1>3, ModRange DEF LoopTypeOK
  <2>2. loops' \in Seq(LoopItem) /\ Len(loops') <= Len(loops)
    BY <1>1, <1>3, SubSeqProperties DEF LoopTypeOK
  <2>3. QED
    BY <1>1, <2>1, <2>2, MaxLoopDepthAssumption DEF LoopTypeOK
<1>4. ASSUME /\ loops # << >> /\ TopLoop.leftPlusOne > 1
             /\ loops' = [loops EXCEPT ![Len(loops)].leftPlusOne = @ - 1]
             /\ UNCHANGED numLoops
      PROVE  LoopTypeOK'
  <2> DEFINE item == [start |-> TopLoop.start, leftPlusOne |-> TopLoop.leftPlusOne - 1]
  <2>1. item \in LoopItem
    BY <1>1, <1>4 DEF LoopItem
  <2>2. loops' = [loops EXCEPT ![Len(loops)] = item]
    <3>1. [TopLoop EXCEPT !.leftPlusOne = TopLoop.leftPlusOne - 1] = item
      BY <1>1, <1>4 DEF LoopItem
    <3>2. QED
      BY <1>4, <3>1 DEF TopLoop
  <2> HIDE DEF item
  <2>3. loops' \in Seq(LoopItem) /\ Len(loops') = Len(loops)
    <3>1. loops \in Seq(LoopItem) /\ Len(loops) \in 1 .. Len(loops)
      BY <1>1, <1>4 DEF LoopTypeOK
    <3>2. /\ [loops EXCEPT ![Len(loops)] = item] \in Seq(LoopItem)
          /\ Len([loops EXCEPT ![Len(loops)] = item]) = Len(loops)
      BY <2>1, <3>1, ExceptSeq
    <3>3. QED
      BY <2>2, <3>2
  <2>4. QED
    BY <1>4, <2>3 DEF LoopTypeOK
<1>5. EndLoop => LoopTypeOK'
  BY <1>2, <1>3, <1>4 DEF EndLoop, LeaveLoop, NextIteration
<1>6. EndLoopTarget = NOWHERE \/ EndLoopTarget \in Nat
  BY <1>1 DEF EndLoopTarget, LoopItem
<1>7. QED
  BY <1>5, <1>6

(* LoopStack::clear() leaves a stack that is in range.                    *)
LEMMA ClearLoopsType ==
  ASSUME ClearLoops
  PROVE  LoopTypeOK'
<1>1. << >> \in Seq(LoopItem) /\ Len(<< >>) = 0
  BY EmptySeq
<1>2. loops' \in Seq(LoopItem) /\ Len(loops') = 0 /\ numLoops' = 0
  BY <1>1 DEF ClearLoops
<1>3. QED
  BY <1>2, MaxLoopDepthAssumption DEF LoopTypeOK

---------------------------------------------------------------------------
(* Triggers.                                                               *)

(* A trigger that is released is a trigger that is not active.             *)
LEMMA DisabledType ==
  ASSUME NEW t \in TriggerRecord
  PROVE  Disabled(t) \in TriggerRecord /\ Disabled(t).active = FALSE
<1>1. ASSUME NEW active \in BOOLEAN, NEW channel \in 0 .. 255,
             NEW rising \in BOOLEAN, NEW falling \in BOOLEAN
      PROVE  LET u == [t EXCEPT !.active = active, !.channel = channel,
                                !.rising = rising, !.falling = falling]
             IN  u \in TriggerRecord /\ u.active = active
  BY DEF TriggerRecord
<1>2. FALSE \in BOOLEAN /\ 0 \in 0 .. 255
  OBVIOUS
<1>3. QED
  BY <1>1, <1>2, Zenon DEF Disabled

(* A trigger that is checked stays a trigger, and keeps to the channels    *)
(* the source has while it is active.                                      *)
LEMMA CheckedType ==
  ASSUME NEW t \in TriggerRecord, t.active => t.channel \in Channels,
         signal \in [Channels -> SignalValues], NEW time \in Nat
  PROVE  /\ Checked(t, time) \in TriggerRecord
         /\ Checked(t, time).active => Checked(t, time).channel \in Channels
<1>1. CASE ~t.active
  BY <1>1 DEF Checked
<1>2. CASE t.active
  <2> DEFINE d == Fed(t.detector, 0, signal[t.channel], time)
             fed == [t EXCEPT !.detector = d]
  <2>1. signal[t.channel] \in 0 .. 255
    BY <1>2, TriggersAssumption
  <2>2. d \in Detector
    BY <2>1 DEF Fed, RangeOf, Detector, Levels, TriggerRecord, MidRangeStart,
                MidRangeEnd
  <2> HIDE DEF d
  <2>3. fed \in TriggerRecord /\ fed.channel = t.channel
    BY <2>2 DEF TriggerRecord
  <2>4. Checked(t, time) = fed \/ Checked(t, time) = Disabled(fed)
    BY <1>2 DEF Checked, d
  <2> HIDE DEF fed
  <2>5. QED
    BY <1>2, <2>3, <2>4, DisabledType
<1>3. QED
  BY <1>1, <1>2 DEF TriggerRecord

(* A trigger that is told to watch a channel does so only when the source  *)
(* has that channel.                                                       *)
LEMMA WatchingType ==
  ASSUME NEW t \in TriggerRecord, NEW channel \in 0 .. 15, NEW edge \in Edges,
         NEW oneShot \in BOOLEAN
  PROVE  LET w == [Watching(t, channel, edge) EXCEPT !.oneShot = oneShot]
         IN  w \in TriggerRecord /\ (w.active => w.channel \in Channels)
<1> DEFINE bound   == signalSource # "null"
           slot    == IF bound THEN channel ELSE 0
           rising  == edge \in {"RISING", "CHANGE"}
           falling == edge \in {"FALLING", "CHANGE"}
           watched == [t EXCEPT !.active = bound, !.channel = slot]
           ready   == [watched EXCEPT !.rising = rising, !.falling = falling,
                                      !.detector = FreshDetector]
<1>1. /\ bound \in BOOLEAN /\ rising \in BOOLEAN /\ falling \in BOOLEAN
      /\ slot \in 0 .. 255 /\ (bound => slot = channel)
  OBVIOUS
<1>2. \/ Watching(t, channel, edge) = Disabled(watched)
      \/ /\ Watching(t, channel, edge) = ready
         /\ bound => channel \in Channels
  BY DEF Watching
<1> HIDE DEF bound, slot, rising, falling
<1>3. watched \in TriggerRecord /\ watched.active = bound /\ watched.channel = slot
  BY <1>1 DEF TriggerRecord
<1> HIDE DEF watched
<1>4. FreshDetector \in Detector
  BY DEF FreshDetector, Detector, Levels
<1>5. /\ ready \in TriggerRecord /\ ready.active = bound
      /\ ready.channel = slot
  BY <1>1, <1>3, <1>4 DEF TriggerRecord
<1> HIDE DEF ready
<1>6. /\ Watching(t, channel, edge) \in TriggerRecord
      /\ Watching(t, channel, edge).active => Watching(t, channel, edge).channel \in Channels
  BY <1>1, <1>2, <1>3, <1>5, DisabledType
<1>7. QED
  BY <1>6 DEF TriggerRecord

(* The channel of a trigger only goes together with its activity: both are *)
(* kept, or the slot is free and has the index of channel 0.               *)
LEMMA CheckedChannel ==
  ASSUME NEW t \in TriggerRecord, NEW time
  PROVE  \/ /\ Checked(t, time).active = t.active
            /\ Checked(t, time).channel = t.channel
         \/ ~Checked(t, time).active /\ Checked(t, time).channel = 0
<1> DEFINE d == Fed(t.detector, 0, signal[t.channel], time)
           fed == [t EXCEPT !.detector = d]
<1>1. Checked(t, time) \in {t, fed, Disabled(fed)}
  BY DEF Checked
<1> HIDE DEF d
<1>2. fed.active = t.active /\ fed.channel = t.channel
  BY DEF TriggerRecord
<1>3. ~Disabled(fed).active /\ Disabled(fed).channel = 0
  BY DEF TriggerRecord, Disabled
<1> HIDE DEF fed
<1>4. QED
  BY <1>1, <1>2, <1>3

(* watchChannel() gives a trigger the channel it was asked to watch, or   *)
(* frees the slot.                                                        *)
LEMMA WatchingChannel ==
  ASSUME NEW t \in TriggerRecord, NEW channel, NEW edge, NEW oneShot
  PROVE  LET w == [Watching(t, channel, edge) EXCEPT !.oneShot = oneShot]
         IN  \/ w.active /\ w.channel = channel
             \/ ~w.active /\ w.channel = 0
  BY DEF Watching, TriggerRecord, Disabled

(* A channel that has slots has a first one.                               *)
LEMMA FirstSlotType ==
  ASSUME NEW channel, SlotsFor(channel) # {}
  PROVE  FirstSlotFor(channel) \in Slots /\ FirstSlotFor(channel) \in SlotsFor(channel)
<1> DEFINE less == OpToRel(<, Nat)
<1>1. SlotsFor(channel) \subseteq Slots /\ Slots \subseteq Nat
  BY DEF SlotsFor, Slots
<1>2. \A x, y \in Nat : x < y => <<x, y>> \in less
  BY DEF OpToRel
<1>3. \E s \in SlotsFor(channel) : \A r \in SlotsFor(channel) : <<r, s>> \notin less
  <2>1. IsWellFoundedOn(less, Nat)
    BY NatLessThanWellFounded
  <2> HIDE DEF less
  <2>2. QED
    BY <1>1, <2>1, WFMin
<1> HIDE DEF less
<1>4. \E s \in SlotsFor(channel) : \A r \in SlotsFor(channel) : s <= r
  <2>1. PICK s \in SlotsFor(channel) : \A r \in SlotsFor(channel) : <<r, s>> \notin less
    BY <1>3
  <2>2. ASSUME NEW r \in SlotsFor(channel) PROVE s <= r
    <3>1. r \in Nat /\ s \in Nat /\ ~(r < s)
      BY <1>1, <1>2, <2>1
    <3>2. QED
      BY <3>1
  <2>3. QED
    BY <2>2
<1>5. QED
  BY <1>1, <1>4 DEF FirstSlotFor

(* Checking the triggers keeps types, however often the store is resumed. *)
LEMMA CheckAndFireType ==
  ASSUME ExecutorTypeOK, CheckAndFireTriggers
  PROVE  ExecutorTypeOK'
<1>1. TriggersTypeOK'
  <2>1. ASSUME NEW s \in Slots
        PROVE  /\ triggers'[s] \in TriggerRecord
               /\ triggers'[s].active => triggers'[s].channel \in Channels
    <3>1. triggers'[s] = Checked(triggers[s], now)
      BY DEF CheckAndFireTriggers
    <3>2. QED
      BY <3>1, CheckedType DEF ExecutorTypeOK, TriggersTypeOK, CallTypeOK
  <2>2. QED
    BY <2>1 DEF CheckAndFireTriggers, ExecutorTypeOK, TriggersTypeOK
<1>2. suspendCounter' \in -SuspendLimit .. SuspendLimit - 1
  <2> DEFINE firing == {s \in Slots : Fires(triggers[s], now)}
  <2>1. Cardinality(firing) \in Nat
    <3>1. IsFiniteSet(Slots)
      BY FS_Interval, TriggersAssumption DEF Slots
    <3>2. IsFiniteSet(firing)
      BY <3>1, FS_Subset
    <3>3. QED
      BY <3>2, FS_CardinalityType
  <2>2. suspendCounter' = Short(suspendCounter - Cardinality(firing))
    BY DEF CheckAndFireTriggers
  <2> HIDE DEF firing
  <2>3. suspendCounter \in Int
    BY ExecutorAssumption DEF ExecutorTypeOK, StoreTypeOK
  <2>4. QED
    BY <2>1, <2>2, <2>3, ShortType
<1>3. QED
  BY <1>1, <1>2
     DEF CheckAndFireTriggers, ExecutorTypeOK, StoreTypeOK, ClockTypeOK,
         FadeTypeOK, OutputTypeOK, StatusTypeOK, CallTypeOK, LoopTypeOK, Phases,
         clockVars, fadeVars, outputVars, statusVars, loopVars

---------------------------------------------------------------------------
(* The parts of a call of step(), and the calls between.                   *)

(* rewind() keeps types.                                                  *)
LEMMA RewindType ==
  ASSUME ExecutorTypeOK, Rewind
  PROVE  ExecutorTypeOK'
<1>1. StoreTypeOK' /\ ClockTypeOK' /\ CallTypeOK'
  BY DEF Rewind, ExecutorTypeOK, StoreTypeOK, ClockTypeOK, CallTypeOK, callVars
<1>2. FadeTypeOK' /\ OutputTypeOK' /\ StatusTypeOK'
  <2>1. [fade EXCEPT !.active = FALSE] \in [active: BOOLEAN, start: Nat, duration: Nat]
    BY DEF ExecutorTypeOK, FadeTypeOK
  <2>2. QED
    BY <2>1 DEF Rewind, CancelFade, ClearPyro, ExecutorTypeOK, FadeTypeOK,
                OutputTypeOK, StatusTypeOK, Errors, StoreIsEmpty, Black, Color, Byte
<1>3. LoopTypeOK' /\ TriggersTypeOK'
  BY ClearLoopsType
     DEF Rewind, ExecutorTypeOK, TriggersTypeOK, triggerVars
<1>4. QED
  BY <1>1, <1>2, <1>3 DEF ExecutorTypeOK

(* stop() keeps types.                                                    *)
LEMMA StopType ==
  ASSUME ExecutorTypeOK, Stop
  PROVE  ExecutorTypeOK'
  BY DEF Stop, ExecutorTypeOK, StoreTypeOK, ClockTypeOK, FadeTypeOK, OutputTypeOK,
         StatusTypeOK, CallTypeOK, LoopTypeOK, TriggersTypeOK, storeVars,
         clockVars, fadeVars, outputVars, callVars, loopVars, triggerVars

(* The start of a call of step() keeps types, with a clock reset or       *)
(* without.                                                               *)
LEMMA BeginStepType ==
  ASSUME ExecutorTypeOK, NEW t \in Nat, BeginStep(t)
  PROVE  ExecutorTypeOK'
<1>1. ClockTypeOK' /\ FadeTypeOK' /\ OutputTypeOK'
  <2>1. Black \in Color
    BY DEF Black, Color, Byte
  <2>2. CASE resetFlag
    <3>1. /\ lastReset' = t /\ cumulative' = 0 /\ wakeup' = t
          /\ color' = Black /\ startColor' = Black /\ resetFlag' = FALSE
          /\ UNCHANGED <<fade, endColor, pyro>>
      BY <2>2 DEF BeginStep, SetClockOrigin
    <3>2. QED
      BY <2>1, <3>1 DEF ExecutorTypeOK, ClockTypeOK, FadeTypeOK, OutputTypeOK
  <2>3. CASE ~resetFlag
    BY <2>3 DEF BeginStep, ExecutorTypeOK, ClockTypeOK, FadeTypeOK, OutputTypeOK,
                clockVars
  <2>4. QED
    BY <2>2, <2>3
<1>2. StoreTypeOK' /\ StatusTypeOK' /\ CallTypeOK' /\ LoopTypeOK' /\ TriggersTypeOK'
  BY DEF BeginStep, ExecutorTypeOK, StoreTypeOK, StatusTypeOK, CallTypeOK, Phases,
         LoopTypeOK, TriggersTypeOK, storeVars, statusVars, loopVars, triggerVars
<1>3. QED
  BY <1>1, <1>2 DEF ExecutorTypeOK

(* A call of step() on an ended program keeps types.                      *)
LEMMA StepWhenEndedType ==
  ASSUME ExecutorTypeOK, StepWhenEnded
  PROVE  ExecutorTypeOK'
<1>1. ClockTypeOK' /\ CallTypeOK'
  BY ExecutorAssumption
     DEF StepWhenEnded, IdleWakeup, ExecutorTypeOK, ClockTypeOK, CallTypeOK, Phases
<1>2. QED
  BY <1>1 DEF StepWhenEnded, ExecutorTypeOK, StoreTypeOK, FadeTypeOK, OutputTypeOK,
              StatusTypeOK, LoopTypeOK, TriggersTypeOK, storeVars, fadeVars,
              outputVars, statusVars, loopVars, triggerVars

(* The progress of a fade is a fraction between 0 and 1.                   *)
LEMMA ProgressType ==
  ASSUME NEW f \in [active: BOOLEAN, start: Nat, duration: Nat], NEW t \in Nat
  PROVE  \E c \in Nat, d \in Nat \ {0} : c <= d /\ Progress(f, t) = <<c, d>>
<1>1. CASE t < f.start
  BY <1>1 DEF Progress
<1>2. CASE t >= f.start + f.duration
  BY <1>2 DEF Progress
<1>3. CASE t >= f.start /\ t < f.start + f.duration
  <2>1. /\ t - f.start \in Nat /\ f.duration \in Nat \ {0}
        /\ t - f.start <= f.duration
    BY <1>3
  <2>2. Progress(f, t) = <<t - f.start, f.duration>>
    BY <1>3 DEF Progress
  <2>3. QED
    BY <2>1, <2>2
<1>4. QED
  BY <1>1, <1>2, <1>3

(* A step of the running transition keeps types: the colour it sets is a  *)
(* colour.                                                                *)
LEMMA AdvanceFadeType ==
  ASSUME ExecutorTypeOK, AdvanceFade
  PROVE  ExecutorTypeOK'
<1>1. FadeTypeOK' /\ OutputTypeOK'
  <2>1. CASE ~fade.active
    BY <2>1 DEF AdvanceFade, ExecutorTypeOK, FadeTypeOK, OutputTypeOK
  <2>2. CASE fade.active
    <3>1. PICK c \in Nat, d \in Nat \ {0} : c <= d /\ Progress(fade, now) = <<c, d>>
      BY ProgressType DEF ExecutorTypeOK, FadeTypeOK, CallTypeOK
    <3>2. /\ color' = Interpolate(startColor, endColor, <<c, d>>)
          /\ fade' = [fade EXCEPT !.active = c < d]
          /\ startColor' = IF c < d THEN startColor ELSE endColor
          /\ endColor' = endColor /\ pyro' = pyro
      BY <2>2, <3>1 DEF AdvanceFade
    <3>3. color' \in Color
      BY <3>1, <3>2, InterpolateType DEF ExecutorTypeOK, FadeTypeOK
    <3>4. fade' \in [active: BOOLEAN, start: Nat, duration: Nat]
      <4>1. ASSUME NEW active \in BOOLEAN
            PROVE  [fade EXCEPT !.active = active]
                     \in [active: BOOLEAN, start: Nat, duration: Nat]
        BY DEF ExecutorTypeOK, FadeTypeOK
      <4>2. (c < d) \in BOOLEAN
        OBVIOUS
      <4>3. QED
        BY <3>2, <4>1, <4>2, Zenon
    <3>5. QED
      BY <3>2, <3>3, <3>4 DEF ExecutorTypeOK, FadeTypeOK, OutputTypeOK
  <2>3. QED
    BY <2>1, <2>2
<1>2. QED
  BY <1>1 DEF AdvanceFade, ExecutorTypeOK, StoreTypeOK, ClockTypeOK, StatusTypeOK,
              CallTypeOK, Phases, LoopTypeOK, TriggersTypeOK, storeVars, clockVars,
              statusVars, loopVars, triggerVars

---------------------------------------------------------------------------
(* The command handlers.                                                   *)

(* A command is executed only in the last part of a call of step().       *)
LEMMA CommandPhase ==
  ASSUME ExecuteNextCommand
  PROVE  phase = "command"
  BY DEF ExecuteNextCommand, End, Invalid, Nop, Sleep, WaitUntil, ResetClock,
         SetColor, Fade, SetColorFromChannels, FadeFromChannels, LoopBegin, LoopEnd,
         Jump, TriggeredJump, SetPyro, SetPyroAll, UseWildSource, Handles

(* What all of them have in common.                                        *)
LEMMA HandlesType ==
  ASSUME ExecutorTypeOK, NEW op \in Ops, Handles(op)
  PROVE  /\ CallTypeOK' /\ UNCHANGED resetFlag
         /\ pc' \in Nat => StoreTypeOK'
         /\ FallThrough => StoreTypeOK'
         /\ NoDelay => ClockTypeOK'
         /\ Delay => ClockTypeOK'
         /\ UNCHANGED triggers => TriggersTypeOK'
<1>1. CallTypeOK' /\ UNCHANGED resetFlag
  BY DEF Handles, ExecutorTypeOK, CallTypeOK, Phases
<1>2. pc' \in Nat => StoreTypeOK'
  BY DEF Handles, ExecutorTypeOK, StoreTypeOK
<1>3. FallThrough => pc' \in Nat
  BY FetchedType DEF FallThrough, ExecutorTypeOK, StoreTypeOK, Instruction
<1>4. NoDelay => ClockTypeOK'
  BY <1>1 DEF NoDelay, ExecutorTypeOK, ClockTypeOK
<1>5. Delay => ClockTypeOK'
  BY <1>1, DelayType DEF ExecutorTypeOK
<1>6. UNCHANGED triggers => TriggersTypeOK'
  BY DEF Handles, ExecutorTypeOK, TriggersTypeOK
<1>7. QED
  BY <1>1, <1>2, <1>3, <1>4, <1>5, <1>6

(* setCurrentColorAndResetTransition() keeps types.                       *)
LEMMA ShowColorType ==
  ASSUME ExecutorTypeOK, NEW c \in Color, ShowColor(c)
  PROVE  FadeTypeOK' /\ OutputTypeOK'
  BY DEF ShowColor, ExecutorTypeOK, FadeTypeOK, OutputTypeOK

(* A colour read from channels is a colour, and so is the Black that is    *)
(* used when there is no source.                                           *)
LEMMA ChannelColorsType ==
  ASSUME NEW c \in ChannelColors
  PROVE  c \in Color
<1>1. SignalValues \cup {0} \subseteq Byte
  BY TriggersAssumption DEF Byte
<1>2. QED
  BY <1>1 DEF ChannelColors, Color

(* Every command handler keeps types, the one through a wild pointer      *)
(* included.                                                              *)
LEMMA HandlerType ==
  ASSUME ExecutorTypeOK, ExecuteNextCommand
  PROVE  ExecutorTypeOK'
<1> USE DEF Ops
<1>1. ASSUME UNCHANGED fadeVars PROVE FadeTypeOK'
  BY <1>1 DEF ExecutorTypeOK, FadeTypeOK, fadeVars
<1>2. ASSUME UNCHANGED outputVars PROVE OutputTypeOK'
  BY <1>2 DEF ExecutorTypeOK, OutputTypeOK, outputVars
<1>3. ASSUME UNCHANGED statusVars PROVE StatusTypeOK'
  BY <1>3 DEF ExecutorTypeOK, StatusTypeOK, statusVars
<1>4. ASSUME UNCHANGED loopVars PROVE LoopTypeOK'
  BY <1>4 DEF ExecutorTypeOK, LoopTypeOK, loopVars
<1>5. ASSUME NEW code \in Errors, StopWith(code) PROVE StatusTypeOK'
  BY <1>5 DEF StopWith, StatusTypeOK
<1>6. Fetched \in Instruction
  BY FetchedType DEF ExecutorTypeOK, StoreTypeOK
<1>7. CASE End
  <2>1. StatusTypeOK'
    BY <1>7 DEF End, ExecutorTypeOK, StatusTypeOK
  <2>2. QED
    BY <1>7, <2>1, <1>1, <1>2, <1>4, HandlesType DEF End, ExecutorTypeOK
<1>8. CASE Invalid
  <2>1. StatusTypeOK'
    BY <1>8, <1>5 DEF Invalid, Errors
  <2>2. QED
    BY <1>8, <2>1, <1>1, <1>2, <1>4, HandlesType DEF Invalid, ExecutorTypeOK
<1>9. CASE Nop
  BY <1>9, <1>1, <1>2, <1>3, <1>4, HandlesType DEF Nop, ExecutorTypeOK
<1>10. CASE Sleep
  BY <1>10, <1>1, <1>2, <1>3, <1>4, HandlesType DEF Sleep, ExecutorTypeOK
<1>11. CASE WaitUntil
  <2>1. ClockTypeOK'
    <3>1. Fetched.delay \in Nat /\ Handles("WAIT_UNTIL")
      BY <1>6, <1>11 DEF Instruction, WaitUntil
    <3>2. wakeup' \in Nat
      BY <1>11, <3>1 DEF WaitUntil, Larger, ExecutorTypeOK, ClockTypeOK
    <3>3. wakeup' >= lastReset
      BY <1>11, <3>1 DEF WaitUntil, Larger, ExecutorTypeOK, ClockTypeOK
    <3>4. QED
      BY <1>11, <3>1, <3>2, <3>3, HandlesType DEF WaitUntil, ExecutorTypeOK, ClockTypeOK
  <2>2. QED
    BY <1>11, <2>1, <1>1, <1>2, <1>3, <1>4, HandlesType DEF WaitUntil, ExecutorTypeOK
<1>12. CASE ResetClock
  <2>1. ClockTypeOK'
    <3>1. Handles("RESET_CLOCK")
      BY <1>12 DEF ResetClock
    <3>2. QED
      BY <1>12, <3>1, HandlesType
         DEF ResetClock, ExecutorTypeOK, ClockTypeOK, CallTypeOK
  <2>2. QED
    BY <1>12, <2>1, <1>1, <1>2, <1>3, <1>4, HandlesType DEF ResetClock, ExecutorTypeOK
<1>13. CASE SetColor
  <2>1. Fetched.rgb \in Color
    BY <1>6 DEF Instruction
  <2>2. FadeTypeOK' /\ OutputTypeOK'
    BY <1>13, <2>1, ShowColorType DEF SetColor
  <2>3. QED
    BY <1>13, <2>2, <1>3, <1>4, HandlesType DEF SetColor, ExecutorTypeOK
<1>14. CASE Fade
  <2>1. Fetched.rgb \in Color
    BY <1>6 DEF Instruction
  <2>2. FadeTypeOK' /\ OutputTypeOK'
    BY <1>14, <2>1, FadeToType DEF Fade, ExecutorTypeOK
  <2>3. QED
    BY <1>14, <2>2, <1>3, <1>4, HandlesType DEF Fade, ExecutorTypeOK
<1>15. CASE SetColorFromChannels
  <2>1. PICK c \in ChannelColors, code \in Errors : ShowColor(c) /\ error' = code
    BY <1>15 DEF SetColorFromChannels
  <2>2. FadeTypeOK' /\ OutputTypeOK'
    BY <2>1, ShowColorType, ChannelColorsType
  <2>3. StatusTypeOK'
    BY <1>15, <2>1 DEF SetColorFromChannels, ExecutorTypeOK, StatusTypeOK
  <2>4. QED
    BY <1>15, <2>2, <2>3, <1>4, HandlesType DEF SetColorFromChannels, ExecutorTypeOK
<1>16. CASE FadeFromChannels
  <2>1. PICK c \in ChannelColors, code \in Errors : FadeTo(c) /\ error' = code
    BY <1>16 DEF FadeFromChannels
  <2>2. FadeTypeOK' /\ OutputTypeOK'
    BY <2>1, FadeToType, ChannelColorsType DEF ExecutorTypeOK
  <2>3. StatusTypeOK'
    BY <1>16, <2>1 DEF FadeFromChannels, ExecutorTypeOK, StatusTypeOK
  <2>4. QED
    BY <1>16, <2>2, <2>3, <1>4, HandlesType DEF FadeFromChannels, ExecutorTypeOK
<1>17. CASE LoopBegin
  <2>1. LoopTypeOK'
    BY <1>17, <1>6, BeginLoopType DEF LoopBegin, ExecutorTypeOK, Instruction
  <2>2. QED
    BY <1>17, <2>1, <1>1, <1>2, <1>3, HandlesType DEF LoopBegin, ExecutorTypeOK
<1>18. CASE LoopEnd
  <2>1. LoopTypeOK' /\ pc' \in Nat
    BY <1>18, <1>6, EndLoopType DEF LoopEnd, ExecutorTypeOK, Instruction
  <2>2. QED
    BY <1>18, <2>1, <1>1, <1>2, <1>3, HandlesType DEF LoopEnd, ExecutorTypeOK
<1>19. CASE Jump
  <2>1. StoreTypeOK' /\ LoopTypeOK' /\ StatusTypeOK'
    <3>1. CASE pc' = Fetched.address /\ ClearLoops /\ UNCHANGED statusVars
      <4>1. pc' \in Nat
        BY <3>1, <1>6 DEF Instruction
      <4>2. QED
        BY <3>1, <4>1, <1>19, <1>3, ClearLoopsType, HandlesType DEF Jump
    <3>2. CASE FallThrough /\ StopWith("INVALID_ADDRESS") /\ UNCHANGED loopVars
      BY <3>2, <1>19, <1>4, <1>5, HandlesType DEF Jump, Errors
    <3>3. QED
      BY <3>1, <3>2, <1>19 DEF Jump
  <2>2. QED
    BY <1>19, <2>1, <1>1, <1>2, HandlesType DEF Jump, ExecutorTypeOK
<1>20. CASE TriggeredJump
  <2> DEFINE channel == Fetched.channel
             slot    == FirstSlotFor(channel)
             full    == SlotsFor(channel) = {}
             armed   == [Watching(triggers[slot], channel, Fetched.edge)
                           EXCEPT !.oneShot = Fetched.oneShot]
  <2>1. TriggersTypeOK'
    <3>1. CASE full
      <4>1. UNCHANGED triggers
        BY <1>20, <3>1 DEF TriggeredJump
      <4>2. QED
        BY <4>1, <1>20, HandlesType DEF TriggeredJump
    <3>2. CASE ~full
      <4>1. triggers' = [triggers EXCEPT ![slot] = armed]
        BY <1>20, <3>2 DEF TriggeredJump
      <4>2. \A s \in Slots : triggers[s] \in TriggerRecord
        BY DEF ExecutorTypeOK, TriggersTypeOK
      <4>3. slot \in Slots
        BY <3>2, FirstSlotType
      <4>4. armed \in TriggerRecord /\ (armed.active => armed.channel \in Channels)
        BY <4>2, <4>3, <1>6, WatchingType DEF Instruction
      <4> HIDE DEF armed, slot
      <4>5. QED
        BY <4>1, <4>2, <4>3, <4>4, <1>20
           DEF TriggeredJump, Handles, ExecutorTypeOK, TriggersTypeOK
    <3>3. QED
      BY <3>1, <3>2
  <2>2. StatusTypeOK'
    BY <1>20 DEF TriggeredJump, ExecutorTypeOK, StatusTypeOK, Errors
  <2>3. QED
    BY <1>20, <2>1, <2>2, <1>1, <1>2, <1>4, HandlesType DEF TriggeredJump, ExecutorTypeOK
<1>21. CASE SetPyro
  <2>1. OutputTypeOK'
    BY <1>21, <1>6 DEF SetPyro, ExecutorTypeOK, OutputTypeOK, Instruction
  <2>2. QED
    BY <1>21, <2>1, <1>1, <1>3, <1>4, HandlesType DEF SetPyro, ExecutorTypeOK
<1>22. CASE SetPyroAll
  <2>1. OutputTypeOK'
    BY <1>22, <1>6 DEF SetPyroAll, ExecutorTypeOK, OutputTypeOK, Instruction
  <2>2. QED
    BY <1>22, <2>1, <1>1, <1>3, <1>4, HandlesType DEF SetPyroAll, ExecutorTypeOK
<1>23. CASE UseWildSource
  BY <1>23 DEF UseWildSource, ExecutorTypeOK, StoreTypeOK, ClockTypeOK, FadeTypeOK,
     OutputTypeOK, StatusTypeOK, CallTypeOK, Phases, LoopTypeOK, TriggersTypeOK,
     storeVars, clockVars, fadeVars, outputVars, statusVars, loopVars, triggerVars
<1>24. QED
  BY <1>7, <1>8, <1>9, <1>10, <1>11, <1>12, <1>13, <1>14, <1>15, <1>16, <1>17,
     <1>18, <1>19, <1>20, <1>21, <1>22, <1>23 DEF ExecuteNextCommand

---------------------------------------------------------------------------
(* Summary, for the systems an executor is part of.                        *)

(* The state after construction is in range, whatever program is loaded.   *)
LEMMA ExecutorInitType ==
  ASSUME ExecutorInit, wakeup \in Nat, signalSource \in Sources
  PROVE  ExecutorTypeOK
<1>1. StoreTypeOK
  BY ProgramsAssumption, ExecutorAssumption DEF ExecutorInit, StoreTypeOK
<1>2. ClockTypeOK /\ FadeTypeOK /\ OutputTypeOK /\ CallTypeOK
  BY DEF ExecutorInit, ClockTypeOK, FadeTypeOK, OutputTypeOK, CallTypeOK, Phases,
         Black, Color, Byte
<1>3. StatusTypeOK
  BY DEF ExecutorInit, StatusTypeOK, StoreIsEmpty, Errors
<1>4. LoopTypeOK
  <2>1. << >> \in Seq(LoopItem) /\ Len(<< >>) = 0
    BY EmptySeq
  <2>2. QED
    BY <2>1, MaxLoopDepthAssumption DEF ExecutorInit, NoLoops, LoopTypeOK
<1>5. TriggersTypeOK
  <2>1. FreshTrigger \in TriggerRecord /\ ~FreshTrigger.active
    BY DEF FreshTrigger, TriggerRecord, FreshDetector, Detector, Levels
  <2>2. QED
    BY <2>1 DEF ExecutorInit, TriggersInit, TriggersTypeOK
<1>6. QED
  BY <1>1, <1>2, <1>3, <1>4, <1>5 DEF ExecutorTypeOK

(* Every part of a call of step() keeps types.                            *)
LEMMA ContinueStepType ==
  ASSUME ExecutorTypeOK, ContinueStep
  PROVE  ExecutorTypeOK'
  BY StepWhenEndedType, CheckAndFireType, AdvanceFadeType, HandlerType
     DEF ContinueStep

(* So does a step that leaves the executor alone.                         *)
LEMMA ExecutorStutterType ==
  ASSUME ExecutorTypeOK, UNCHANGED executorVars
  PROVE  ExecutorTypeOK'
  BY DEF executorVars, ExecutorTypeOK, StoreTypeOK, ClockTypeOK, FadeTypeOK,
         OutputTypeOK, StatusTypeOK, CallTypeOK, LoopTypeOK, TriggersTypeOK,
         storeVars, clockVars, fadeVars, outputVars, statusVars, callVars,
         loopVars, triggerVars

===========================================================================
