----------------------------- MODULE Triggers -----------------------------
(***************************************************************************)
(* The trigger slots of the executor and the signal source they watch.     *)
(*                                                                         *)
(* The signal source is an object of the host application: it may be       *)
(* absent ("null"), present ("bound"), or, since the constructor of the    *)
(* executor does not initialise its pointer, an arbitrary address ("wild") *)
(* that crashes the program when it is used.                               *)
(***************************************************************************)
EXTENDS EdgeDetector, FiniteSets

CONSTANTS
  MaxTriggers,     \* CONFIG_MAX_TRIGGER_COUNT
  NumChannels,     \* what the host's signal source answers to numChannels()
  SignalValues     \* the samples its channels may take, bytes

ASSUME TriggersAssumption ==
  /\ MaxTriggers \in Nat \ {0}
  /\ NumChannels \in 0 .. 255
  /\ SignalValues \subseteq 0 .. 255 /\ SignalValues # {}

Slots    == 1 .. MaxTriggers
Channels == 0 .. NumChannels - 1
Sources  == {"null", "bound", "wild"}

VARIABLES
  triggers,        \* m_triggers
  signalSource,    \* m_pSignalSource of the executor
  signal           \* current samples of the source's channels

triggerVars == <<triggers, signalSource, signal>>

(* active: the trigger's own m_pSignalSource is set.  rising, falling: the *)
(* edge detector calls the trigger back for that edge.                     *)
TriggerRecord ==
  [active: BOOLEAN, channel: 0 .. 255, detector: Detector,
   rising: BOOLEAN, falling: BOOLEAN, oneShot: BOOLEAN]

TriggersTypeOK ==
  /\ triggers \in [Slots -> TriggerRecord]
  /\ \A s \in Slots : triggers[s].active => triggers[s].channel \in Channels
  /\ signalSource \in Sources
  /\ signal \in [Channels -> SignalValues]

FreshTrigger ==
  [active |-> FALSE, channel |-> 0, detector |-> FreshDetector,
   rising |-> FALSE, falling |-> FALSE, oneShot |-> FALSE]

TriggersInit ==
  /\ triggers = [s \in Slots |-> FreshTrigger]
  /\ signal \in [Channels -> SignalValues]

Disabled(t) == [t EXCEPT !.active = FALSE, !.channel = 0,
                         !.rising = FALSE, !.falling = FALSE]

(***************************************************************************)
(* checkAndFireWhenNeeded at time now.  The detector of a trigger is built *)
(* with a debounce interval of zero and nothing changes it.                *)
(***************************************************************************)
Fires(t, now) ==
  /\ t.active
  /\ \/ t.rising  /\ Rises(t.detector, 0, signal[t.channel], now)
     \/ t.falling /\ Falls(t.detector, 0, signal[t.channel], now)

Checked(t, now) ==
  LET fed == [t EXCEPT !.detector = Fed(@, 0, signal[t.channel], now)]
  IN  IF ~t.active THEN t
      ELSE IF Fires(t, now) /\ t.oneShot THEN Disabled(fed)
      ELSE fed

(* watchChannel with the executor's signal source.                         *)
Watching(t, channel, edge) ==
  LET bound   == signalSource # "null"
      watched == [t EXCEPT !.active = bound,
                           !.channel = IF bound THEN channel ELSE 0]
  IN  IF edge = "NONE" \/ (bound /\ channel \notin Channels)
      THEN Disabled(watched)
      ELSE [watched EXCEPT !.rising   = edge \in {"RISING", "CHANGE"},
                           !.falling  = edge \in {"FALLING", "CHANGE"},
                           !.detector = FreshDetector]

(* Mutant: the triggers that watch the channel already are not considered. *)
FreeSlots(channel) == {s \in Slots : ~triggers[s].active}

(***************************************************************************)
(* The candidates for a channel in the order of preference of              *)
(* findTriggerForChannelIndex: the slots with the channel's index, whether *)
(* or not they are active, then the inactive ones.                         *)
(***************************************************************************)
SlotsFor(channel) ==
  LET same == {s \in Slots : triggers[s].channel = channel}
      free == {s \in Slots : ~triggers[s].active}
  IN  IF same # {} THEN same ELSE free

FirstSlotFor(channel) ==
  CHOOSE s \in SlotsFor(channel) : \A r \in SlotsFor(channel) : s <= r

(* The samples change, or the host attaches or detaches its source.        *)
SignalChanges ==
  /\ \E c \in Channels, v \in SignalValues : signal' = [signal EXCEPT ![c] = v]
  /\ UNCHANGED <<triggers, signalSource>>

SetSignalSource ==
  /\ signalSource' \in {"null", "bound"}
  /\ UNCHANGED <<triggers, signal>>

===========================================================================
