---------------------------- MODULE EdgeDetector --------------------------
(***************************************************************************)
(* The edge detector of a signal channel: turns samples of an analog       *)
(* signal into the LOW and HIGH states of a digital one.  A detector is a  *)
(* record of its state and the time of its last transition; the states     *)
(* SIGNAL_RISING and SIGNAL_FALLING are never entered.                     *)
(***************************************************************************)
EXTENDS Integers

MidRangeStart == 64
MidRangeEnd   == 192

Levels == {"START", "LOW", "HIGH"}

Detector == [level: Levels, lastTransition: Nat]

FreshDetector == [level |-> "START", lastTransition |-> 0]

RangeOf(value) ==
  CASE value < MidRangeStart                           -> "LOW"
    [] value \in MidRangeStart .. MidRangeEnd - 1      -> "MID"
    [] value >= MidRangeEnd                            -> "HIGH"

(* The condition under which the code ignores a sample.                    *)
DebounceActive(d, debounceMs, time) ==
  debounceMs > 0 /\ d.lastTransition + debounceMs < time

(* Mutant: any HIGH sample is a rise.                                      *)
RisesFromAnywhere(d, debounceMs, value, time) ==
  ~DebounceActive(d, debounceMs, time) /\ RangeOf(value) = "HIGH"

Rises(d, debounceMs, value, time) ==
  /\ ~DebounceActive(d, debounceMs, time)
  /\ d.level = "LOW"
  /\ RangeOf(value) = "HIGH"

Falls(d, debounceMs, value, time) ==
  /\ ~DebounceActive(d, debounceMs, time)
  /\ d.level = "HIGH"
  /\ RangeOf(value) = "LOW"

(* feedAnalogSignal: the detector after a sample.  A sample in the middle  *)
(* range leaves the state as it was.                                       *)
Fed(d, debounceMs, value, time) ==
  IF DebounceActive(d, debounceMs, time) \/ RangeOf(value) = "MID"
  THEN d
  ELSE [level |-> RangeOf(value),
        lastTransition |-> IF \/ Rises(d, debounceMs, value, time)
                              \/ Falls(d, debounceMs, value, time)
                           THEN time
                           ELSE d.lastTransition]

===========================================================================
