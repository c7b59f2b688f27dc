---------------------------- MODULE SignalEdges ---------------------------
(***************************************************************************)
(* An edge detector with a debounce interval, fed with the samples of a    *)
(* noisy signal at increasing times.                                       *)
(***************************************************************************)
EXTENDS EdgeDetector, Sequences

CONSTANTS
  Samples,       \* the values of the analog signal
  DebounceMs,    \* argument of enableDebouncing()
  LastTime       \* bound on the clock

ASSUME SignalEdgesAssumption ==
  /\ Samples \subseteq 0 .. 255
  /\ DebounceMs \in Nat /\ LastTime \in Nat

VARIABLES
  detector,
  time,          \* of the last sample
  edges          \* the edges reported since the last reset: <<kind, time>>

edgeVars == <<detector, time, edges>>

EdgesInit == detector = FreshDetector /\ time = 0 /\ edges = << >>

Feed(value, t) ==
  LET edge == IF Rises(detector, DebounceMs, value, t) THEN <<[kind |-> "rise", at |-> t]>>
              ELSE IF Falls(detector, DebounceMs, value, t) THEN <<[kind |-> "fall", at |-> t]>>
              ELSE << >>
  IN  /\ time' = t
      /\ detector' = Fed(detector, DebounceMs, value, t)
      /\ edges' = edges \o edge

ResetDetector == detector' = FreshDetector /\ edges' = << >> /\ UNCHANGED time

EdgesNext ==
  \/ \E v \in Samples, t \in time + 1 .. LastTime : Feed(v, t)
  \/ ResetDetector

EdgesSpec == EdgesInit /\ [][EdgesNext]_edgeVars

---------------------------------------------------------------------------
(* Types: every sample leaves the detector in the START, LOW or HIGH state *)
(* (feedAnalogSignal() has no other), and every edge has a time of its own.*)
EdgesTypeOK ==
  /\ detector \in Detector
  /\ time \in 0 .. LastTime
  /\ edges \in Seq([kind: {"rise", "fall"}, at: 1 .. LastTime])

(* Noise around the thresholds is not reported: rises and falls alternate, *)
(* and the state of the detector is the level the last one led to.         *)
EdgesAlternate ==
  /\ \A i \in 1 .. Len(edges) - 1 : edges[i].kind # edges[i + 1].kind
  /\ edges # << >> =>
       detector.level = IF edges[Len(edges)].kind = "rise" THEN "HIGH" ELSE "LOW"

(* edge_detector.h: "When a transition from LOW to HIGH or from HIGH to    *)
(* LOW is detected, further transitions will be ignored for up to          *)
(* m_debounceMs milliseconds".                                             *)
EdgesAreDebounced ==
  \A i \in 1 .. Len(edges) - 1 : edges[i + 1].at - edges[i].at >= DebounceMs

===========================================================================
