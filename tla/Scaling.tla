------------------------------- MODULE Scaling ----------------------------
(***************************************************************************)
(* The helpers that choose the scale of a trajectory and convert seconds.  *)
(* Coordinates are whole millimetres.                                      *)
(***************************************************************************)
EXTENDS Integers

CONSTANTS
  MsecPerSec,   \* 1000
  MaxMsec       \* UINT32_MAX

ASSUME ScalingAssumption == MsecPerSec \in Nat /\ MaxMsec \in Nat

Int16Max == 32767
MaxScale == 127

Magnitude(n) == IF n < 0 THEN - n ELSE n
LargestOf(S) == CHOOSE n \in S : \A m \in S : m <= n

CeilingOf(a, b) == - ((- a) \div b)

(* Mutant: the new scale is rounded down.                                  *)
ScaleUpdatedTooSmall(scale, x, y, z) ==
  LET coord == LargestOf({Magnitude(x), Magnitude(y), Magnitude(z)})
      known == IF scale = 0 THEN 1 ELSE scale
  IN  [result |-> "SUCCESS",
       scale |-> IF coord > known * Int16Max THEN coord \div Int16Max ELSE known]

ScaleUpdate(scale, x, y, z) ==
  LET known == IF scale = 0 THEN 1 ELSE scale
      max_coord == LargestOf({Magnitude(x), Magnitude(y), Magnitude(z)})
      new_scale == CeilingOf(max_coord, Int16Max)
  IN  IF max_coord <= known * Int16Max THEN [result |-> "SUCCESS", scale |-> known]
      ELSE IF new_scale <= MaxScale THEN [result |-> "SUCCESS", scale |-> new_scale]
      ELSE [result |-> "EOVERFLOW", scale |-> known]

(* Durations are whole seconds; a fraction would be cut to milliseconds.   *)
MsecFromSeconds(sec) ==
  IF sec < 0 THEN [result |-> "EINVAL", msec |-> 0]
  ELSE IF sec * MsecPerSec > MaxMsec THEN [result |-> "EOVERFLOW", msec |-> 0]
  ELSE [result |-> "SUCCESS", msec |-> sec * MsecPerSec]
===========================================================================
