----------------------------- MODULE Playhead -----------------------------
(***************************************************************************)
(* What a light player promises to its caller: a head on the time axis     *)
(* that is asked to go to a point, goes there without passing it, and      *)
(* moves only forwards on the way, after going back to the origin first    *)
(* when the point is behind it.                                            *)
(***************************************************************************)
EXTENDS Naturals

CONSTANT Points        \* the points that are asked for, natural numbers

VARIABLES head, goal, busy

headVars == <<head, goal, busy>>

HeadInit == head = 0 /\ goal = 0 /\ busy = FALSE

Ask ==
  /\ ~busy
  /\ busy' = TRUE
  /\ goal' \in Points
  /\ head' = IF goal' < head THEN 0 ELSE head

Advance ==
  /\ busy
  /\ head < head' /\ head' <= goal
  /\ UNCHANGED <<goal, busy>>

Answer ==
  /\ busy
  /\ head' = goal
  /\ busy' = FALSE
  /\ UNCHANGED goal

HeadNext == Ask \/ Advance \/ Answer

HeadSafety == HeadInit /\ [][HeadNext]_headVars

(* A question is always answered.                                          *)
HeadSpec == HeadSafety /\ WF_headVars(Answer)

===========================================================================
