----------------------------- MODULE LoopStack ----------------------------
(***************************************************************************)
(* The stack of active loops of the executor: a fixed array of             *)
(* MaxLoopDepth items, a pointer to the top one and a count.               *)
(*                                                                         *)
(* The array is followed in memory by the count.  begin() refuses a loop   *)
(* only when the top pointer is already past the array, so it accepts one  *)
(* item too many and stores it over the count: on the 64-bit little-endian *)
(* hosts the library is tested on, the count shares its byte with the low  *)
(* byte of that item's start, and holds what was written there last.       *)
(***************************************************************************)
EXTENDS Integers, Sequences

CONSTANT MaxLoopDepth     \* CONFIG_MAX_LOOP_DEPTH

ASSUME MaxLoopDepthAssumption == MaxLoopDepth \in 1 .. 254

VARIABLES
  loops,       \* the items up to m_pTopItem, outermost loop first
  numLoops     \* m_numLoops, a byte

loopVars == <<loops, numLoops>>

NOWHERE == -1

LoopItem == [start: Nat, leftPlusOne: 0 .. 255]

LoopTypeOK ==
  /\ loops \in Seq(LoopItem)
  /\ Len(loops) <= MaxLoopDepth + 1
  /\ numLoops \in 0 .. 255

NoLoops == loops = << >> /\ numLoops = 0

TopLoop == loops[Len(loops)]

(* m_pTopItem >= m_items + CONFIG_MAX_LOOP_DEPTH                           *)
LoopStackFull == Len(loops) > MaxLoopDepth

PushLoop(start, iterations) ==
  loops' = Append(loops, [start |-> start, leftPlusOne |-> iterations])

BeginLoop(location, iterations) ==
  \/ /\ LoopStackFull
     /\ UNCHANGED loopVars
  \/ /\ Len(loops) < MaxLoopDepth
     /\ PushLoop(location, iterations)
     /\ numLoops' = (numLoops + 1) % 256
  \/ /\ ~LoopStackFull /\ Len(loops) >= MaxLoopDepth
     /\ \E low \in {location % 256, (numLoops + 1) % 256} :
          /\ PushLoop(location - (location % 256) + low, iterations)
          /\ numLoops' = low

(* Mutant: one iteration more than the loop has.                           *)
EndLoopTargetOnceMore ==
  IF loops = << >> THEN NOWHERE ELSE TopLoop.start

(* What end() returns.                                                     *)
EndLoopTarget ==
  IF loops = << >> THEN NOWHERE
  ELSE IF TopLoop.leftPlusOne = 1 THEN NOWHERE
  ELSE TopLoop.start

(* Mutant: a loop that is left is still counted.                           *)
LeaveLoopUncounted ==
  /\ loops' = SubSeq(loops, 1, Len(loops) - 1)
  /\ UNCHANGED numLoops

LeaveLoop ==
  /\ loops' = SubSeq(loops, 1, Len(loops) - 1)
  /\ numLoops' = (numLoops - 1) % 256

(* Mutant: the iterations are not counted.                                 *)
SameIteration == UNCHANGED loops

NextIteration == loops' = [loops EXCEPT ![Len(loops)].leftPlusOne = @ - 1]

EndLoop ==
  \/ /\ \/ loops = << >>
        \/ loops # << >> /\ TopLoop.leftPlusOne = 0      \* infinite loop
     /\ UNCHANGED loopVars
  \/ /\ loops # << >>
     /\ TopLoop.leftPlusOne = 1                          \* last iteration
     /\ LeaveLoop
  \/ /\ loops # << >>
     /\ TopLoop.leftPlusOne > 1
     /\ NextIteration
     /\ UNCHANGED numLoops

ClearLoops ==
  /\ loops' = << >>
  /\ numLoops' = 0

===========================================================================
