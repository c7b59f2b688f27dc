--------------------------- MODULE LoopUnrolling --------------------------
(***************************************************************************)
(* What a program with properly nested loops means, by structure: a loop   *)
(* of n iterations stands for n copies of its body.  The executor gets     *)
(* there with its loop stack; here the two are compared by the time the    *)
(* program takes.  (For model checking only.)                              *)
(***************************************************************************)
EXTENDS LightPlayer, LightPrograms

CONSTANTS
  LoopUnits,       \* the units of the programs
  MaxUnits,        \* the length of the programs, in units
  MaxNesting       \* the loops that may be inside one another

RECURSIVE Nesting(_)
Nesting(units) ==
  IF units = << >> THEN 0
  ELSE Nesting(Front(units)) + CASE Last(units)[1] = 12 -> 1
                                 [] Last(units)[1] = 13 -> -1
                                 [] OTHER               -> 0

WellNested(units) ==
  /\ Nesting(units) = 0
  /\ \A n \in DOMAIN units : Nesting(SubSeq(units, 1, n)) \in 0 .. MaxNesting

LoopPrograms ==
  UNION { {Decode(FlattenSeq(p)) : p \in {q \in [1 .. n -> LoopUnits] : WellNested(q)}} :
            n \in 0 .. MaxUnits }

(* The LOOP_END of the loop whose body is at loc, inside depth loops of it.*)
RECURSIVE Match(_, _, _)
Match(p, loc, depth) ==
  CASE p[loc].op = "LOOP_END" /\ depth = 0 -> loc
    [] p[loc].op = "LOOP_END" /\ depth > 0 -> Match(p, p[loc].next, depth - 1)
    [] p[loc].op = "LOOP_BEGIN"            -> Match(p, p[loc].next, depth + 1)
    [] OTHER                               -> Match(p, p[loc].next, depth)

(* The duration of the commands from location a to location b.             *)
RECURSIVE Duration(_, _, _)
Duration(p, a, b) ==
  IF a >= b THEN 0
  ELSE IF p[a].op = "LOOP_BEGIN"
       THEN LET e == Match(p, p[a].next, 0)
            IN  p[a].count * Duration(p, p[a].next, e) + Duration(p, p[e].next, b)
       ELSE p[a].delay + Duration(p, p[a].next, b)

(* Loops run as often as the program says: a program that has come to its  *)
(* end has taken the time of its unrolled form, however its loops are      *)
(* nested, and no loop is left active.                                     *)
LoopsUnroll ==
  ended => /\ loops = << >>
           /\ lastReset + cumulative = Duration(program, 0, Cardinality(DOMAIN program))

(* loop_stack.h, size(): "Returns the number of active loops in the        *)
(* stack".                                                                 *)
LoopsAreCounted == numLoops = Len(loops)

NestedUnits == { <<2, 1>>, <<7, 2>>, <<12, 1>>, <<12, 2>>, <<12, 3>>, <<13>> }
DeepUnits   == { <<12, 2>>, <<13>>}

===========================================================================
