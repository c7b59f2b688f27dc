--------------------------- MODULE LightPrograms --------------------------
(***************************************************************************)
(* Light programs for the model checker: all the programs made of at most  *)
(* some number of units of an alphabet.  A unit is a command, in bytes, or *)
(* a few commands that belong together.                                    *)
(***************************************************************************)
EXTENDS Bytecode, SequencesExt

ProgramsOf(units, maxUnits) ==
  UNION { {Decode(FlattenSeq(p)) : p \in [1 .. n -> units]} : n \in 0 .. maxUnits }

(* No program made of these executes commands for ever without time        *)
(* passing.                                                                *)
TimedUnits ==
  { <<2, 1>>,                  \* sleep for 20 ms
    <<3, 1>>, <<3, 2>>,        \* wait until 20 or 40 ms
    <<7, 0>>, <<7, 1>>,        \* white, for 0 or 20 ms
    <<10, 2>>, <<9, 100, 1>>,  \* fade to black, to gray
    <<9, 100, 0>>,             \* fade to gray in no time
    <<12, 2>>, <<13>>,         \* loop twice, end of loop
    <<12, 0, 2, 1, 13>>,       \* sleep for ever
    <<2, 1, 18, 0>>,           \* sleep and jump to the start
    <<14>>,                    \* reset the clock
    <<20, 129>>, <<21, 2>> }   \* pyro channels

(* Commands for a host that steps late, the malformed ones included.       *)
HostUnits ==
  { <<2, 1>>, <<3, 1>>, <<7, 1>>, <<10, 1>>,
    <<14>>, <<12, 2>>, <<13>>,
    <<18, 0>>, <<18, 127>>,    \* jump to the start, to an invalid address
    <<20, 129>>, <<21, 2>>,
    <<1>>, <<0>>, <<255>>,     \* no-op, end, unknown command
    <<16, 0, 1, 2, 1>>,        \* colour from channels 0, 1 and 2
    <<17, 0, 0, 0, 1>>,        \* fade to a colour from channel 0
    <<19, 34, 127>> }          \* watch channel 2, jump to an invalid address

(* Commands that watch and release signal channels.                        *)
TriggerUnits ==
  { <<19, 33, 0>>, <<19, 16, 0>>,  \* watch 1 for rises, 0 for falls
    <<19, 113, 0>>,                \* watch 1 for one change
    <<19, 1>> }                    \* release 1

(* Both.                                                                   *)
MainLoopUnits == HostUnits \cup TriggerUnits

===========================================================================
