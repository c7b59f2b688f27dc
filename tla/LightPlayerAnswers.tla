------------------------- MODULE LightPlayerAnswers -----------------------
(***************************************************************************)
(* The light player with a record of what it has answered for one          *)
(* timestamp, so that answers given along different routes (forwards,      *)
(* after a rewind, in many seeks or in one) can be compared, and of what   *)
(* gave the colour that is shown.                                          *)
(***************************************************************************)
EXTENDS LightPlayer

CONSTANT Probes     \* the timestamps whose answers are compared

ASSUME ProbesAssumption == Probes \subseteq Targets

VARIABLES
  probe,      \* the timestamp that is watched
  answers,    \* what the player has answered for it
  atOnce      \* the colour shown is that of a fade that took no time

answerVars == <<vars, probe, answers, atOnce>>

(* An answer is settled when no other command is due at its timestamp.     *)
Answered == [color |-> color, pyro |-> pyro, settled |-> ended \/ wakeup > target]

ExecutesFade == Fade \/ FadeFromChannels

(* From then until another command gives a colour, or the program restarts *)
AtOnceNext ==
  /\ ~resetFlag'
  /\ ~(SetColor \/ SetColorFromChannels)
  /\ IF ExecutesFade THEN Fetched.delay = 0 ELSE atOnce

AnswersInit == Init /\ probe \in Probes /\ answers = {} /\ atOnce = FALSE

AnswersNext ==
  /\ Next
  /\ answers' = IF SeekReturns /\ target = probe THEN answers \cup {Answered}
                ELSE answers
  /\ atOnce' = AtOnceNext
  /\ UNCHANGED probe

AnswersSpec == AnswersInit /\ [][AnswersNext]_answerVars
AnswersFairSpec == AnswersSpec /\ WF_vars(ContinueSeek)

---------------------------------------------------------------------------
SameOutputs(a, b) == a.color = b.color /\ a.pyro = b.pyro

(* What a show looks like at a time does not depend on how the playhead    *)
(* got there: whatever was asked before, settled answers for the same      *)
(* timestamp are the same (rewind() and seek() leave nothing behind).      *)
SettledAnswersAgree ==
  \A a, b \in answers : a.settled /\ b.settled => SameOutputs(a, b)

(* A fade that takes time starts from the colour that is shown, unless     *)
(* that is the colour of a fade that took none: such a fade shows its      *)
(* colour, and the next one starts from the colour before it.  Colours     *)
(* set, fades that have ended, and restarts leave nothing else behind for  *)
(* the transition handler to start from.                                   *)
FadesAreContinuous ==
  [][phase = "command" /\ fade'.active /\ ~atOnce => color' = color]_fade

(* Between two fades, the next one is to start from the colour shown.      *)
ColorInv == ~resetFlag /\ ~fade.active /\ ~atOnce => startColor = color

===========================================================================
