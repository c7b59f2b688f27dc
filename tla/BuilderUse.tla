----------------------------- MODULE BuilderUse ---------------------------
(***************************************************************************)
(* A program that builds trajectories, one after another: it gives a start *)
(* position, draws lines, waits, and takes the trajectory.  Allocations    *)
(* may fail and targets may be out of range.  After a hand-over it may     *)
(* give the builder a start again, or draw without one.                    *)
(***************************************************************************)
EXTENDS Builder, Trajectory

CONSTANTS
  Scales, Positions, Durations,    \* the arguments of the program
  MaxParts                         \* bound on the lines and holds of a trajectory

ASSUME BuilderUseAssumption == Positions \subseteq [Axes -> Int] /\ Durations \subseteq Nat

VARIABLES
  route,        \* what was asked for: the points to be at, with their times
  torn,         \* a call failed since the builder was initialised
  started       \* the builder was initialised or given a start since the last hand-over

useVars == <<heap, builder, trajectory, calls, result, route, torn, started>>

Init ==
  /\ BuilderInit
  /\ route = << >> /\ torn = FALSE /\ started = FALSE

BuilderLives == builder.buffer.stor_begin # NoBlock
TrajectoryLives == trajectory.stor_begin # NoBlock

(* What the encoding keeps of a position.                                  *)
OnGrid(position) ==
  [a \in Axes |-> IF a = "yaw" THEN Angle(position[a])
                  ELSE (position[a] \div builder.scale) * builder.scale]

FromOrigin == <<[time |-> 0, position |-> Origin]>>

NewBuilder(scale, use_yaw) ==
  /\ calls = << >> /\ ~BuilderLives
  /\ InitBuilder(scale, use_yaw)
  /\ route' = FromOrigin
  /\ torn' = FALSE /\ started' = TRUE
  /\ UNCHANGED <<trajectory, calls>>

Ready == calls = << >> /\ BuilderLives /\ ~torn

StartAt(position) ==
  /\ Ready
  /\ SetStartPosition(position)
  /\ IF result' = "SUCCESS"
       THEN route' = <<[time |-> 0, position |-> OnGrid(position)]>> /\ started' = TRUE
       ELSE UNCHANGED <<route, started>>
  /\ torn' = (result' = "EINVAL")
  /\ UNCHANGED <<trajectory, calls>>

Extended(position, duration) ==
  Append(route, [time |-> route[Len(route)].time + duration, position |-> position])

(* The program is done with one trajectory before it draws the next.       *)
Draw(call, position) ==
  /\ Ready /\ ~TrajectoryLives /\ Len(route) <= MaxParts
  /\ calls' = <<call>>
  /\ route' = Extended(position, call.duration)
  /\ UNCHANGED <<heap, builder, trajectory, result, torn, started>>

(* The rest of a call of append_line() or hold_position_for().             *)
ContinueCall ==
  /\ \/ (AppendLine \/ HoldPositionFor) /\ torn' = (torn \/ result' # "SUCCESS")
     \/ SplitLine /\ torn' = torn
  /\ UNCHANGED <<route, started>>

(* An error leaves the program without a trajectory to destroy.            *)
Finish ==
  /\ Ready /\ ~TrajectoryLives
  /\ InitFromBuilder
  /\ route' = FromOrigin
  /\ started' = FALSE
  /\ torn' = (result' # "SUCCESS")
  /\ UNCHANGED calls

DropBuilder ==
  /\ calls = << >> /\ BuilderLives
  /\ DestroyBuilder
  /\ UNCHANGED <<trajectory, calls, result, route, torn, started>>

DropTrajectory ==
  /\ calls = << >> /\ TrajectoryLives
  /\ LET o == DestroyBuffer(heap, trajectory)
     IN  heap' = o.heap /\ trajectory' = Unbuilt
  /\ UNCHANGED <<builder, calls, result, route, torn, started>>

Next ==
  \/ \E scale \in Scales, use_yaw \in BOOLEAN : NewBuilder(scale, use_yaw)
  \/ \E p \in Positions : StartAt(p)
  \/ \E p \in Positions, d \in Durations : Draw(Line(p, d), OnGrid(p))
  \/ \E d \in Durations : Draw(Hold(d), route[Len(route)].position)
  \/ ContinueCall
  \/ Finish
  \/ DropBuilder
  \/ DropTrajectory

Spec == Init /\ [][Next]_useVars

---------------------------------------------------------------------------
(* Bytes have one owner: a trajectory never shares its block with the      *)
(* builder it came from, and neither holds a block that was freed, also    *)
(* when the builder could not be given a new buffer.                       *)
BytesHaveOneOwner ==
  /\ BuilderLives => builder.buffer.stor_begin \in heap
  /\ TrajectoryLives => trajectory.stor_begin \in heap
  /\ BuilderLives /\ TrajectoryLives => builder.buffer.stor_begin # trajectory.stor_begin

Passes(bytes, points) ==
  LET way == Waypoints(bytes)
  IN  /\ \A p \in 1 .. Len(points) : \E w \in 1 .. Len(way) :
           way[w].time = points[p].time /\ way[w].position = points[p].position
      /\ way[Len(way)].time = points[Len(points)].time
      /\ way[Len(way)].offset = Len(bytes)

(* A trajectory read back is the one that was asked for, if the builder    *)
(* was new or has been given a start: it starts where it was told to, is   *)
(* at every target at the time its line ends, and takes as long as its     *)
(* parts together, though long parts are split, coordinates that do not    *)
(* change are left out and all are rounded to the grid.                    *)
BuiltAsAsked ==
  calls = << >> /\ BuilderLives /\ started /\ ~torn
    => Passes(builder.buffer.contents, route)

(* The bytes change hands whole: a trajectory that is handed over passes   *)
(* the points of the route, and the bytes that the builder has from then   *)
(* on are those of an empty trajectory of the same scale.  (Nothing is     *)
(* said here of the position the builder draws from: the code keeps it, so *)
(* that a line drawn without a new start leaves out the coordinates it has *)
(* in common with the end of the trajectory before.)                       *)
HandsOver ==
  [][Finish /\ started /\ result' = "SUCCESS"
       => /\ Passes(trajectory'.contents, route)
          /\ Len(builder'.buffer.contents) = HeaderLength
          /\ Waypoints(builder'.buffer.contents) =
               <<[time |-> 0, position |-> Origin, offset |-> HeaderLength]>>
          /\ ScaleOf(builder'.buffer.contents) = builder'.scale]_useVars

(* A call that appends does not touch the segments already written, also   *)
(* when it is refused its coordinates halfway.  (When there is no memory   *)
(* for a longer segment the buffer loses its storage: then there is no     *)
(* builder left to look at.)                                               *)
SegmentsAreKept ==
  [][calls # << >> /\ BuilderLives'
       => SubSeq(builder'.buffer.contents, 1, Size(builder.buffer)) = builder.buffer.contents]_useVars

(* All blocks that are allocated belong to the builder or the trajectory;  *)
(* one is lost only when an allocation fails.                              *)
OwnedBlocks == {builder.buffer.stor_begin, trajectory.stor_begin} \ {NoBlock}
LeaksOnlyWithoutMemory ==
  [][heap' \ OwnedBlocks' # heap \ OwnedBlocks => result' = "ENOMEM"]_useVars

---------------------------------------------------------------------------
(* What the memory argument needs of the types: the calls still to make.   *)
CallRecord == [call: {"line", "hold"}, target: [Axes -> Int], duration: Nat]

UseTypeOK ==
  /\ heap \subseteq Blocks
  /\ builder \in [buffer: BufferRecord, last_position: [Axes -> Int], scale: 1 .. 127]
  /\ trajectory \in BufferRecord
  /\ calls \in Seq(CallRecord)

(* A buffer of the builder or of the trajectory has room for its bytes.    *)
OwnsItsBytes(b) ==
  /\ b.owned /\ b.stor_begin \in heap
  /\ Size(b) <= b.capacity /\ b.capacity <= MaxObject

(* The inductive invariant.  The header is there, so that a hand-over      *)
(* never gives an empty array, which the trajectory would not take while   *)
(* the builder forgets it.                                                 *)
BuilderInv ==
  /\ UseTypeOK
  /\ BuilderLives => OwnsItsBytes(builder.buffer) /\ Size(builder.buffer) >= HeaderLength
  /\ TrajectoryLives => OwnsItsBytes(trajectory)
  /\ BytesHaveOneOwner
  /\ calls # << >> => BuilderLives
===========================================================================
