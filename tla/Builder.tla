------------------------------- MODULE Builder ----------------------------
(***************************************************************************)
(* The trajectory builder: it encodes a start position and straight lines  *)
(* in a buffer, and hands the buffer over to a trajectory.                 *)
(*                                                                         *)
(* Coordinates are whole millimetres and yaw is in tenths of a degree; the *)
(* midpoints of long lines are taken to be exact.  The calls that a call   *)
(* still has to make are a stack, so that every segment is a step of its   *)
(* own and an error in it ends all of them.                                *)
(***************************************************************************)
EXTENDS Buffer, Integers

CONSTANT MaxDuration      \* MAX_DURATION_MSEC

HeaderLength == 9
SegmentLength == 11

(* A duration is written in 16 bits, and an allocator grants a segment.    *)
ASSUME BuilderAssumption ==
  /\ MaxDuration \in Nat \ {0} /\ MaxDuration <= 65535
  /\ Byte = 0 .. 255 /\ SegmentLength <= MaxObject

VARIABLES
  heap,         \* the blocks that are allocated
  builder,      \* buffer, last_position and scale
  trajectory,   \* the buffer of the trajectory, Unbuilt if there is none
  calls,        \* the calls to make, the next one first
  result        \* of the last call that returned

builderVars == <<heap, builder, trajectory, calls, result>>

Unbuilt == [stor_begin |-> NoBlock, capacity |-> 0, contents |-> << >>, owned |-> FALSE]

Axes == {"x", "y", "z", "yaw"}
Rank == [x |-> 1, y |-> 2, z |-> 3, yaw |-> 4]
Flag == [x |-> 1, y |-> 4, z |-> 16, yaw |-> 64]
Origin == [a \in Axes |-> 0]

(* What fmodf() leaves negative is moved up by a turn.                     *)
Angle(yaw) == yaw % 3600

Int16(n) == -32768 <= n /\ n <= 32767

(* Mutant: coordinates are rounded towards zero.                           *)
EncodedTowardsZero(scale, position, a) ==
  IF a = "yaw" THEN Angle(position[a])
  ELSE IF position[a] >= 0 THEN position[a] \div scale ELSE -((- position[a]) \div scale)

(* floorf(); an angle always fits.                                         *)
Encoded(scale, position, a) ==
  IF a = "yaw" THEN Angle(position[a]) ELSE position[a] \div scale

WrittenInt16(n) == <<n % 256, (n % 65536) \div 256>>

(* Coordinates are written in the order of the axes up to the first that   *)
(* does not fit; its flag is already set then.                             *)
Fitting(scale, position, axes) ==
  {a \in axes : \A b \in axes :
     Rank[b] <= Rank[a] => Int16(Encoded(scale, position, b))}
Touched(scale, position, axes) ==
  {a \in axes : \A b \in axes :
     Rank[b] < Rank[a] => Int16(Encoded(scale, position, b))}

Written(scale, position, axes) ==
  LET Part(a) == IF a \in axes THEN WrittenInt16(Encoded(scale, position, a)) ELSE << >>
  IN  Part("x") \o Part("y") \o Part("z") \o Part("yaw")

FlagsOf(axes) ==
  LET Bit(a) == IF a \in axes THEN Flag[a] ELSE 0
  IN  Bit("x") + Bit("y") + Bit("z") + Bit("yaw")

(* Mutant: the segment is written over the end of the one before.          *)
OverwrittenOneShort(contents, offset, s) ==
  SubSeq(contents, 1, offset - 1) \o s \o SubSeq(contents, offset + Len(s), Len(contents))

(* The bytes of s written over those of contents from offset on.           *)
Overwritten(contents, offset, s) ==
  SubSeq(contents, 1, offset) \o s \o SubSeq(contents, offset + Len(s) + 1, Len(contents))

BuilderInit ==
  /\ heap = {}
  /\ builder = [buffer |-> Unbuilt, last_position |-> Origin, scale |-> 1]
  /\ trajectory = Unbuilt
  /\ calls = << >>
  /\ result = "SUCCESS"

(* An operation of the buffer whose result is the result of the call.      *)
Return(o) ==
  /\ heap' = o.heap
  /\ result' = o.result
  /\ builder' = [builder EXCEPT !.buffer = o.buffer]

InitBuilder(scale, use_yaw) ==
  IF scale \notin 1 .. 127
    THEN result' = "EINVAL" /\ UNCHANGED <<heap, builder>>
    ELSE \E o \in InitBuffer(heap, builder.buffer, HeaderLength) :
           /\ heap' = o.heap /\ result' = o.result
           /\ builder' =
                IF o.result # "SUCCESS" THEN [builder EXCEPT !.buffer = o.buffer]
                ELSE [buffer |-> [o.buffer EXCEPT
                        !.contents[1] = IF use_yaw THEN scale + 128 ELSE scale],
                      last_position |-> Origin, scale |-> scale]

DestroyBuilder ==
  LET o == DestroyBuffer(heap, builder.buffer)
  IN  /\ heap' = o.heap
      /\ builder' = [builder EXCEPT !.buffer = o.buffer, !.last_position = Origin]

(* Coordinates before one that does not fit stay written.                  *)
SetStartPosition(start) ==
  LET fitting == Fitting(builder.scale, start, Axes)
      written == Overwritten(builder.buffer.contents, 1,
                             Written(builder.scale, start, fitting))
  IN  IF Size(builder.buffer) # HeaderLength
        THEN result' = "FAILURE" /\ UNCHANGED <<heap, builder>>
        ELSE /\ result' = IF fitting = Axes THEN "SUCCESS" ELSE "EINVAL"
             /\ builder' = [builder EXCEPT
                  !.buffer.contents = written,
                  !.last_position = IF fitting = Axes THEN start ELSE @]
             /\ UNCHANGED heap

(* One segment: room for the longest, its parts, and the rest cut off.     *)
AppendedSegment(target, duration) ==
  LET changed == {a \in Axes : builder.last_position[a] # target[a]}
      fitting == Fitting(builder.scale, target, changed)
      segment == <<FlagsOf(Touched(builder.scale, target, changed))>>
                   \o WrittenInt16(duration) \o Written(builder.scale, target, fitting)
      offset == Size(builder.buffer)
      Encode(o) == [o EXCEPT !.buffer.contents = Overwritten(@, offset, segment)]
      Trim(o) == IF fitting = changed
                   THEN Resize(o.heap, Encode(o).buffer, offset + Len(segment))
                   ELSE {[Encode(o) EXCEPT !.result = "EINVAL"]}
  IN  Check(ExtendWithZeros(heap, builder.buffer, SegmentLength), Trim)

Line(target, duration) == [call |-> "line", target |-> target, duration |-> duration]
Hold(duration) == [call |-> "hold", target |-> Origin, duration |-> duration]

Midpoint(p, q) == [a \in Axes |-> (p[a] + q[a]) \div 2]

(* What remains to be called when the next call has returned.              *)
Continue == calls' = IF result' = "SUCCESS" THEN Tail(calls) ELSE << >>

AppendLine ==
  LET line == Head(calls)
  IN  /\ calls # << >> /\ line.call = "line" /\ line.duration <= MaxDuration
      /\ \E o \in AppendedSegment(line.target, line.duration) :
           /\ heap' = o.heap /\ result' = o.result
           /\ builder' = [builder EXCEPT !.buffer = o.buffer,
                            !.last_position = IF o.result = "SUCCESS" THEN line.target ELSE @]
      /\ Continue
      /\ UNCHANGED trajectory

Halves(duration) == <<duration \div 2, duration - duration \div 2>>

SplitLine ==
  LET line == Head(calls)
      halves == Halves(line.duration)
      midpoint == Midpoint(builder.last_position, line.target)
  IN  /\ calls # << >> /\ line.call = "line" /\ line.duration > MaxDuration
      /\ calls' = <<Line(midpoint, halves[1]), Line(line.target, halves[2])>> \o Tail(calls)
      /\ UNCHANGED <<heap, builder, trajectory, result>>

(* Mutant: the last part of a long hold is dropped.                        *)
PartOfLongHold(duration) ==
  IF duration > MaxDuration THEN <<MaxDuration, 0>> ELSE <<duration, 0>>

PartOfHold(duration) ==
  IF duration > MaxDuration THEN <<MaxDuration, duration - MaxDuration>> ELSE <<duration, 0>>

HoldPositionFor ==
  LET hold == Head(calls)
      part == PartOfHold(hold.duration)
  IN  /\ calls # << >> /\ hold.call = "hold"
      /\ calls' = IF hold.duration = 0 THEN Tail(calls)
                  ELSE <<Line(builder.last_position, part[1]), Hold(part[2])>> \o Tail(calls)
      /\ result' = "SUCCESS"
      /\ UNCHANGED <<heap, builder, trajectory>>

(* Mutant: the builder goes on using the bytes it handed over.             *)
InitFromBuilderAndKeep ==
  /\ trajectory' = InitFromBytes(heap, trajectory, builder.buffer.stor_begin,
                                 builder.buffer.contents).buffer
  /\ result' = "SUCCESS"
  /\ UNCHANGED <<heap, builder>>

(* The trajectory takes the bytes, then the builder is given an empty      *)
(* header with the same first byte; its last position stays.  When there   *)
(* is no memory for it the trajectory has its bytes all the same.          *)
InitFromBuilder ==
  LET bytes == builder.buffer.contents
      taken == InitFromBytes(heap, trajectory, builder.buffer.stor_begin, bytes)
  IN  /\ trajectory' = taken.buffer
      /\ \E o \in InitBuffer(taken.heap, builder.buffer, HeaderLength) :
           Return(IF o.result = "SUCCESS"
                    THEN [o EXCEPT !.buffer.contents[1] = Head(bytes)] ELSE o)
===========================================================================
