----------------------------- MODULE Trajectory ---------------------------
(***************************************************************************)
(* How the bytes of a trajectory are read: a header with the scale and the *)
(* start, then segments that follow each other without an index, each with *)
(* its duration and the points it adds on every axis.                      *)
(*                                                                         *)
(* Offsets count from zero.  A curve is the sequence of its control        *)
(* points, the first of which is where the segment before it ended.        *)
(***************************************************************************)
EXTENDS Integers, Sequences

HeaderSize == 9
AxisNames == <<"x", "y", "z", "yaw">>

Uint16At(bytes, offset) == bytes[offset + 1] + 256 * bytes[offset + 2]

Int16At(bytes, offset) ==
  LET n == Uint16At(bytes, offset)
  IN  IF n < 32768 THEN n ELSE n - 65536

ParseCoordinate(bytes, offset, scale) == Int16At(bytes, offset) * scale

(* C's remainder is moved up by a turn when it is negative.                *)
ParseAngle(bytes, offset) == Int16At(bytes, offset) % 3600

ScaleOf(bytes) == bytes[1] % 128

ParsePoint(bytes, offset, axis) ==
  IF axis = "yaw" THEN ParseAngle(bytes, offset)
                  ELSE ParseCoordinate(bytes, offset, ScaleOf(bytes))

ParseHeader(bytes) ==
  [scale |-> ScaleOf(bytes), use_yaw |-> bytes[1] >= 128,
   start |-> [x |-> ParsePoint(bytes, 1, "x"), y |-> ParsePoint(bytes, 3, "y"),
              z |-> ParsePoint(bytes, 5, "z"), yaw |-> ParsePoint(bytes, 7, "yaw")]]

(* Constant, linear, cubic Bezier curve, curve of degree seven.            *)
PointsAdded == <<0, 1, 3, 7>>

(* The points each axis adds in a segment with the given first byte.       *)
Added(code) == PointsAdded[(code % 4) + 1]
PointsOf(header) ==
  <<Added(header), Added(header \div 4), Added(header \div 16), Added(header \div 64)>>

(* The segment at the offset, which is not past the end.                   *)
SegmentAt(bytes, offset, start) ==
  LET points == PointsOf(bytes[offset + 1])
      before == <<0, points[1], points[1] + points[2], points[1] + points[2] + points[3],
                  points[1] + points[2] + points[3] + points[4]>>
      Curve(i) == <<start[AxisNames[i]]>> \o
        [k \in 1 .. points[i] |->
           ParsePoint(bytes, offset + 3 + 2 * (before[i] + k - 1), AxisNames[i])]
  IN  [duration |-> Uint16At(bytes, offset + 1),
       length |-> 3 + 2 * before[5],
       curve |-> [x |-> Curve(1), y |-> Curve(2), z |-> Curve(3), yaw |-> Curve(4)]]

EndOf(segment) == [a \in DOMAIN segment.curve |-> segment.curve[a][Len(segment.curve[a])]]

(* The points a trajectory passes between its segments, with their times:  *)
(* what a player that builds one segment after another meets.              *)
FirstPoint(bytes) == [time |-> 0, position |-> ParseHeader(bytes).start, offset |-> HeaderSize]

PointAfter(bytes, w) ==
  LET s == SegmentAt(bytes, w.offset, w.position)
  IN  [time |-> w.time + s.duration, position |-> EndOf(s), offset |-> w.offset + s.length]

Waypoints(bytes) ==
  LET walk[n \in 0 .. Len(bytes)] ==
        IF n = 0 THEN <<FirstPoint(bytes)>>
        ELSE LET before == walk[n - 1]
                 last == before[Len(before)]
             IN  IF last.offset >= Len(bytes) THEN before
                                              ELSE Append(before, PointAfter(bytes, last))
  IN  walk[Len(bytes) \div 3]
===========================================================================
