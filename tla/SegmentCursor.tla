--------------------------- MODULE SegmentCursor --------------------------
(***************************************************************************)
(* The players of trajectories and of yaw control: a cursor on one segment *)
(* of the bytes, which only goes forward to the next segment or back to    *)
(* the first.  Every query moves it to the segment of its time, in a loop  *)
(* whose turns are the steps of this machine.                              *)
(*                                                                         *)
(* A unit of time stands for some milliseconds; Infinity for INFINITY.     *)
(***************************************************************************)
EXTENDS Trajectory, YawControl, Polynomials

CONSTANTS
  Shows,        \* what is played: its kind and its bytes
  Queries,      \* what is asked: kind, argument and speed
  TimeLimit,    \* UINT32_MAX, in units of time
  Infinity,     \* beyond every time
  Resolution    \* of the searches for an altitude

---------------------------------------------------------------------------
(* The parts of a show, one after another from the header.                 *)

HasNoParts(s) == s.bytes = << >> \/ (s.kind = "trajectory" /\ ScaleOf(s.bytes) = 0)

PartAt(s, offset, start) ==
  IF s.kind = "trajectory" THEN SegmentAt(s.bytes, offset, start)
                           ELSE SetpointAt(s.bytes, offset, start)

Nowhere == [axis \in {"x", "y", "z", "yaw"} |-> 0]

Begin(s) ==
  IF s.kind = "trajectory"
    THEN IF s.bytes = << >> THEN [offset |-> 0, time |-> 0, start |-> Nowhere]
         ELSE [offset |-> HeaderSize, time |-> 0, start |-> ParseHeader(s.bytes).start]
    ELSE IF s.bytes = << >> THEN [offset |-> 0, time |-> 0, start |-> [yaw |-> 0]]
         ELSE [offset |-> YawHeaderLength, time |-> 0,
               start |-> [yaw |-> ParseYawHeader(s.bytes).yaw_offset]]

AtEnd(s, w) == w.offset >= Len(s.bytes) \/ HasNoParts(s)

After(s, w) ==
  LET part == PartAt(s, w.offset, w.start)
  IN  [offset |-> w.offset + part.length, time |-> w.time + part.duration, start |-> EndOf(part)]

(* Where a walk is after n parts, and at the end from then on.             *)
Places(s) ==
  LET place[n \in 0 .. Len(s.bytes)] ==
        IF n = 0 THEN Begin(s)
        ELSE IF AtEnd(s, place[n - 1]) THEN place[n - 1] ELSE After(s, place[n - 1])
  IN  place

Parts(s, places) ==
  CHOOSE n \in 0 .. Len(s.bytes) :
    AtEnd(s, places[n]) /\ \A m \in 0 .. n - 1 : ~AtEnd(s, places[m])

(* No part is cut off: the code reads on after the end of such bytes.      *)
IsWhole(s) == LET places == Places(s) IN places[Parts(s, places)].offset <= Len(s.bytes)

ASSUME CursorAssumption ==
  /\ TimeLimit \in Nat /\ Resolution \in Nat \ {0}
  /\ Infinity \in Nat /\ TimeLimit + Resolution < Infinity

ASSUME ShowsAssumption ==
  \A s \in Shows : s.kind \in {"trajectory", "yaw"} /\ s.bytes \in Seq(0 .. 255) /\ IsWhole(s)

ASSUME QueriesAssumption ==
  \A q \in Queries : q.arg \in Int /\ q.arg <= Infinity /\ q.speed \in Int

VARIABLES
  show,         \* what this player plays
  segment,      \* current_segment, current_setpoint
  call,         \* the query, and where in it the player is
  answer        \* to the last query

cursorVars == <<show, segment, call, answer>>

---------------------------------------------------------------------------
(* The current segment.                                                    *)

IsTrajectory == show.kind = "trajectory"
Empty == show.bytes = << >>

NoSegments == HasNoParts(show)

Standing(start) == [axis \in DOMAIN start |-> <<start[axis]>>]

(* Mutant: the cursor stands still until the end of the clock.             *)
BuildTailForAWhile(offset, time, start) ==
  [start |-> offset, length |-> 0, start_time |-> time, end_time |-> TimeLimit,
   end_msec |-> TimeLimit, duration |-> Infinity, curve |-> Standing(start)]

(* Past the end, and where there is nothing to play, the cursor stands     *)
(* still for ever.                                                         *)
BuildTail(offset, time, start) ==
  [start |-> offset, length |-> 0, start_time |-> time, end_time |-> Infinity,
   end_msec |-> TimeLimit, duration |-> Infinity, curve |-> Standing(start)]

(* Times in milliseconds have the width of a word.                         *)
BuildFrom(s, offset, time) ==
  LET end == (time + s.duration) % (TimeLimit + 1)
  IN  [start |-> offset, length |-> s.length, start_time |-> time, end_time |-> end,
       end_msec |-> end, duration |-> s.duration, curve |-> s.curve]

BuildSegment(offset, time, start) ==
  IF offset >= Len(show.bytes) \/ NoSegments THEN BuildTail(offset, time, start)
  ELSE BuildFrom(SegmentAt(show.bytes, offset, start), offset, time)

BuildSetpoint(offset, time, start) ==
  IF offset >= Len(show.bytes) THEN BuildTail(offset, time, start)
  ELSE BuildFrom(SetpointAt(show.bytes, offset, start), offset, time)

FirstSegment ==
  IF Empty THEN BuildTail(0, 0, Nowhere)
  ELSE BuildSegment(HeaderSize, 0, ParseHeader(show.bytes).start)

FirstSetpoint ==
  IF Empty THEN BuildTail(0, 0, [yaw |-> 0])
  ELSE BuildSetpoint(YawHeaderLength, 0, [yaw |-> ParseYawHeader(show.bytes).yaw_offset])

First == IF IsTrajectory THEN FirstSegment ELSE FirstSetpoint

(* Mutant: the next segment starts where this one does.                    *)
NextFromStart(s) ==
  BuildSegment(s.start + s.length, s.end_msec, [axis \in DOMAIN s.curve |-> s.curve[axis][1]])

NextSegment(s) == BuildSegment(s.start + s.length, s.end_msec, EndOf(s))
NextSetpoint(s) == BuildSetpoint(s.start + s.length, s.end_msec, EndOf(s))

NextOf(s) == IF IsTrajectory THEN NextSegment(s) ELSE NextSetpoint(s)

HasMore == segment.length > 0

(* The time within the segment, from 0 to 1.                               *)
Relative(t, s) ==
  IF t >= Infinity THEN Rat(1)
  ELSE IF s.duration = Infinity THEN Zero
  ELSE IF s.duration > 0 THEN Ratio(t - s.start_time, s.duration)
  ELSE <<1, 2>>

Points(s, axis) == [k \in 1 .. Len(s.curve[axis]) |-> Rat(s.curve[axis][k])]
Poly(s, axis) == MakeBezier(Rat(1), Points(s, axis))

PerUnit(poly, s) ==
  IF s.duration = 0 THEN poly
  ELSE IF s.duration = Infinity THEN Scaled(poly, Zero)
  ELSE Scaled(poly, Ratio(1, s.duration))

Velocity(s, axis) == PerUnit(Deriv(Poly(s, axis)), s)
Acceleration(s, axis) == PerUnit(Deriv(Velocity(s, axis)), s)

PositionAt(s, t) == [axis \in DOMAIN s.curve |-> Eval(Poly(s, axis), Relative(t, s))]
VelocityAt(s, t) == [axis \in DOMAIN s.curve |-> Eval(Velocity(s, axis), Relative(t, s))]

(* A yaw that changes in no time has an infinite rate.                     *)
YawRateOf(s) ==
  [yaw |-> IF s.duration = 0 THEN Rat(Infinity)
           ELSE IF s.duration = Infinity THEN Zero
           ELSE Ratio(s.curve.yaw[2] - s.curve.yaw[1], s.duration)]

RateAt(s, t) == IF IsTrajectory THEN VelocityAt(s, t) ELSE YawRateOf(s)
AccelerationAt(s, t) == [axis \in DOMAIN s.curve |-> Eval(Acceleration(s, axis), Relative(t, s))]

---------------------------------------------------------------------------
NoQuery == [ask |-> "nothing", arg |-> 0, speed |-> 0]

Idle == [do |-> "nothing", query |-> NoQuery, t |-> 0, sum |-> 0, bound |-> Zero, box |-> << >>]

CursorInit ==
  /\ show \in Shows
  /\ segment = First
  /\ call = Idle
  /\ answer = [query |-> NoQuery, value |-> << >>]

Answer(value) == answer' = [query |-> call.query, value |-> value] /\ call' = Idle

(* Without a player.                                                       *)
AnswerAtOnce(q, value) == answer' = [query |-> q, value |-> value] /\ UNCHANGED <<segment, call>>

(* A query of a time before the start is one of the start.                 *)
AskAt(q) ==
  /\ q.ask \in {"position", "velocity"} \/ (IsTrajectory /\ q.ask = "acceleration")
  /\ call' = [Idle EXCEPT !.do = "seek", !.query = q, !.t = IF q.arg > 0 THEN q.arg ELSE 0]
  /\ UNCHANGED <<segment, answer>>

FromFirst(q, do, t) ==
  /\ call' = [Idle EXCEPT !.do = do, !.query = q, !.t = t]
  /\ segment' = First
  /\ UNCHANGED answer

AskDuration(q) == q.ask = "duration" /\ FromFirst(q, "sum", 0)

(* The other queries use a player of their own, which this one becomes.    *)
AskBox(q) == IsTrajectory /\ q.ask = "box" /\ FromFirst(q, "box", 0)

(* No ascent, no search; and none for one that would never get there.      *)
AskTakeoff(q) ==
  /\ IsTrajectory /\ q.ask = "takeoff"
  /\ \/ (q.arg < 0 \/ q.speed <= 0) /\ AnswerAtOnce(q, Rat(Infinity))
     \/ q.arg = 0 /\ q.speed > 0 /\ AnswerAtOnce(q, Zero)
     \/ q.arg > 0 /\ q.speed > 0 /\ FromFirst(q, "seek", 0)

(* Without a descent, landing is when the trajectory is over.              *)
AskLanding(q) ==
  /\ IsTrajectory /\ q.ask = "landing"
  /\ \/ q.arg < 0 /\ AnswerAtOnce(q, - Infinity)
     \/ q.arg = 0 /\ FromFirst(q, "sum", 0)
     \/ q.arg > 0 /\ FromFirst(q, "seek", Infinity)

Ask ==
  /\ call.do = "nothing"
  /\ \E q \in Queries :
       AskAt(q) \/ AskDuration(q) \/ AskBox(q) \/ AskTakeoff(q) \/ AskLanding(q)
  /\ UNCHANGED show

Seeking == call.do \in {"seek", "earliest", "latest"}

(* One turn of the loop of seek_to_time().                                 *)
SeekBack ==
  /\ Seeking /\ segment.start_time > call.t
  /\ segment' = First
  /\ UNCHANGED <<show, call, answer>>

SeekForward ==
  /\ Seeking /\ segment.start_time <= call.t /\ segment.end_time < call.t
  /\ segment' = NextOf(segment)
  /\ UNCHANGED <<show, call, answer>>

Arrived == Seeking /\ segment.start_time <= call.t /\ segment.end_time >= call.t

Altitude == PositionAt(segment, call.t).z

AnswerAt ==
  /\ Arrived /\ call.do = "seek"
  /\ \/ call.query.ask = "position" /\ Answer(PositionAt(segment, call.t))
     \/ call.query.ask = "velocity" /\ Answer(RateAt(segment, call.t))
     \/ call.query.ask = "acceleration" /\ Answer(AccelerationAt(segment, call.t))
  /\ UNCHANGED <<show, segment>>

(* Mutant: the takeoff starts when the drone should have arrived.          *)
ProposedOnArrival(t, q) == Rat(t)

(* The takeoff takes its time, and may have to start before the show.      *)
Proposed(t, q) == Minus(Rat(t), Ratio(q.arg, q.speed))

(* The searches start over with the altitude they look for.                *)
StartSearch ==
  /\ Arrived /\ call.do = "seek" /\ call.query.ask \in {"takeoff", "landing"}
  /\ segment' = First
  /\ LET bound == Plus(Altitude, Rat(call.query.arg))
     IN  IF call.query.ask = "landing"
           THEN call' = [call EXCEPT !.do = "sum", !.bound = bound] /\ UNCHANGED answer
           ELSE IF First.length > 0
             THEN call' = [call EXCEPT !.do = "earliest", !.t = 0, !.bound = bound]
                  /\ UNCHANGED answer
             ELSE Answer(Rat(Infinity))
  /\ UNCHANGED show

Reached(bound, altitude) == NotAbove(bound, altitude)

(* The search for the earliest time is over when it has found one, or has  *)
(* looked at one that is past the end.                                     *)
EarliestEnds(reached) == reached \/ ~HasMore

SearchEarliest ==
  LET reached == Reached(call.bound, Altitude)
  IN  /\ Arrived /\ call.do = "earliest"
      /\ IF EarliestEnds(reached)
           THEN Answer(IF reached THEN Proposed(call.t, call.query) ELSE Rat(Infinity))
         ELSE call' = [call EXCEPT !.t = @ + Resolution] /\ UNCHANGED answer
      /\ UNCHANGED <<show, segment>>

SearchLatest ==
  LET reached == Reached(call.bound, Altitude)
  IN  /\ Arrived /\ call.do = "latest"
      /\ IF reached \/ call.t < Resolution THEN Answer(IF reached THEN call.t ELSE - Infinity)
         ELSE call' = [call EXCEPT !.t = @ - Resolution] /\ UNCHANGED answer
      /\ UNCHANGED <<show, segment>>

(* The first multiple of the resolution from a time on.                    *)
OnResolution(t) == t + ((- t) % Resolution)

IsTotalAsked == call.query.ask = "duration" \/ call.query.arg = 0

SumDuration ==
  /\ call.do = "sum"
  /\ IF HasMore
       THEN /\ call' = [call EXCEPT !.sum = (@ + segment.duration) % (TimeLimit + 1)]
            /\ segment' = NextOf(segment)
            /\ UNCHANGED answer
       ELSE /\ UNCHANGED segment
            /\ IF IsTotalAsked THEN Answer(call.sum)
               ELSE call' = [call EXCEPT !.do = "latest", !.t = OnResolution(call.sum)]
                    /\ UNCHANGED answer
  /\ UNCHANGED show

BoxAxes == {"x", "y", "z"}

(* What is found uninitialised may be anything.                            *)
Garbage == {[min |-> Rat(-1000), max |-> Rat(1000)], [min |-> Zero, max |-> Zero]}

Widened(box, spans) ==
  IF box = << >> THEN spans
  ELSE [axis \in BoxAxes |-> [min |-> Least({box[axis].min, spans[axis].min}),
                              max |-> Greatest({box[axis].max, spans[axis].max})]]

ExtendBox ==
  /\ call.do = "box"
  /\ IF HasMore
       THEN /\ \E garbage \in Garbage :
                 LET spans == [axis \in BoxAxes |-> Extrema(Poly(segment, axis), garbage)]
                 IN  call' = [call EXCEPT !.box = Widened(@, spans)]
            /\ segment' = NextOf(segment)
            /\ UNCHANGED answer
       ELSE Answer(call.box) /\ UNCHANGED segment
  /\ UNCHANGED show

Turn ==
  \/ SeekBack \/ SeekForward \/ AnswerAt \/ StartSearch
  \/ SearchEarliest \/ SearchLatest \/ SumDuration \/ ExtendBox

CursorNext == Ask \/ Turn

CursorSpec == CursorInit /\ [][CursorNext]_cursorVars

(* A call that has begun goes on: the weak fairness of Turn, written out.  *)
(* A turn is enabled as long as there is a call, unless it would leave the *)
(* cursor as it is.                                                        *)
TurnsOnTheSpot ==
  /\ Seeking
  /\ \/ segment.start_time > call.t /\ segment = First
     \/ segment.start_time <= call.t /\ segment.end_time < call.t /\ segment = NextOf(segment)

Fairness == []<>(call.do = "nothing" \/ TurnsOnTheSpot) \/ []<><<Turn>>_cursorVars
FairSpec == CursorSpec /\ Fairness

---------------------------------------------------------------------------
(* The reference: the segments one after another from the header, by the   *)
(* definition of the format, and the values of Bezier curves.              *)

(* The places a walk gets to, up to the end, where it stays.               *)
Walk ==
  LET places == Places(show)
  IN  [i \in 1 .. Parts(show, places) + 1 |-> places[i - 1]]

StartOf == Begin(show).start

LastOf(walk) == walk[Len(walk)]
Total(walk) == LastOf(walk).time

Played(w) == [part |-> PartAt(show, w.offset, w.start), from |-> w.time]
Rest(w) == [part |-> [curve |-> Standing(w.start), duration |-> Infinity], from |-> w.time]

(* The parts a time falls in; a time between two falls in both.            *)
PartsAt(walk, t) ==
  {Played(walk[i]) : i \in {j \in 1 .. Len(walk) - 1 : walk[j].time <= t /\ t <= walk[j + 1].time}}
    \cup (IF t < Total(walk) THEN {} ELSE {Rest(LastOf(walk))})

Choose(n, k) ==
  LET of[m \in 0 .. n, j \in 0 .. k] == IF j = 0 \/ j = m THEN 1 ELSE of[m - 1, j - 1] + of[m - 1, j]
  IN  of[n, k]

Power(p, n) == LET power[i \in 0 .. n] == IF i = 0 THEN Rat(1) ELSE Times(p, power[i - 1]) IN power[n]

(* The sum of Bernstein's polynomials, weighted with the control points.   *)
ValueOf(points, t) ==
  LET n == Len(points) - 1
      upto[k \in 0 .. n + 1] ==
        IF k = 0 THEN Zero
        ELSE Plus(upto[k - 1],
                  Times(Rat(Choose(n, k - 1) * points[k]),
                        Times(Power(t, k - 1), Power(Minus(Rat(1), t), n - k + 1))))
  IN  upto[n + 1]

(* The control points of the derivative of a curve.                        *)
Differences(points) ==
  IF Len(points) = 1 THEN <<0>>
  ELSE [k \in 1 .. Len(points) - 1 |-> (Len(points) - 1) * (points[k + 1] - points[k])]

When(p, t) ==
  IF p.part.duration = Infinity THEN {Zero}
  ELSE IF p.part.duration = 0 THEN {Zero, <<1, 2>>, Rat(1)}
  ELSE {Ratio(t - p.from, p.part.duration)}

Rate(part) == IF part.duration = Infinity THEN Zero
              ELSE IF part.duration = 0 THEN Rat(1) ELSE Ratio(1, part.duration)

PositionIn(curve, rel) == [axis \in DOMAIN curve |-> ValueOf(curve[axis], rel)]

VelocityIn(part, rel) ==
  IF ~IsTrajectory /\ part.duration = 0 THEN [yaw |-> Rat(Infinity)]
  ELSE [axis \in DOMAIN part.curve |->
          Times(Rate(part), ValueOf(Differences(part.curve[axis]), rel))]

AccelerationIn(part, rel) ==
  [axis \in DOMAIN part.curve |->
     Times(Times(Rate(part), Rate(part)),
           ValueOf(Differences(Differences(part.curve[axis])), rel))]

Positions(walk, t) ==
  UNION {{PositionIn(p.part.curve, rel) : rel \in When(p, t)} : p \in PartsAt(walk, t)}

Velocities(walk, t) ==
  UNION {{VelocityIn(p.part, rel) : rel \in When(p, t)} : p \in PartsAt(walk, t)}

Accelerations(walk, t) ==
  UNION {{AccelerationIn(p.part, rel) : rel \in When(p, t)} : p \in PartsAt(walk, t)}

(* The cursor knows where it is: whatever was asked before, the segment it *)
(* is on begins at the time, the place and the position at which a walk    *)
(* through all segments from the start gets to it.  After 2^32 ms, where   *)
(* times wrap around, the places are still right.                          *)
KnowsWhereItIs ==
  LET Knows(walk) ==
        \E i \in 1 .. Len(walk) :
          /\ segment.start = walk[i].offset
          /\ \A axis \in DOMAIN segment.curve : segment.curve[axis][1] = walk[i].start[axis]
          /\ Total(walk) <= TimeLimit => segment.start_time = walk[i].time
  IN  Knows(Walk)

(* A query looks at the part of the show that its time falls in.           *)
SeeksArrive ==
  [][AnswerAt /\ Total(Walk) <= TimeLimit =>
       \E p \in PartsAt(Walk, call.t) :
         /\ segment.curve = p.part.curve
         /\ segment.duration = p.part.duration /\ segment.start_time = p.from]_cursorVars

(* The duration of a show is that of all its parts.                        *)
DurationIsTotal ==
  LET Adds(walk) == Total(walk) <= TimeLimit => answer.value = Total(walk)
  IN  answer.query.ask = "duration" => Adds(Walk)

(* The inductive invariant: the cursor is on a part of the walk, with all  *)
(* that belongs to it, or at the end.                                      *)
OnPart(seg, part) ==
  /\ seg.length = part.length /\ seg.duration = part.duration /\ seg.curve = part.curve
  /\ seg.end_msec = (seg.start_time + part.duration) % (TimeLimit + 1)
  /\ seg.end_time = seg.end_msec

OnTail(seg, w) ==
  /\ seg.length = 0 /\ seg.duration = Infinity /\ seg.curve = Standing(w.start)
  /\ seg.end_time = Infinity

IsAt(seg, places, n, last) ==
  /\ seg.start = places[n].offset
  /\ seg.start_time \in 0 .. TimeLimit
  /\ places[last].time <= TimeLimit => seg.start_time = places[n].time
  /\ IF n = last THEN OnTail(seg, places[n])
     ELSE OnPart(seg, PartAt(show, places[n].offset, places[n].start))

SegmentInv ==
  LET IsOn(places, last) == \E n \in 0 .. last : IsAt(segment, places, n, last)
  IN  IsOn(Places(show), Parts(show, Places(show)))

(* The place in a call, and the sum of the durations so far.               *)
AsksOf ==
  [nothing |-> {"nothing"}, seek |-> {"position", "velocity", "acceleration", "takeoff", "landing"},
   earliest |-> {"takeoff"}, latest |-> {"landing"}, sum |-> {"duration", "landing"}, box |-> {"box"}]

CallInv ==
  /\ show \in Shows /\ DOMAIN call = DOMAIN Idle
  /\ call.do \in DOMAIN AsksOf /\ call.query.ask \in AsksOf[call.do]
  /\ call.t \in Int /\ call.t <= Infinity
  /\ call.sum \in 0 .. TimeLimit
  /\ call.do = "seek" => call.sum = 0
  /\ call.do = "sum" => call.sum = segment.start_time

CursorInv == SegmentInv /\ CallInv

(* Answers do not depend on the route to them: a position, a velocity or   *)
(* an acceleration is that of the curve at the time asked for, on either   *)
(* side where one segment meets the next, and somewhere in it for a        *)
(* segment that takes no time.                                             *)
AnswersAreOnCurve ==
  LET OnCurve(walk, t) ==
        Total(walk) <= TimeLimit =>
          /\ answer.query.ask = "position" => answer.value \in Positions(walk, t)
          /\ answer.query.ask = "velocity" => answer.value \in Velocities(walk, t)
          /\ answer.query.ask = "acceleration" => answer.value \in Accelerations(walk, t)
  IN  OnCurve(Walk, IF answer.query.arg > 0 THEN answer.query.arg ELSE 0)

High(walk, t, bound) == \E p \in Positions(walk, t) : NotAbove(bound, p.z)

HighTimes(walk, bound) ==
  {t \in 0 .. OnResolution(Total(walk)) : t % Resolution = 0 /\ High(walk, t, bound)}

EarliestIn(S) == CHOOSE t \in S : \A u \in S : t <= u
LatestIn(S) == CHOOSE t \in S : \A u \in S : u <= t

IsTakeoffTime(time, arrivals, arg, speed) ==
  IF arg < 0 \/ speed <= 0 \/ arrivals = {} THEN time = Rat(Infinity)
  ELSE Plus(time, Ratio(arg, speed)) = Rat(EarliestIn(arrivals))

IsLandingTime(time, departures, arg) ==
  IF arg < 0 \/ departures = {} THEN time = - Infinity ELSE time = LatestIn(departures)

(* A drone that takes off at the proposed time with the given speed climbs *)
(* by the given ascent just until the first time, on the grid of the       *)
(* search, at which the trajectory is so high over its start; it lands     *)
(* from the last time at which it is so high over its end, or when the     *)
(* trajectory is over.  There is no such time for a height that it never   *)
(* reaches, nor for a negative one, nor for a speed that does not lift.    *)
SearchesFind ==
  LET q == answer.query
      Finds(walk) ==
        Total(walk) <= TimeLimit =>
          /\ q.ask = "takeoff" =>
               IsTakeoffTime(answer.value, HighTimes(walk, Rat(StartOf.z + q.arg)), q.arg, q.speed)
          /\ q.ask = "landing" =>
               IsLandingTime(answer.value,
                             IF q.arg = 0 THEN {Total(walk)}
                             ELSE HighTimes(walk, Rat(LastOf(walk).start.z + q.arg)), q.arg)
  IN  Finds(Walk) /\ DurationIsTotal

Cubic(walk, axis) ==
  \A i \in 1 .. Len(walk) - 1 : Len(Played(walk[i]).part.curve[axis]) <= 4

Tight(box, values) ==
  /\ {box.min, box.max} \subseteq values
  /\ \A v \in values : NotAbove(box.min, v) /\ NotAbove(v, box.max)

(* The bounding box holds the trajectory and no more, on the axes that     *)
(* have no polynomial of a higher degree than the search for extrema takes.*)
BoxIsTight ==
  LET TightAround(walk, passed) ==
        Total(walk) > 0 /\ Total(walk) <= TimeLimit =>
          \A axis \in {a \in BoxAxes : Cubic(walk, a)} :
            Tight(answer.value[axis], {p[axis] : p \in passed})
  IN  answer.query.ask = "box" =>
        TightAround(Walk, UNION {Positions(Walk, t) : t \in 0 .. Total(Walk)})

(* Every query comes to an end: the cursor does not run in circles, also   *)
(* not when times wrap around.                                             *)
QueriesReturn == call.do # "nothing" ~> call.do = "nothing"
===========================================================================
