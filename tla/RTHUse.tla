------------------------------- MODULE RTHUse -----------------------------
(***************************************************************************)
(* A vehicle that asks its return-to-home plan what to do at some time,    *)
(* and turns the answer into a trajectory from where it is.                *)
(***************************************************************************)
EXTENDS RTHPlan, Scaling, Builder, Trajectory

CONSTANTS
  Plans,        \* plans as they were meant: scale, points and entries
  Times,        \* the times asked for, a negative one among them
  Starts        \* where the vehicle may be

VARIABLES
  meant,        \* the plan that was encoded
  asked,        \* the time asked for
  scan,         \* the search: entries read, offset, entry, and where it is
  vehicle,      \* where the vehicle is
  steps         \* what the conversion has still to do

rthVars == <<heap, builder, trajectory, calls, result, meant, asked, scan, vehicle, steps>>

---------------------------------------------------------------------------
(* The encoding of a plan, as the planner of the show writes it.           *)

(* Groups of seven bits, the lowest first; all but the last go on.         *)
Varuint(n) ==
  LET groups == CHOOSE k \in 1 .. WordBits :
        n < Power[7 * k] /\ \A l \in 1 .. k - 1 : n >= Power[7 * l]
  IN  [i \in 1 .. groups |->
         ((n \div Power[7 * (i - 1)]) % 128) + (IF i < groups THEN 128 ELSE 0)]

CodeOf(action) == IF action = "SAME" THEN 0 ELSE CHOOSE c \in 1 .. 3 : Actions[c] = action

EncodedEntry(e, scale, action) ==
  <<16 * CodeOf(e.action) + (IF e.pre_delay > 0 THEN 2 ELSE 0)
                          + (IF e.post_delay > 0 THEN 1 ELSE 0)>>
  \o Varuint(e.after)
  \o (IF HasTarget(e.action) THEN Varuint(e.point) ELSE << >>)
  \o (IF HasNeck(e.action)
        THEN WriteInt16(e.altitude \div scale) \o WriteInt16(e.neck \div scale)
               \o Varuint(e.neck_duration) ELSE << >>)
  \o (IF HasDuration(action) THEN Varuint(e.duration) ELSE << >>)
  \o (IF e.pre_delay > 0 THEN Varuint(e.pre_delay) ELSE << >>)
  \o (IF e.post_delay > 0 THEN Varuint(e.post_delay) ELSE << >>)

(* The last entry up to i that is not the same as before.                  *)
Source(entries, i) ==
  LET own == {j \in 1 .. i : entries[j].action # "SAME"}
  IN  IF own = {} THEN 0 ELSE CHOOSE j \in own : \A k \in own : k <= j

ActionAt(entries, i) ==
  IF Source(entries, i) = 0 THEN "LAND" ELSE entries[Source(entries, i)].action

EncodedPoint(point, scale) ==
  WriteInt16(point.x \div scale) \o WriteInt16(point.y \div scale)

(* The entries and the points up to the n-th.                              *)
EncodedEntries(plan, n) ==
  LET upto[i \in 0 .. Len(plan.entries)] ==
        IF i = 0 THEN << >>
        ELSE upto[i - 1]
               \o EncodedEntry(plan.entries[i], plan.scale, ActionAt(plan.entries, i))
  IN  upto[n]

EncodedPoints(plan, n) ==
  LET upto[i \in 0 .. Len(plan.points)] ==
        IF i = 0 THEN << >>
        ELSE upto[i - 1] \o EncodedPoint(plan.points[i], plan.scale)
  IN  upto[n]

Encoding(plan) ==
  IF plan.entries = << >> THEN << >>
  ELSE <<plan.scale>> \o WriteUint16(Len(plan.points)) \o EncodedPoints(plan, Len(plan.points))
         \o WriteUint16(Len(plan.entries)) \o EncodedEntries(plan, Len(plan.entries))

(* What an entry can say: numbers of a word, and altitudes on the scale.   *)
Words == 0 .. Power[WordBits] - 1
EntryActions == {"SAME", "LAND", "KEEP_ALTITUDE", "WITH_ALTITUDE"}
PlannedEntry ==
  [action: EntryActions, after: Words, point: Words, altitude: Int, neck: Int,
   neck_duration: Words, duration: Words, pre_delay: Words, post_delay: Words]

OnScale(n, scale) == n % scale = 0 /\ Int16(n \div scale)

Encodable(plan) ==
  /\ plan.scale \in 1 .. 127
  /\ plan.points \in Seq([x: Int, y: Int]) /\ Len(plan.points) <= 65535
  /\ plan.entries \in Seq(PlannedEntry) /\ Len(plan.entries) <= 65535
  /\ \A i \in 1 .. Len(plan.entries) :
       /\ OnScale(plan.entries[i].altitude, plan.scale)
       /\ OnScale(plan.entries[i].neck, plan.scale)

ASSUME RTHAssumption ==
  /\ \A plan \in Plans : Encodable(plan)
  /\ Times \subseteq Int /\ Starts \subseteq [Axes -> Int]

---------------------------------------------------------------------------
Bytes == Encoding(meant)

PlanInit ==
  /\ BuilderInit
  /\ meant \in Plans /\ asked \in Times /\ vehicle \in Starts
  /\ scan = [at |-> "start", read |-> 0, offset |-> 0,
             entry |-> [NoEntry EXCEPT !.time = asked], result |-> "SUCCESS"]
  /\ steps = << >>

(* A negative time is before every entry.                                  *)
BeginEvaluation ==
  /\ scan.at = "start"
  /\ scan' = [scan EXCEPT
       !.at = IF asked < 0 \/ NumEntries(Bytes) = 0 THEN "target" ELSE "entries",
       !.offset = IF Bytes = << >> THEN 0 ELSE OffsetOfFirstEntry(Bytes)]
  /\ UNCHANGED <<heap, builder, trajectory, calls, result, meant, asked, vehicle, steps>>

IsDue(time) == time >= asked

(* The time of an entry is relative to the entry before, not to the time   *)
(* asked for that the search starts with.                                  *)
EvaluateEntry ==
  LET before == IF scan.read = 0 THEN [scan.entry EXCEPT !.time = 0] ELSE scan.entry
      parsed == ParseEntry(Bytes, scan.offset, before)
      last == scan.read + 1 = NumEntries(Bytes)
  IN  /\ scan.at = "entries"
      /\ scan' = IF parsed.result # "SUCCESS"
                   THEN [scan EXCEPT !.at = "failed", !.result = parsed.result]
                   ELSE [scan EXCEPT !.read = @ + 1, !.offset = parsed.offset,
                           !.entry = parsed.entry,
                           !.at = IF IsDue(parsed.entry.time) \/ last THEN "target" ELSE @]
      /\ UNCHANGED <<heap, builder, trajectory, calls, result, meant, asked, vehicle, steps>>

EvaluateTarget ==
  LET point == GetPoint(Bytes, scan.entry.point)
      found == HasTarget(scan.entry.action) => point.result = "SUCCESS"
  IN  /\ scan.at = "target"
      /\ scan' = [scan EXCEPT !.at = IF found THEN "found" ELSE "failed",
                              !.result = IF found THEN "SUCCESS" ELSE point.result]
      /\ UNCHANGED <<heap, builder, trajectory, calls, result, meant, asked, vehicle, steps>>

Target(entry) ==
  IF HasTarget(entry.action)
    THEN [x |-> GetPoint(Bytes, entry.point).x, y |-> GetPoint(Bytes, entry.point).y]
    ELSE [x |-> 0, y |-> 0]

Positive(n) == IF n > 0 THEN n ELSE 0

(* The scale is raised for every coordinate the trajectory will have.      *)
ScaleFor(e) ==
  LET s1 == ScaleUpdate(1, vehicle.x, vehicle.y, vehicle.z)
      s2 == IF s1.result = "SUCCESS" /\ HasNeck(e.action)
              THEN ScaleUpdate(s1.scale, 0, 0, vehicle.z + e.neck) ELSE s1
      s3 == IF s2.result = "SUCCESS" /\ HasTarget(e.action)
              THEN ScaleUpdate(s2.scale, Target(e).x, Target(e).y, 0) ELSE s2
  IN  IF s3.result = "SUCCESS" /\ HasTargetAltitude(e.action)
        THEN ScaleUpdate(s3.scale, 0, 0, e.altitude) ELSE s3

Do(what) == [do |-> what, arg |-> Origin, sec |-> 0]
Fly(position, sec) == [do |-> "line", arg |-> position, sec |-> sec]
Stay(sec) == [do |-> "hold", arg |-> Origin, sec |-> sec]

(* The calls the conversion makes, in their order.                         *)
Conversion(e) ==
  LET necked == IF e.neck # 0 \/ e.neck_duration # 0
                  THEN [vehicle EXCEPT !.z = @ + e.neck] ELSE vehicle
      goal == CASE e.action = "LAND" -> necked
                [] e.action = "KEEP_ALTITUDE" ->
                     [necked EXCEPT !.x = Target(e).x, !.y = Target(e).y]
                [] e.action = "WITH_ALTITUDE" ->
                     [necked EXCEPT !.x = Target(e).x, !.y = Target(e).y, !.z = e.altitude]
  IN  <<Do("init"), Do("start"), Stay(Positive(e.time) + Positive(e.pre_delay))>>
      \o (IF e.neck # 0 \/ e.neck_duration # 0 THEN <<Fly(necked, e.neck_duration)>> ELSE << >>)
      \o (IF HasTarget(e.action) THEN <<Fly(goal, e.duration)>> ELSE << >>)
      \o (IF e.post_delay > 0 THEN <<Stay(e.post_delay)>> ELSE << >>)
      \o <<Do("finish"), Do("destroy")>>

(* Before the builder exists, errors leave nothing behind.                 *)
BeginConversion ==
  LET scale == ScaleFor(scan.entry)
      first == Conversion(scan.entry)[3]
      error == IF scale.result # "SUCCESS" THEN scale.result
               ELSE MsecFromSeconds(first.sec).result
  IN  /\ scan.at = "found"
      /\ scan' = [scan EXCEPT !.at = IF error = "SUCCESS" THEN "converting" ELSE "refused"]
      /\ steps' = IF error = "SUCCESS" THEN Conversion(scan.entry) ELSE << >>
      /\ result' = error
      /\ UNCHANGED <<heap, builder, trajectory, calls, meant, asked, vehicle>>

(* An error of any call but the last ends the conversion where it is; the  *)
(* builder it has made is on the stack and is not destroyed.               *)
Go(rest) ==
  /\ steps' = IF result' = "SUCCESS" THEN rest ELSE << >>
  /\ UNCHANGED <<meant, asked, scan, vehicle>>

ConversionStep ==
  LET step == Head(steps)
      msec == MsecFromSeconds(step.sec)
      next == IF step.do = "line" THEN Line(step.arg, msec.msec) ELSE Hold(msec.msec)
  IN  /\ steps # << >> /\ calls = << >>
      /\ \/ /\ step.do = "init"
            /\ InitBuilder(ScaleFor(scan.entry).scale, FALSE)
            /\ Go(Tail(steps)) /\ UNCHANGED <<trajectory, calls>>
         \/ /\ step.do = "start"
            /\ SetStartPosition(vehicle)
            /\ Go(Tail(steps)) /\ UNCHANGED <<trajectory, calls>>
         \/ /\ step.do \in {"hold", "line"}
            /\ result' = msec.result
            /\ calls' = IF msec.result = "SUCCESS" THEN <<next>> ELSE << >>
            /\ Go(Tail(steps)) /\ UNCHANGED <<heap, builder, trajectory>>
         \/ /\ step.do = "finish"
            /\ InitFromBuilder
            /\ steps' = Tail(steps)
            /\ UNCHANGED <<calls, meant, asked, scan, vehicle>>
         \/ /\ step.do = "destroy"
            /\ DestroyBuilder
            /\ steps' = << >>
            /\ scan' = [scan EXCEPT !.at = "converted"]
            /\ UNCHANGED <<trajectory, calls, result, meant, asked, vehicle>>

ConversionCall == (AppendLine \/ SplitLine \/ HoldPositionFor) /\ Go(steps)

PlanNext ==
  \/ BeginEvaluation
  \/ EvaluateEntry
  \/ EvaluateTarget
  \/ BeginConversion
  \/ ConversionStep
  \/ ConversionCall

PlanSpec == PlanInit /\ [][PlanNext]_rthVars

---------------------------------------------------------------------------
(* The reference: times add up, the entry is the first that is not before  *)
(* the time asked for, else the last, and an entry that is the same as     *)
(* before takes all but duration and delays from the last that is not.     *)
TimeOf(entries, i) ==
  LET sum[j \in 0 .. Len(entries)] == IF j = 0 THEN 0 ELSE sum[j - 1] + entries[j].after
  IN  sum[i]

MeantFor(entries, t) ==
  LET due == {i \in 1 .. Len(entries) : TimeOf(entries, i) >= t}
  IN  IF due = {} THEN Len(entries) ELSE CHOOSE i \in due : \A j \in due : i <= j

MeantEntry(entries, i) ==
  LET s == Source(entries, i)
      From(field) == IF s = 0 THEN NoEntry[field] ELSE entries[s][field]
      action == ActionAt(entries, i)
  IN  [time |-> TimeOf(entries, i), action |-> action,
       point |-> IF HasTarget(action) THEN From("point") ELSE 0,
       altitude |-> IF HasNeck(action) THEN From("altitude") ELSE 0,
       neck |-> IF HasNeck(action) THEN From("neck") ELSE 0,
       neck_duration |-> IF HasNeck(action) THEN From("neck_duration") ELSE 0,
       duration |-> IF HasDuration(action) THEN entries[i].duration ELSE 0,
       pre_delay |-> entries[i].pre_delay, post_delay |-> entries[i].post_delay]

(* The search finds the entry that was meant for the time, with all that   *)
(* it inherits from entries before it; without entries, or before the      *)
(* start, the vehicle lands.                                               *)
EvaluatesToMeant ==
  scan.at \in {"found", "converting", "converted"} =>
    scan.entry = IF asked < 0 \/ meant.entries = << >>
                   THEN [NoEntry EXCEPT !.time = asked]
                   ELSE MeantEntry(meant.entries, MeantFor(meant.entries, asked))

(* The scale that was chosen is enough for everything the conversion       *)
(* writes: no coordinate of it is ever refused.                            *)
ScaleIsEnough == scan.at = "converting" => result # "EINVAL"

Close(a, b) ==
  /\ \A axis \in {"x", "y", "z"} : Magnitude(a[axis] - b[axis]) < builder.scale
  /\ a.yaw = Angle(b.yaw)

(* A conversion that succeeds flies the entry: it stays at the start until *)
(* the entry begins and its delay is over, ends at the goal, to within the *)
(* grid, and takes as long as all of it; and only the bytes of the         *)
(* trajectory stay allocated.                                              *)
FliesTheEntry ==
  scan.at = "converted" /\ result = "SUCCESS" =>
    LET e == scan.entry
        way == Waypoints(trajectory.contents)
        begin == MsecPerSec * (Positive(e.time) + Positive(e.pre_delay))
        flight == MsecPerSec * (e.neck_duration + e.duration + Positive(e.post_delay))
        goal == CASE e.action = "LAND" -> vehicle
                  [] e.action = "KEEP_ALTITUDE" ->
                       [vehicle EXCEPT !.x = Target(e).x, !.y = Target(e).y]
                  [] e.action = "WITH_ALTITUDE" ->
                       [vehicle EXCEPT !.x = Target(e).x, !.y = Target(e).y, !.z = e.altitude]
    IN  /\ \A w \in 1 .. Len(way) :
             way[w].time <= begin => Close(way[w].position, vehicle) \/ way[w].time = begin
        /\ \E w \in 1 .. Len(way) : way[w].time = begin /\ Close(way[w].position, vehicle)
        /\ way[Len(way)].time = begin + flight
        /\ Close(way[Len(way)].position, goal)
        /\ heap = {trajectory.stor_begin}
===========================================================================
