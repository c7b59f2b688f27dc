------------------------------ MODULE MCRTH -------------------------------
(* Plans of up to four entries, in seconds, with 16 bits for a word.       *)
EXTENDS RTHUse

MCByte == 0 .. 255

Entry(action, after, point) ==
  [action |-> action, after |-> after, point |-> point, altitude |-> 0, neck |-> 0,
   neck_duration |-> 0, duration |-> 0, pre_delay |-> 0, post_delay |-> 0]

Goto(after, point, duration) ==
  [Entry("KEEP_ALTITUDE", after, point) EXCEPT !.duration = duration, !.pre_delay = 3]
Climb(after, point, neck) ==
  [Entry("WITH_ALTITUDE", after, point) EXCEPT
     !.altitude = 20000, !.neck = neck, !.neck_duration = 5, !.duration = 130, !.post_delay = 70]
Same(after, duration) ==
  [Entry("SAME", after, 0) EXCEPT !.duration = duration]

Points == <<[x |-> 300000, y |-> -20000], [x |-> -650, y |-> 40]>>
Plan(entries) == [scale |-> 10, points |-> Points, entries |-> entries]

MCPlans == {
  Plan(<< >>),
  Plan(<<Same(0, 0), Goto(10, 1, 65), Same(20, 2), Climb(10, 0, 5000)>>),
  Plan(<<Climb(10, 1, 40000)>>),    \* only the neck is out of reach of the finest grid
  Plan(<<Climb(0, 1, -5000), Same(60, 9), Entry("LAND", 0, 0), Same(140, 0)>>),
  \* wrong: no such point, too long, and times beyond a word
  Plan(<<Goto(10, 2, 1)>>),
  Plan(<<Goto(10, 0, 250), Goto(10, 0, 1001)>>),
  Plan(<<Entry("LAND", 40000, 0), Entry("LAND", 30000, 0)>>)
}

Place(x, z) == [x |-> x, y |-> 0, z |-> z, yaw |-> 0]
MCTimes == {-1, 0, 10, 11, 30, 41, 150, 50000}

(* On the ground, where the grid is coarser, and out of reach.             *)
MCStarts == {Place(-8, 0), Place(7, 400001), Place(5000000, 0)}
===========================================================================
