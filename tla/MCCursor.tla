------------------------------ MODULE MCCursor ----------------------------
(* Trajectories and yaw curves of up to five segments of a few ms.         *)
EXTENDS SegmentCursor

N(n) == <<n % 256, (n % 65536) \div 256>>    \* an int16_t
Header(scale, z) == <<scale>> \o N(0) \o N(-20) \o N(z) \o N(0)

Up == <<16>> \o N(4) \o N(30)                          \* z to 30
Arch == <<34>> \o N(4) \o N(8) \o N(8) \o N(0)         \* x and z, on curves
             \o N(33) \o N(28) \o N(31)
Snap == <<4>> \o N(0) \o N(-10)                        \* y, in no time
Down == <<16 + 64>> \o N(4) \o N(10) \o N(-100)        \* z and yaw
Wave == <<3 + 16>> \o N(4) \o N(1) \o N(-2) \o N(3) \o N(0) \o N(3) \o N(2) \o N(1) \o N(20)
Wait == <<0>> \o N(9)

Flight(bytes) == [kind |-> "trajectory", bytes |-> bytes]
Turning(bytes) == [kind |-> "yaw", bytes |-> bytes]

MCShows == {
  Flight(<< >>),
  Flight(Header(0, 10)),
  Flight(Header(1, 10) \o Snap \o Up \o Arch \o Snap \o Down),
  Flight(Header(2, 0) \o Wave \o Down),
  Flight(Header(1, 10) \o Up \o Wait \o Wait \o Wait \o Down),   \* longer than a word
  Turning(<< >>),
  Turning(<<1>> \o N(-100)),
  Turning(<<0>> \o N(0) \o N(0) \o N(90) \o N(3) \o N(30)),
  Turning(<<0>> \o N(100) \o N(4) \o N(150) \o N(0) \o N(-50) \o N(3) \o N(-300)) }

Climb(args, speeds) == {[ask |-> "takeoff", arg |-> a, speed |-> v] : a \in args, v \in speeds}
Query(ask, args) == {[ask |-> ask, arg |-> a, speed |-> 0] : a \in args}

MCQueries ==
  Query("position", {-1, 0, 3, 4, 8, 10, Infinity}) \cup Query("velocity", {0, 4, Infinity})
    \cup Query("acceleration", {0, 4, 5, 10}) \cup Query("duration", {0}) \cup Query("box", {0})
    \cup Climb({-1, 0}, {0, 1}) \cup Climb({5, 10, 100}, {-1, 3}) \cup Climb({10}, {0, 1, 20})
    \cup Query("landing", {-1, 0, 5, 40})
===========================================================================
