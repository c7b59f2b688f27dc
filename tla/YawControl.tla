----------------------------- MODULE YawControl ---------------------------
(***************************************************************************)
(* A yaw control curve: the yaw at the start and changes of yaw that       *)
(* follow each other, each with its duration, in tenths of a degree.  A    *)
(* change is a segment of a cursor with a line on the only axis.           *)
(***************************************************************************)
EXTENDS Integers, Sequences

LOCAL YawInt16(bytes, offset) ==
  LET n == bytes[offset + 1] + 256 * bytes[offset + 2]
  IN  IF n < 32768 THEN n ELSE n - 65536

YawHeaderLength == 3
SizeOfDelta == 4

ParseYawHeader(bytes) ==
  [auto_yaw |-> bytes[1] % 2 = 1,
   yaw_offset |-> YawInt16(bytes, 1),
   num_deltas |-> (Len(bytes) - YawHeaderLength) \div SizeOfDelta]

SetpointAt(bytes, offset, start) ==
  [duration |-> bytes[offset + 1] + 256 * bytes[offset + 2],
   length |-> SizeOfDelta,
   curve |-> [yaw |-> <<start.yaw, start.yaw + YawInt16(bytes, offset + 2)>>]]
===========================================================================
