------------------------------- MODULE RTHPlan ----------------------------
(***************************************************************************)
(* A return-to-home plan: points and timed entries in a string of bytes,   *)
(* and the search for the entry of a given time, which decodes the entries *)
(* in their order because each may refer to the one before it.             *)
(***************************************************************************)
EXTENDS Parsing

CONSTANT PlanMaxDuration  \* MAX_DURATION

ASSUME RTHPlanAssumption == PlanMaxDuration \in Nat

Actions == <<"LAND", "KEEP_ALTITUDE", "WITH_ALTITUDE">>

HasTarget(action) == action \in {"KEEP_ALTITUDE", "WITH_ALTITUDE"}
HasDuration(action) == HasTarget(action)
HasNeck(action) == action = "WITH_ALTITUDE"
HasTargetAltitude(action) == action = "WITH_ALTITUDE"

PlanHeaderLength == 3

ParsePlanHeader(bytes) ==
  [scale |-> bytes[1] % 128, num_points |-> ParseUint16(bytes, 1)]

PlanCoordinate(bytes, offset) == ParseInt16(bytes, offset) * ParsePlanHeader(bytes).scale

OffsetOfPoint(index) == PlanHeaderLength + 4 * index
OffsetOfEntryTable(bytes) == OffsetOfPoint(ParsePlanHeader(bytes).num_points)
OffsetOfFirstEntry(bytes) == OffsetOfEntryTable(bytes) + 2

NumEntries(bytes) ==
  IF bytes = << >> THEN 0    \* an empty plan has no buffer
  ELSE IF OffsetOfEntryTable(bytes) + 2 <= Len(bytes)
    THEN ParseUint16(bytes, OffsetOfEntryTable(bytes)) ELSE 0

GetPoint(bytes, index) ==
  IF index >= ParsePlanHeader(bytes).num_points
    THEN [result |-> "EINVAL", x |-> 0, y |-> 0]
    ELSE [result |-> "SUCCESS",
          x |-> PlanCoordinate(bytes, OffsetOfPoint(index)),
          y |-> PlanCoordinate(bytes, OffsetOfPoint(index) + 2)]

NoEntry == [time |-> 0, action |-> "LAND", point |-> 0, altitude |-> 0,
            neck |-> 0, neck_duration |-> 0, duration |-> 0,
            pre_delay |-> 0, post_delay |-> 0]

Bit(flags, weight) == (flags \div weight) % 2 = 1
EncodedAction(flags) == (flags \div 16) % 4

(* Mutant: an entry like the one before has no duration of its own.        *)
DurationIsCopied(code, action) == code # 0 /\ HasDuration(action)

(* An entry that is the same as before repeats its duration nevertheless.  *)
DurationIsStored(code, action) == HasDuration(action)

IsStored(field, flags, action) ==
  LET code == EncodedAction(flags)
      own == code # 0
  IN  CASE field = "point" -> own /\ HasTarget(action)
        [] field = "altitude" -> own /\ HasTargetAltitude(action)
        [] field \in {"neck", "neck_duration"} -> own /\ HasNeck(action)
        [] field = "duration" -> DurationIsStored(code, action)
        [] field = "pre_delay" -> Bit(flags, 2)
        [] field = "post_delay" -> Bit(flags, 1)

(* An entry that is the same as before keeps where it goes.                *)
IsKept(field, flags) ==
  EncodedAction(flags) = 0 /\ field \in {"point", "altitude", "neck", "neck_duration"}

NotTooLong(n) ==
  IF n.result = "SUCCESS" /\ n.value > PlanMaxDuration THEN [n EXCEPT !.result = "EOVERFLOW"] ELSE n

FieldAt(bytes, field, offset) ==
  CASE field = "point" -> ParseVaruint32(bytes, offset)
    [] field \in {"altitude", "neck"} -> Parsed("SUCCESS", PlanCoordinate(bytes, offset), offset + 2)
    [] OTHER -> NotTooLong(ParseVaruint32(bytes, offset))

(* A field that is not stored is as before or zero.                        *)
FieldOf(bytes, flags, parsed, field) ==
  IF IsStored(field, flags, parsed.entry.action) THEN FieldAt(bytes, field, parsed.offset)
  ELSE Parsed("SUCCESS", IF IsKept(field, flags) THEN parsed.entry[field] ELSE 0, parsed.offset)

(* A field is read where the one before ended; nothing is read after an    *)
(* error.                                                                  *)
WithField(parsed, field, value) ==
  [result |-> value.result, offset |-> value.offset,
   entry |-> [parsed.entry EXCEPT ![field] = value.value]]

ParseField(bytes, flags, parsed, field) ==
  IF parsed.result # "SUCCESS" THEN parsed
  ELSE WithField(parsed, field, FieldOf(bytes, flags, parsed, field))

(* Times add up, and may not wrap around.                                  *)
ParseTime(before, flags, diff) ==
  LET time == (before.time + diff.value) % Power[WordBits]
      code == EncodedAction(flags)
  IN  [result |-> IF diff.result = "SUCCESS" /\ time < before.time THEN "EOVERFLOW" ELSE diff.result,
       offset |-> diff.offset,
       entry |-> [before EXCEPT !.time = time,
                                !.action = IF code = 0 THEN @ ELSE Actions[code]]]

(* One turn of the loop: the entry at the offset, decoded over the one     *)
(* before it, whose time is given.                                         *)
ParseEntry(bytes, offset, before) ==
  LET flags == bytes[offset + 1]
      Then(parsed, field) == ParseField(bytes, flags, parsed, field)
      time == ParseTime(before, flags, ParseVaruint32(bytes, offset + 1))
      where == Then(Then(Then(Then(time, "point"), "altitude"), "neck"), "neck_duration")
  IN  Then(Then(Then(where, "duration"), "pre_delay"), "post_delay")
===========================================================================
