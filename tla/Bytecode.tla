----------------------------- MODULE Bytecode -----------------------------
(***************************************************************************)
(* The instruction set of light programs.  A program is a string of bytes; *)
(* Decode turns it into a function from locations to instructions.  Every  *)
(* location decodes to something, since a jump may land in the middle of   *)
(* an instruction.  ArrayBytecodeStore::nextByte() returns CMD_END without *)
(* advancing when it is asked for a byte past the end, so the arguments of *)
(* a truncated instruction read as zeros.                                  *)
(***************************************************************************)
EXTENDS Integers, Sequences

CONSTANTS
  HalfFrame       \* length of the time unit of the bytecode, in ms (20)

Byte  == 0 .. 255
Color == [1 .. 3 -> Byte]             \* red, green, blue
Black == <<0, 0, 0>>
White == <<255, 255, 255>>

PyroChannels == 0 .. 6                \* CONFIG_NUM_PYRO_CHANNELS = 7

(* CMD_SET_GRAY, _BLACK and _WHITE are SET_COLOR with a fixed or repeated  *)
(* byte, and likewise for the fades.                                       *)
Ops == {"END", "NOP", "SLEEP", "WAIT_UNTIL", "SET_COLOR", "SET_FROM_CHANNELS",
        "FADE", "FADE_FROM_CHANNELS", "LOOP_BEGIN", "LOOP_END",
        "RESET_CLOCK", "JUMP", "TRIGGERED_JUMP", "SET_PYRO", "SET_PYRO_ALL",
        "INVALID"}

Edges == {"NONE", "RISING", "FALLING", "CHANGE"}

(***************************************************************************)
(* Fields an instruction does not use keep the value they have in Blank.   *)
(*   next     location of the instruction that follows in the store        *)
(*   delay    duration or deadline, in ms                                  *)
(*   rgb      a colour, or the three channel indices it is read from       *)
(*   count    iterations of a loop, 0 for an infinite one                  *)
(***************************************************************************)
Instruction ==
  [op: Ops, next: Nat, delay: Nat, rgb: Color, count: Byte, address: Nat,
   channel: 0 .. 15, edge: Edges, oneShot: BOOLEAN,
   pyro: SUBSET PyroChannels, turnOn: BOOLEAN]

Blank(op, next) ==
  [op |-> op, next |-> next, delay |-> 0, rgb |-> Black, count |-> 0,
   address |-> 0, channel |-> 0, edge |-> "NONE", oneShot |-> FALSE,
   pyro |-> {}, turnOn |-> FALSE]

---------------------------------------------------------------------------
ByteAt(bytes, loc) == IF loc < Len(bytes) THEN bytes[loc + 1] ELSE 0

Clip(bytes, loc) == IF loc < Len(bytes) THEN loc ELSE Len(bytes)

(* A varint is little-endian, seven bits per byte, and ends at the first   *)
(* byte whose top bit is clear (at the latest at the end of the store).    *)
NextVarint(bytes, loc) ==
  LET from[i \in loc .. loc + Len(bytes)] ==
        IF ByteAt(bytes, i) < 128
        THEN [value |-> ByteAt(bytes, i), next |-> Clip(bytes, i + 1)]
        ELSE [value |-> (ByteAt(bytes, i) % 128) + 128 * from[i + 1].value,
              next  |-> from[i + 1].next]
  IN  from[loc]

NextDuration(bytes, loc) == HalfFrame * NextVarint(bytes, loc).value

BitIsSet(byte, i) == (byte \div 2 ^ i) % 2 = 1

PyroMask(byte) == {i \in PyroChannels : BitIsSet(byte, i)}

EdgeOf(params) ==
  CASE BitIsSet(params, 4) /\ BitIsSet(params, 5)   -> "CHANGE"
    [] BitIsSet(params, 4) /\ ~BitIsSet(params, 5)  -> "FALLING"
    [] ~BitIsSet(params, 4) /\ BitIsSet(params, 5)  -> "RISING"
    [] ~BitIsSet(params, 4) /\ ~BitIsSet(params, 5) -> "NONE"

InstructionAt(bytes, loc) ==
  LET arg(i) == ByteAt(bytes, loc + i)
      triple == <<arg(1), arg(2), arg(3)>>
      gray   == <<arg(1), arg(1), arg(1)>>
      \* an instruction with n argument bytes
      Plain(op, n) == Blank(op, Clip(bytes, loc + 1 + n))
      \* an instruction with n argument bytes followed by a duration
      Timed(op, n, rgb) ==
        [Blank(op, NextVarint(bytes, loc + 1 + n).next) EXCEPT
           !.rgb = rgb, !.delay = NextDuration(bytes, loc + 1 + n)]
      Trigger ==
        [(IF EdgeOf(arg(1)) = "NONE"
          THEN Plain("TRIGGERED_JUMP", 1)
          ELSE [Blank("TRIGGERED_JUMP", NextVarint(bytes, loc + 2).next)
                  EXCEPT !.address = NextVarint(bytes, loc + 2).value])
         EXCEPT !.channel = arg(1) % 16, !.edge = EdgeOf(arg(1)),
                !.oneShot = BitIsSet(arg(1), 6)]
      code == arg(0)
  IN
  CASE code = 0  -> Plain("END", 0)
    [] code = 1  -> Plain("NOP", 0)
    [] code = 2  -> Timed("SLEEP", 0, Black)
    [] code = 3  -> Timed("WAIT_UNTIL", 0, Black)
    [] code = 4  -> Timed("SET_COLOR", 3, triple)
    [] code = 5  -> Timed("SET_COLOR", 1, gray)
    [] code = 6  -> Timed("SET_COLOR", 0, Black)
    [] code = 7  -> Timed("SET_COLOR", 0, White)
    [] code = 8  -> Timed("FADE", 3, triple)
    [] code = 9  -> Timed("FADE", 1, gray)
    [] code = 10 -> Timed("FADE", 0, Black)
    [] code = 11 -> Timed("FADE", 0, White)
    [] code = 12 -> [Plain("LOOP_BEGIN", 1) EXCEPT !.count = arg(1)]
    [] code = 13 -> Plain("LOOP_END", 0)
    [] code = 14 -> Plain("RESET_CLOCK", 0)
    [] code = 16 -> Timed("SET_FROM_CHANNELS", 3, triple)
    [] code = 17 -> Timed("FADE_FROM_CHANNELS", 3, triple)
    [] code = 18 -> [Blank("JUMP", NextVarint(bytes, loc + 1).next)
                       EXCEPT !.address = NextVarint(bytes, loc + 1).value]
    [] code = 19 -> Trigger
    [] code = 20 -> [Plain("SET_PYRO", 1) EXCEPT !.pyro = PyroMask(arg(1)),
                                                 !.turnOn = BitIsSet(arg(1), 7)]
    [] code = 21 -> [Plain("SET_PYRO_ALL", 1) EXCEPT !.pyro = PyroMask(arg(1))]
    [] OTHER     -> Plain("INVALID", 0)

Decode(bytes) == [loc \in 0 .. Len(bytes) - 1 |-> InstructionAt(bytes, loc)]

===========================================================================
