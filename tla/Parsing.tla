------------------------------- MODULE Parsing ----------------------------
(***************************************************************************)
(* The integers of the file formats.  Offsets count from zero; a parser    *)
(* returns the offset after what it read.                                  *)
(***************************************************************************)
EXTENDS Integers, Sequences

CONSTANT WordBits         \* bits of a uint32_t

ASSUME ParsingAssumption == WordBits \in Nat /\ WordBits >= 8

ParseUint16(bytes, offset) == bytes[offset + 1] + 256 * bytes[offset + 2]

ParseInt16(bytes, offset) ==
  LET n == ParseUint16(bytes, offset)
  IN  IF n < 32768 THEN n ELSE n - 65536

WriteUint16(n) == <<n % 256, (n % 65536) \div 256>>
WriteInt16(n) == WriteUint16(n)

Parsed(result, value, offset) == [result |-> result, value |-> value, offset |-> offset]

(* The powers of two up to the first group of bits past the word.          *)
Power[n \in 0 .. WordBits + 6] == IF n = 0 THEN 1 ELSE 2 * Power[n - 1]

Continues(byte) == byte >= 128

(* The bits of the byte that is read in this turn go past the word.        *)
TooWide(byte, turn) ==
  LET bits_left == WordBits - 7 * turn
  IN  bits_left < 7 /\ byte \div Power[bits_left] > 0

SumOfGroups(bytes, offset, last) ==
  LET sum[turn \in 0 .. last] ==
        (IF turn = 0 THEN 0 ELSE sum[turn - 1])
          + (bytes[offset + turn + 1] % 128) * Power[7 * turn]
  IN  sum[last]

(* The first loop ends in the turn that finds the end of the bytes, a byte *)
(* that is too wide, the last byte of the number, or that no more fits.    *)
(* After an overflow, the second loop skips the rest of the number.        *)
ParseVaruint32(bytes, offset) ==
  LET num_bytes == Len(bytes)
      ByteAt(turn) == bytes[offset + turn + 1]
      AtEnd(turn) == offset + turn >= num_bytes
      Full(turn) == 7 * (turn + 1) > WordBits - 1
      Stops(turn) == \/ AtEnd(turn)
                     \/ TooWide(ByteAt(turn), turn)
                     \/ ~Continues(ByteAt(turn))
                     \/ Full(turn)
      last == CHOOSE turn \in 0 .. num_bytes :
                Stops(turn) /\ \A earlier \in 0 .. turn - 1 : ~Stops(earlier)
      rest == {turn \in last .. num_bytes - offset - 1 : ~Continues(ByteAt(turn))}
  IN  IF AtEnd(last) THEN Parsed("EPARSE", 0, num_bytes)
      ELSE IF ~TooWide(ByteAt(last), last) /\ ~Continues(ByteAt(last))
        THEN Parsed("SUCCESS", SumOfGroups(bytes, offset, last), offset + last + 1)
      ELSE IF rest = {} THEN Parsed("EPARSE", 0, num_bytes)
      ELSE Parsed("EOVERFLOW", 0,
                  offset + 1 + CHOOSE turn \in rest : \A other \in rest : turn <= other)
===========================================================================
