------------------------------ MODULE MCBlocks ----------------------------
(* Files of up to two dozen bytes, with and without a checksum, sound and  *)
(* not.                                                                    *)
EXTENDS BlockLoading

Block(type, body) == <<type, Len(body), 0>> \o body
Version1 == Magic \o <<1>>
Version2 == Magic \o <<2, 0>>

(* The stored checksum is that of the file with zeros in its place.        *)
Guarded(blocks, more) ==
  LET Header(sum) == Magic \o <<2, 1, sum % 256, sum \div 256, 0, 0>>
      sum == CrcUpdate(0, Header(0) \o blocks)
  IN  Header(sum + more) \o blocks

Path == Block(1, <<1, 0, 0, 0>>)
Lights == Block(2, <<5, 0>>)
MoreLights == Block(2, <<7>>)
Comment == Block(3, <<2, 1, 0>>)
Plan == Block(4, <<1, 0, 0>>)
Turns == Block(5, <<0, 9, 0>>)

MCLent == <<1, 2>>
MCCrcs == 0 .. 996
MCCrcStep(crc, byte) == (5 * crc + byte) % 997     \* like AP-CRC32, zeros in front do not count

MCFiles == {
  Version1 \o Comment \o Lights \o MoreLights \o Path,
  Guarded(Lights \o Block(3, << >>) \o Turns, 0),              \* two chunks of twelve
  Guarded(Lights \o Turns, 0),
  Guarded(Lights \o Turns, 1),                              \* a wrong checksum
  Version2 \o Plan \o Block(2, << >>) \o Block(1, << >>),
  Version1 \o Plan \o <<0>> \o Lights,                      \* blocks end at type zero
  Version1 \o Comment \o SubSeq(Turns, 1, 5),               \* a body cut off
  Version1 \o Block(3, Version1 \o Lights),                 \* a file in a block
  Version1 \o Lights \o <<5, 4>>,                           \* a header cut off
  Version1,
  Magic \o <<3>> \o Lights,
  SubSeq(Magic, 1, 3),
  <<115, 107, 121, 99, 1>> \o Lights }
===========================================================================
