---------------------------- MODULE Builder_proofs --------------------------
(***************************************************************************)
(* Whatever is drawn and whichever allocation fails, the builder and its   *)
(* trajectory never share memory, lose it only when there is none left,    *)
(* and no call touches the segments written before it.  And what it writes *)
(* is what was asked of it: read back, the bytes of a trajectory lead past *)
(* the points of the route.                                                *)
(***************************************************************************)
EXTENDS BuilderUse, Buffer_proofs, WellFoundedInduction

---------------------------------------------------------------------------
(* Bytes that are written.                                                 *)

LEMMA ConcatType ==
  ASSUME NEW s \in Seq(Byte), NEW t \in Seq(Byte)
  PROVE  s \o t \in Seq(Byte) /\ Len(s \o t) = Len(s) + Len(t)
  BY ConcatProperties

(* Up to two bytes for each of four axes are eight at most.                *)
LEMMA SumOfFour ==
  ASSUME NEW i \in 0 .. 2, NEW j \in 0 .. 2, NEW k \in 0 .. 2, NEW l \in 0 .. 2
  PROVE  i + j + k + l <= 8
  OBVIOUS

(* A coordinate is written in two bytes.                                   *)
LEMMA WrittenInt16Type ==
  ASSUME NEW n \in Int
  PROVE  WrittenInt16(n) \in Seq(Byte) /\ Len(WrittenInt16(n)) = 2
<1>1. n % 256 \in 0 .. 255 /\ (n % 65536) \div 256 \in 0 .. 255
  OBVIOUS
<1> DEFINE a == n % 256
           b == (n % 65536) \div 256
<1>2. a \in Byte /\ b \in Byte
  BY <1>1, BuilderAssumption
<1> HIDE DEF a, b
<1>3. <<a, b>> \in Seq(Byte) /\ Len(<<a, b>>) = 2
  BY <1>2
<1>4. QED
  BY <1>3 DEF a, b, WrittenInt16

(* What is written of a coordinate is a number.                            *)
LEMMA EncodedType ==
  ASSUME NEW scale \in 1 .. 127, NEW p \in [Axes -> Int], NEW a \in Axes
  PROVE  Encoded(scale, p, a) \in Int
<1>1. p[a] \in Int /\ p[a] % 3600 \in Int
  OBVIOUS
<1>2. \A n \in Int : n \div scale \in Int
  OBVIOUS
<1>3. QED
  BY <1>1, <1>2 DEF Encoded, Angle

(* At most the four coordinates, of two bytes each.                        *)
LEMMA WrittenType ==
  ASSUME NEW scale \in 1 .. 127, NEW p \in [Axes -> Int], NEW axes
  PROVE  Written(scale, p, axes) \in Seq(Byte) /\ Len(Written(scale, p, axes)) <= 8
<1> DEFINE Part(a) == IF a \in axes THEN WrittenInt16(Encoded(scale, p, a)) ELSE << >>
<1>1. ASSUME NEW a \in Axes
      PROVE  Part(a) \in Seq(Byte) /\ Len(Part(a)) \in 0 .. 2
  <2>1. Encoded(scale, p, a) \in Int
    BY EncodedType
  <2>2. /\ WrittenInt16(Encoded(scale, p, a)) \in Seq(Byte)
        /\ Len(WrittenInt16(Encoded(scale, p, a))) = 2
    BY <2>1, WrittenInt16Type
  <2>3. << >> \in Seq(Byte) /\ Len(<< >>) = 0
    BY EmptySeq
  <2>4. QED
    BY <2>2, <2>3
<1>2. Written(scale, p, axes) = Part("x") \o Part("y") \o Part("z") \o Part("yaw")
  BY DEF Written
<1>3. /\ Part("x") \in Seq(Byte) /\ Len(Part("x")) \in 0 .. 2
      /\ Part("y") \in Seq(Byte) /\ Len(Part("y")) \in 0 .. 2
      /\ Part("z") \in Seq(Byte) /\ Len(Part("z")) \in 0 .. 2
      /\ Part("yaw") \in Seq(Byte) /\ Len(Part("yaw")) \in 0 .. 2
  BY <1>1 DEF Axes
<1> HIDE DEF Part
<1>4. /\ Part("x") \o Part("y") \in Seq(Byte)
      /\ Len(Part("x") \o Part("y")) = Len(Part("x")) + Len(Part("y"))
  BY <1>3, ConcatProperties
<1>5. /\ Part("x") \o Part("y") \o Part("z") \in Seq(Byte)
      /\ Len(Part("x") \o Part("y") \o Part("z"))
           = Len(Part("x") \o Part("y")) + Len(Part("z"))
  BY <1>3, <1>4, ConcatProperties
<1>6. /\ Part("x") \o Part("y") \o Part("z") \o Part("yaw") \in Seq(Byte)
      /\ Len(Part("x") \o Part("y") \o Part("z") \o Part("yaw"))
           = Len(Part("x") \o Part("y") \o Part("z")) + Len(Part("yaw"))
  BY <1>3, <1>5, ConcatProperties
<1>7. Len(Part("x") \o Part("y") \o Part("z") \o Part("yaw"))
        = Len(Part("x")) + Len(Part("y")) + Len(Part("z")) + Len(Part("yaw"))
  BY <1>4, <1>5, <1>6
<1>8. Len(Part("x")) + Len(Part("y")) + Len(Part("z")) + Len(Part("yaw")) <= 8
  BY <1>3, SumOfFour, Zenon
<1>9. QED
  BY <1>2, <1>6, <1>7, <1>8

(* The flags fit in a byte.                                                *)
LEMMA FlagsType ==
  ASSUME NEW axes
  PROVE  FlagsOf(axes) \in Byte
<1>1. FlagsOf(axes) \in 0 .. 85
  BY DEF FlagsOf, Flag
<1>2. QED
  BY <1>1, BuilderAssumption

(* Bytes written over others leave the length, and what is before them.    *)
LEMMA OverwrittenType ==
  ASSUME NEW c \in Seq(Byte), NEW s \in Seq(Byte), NEW offset \in 0 .. Len(c),
         offset + Len(s) <= Len(c)
  PROVE  /\ Overwritten(c, offset, s) \in Seq(Byte)
         /\ Len(Overwritten(c, offset, s)) = Len(c)
         /\ SubSeq(Overwritten(c, offset, s), 1, offset) = SubSeq(c, 1, offset)
<1> DEFINE a == SubSeq(c, 1, offset)
           z == SubSeq(c, offset + Len(s) + 1, Len(c))
<1>1. Len(c) \in Nat /\ Len(s) \in Nat /\ offset \in Nat
  BY LenProperties
<1>2. a \in Seq(Byte) /\ Len(a) = offset
  <2>1. \A i \in 1 .. offset : c[i] \in Byte
    BY <1>1, ElementOfSeq
  <2>2. QED
    BY <1>1, <2>1, SubSeqProperties
<1>3. z \in Seq(Byte) /\ Len(z) = Len(c) - (offset + Len(s))
  <2>1. \A i \in offset + Len(s) + 1 .. Len(c) : c[i] \in Byte
    BY <1>1, ElementOfSeq
  <2>2. /\ z \in Seq(Byte)
        /\ Len(z) = IF offset + Len(s) + 1 <= Len(c)
                      THEN Len(c) - (offset + Len(s) + 1) + 1 ELSE 0
    BY <1>1, <2>1, SubSeqProperties
  <2> HIDE DEF z
  <2>3. QED
    BY <1>1, <2>2
<1>4. Overwritten(c, offset, s) = a \o s \o z
  BY DEF Overwritten
<1>5. SubSeq(c, 1, offset) = a
  OBVIOUS
<1> HIDE DEF a, z
<1>6. a \o s \in Seq(Byte) /\ Len(a \o s) = offset + Len(s)
  BY <1>2, ConcatProperties
<1>7. a \o s \o z \in Seq(Byte) /\ Len(a \o s \o z) = Len(c)
  <2>1. a \o s \o z \in Seq(Byte) /\ Len(a \o s \o z) = Len(a \o s) + Len(z)
    BY <1>3, <1>6, ConcatType, Zenon
  <2>2. QED
    BY <1>1, <1>3, <1>6, <2>1
<1>8. SubSeq(a \o s \o z, 1, offset) = a
  <2>1. a \o s \o z = a \o (s \o z)
    <3>1. a \in Seq(Byte) /\ z \in Seq(Byte) /\ s \in Seq(Byte)
      BY <1>2, <1>3
    <3>2. QED
      BY ONLY <3>1, ConcatAssociative, SMTT(60)
  <2>2. s \o z \in Seq(Byte)
    BY <1>3, ConcatProperties
  <2>3. Extends(a \o (s \o z), a)
    BY <1>2, <2>2, ConcatExtends
  <2>4. QED
    BY <1>2, <1>7, <2>1, <2>3, ExtendsPrefix
<1>9. QED
  BY <1>4, <1>5, <1>7, <1>8
---------------------------------------------------------------------------
(* One segment.                                                            *)

(* The flags, the duration and at most four coordinates.                   *)
LEMMA SegmentType ==
  ASSUME NEW scale \in 1 .. 127, NEW p \in [Axes -> Int], NEW duration \in Nat,
         NEW touched, NEW axes
  PROVE  /\ <<FlagsOf(touched)>> \o WrittenInt16(duration) \o Written(scale, p, axes) \in Seq(Byte)
         /\ Len(<<FlagsOf(touched)>> \o WrittenInt16(duration) \o Written(scale, p, axes))
              \in 3 .. SegmentLength
<1> DEFINE f == <<FlagsOf(touched)>>
           d == WrittenInt16(duration)
           w == Written(scale, p, axes)
<1>1. f \in Seq(Byte) /\ Len(f) = 1
  BY FlagsType
<1>2. d \in Seq(Byte) /\ Len(d) = 2
  BY WrittenInt16Type
<1>3. w \in Seq(Byte) /\ Len(w) <= 8 /\ Len(w) \in Nat
  BY WrittenType, LenProperties
<1> HIDE DEF f, d, w
<1>4. f \o d \in Seq(Byte) /\ Len(f \o d) = 3
  <2>1. f \o d \in Seq(Byte) /\ Len(f \o d) = Len(f) + Len(d)
    BY <1>1, <1>2, ConcatType
  <2>2. QED
    BY <1>1, <1>2, <2>1
<1>5. f \o d \o w \in Seq(Byte) /\ Len(f \o d \o w) = Len(f \o d) + Len(w)
  BY <1>3, <1>4, ConcatType
<1>6. Len(f \o d \o w) \in 3 .. 11
  BY <1>3, <1>4, <1>5
<1>7. QED
  BY <1>5, <1>6 DEF f, d, w, SegmentLength

(* A prefix of a prefix.                                                   *)
LEMMA PrefixOfPrefix ==
  ASSUME NEW s \in Seq(Byte), NEW n \in 0 .. Len(s), NEW m \in 0 .. n
  PROVE  SubSeq(SubSeq(s, 1, n), 1, m) = SubSeq(s, 1, m)
<1>1. Len(s) \in Nat
  BY LenProperties
<1>2. CASE m = 0
  <2>1. SubSeq(SubSeq(s, 1, n), 1, m) = << >> /\ SubSeq(s, 1, m) = << >>
    BY <1>2, SubSeqEmpty
  <2>2. QED
    BY <2>1
<1>3. CASE m # 0
  <2>1. /\ 1 \in 1 .. Len(s) /\ n \in 1 .. Len(s) /\ 1 \in 1 .. n - 1 + 1 /\ m \in 1 .. n - 1 + 1
        /\ 1 + 1 - 1 = 1 /\ 1 + m - 1 = m
    BY <1>1, <1>3
  <2>2. SubSeq(SubSeq(s, 1, n), 1, m) = SubSeq(s, 1 + 1 - 1, 1 + m - 1)
    BY <2>1, SubSeqOfSubSeq
  <2>3. QED
    BY <2>1, <2>2
<1>4. QED
  BY <1>2, <1>3

(* A buffer that is its owner's and is cut off keeps its first bytes.      *)
LEMMA CutOff ==
  ASSUME NEW h, NEW b, Fits(h, b), b.owned, NEW n \in 0 .. Size(b), NEW o \in Resize(h, b, n)
  PROVE  /\ Keeps(h, b, o) /\ o.result = "SUCCESS"
         /\ o.buffer.stor_begin = b.stor_begin /\ o.buffer.owned
         /\ o.buffer.contents = SubSeq(b.contents, 1, n)
         /\ Size(o.buffer) = n
<1> DEFINE c == [b EXCEPT !.contents = SubSeq(@, 1, n)]
<1>1. /\ b \in BufferRecord /\ b.contents \in Seq(Byte) /\ Size(b) = Len(b.contents)
      /\ Size(b) \in Nat /\ b.capacity \in Nat
  BY LenProperties DEF Fits, BufferRecord, Size
<1>2. n \in 0 .. MaxObject
  BY <1>1, BufferAssumption DEF Fits
<1>3. Keeps(h, b, o)
  BY <1>2, ResizeKeeps
<1>4. ~(Size(b) < n)
  BY <1>1
<1>5. o = Outcome("SUCCESS", h, c)
  BY <1>4 DEF Resize
<1>6. /\ c.stor_begin = b.stor_begin /\ c.owned /\ c.contents = SubSeq(b.contents, 1, n)
  BY <1>1 DEF BufferRecord
<1>7. Len(SubSeq(b.contents, 1, n)) = n
  <2>1. \A i \in 1 .. n : b.contents[i] \in Byte
    BY <1>1, ElementOfSeq
  <2>2. QED
    BY <2>1, SubSeqProperties
<1> HIDE DEF c
<1>8. QED
  BY <1>3, <1>5, <1>6, <1>7 DEF Outcome, Size

(* What a segment that is added, or is not, leaves of the bytes before it. *)
Appended(b, o) ==
  o.buffer.stor_begin # NoBlock =>
    /\ o.buffer.owned
    /\ Size(o.buffer) >= Size(b)
    /\ SubSeq(o.buffer.contents, 1, Size(b)) = b.contents

(* The bytes of a segment, over the zeros that were added for it.          *)
LEMMA WrittenOverZeros ==
  ASSUME NEW c \in Seq(Byte), NEW s \in Seq(Byte), NEW n \in Nat, Len(s) <= n
  PROVE  /\ Overwritten(c \o Zeros(n), Len(c), s) \in Seq(Byte)
         /\ Len(Overwritten(c \o Zeros(n), Len(c), s)) = Len(c) + n
         /\ SubSeq(Overwritten(c \o Zeros(n), Len(c), s), 1, Len(c)) = c
<1> DEFINE t == c \o Zeros(n)
<1>1. Zeros(n) \in Seq(Byte) /\ Len(Zeros(n)) = n /\ Len(c) \in Nat /\ Len(s) \in Nat
  BY ZerosType, LenProperties
<1>2. t \in Seq(Byte) /\ Len(t) = Len(c) + Len(Zeros(n)) /\ Extends(t, c)
  BY <1>1, ConcatType, ConcatExtends
<1> HIDE DEF t
<1>3. SubSeq(t, 1, Len(c)) = c
  BY <1>2, ExtendsPrefix
<1>4. Len(c) \in 0 .. Len(t) /\ Len(c) + Len(s) <= Len(t)
  BY <1>1, <1>2
<1>5. /\ Overwritten(t, Len(c), s) \in Seq(Byte)
      /\ Len(Overwritten(t, Len(c), s)) = Len(t)
      /\ SubSeq(Overwritten(t, Len(c), s), 1, Len(c)) = SubSeq(t, 1, Len(c))
  BY <1>2, <1>4, OverwrittenType
<1>6. QED
  BY <1>1, <1>2, <1>3, <1>5 DEF t

(* A segment is added whole, or what was there before stays or is lost     *)
(* with the storage.                                                       *)
LEMMA SegmentKeeps ==
  ASSUME Fits(heap, builder.buffer), builder.buffer.owned, builder.scale \in 1 .. 127,
         NEW target \in [Axes -> Int], NEW duration \in Nat,
         NEW o \in AppendedSegment(target, duration)
  PROVE  /\ Keeps(heap, builder.buffer, o)
         /\ Appended(builder.buffer, o)
         /\ o.result = "SUCCESS" => o.buffer.stor_begin # NoBlock
<1> DEFINE b == builder.buffer
           changed == {a \in Axes : builder.last_position[a] # target[a]}
           fitting == Fitting(builder.scale, target, changed)
           segment == <<FlagsOf(Touched(builder.scale, target, changed))>>
                        \o WrittenInt16(duration) \o Written(builder.scale, target, fitting)
           written == Overwritten(b.contents \o Zeros(SegmentLength), Size(b), segment)
           Encode(p) == [p EXCEPT !.buffer.contents = Overwritten(@, Size(b), segment)]
           Trim(p) == IF fitting = changed
                        THEN Resize(p.heap, Encode(p).buffer, Size(b) + Len(segment))
                        ELSE {[Encode(p) EXCEPT !.result = "EINVAL"]}
<1>1. /\ b.contents \in Seq(Byte) /\ Size(b) = Len(b.contents) /\ Size(b) \in Nat
      /\ b \in BufferRecord
  BY LenProperties DEF Fits, BufferRecord, Size
<1>2. SegmentLength \in 0 .. MaxObject /\ SegmentLength = 11
  BY BuilderAssumption, BufferAssumption DEF SegmentLength
<1>3. segment \in Seq(Byte) /\ Len(segment) \in 3 .. SegmentLength
  BY SegmentType
<1>4. /\ written \in Seq(Byte) /\ Len(written) = Size(b) + SegmentLength
      /\ SubSeq(written, 1, Size(b)) = b.contents
  <2> HIDE DEF segment
  <2>1. segment \in Seq(Byte) /\ Len(segment) \in 3 .. 11
    BY <1>2, <1>3, Zenon
  <2>2. SegmentLength \in Nat /\ Len(segment) <= SegmentLength
    <3>1. \A l \in 3 .. 11 : l <= 11
      OBVIOUS
    <3>2. Len(segment) <= 11
      BY <2>1, <3>1, Zenon
    <3>3. QED
      BY <1>2, <3>2
  <2> DEFINE c == b.contents
  <2>3. c \in Seq(Byte) /\ Size(b) = Len(c)
    BY <1>1
  <2> HIDE DEF c
  <2>4. /\ Overwritten(c \o Zeros(SegmentLength), Len(c), segment) \in Seq(Byte)
        /\ Len(Overwritten(c \o Zeros(SegmentLength), Len(c), segment))
             = Len(c) + SegmentLength
        /\ SubSeq(Overwritten(c \o Zeros(SegmentLength), Len(c), segment), 1, Len(c)) = c
    BY <2>1, <2>2, <2>3, WrittenOverZeros
  <2>5. QED
    BY <2>3, <2>4, Zenon DEF c
<1>5. \/ o \in ExtendWithZeros(heap, b, SegmentLength) /\ o.result # "SUCCESS"
      \/ \E p \in ExtendWithZeros(heap, b, SegmentLength) : p.result = "SUCCESS" /\ o \in Trim(p)
  BY DEF AppendedSegment, Check
<1> HIDE DEF changed, fitting, segment
<1>6. ASSUME o \in ExtendWithZeros(heap, b, SegmentLength), o.result # "SUCCESS"
      PROVE  Keeps(heap, b, o) /\ Appended(b, o)
  <2>1. Keeps(heap, b, o) /\ Same(b, o)
    BY <1>2, <1>6, ExtendKeeps, ExtendGives
  <2>2. SubSeq(b.contents, 1, Len(b.contents)) = b.contents
    BY <1>1, SubSeqFull
  <2>3. ASSUME o.buffer.contents = b.contents
        PROVE  /\ Size(o.buffer) >= Size(b)
               /\ SubSeq(o.buffer.contents, 1, Size(b)) = b.contents
    <3>1. Size(o.buffer) = Size(b)
      BY <2>3 DEF Size
    <3>2. QED
      BY <1>1, <2>2, <2>3, <3>1
  <2>4. QED
    BY <2>1, <2>3 DEF Same, Appended
<1>7. ASSUME NEW p \in ExtendWithZeros(heap, b, SegmentLength),
             p.result = "SUCCESS", o \in Trim(p)
      PROVE  Keeps(heap, b, o) /\ Appended(b, o) /\ o.buffer.stor_begin # NoBlock
  <2> DEFINE e == [p EXCEPT !.buffer.contents = written]
             c == [p.buffer EXCEPT !.contents = written]
  <2>1. /\ Keeps(heap, b, p) /\ p.buffer.stor_begin # NoBlock /\ p.buffer.owned
        /\ p.buffer.contents = b.contents \o Zeros(SegmentLength)
        /\ p = Outcome(p.result, p.heap, p.buffer) /\ p.buffer \in BufferRecord
    <3>1. Keeps(heap, b, p)
      BY <1>2, <1>7, ExtendKeeps
    <3>2. /\ p.buffer.stor_begin # NoBlock /\ p.buffer.owned
          /\ p.buffer.contents = b.contents \o Zeros(SegmentLength)
      <4>1. p \in ExtendWithZeros(heap, b, SegmentLength) /\ p.result = "SUCCESS"
        BY <1>7
      <4>2. Fits(heap, b) /\ b.owned
        OBVIOUS
      <4> HIDE DEF b, written, Encode, Trim, e, c
      <4>3. QED
        BY <1>2, <4>1, <4>2, ExtendGives
    <3>3. QED
      BY <3>1, <3>2 DEF Keeps
  <2>2. Encode(p) = e
    BY <2>1
  <2> HIDE DEF written
  <2>3. /\ e.result = "SUCCESS" /\ e.heap = p.heap /\ e.buffer = c
        /\ c.contents = written /\ c.stor_begin = p.buffer.stor_begin /\ c.owned
    BY <1>7, <2>1, FilledBuffer
  <2>4. Len(written) <= p.buffer.capacity
    <3>1. Size(p.buffer) <= p.buffer.capacity
      BY <2>1 DEF Keeps, Fits
    <3>2. Zeros(SegmentLength) \in Seq(Byte) /\ Len(Zeros(SegmentLength)) = SegmentLength
      BY <1>2, ZerosType
    <3>3. Size(p.buffer) = Size(b) + SegmentLength
      <4>1. Len(b.contents \o Zeros(SegmentLength)) = Len(b.contents) + SegmentLength
        BY <1>1, <3>2, ConcatType
      <4>2. QED
        BY <1>1, <2>1, <4>1 DEF Size
    <3>4. QED
      BY <1>4, <3>1, <3>3
  <2>5. Keeps(heap, b, e)
    BY <1>4, <2>1, <2>4, FilledKeeps
  <2> HIDE DEF c, e
  <2>6. CASE fitting # changed
    <3>1. o = [e EXCEPT !.result = "EINVAL"]
      BY <1>7, <2>2, <2>6
    <3>2. Keeps(heap, b, o) /\ o.buffer = e.buffer
      BY <2>3, <2>5, <3>1, FailedKeeps
    <3>3. Size(e.buffer) >= Size(b)
      BY <1>1, <1>2, <1>4, <2>3 DEF Size
    <3>4. QED
      BY <1>4, <2>1, <2>3, <3>2, <3>3 DEF Appended
  <2>7. CASE fitting = changed
    <3> DEFINE n == Size(b) + Len(segment)
    <3>1. o \in Resize(e.heap, e.buffer, n)
      BY <1>7, <2>2, <2>3, <2>7
    <3>2. Fits(e.heap, e.buffer) /\ e.buffer.owned /\ e.buffer.stor_begin # NoBlock
      BY <2>1, <2>3, <2>5 DEF Keeps
    <3>3. Size(e.buffer) = Len(written)
      BY <2>3 DEF Size
    <3>4. n \in 0 .. Len(written) /\ Size(b) \in 0 .. n /\ n >= Size(b)
      <4>1. ASSUME NEW i \in Nat, NEW j \in 3 .. 11
            PROVE  i + j \in 0 .. i + 11 /\ i \in 0 .. i + j /\ i + j >= i
        OBVIOUS
      <4>2. Size(b) \in Nat /\ Len(segment) \in 3 .. 11 /\ Len(written) = Size(b) + 11
        BY <1>1, <1>2, <1>3, <1>4
      <4>3. QED
        BY <4>1, <4>2, Zenon
    <3> HIDE DEF n
    <3>5. /\ Keeps(e.heap, e.buffer, o) /\ o.buffer.stor_begin = e.buffer.stor_begin
          /\ o.buffer.owned /\ o.buffer.contents = SubSeq(written, 1, n) /\ Size(o.buffer) = n
      BY <2>3, <3>1, <3>2, <3>3, <3>4, CutOff
    <3>6. Keeps(heap, b, o)
      BY <2>3, <2>5, <3>2, <3>5, KeepsThenKeeps
    <3>7. SubSeq(o.buffer.contents, 1, Size(b)) = b.contents
      BY <1>4, <3>4, <3>5, PrefixOfPrefix
    <3>8. QED
      BY <3>2, <3>4, <3>5, <3>6, <3>7 DEF Appended
  <2>8. QED
    BY <2>6, <2>7
<1>8. QED
  BY <1>5, <1>6, <1>7

---------------------------------------------------------------------------
(* Memory of the builder and of the trajectory.                            *)

BuilderRecord == [buffer: BufferRecord, last_position: [Axes -> Int], scale: 1 .. 127]

(* A buffer that owns its bytes is one that the operations can work on.    *)
LEMMA OwnerFits ==
  ASSUME NEW b \in BufferRecord, heap \subseteq Blocks, OwnsItsBytes(b)
  PROVE  Fits(heap, b) /\ b.owned /\ b.stor_begin \in Blocks /\ b.stor_begin # NoBlock
  BY Addresses DEF OwnsItsBytes, Fits

(* What a new buffer is, and that its block is nobody else's.              *)
LEMMA NewBuffer ==
  ASSUME NEW h, h \subseteq Blocks, NEW b \in BufferRecord, NEW n \in 1 .. MaxObject,
         NEW o \in InitBuffer(h, b, n)
  PROVE  /\ o = Outcome(o.result, o.heap, o.buffer) /\ o.buffer \in BufferRecord
         /\ \/ o.result = "ENOMEM" /\ o.heap = h /\ o.buffer.stor_begin = NoBlock
            \/ /\ o.result = "SUCCESS"
               /\ o.buffer.stor_begin \in Blocks /\ o.buffer.stor_begin \notin h
               /\ o.heap = h \cup {o.buffer.stor_begin}
               /\ o.buffer.owned /\ o.buffer.contents = Zeros(n) /\ Size(o.buffer) = n
               /\ Fits(o.heap, o.buffer)
<1> DEFINE Empty == [b EXCEPT !.stor_begin = NoBlock]
           New(k) == [stor_begin |-> k, capacity |-> AtLeastOne(n),
                      contents |-> Zeros(n), owned |-> TRUE]
<1>1. n \in Nat /\ AtLeastOne(n) = n /\ n <= MaxObject
  BY BufferAssumption DEF AtLeastOne
<1>2. PICK k \in Allocation(h, n) :
        o = IF k = NoBlock THEN Outcome("ENOMEM", h, Empty)
            ELSE Outcome("SUCCESS", h \cup {k}, New(k))
  BY <1>1 DEF InitBuffer
<1>3. CASE k = NoBlock
  <2>1. Empty \in BufferRecord /\ Empty.stor_begin = NoBlock
    BY DEF BufferRecord
  <2> HIDE DEF Empty
  <2>2. o.result = "ENOMEM" /\ o.heap = h /\ o.buffer = Empty
    BY <1>2, <1>3 DEF Outcome
  <2>3. QED
    BY <1>2, <1>3, <2>1, <2>2
<1>4. CASE k # NoBlock
  <2>1. k \in Blocks /\ k \notin h
    BY <1>1, <1>4, AllocationType
  <2>2. Zeros(n) \in Seq(Byte) /\ Len(Zeros(n)) = n
    BY <1>1, ZerosType
  <2>3. /\ New(k) \in BufferRecord /\ New(k).stor_begin = k /\ New(k).owned
        /\ New(k).capacity = n /\ New(k).contents = Zeros(n)
    BY <1>1, <2>1, <2>2 DEF BufferRecord
  <2> HIDE DEF New
  <2>4. o.result = "SUCCESS" /\ o.heap = h \cup {k} /\ o.buffer = New(k)
    BY <1>2, <1>4 DEF Outcome
  <2>5. Size(New(k)) = n
    BY <2>2, <2>3 DEF Size
  <2>6. Fits(h \cup {k}, New(k))
    BY <1>1, <2>1, <2>3, <2>5 DEF Fits
  <2>7. QED
    BY <1>2, <1>4, <2>1, <2>3, <2>4, <2>5, <2>6
<1>5. QED
  BY <1>3, <1>4

(* An operation on the builder's buffer leaves the trajectory's alone.     *)
LEMMA BuilderBufferStep ==
  ASSUME BuilderInv, NEW o, Keeps(heap, builder.buffer, o),
         heap' = o.heap, builder' \in BuilderRecord, builder'.buffer = o.buffer,
         trajectory' = trajectory, calls' \in Seq(CallRecord),
         o.buffer.stor_begin # NoBlock => o.buffer.owned /\ Size(o.buffer) >= HeaderLength,
         calls' # << >> => o.buffer.stor_begin # NoBlock
  PROVE  /\ BuilderInv'
         /\ o.result # "ENOMEM" => heap' \ OwnedBlocks' = heap \ OwnedBlocks
<1> DEFINE b == builder.buffer
<1>1. /\ heap \subseteq Blocks /\ b \in BufferRecord /\ trajectory \in BufferRecord
      /\ b.owned \in BOOLEAN
  BY DEF BuilderInv, UseTypeOK, BufferRecord
<1>2. /\ o.heap \subseteq Blocks /\ o.buffer \in BufferRecord /\ o.buffer.owned \in BOOLEAN
      /\ o.buffer.stor_begin # NoBlock => Fits(o.heap, o.buffer)
      /\ heap \ Own(b) \subseteq o.heap
      /\ \A k \in heap \ Own(b) : k \notin Own(o.buffer)
      /\ o.result # "ENOMEM" => o.heap \ Own(o.buffer) = heap \ Own(b)
  BY DEF Keeps, BufferRecord
<1>3. NoBlock \notin heap /\ NoBlock \notin o.heap
  BY <1>1, <1>2, Addresses
<1>4. Own(b) \cap heap = {b.stor_begin} \cap heap
  BY <1>1, <1>3 DEF BuilderInv, BuilderLives, OwnsItsBytes, Own
<1>5. Own(o.buffer) \cap o.heap = {o.buffer.stor_begin} \cap o.heap
  BY <1>2, <1>3 DEF Own
<1>6. ASSUME TrajectoryLives
      PROVE  /\ trajectory.stor_begin \in o.heap
             /\ o.buffer.stor_begin # NoBlock => o.buffer.stor_begin # trajectory.stor_begin
  <2>1. trajectory.stor_begin \in heap /\ trajectory.stor_begin \notin Own(b)
    BY <1>1, <1>3, <1>4, <1>6 DEF BuilderInv, BytesHaveOneOwner, BuilderLives, OwnsItsBytes
  <2>2. QED
    BY <1>2, <1>5, <2>1
<1>7. UseTypeOK'
  BY <1>1, <1>2 DEF UseTypeOK, BuilderRecord
<1>8. o.buffer.stor_begin # NoBlock
        => o.buffer.stor_begin \in o.heap /\ OwnsItsBytes(builder.buffer)'
  BY <1>2 DEF Fits, OwnsItsBytes
<1>9. TrajectoryLives => OwnsItsBytes(trajectory)'
  BY <1>6 DEF BuilderInv, OwnsItsBytes
<1>10. BytesHaveOneOwner'
  BY <1>6, <1>8 DEF BytesHaveOneOwner, BuilderLives, TrajectoryLives
<1>11. BuilderInv'
  BY <1>7, <1>8, <1>9, <1>10 DEF BuilderInv, BuilderLives, TrajectoryLives
<1>12. ASSUME o.result # "ENOMEM" PROVE heap' \ OwnedBlocks' = heap \ OwnedBlocks
  <2> DEFINE t == trajectory.stor_begin
  <2>1. heap' \ OwnedBlocks' = (o.heap \ Own(o.buffer)) \ {t}
    BY <1>3, <1>5 DEF OwnedBlocks
  <2>2. heap \ OwnedBlocks = (heap \ Own(b)) \ {t}
    BY <1>3, <1>4 DEF OwnedBlocks
  <2>3. QED
    BY <1>2, <1>12, <2>1, <2>2
<1>13. QED
  BY <1>11, <1>12

(* A step that leaves the memory as it is.                                 *)
LEMMA MemoryUnchanged ==
  ASSUME BuilderInv, UNCHANGED <<heap, builder, trajectory>>,
         calls' \in Seq(CallRecord), calls' # << >> => BuilderLives
  PROVE  BuilderInv' /\ heap' \ OwnedBlocks' = heap \ OwnedBlocks
  BY DEF BuilderInv, UseTypeOK, BytesHaveOneOwner, OwnsItsBytes, BuilderLives, TrajectoryLives,
         OwnedBlocks

---------------------------------------------------------------------------
(* The calls that a call makes.                                            *)

LEMMA LineType ==
  ASSUME NEW target \in [Axes -> Int], NEW duration \in Nat
  PROVE  Line(target, duration) \in CallRecord /\ Hold(duration) \in CallRecord
<1>1. Origin \in [Axes -> Int]
  BY DEF Origin
<1>2. QED
  BY <1>1 DEF Line, Hold, CallRecord

(* The calls that are left, and the next one, are calls.                   *)
LEMMA CallsType ==
  ASSUME NEW s \in Seq(CallRecord), s # << >>
  PROVE  /\ Head(s) \in CallRecord /\ Tail(s) \in Seq(CallRecord)
         /\ Head(s).target \in [Axes -> Int] /\ Head(s).duration \in Nat
<1>1. Head(s) \in CallRecord /\ Tail(s) \in Seq(CallRecord)
  BY HeadTailProperties
<1>2. QED
  BY <1>1 DEF CallRecord

(* Two calls take the place of one.                                        *)
LEMMA CallsReplaced ==
  ASSUME NEW s \in Seq(CallRecord), NEW c \in CallRecord, NEW d \in CallRecord
  PROVE  <<c, d>> \o s \in Seq(CallRecord)
<1>1. <<c, d>> \in Seq(CallRecord)
  OBVIOUS
<1>2. QED
  BY <1>1, ConcatProperties

(* The midpoint of two positions is one.                                   *)
LEMMA MidpointType ==
  ASSUME NEW p \in [Axes -> Int], NEW q \in [Axes -> Int]
  PROVE  Midpoint(p, q) \in [Axes -> Int]
<1>1. \A a \in Axes : (p[a] + q[a]) \div 2 \in Int
  OBVIOUS
<1>2. QED
  BY <1>1 DEF Midpoint

(* The halves of a duration are durations.                                 *)
LEMMA HalvesType ==
  ASSUME NEW duration \in Nat
  PROVE  Halves(duration)[1] \in Nat /\ Halves(duration)[2] \in Nat
<1>1. duration \div 2 \in Nat /\ duration - duration \div 2 \in Nat
  OBVIOUS
<1>2. Halves(duration)[1] = duration \div 2 /\ Halves(duration)[2] = duration - duration \div 2
  BY DEF Halves
<1>3. QED
  BY <1>1, <1>2

(* So are the parts of a hold.                                             *)
LEMMA PartType ==
  ASSUME NEW duration \in Nat
  PROVE  PartOfHold(duration)[1] \in Nat /\ PartOfHold(duration)[2] \in Nat
<1>1. MaxDuration \in Nat
  BY BuilderAssumption
<1>2. CASE duration > MaxDuration
  <2>1. PartOfHold(duration) = <<MaxDuration, duration - MaxDuration>>
    BY <1>2 DEF PartOfHold
  <2>2. QED
    BY <1>1, <1>2, <2>1
<1>3. CASE ~(duration > MaxDuration)
  <2>1. PartOfHold(duration) = <<duration, 0>>
    BY <1>3 DEF PartOfHold
  <2>2. QED
    BY <2>1
<1>4. QED
  BY <1>2, <1>3

---------------------------------------------------------------------------
(* The steps.                                                              *)

(* What every step does to the memory: it is as it should be afterwards,   *)
(* and no block is lost unless there is no memory.                         *)
MemoryStep ==
  /\ BuilderInv'
  /\ heap' \ OwnedBlocks' # heap \ OwnedBlocks => result' = "ENOMEM"

(* No call touches the segments that are written.                          *)
KeepsSegments ==
  calls # << >> /\ BuilderLives'
    => SubSeq(builder'.buffer.contents, 1, Size(builder.buffer)) = builder.buffer.contents

(* Nothing is built at first.                                              *)
LEMMA InvHolds == ASSUME BuilderInit PROVE BuilderInv
<1>1. << >> \in Seq(Byte) /\ << >> \in Seq(CallRecord)
  BY EmptySeq
<1>2. Unbuilt \in BufferRecord /\ Unbuilt.stor_begin = NoBlock
  BY <1>1 DEF Unbuilt, BufferRecord
<1>3. Origin \in [Axes -> Int]
  BY DEF Origin
<1> HIDE DEF Unbuilt, Origin
<1>4. /\ heap = {} /\ builder = [buffer |-> Unbuilt, last_position |-> Origin, scale |-> 1]
      /\ trajectory = Unbuilt /\ calls = << >>
  BY DEF BuilderInit
<1>5. builder \in BuilderRecord /\ builder.buffer = Unbuilt
  BY <1>2, <1>3, <1>4 DEF BuilderRecord
<1>6. QED
  BY <1>1, <1>2, <1>4, <1>5
     DEF BuilderInv, UseTypeOK, BytesHaveOneOwner, BuilderLives, TrajectoryLives, BuilderRecord

(* The first byte of a header.                                             *)
LEMMA FirstByteWritten ==
  ASSUME NEW h, NEW b, Fits(h, b), b.owned, Size(b) >= 1, NEW v \in Byte
  PROVE  /\ [b.contents EXCEPT ![1] = v] \in Seq(Byte)
         /\ Len([b.contents EXCEPT ![1] = v]) = Size(b)
<1>1. b.contents \in Seq(Byte) /\ Size(b) = Len(b.contents) /\ Size(b) \in Nat
  BY LenProperties DEF Fits, BufferRecord, Size
<1>2. 1 \in 1 .. Len(b.contents)
  BY <1>1
<1>3. QED
  BY <1>1, <1>2, ExceptSeq

(* A new buffer with its first byte written.                               *)
LEMMA NewHeader ==
  ASSUME NEW h, h \subseteq Blocks, NEW b \in BufferRecord,
         NEW o \in InitBuffer(h, b, HeaderLength), o.result = "SUCCESS", NEW v \in Byte
  PROVE  LET c == [o.buffer EXCEPT !.contents[1] = v] IN
         /\ c \in BufferRecord /\ c.stor_begin = o.buffer.stor_begin /\ c.owned
         /\ Fits(o.heap, c) /\ Size(c) = HeaderLength
<1> DEFINE s == [o.buffer.contents EXCEPT ![1] = v]
           c == [o.buffer EXCEPT !.contents = s]
<1>1. HeaderLength \in 1 .. MaxObject /\ HeaderLength = 9
  BY BuilderAssumption, BufferAssumption DEF HeaderLength, SegmentLength
<1>2. /\ o.buffer \in BufferRecord /\ Fits(o.heap, o.buffer) /\ o.buffer.owned
      /\ Size(o.buffer) = HeaderLength /\ o.buffer.stor_begin # NoBlock
  BY <1>1, NewBuffer, Addresses
<1>3. s \in Seq(Byte) /\ Len(s) = HeaderLength
  <2>1. Size(o.buffer) >= 1
    BY <1>1, <1>2
  <2>2. s \in Seq(Byte) /\ Len(s) = Size(o.buffer)
    BY <1>2, <2>1, FirstByteWritten
  <2>3. QED
    BY <1>2, <2>2
<1>4. [o.buffer EXCEPT !.contents[1] = v] = c
  BY <1>2 DEF BufferRecord
<1> HIDE DEF s
<1>5. /\ c \in BufferRecord /\ c.contents = s /\ c.stor_begin = o.buffer.stor_begin
      /\ c.owned = o.buffer.owned /\ c.capacity = o.buffer.capacity
  BY <1>2, <1>3 DEF BufferRecord
<1>6. Size(c) = HeaderLength
  BY <1>3, <1>5 DEF Size
<1> HIDE DEF c
<1>7. Fits(o.heap, c)
  BY <1>2, <1>5, <1>6 DEF Fits
<1>8. QED
  BY <1>2, <1>4, <1>5, <1>6, <1>7

(* The first byte of a header holds the scale and the bit for yaw.         *)
LEMMA ScaleByte ==
  ASSUME NEW scale \in 1 .. 127, NEW use_yaw \in BOOLEAN
  PROVE  (IF use_yaw THEN scale + 128 ELSE scale) \in Byte
<1>1. (IF use_yaw THEN scale + 128 ELSE scale) \in 0 .. 255
  OBVIOUS
<1>2. QED
  BY <1>1, BuilderAssumption

(* An initialisation.                                                      *)
LEMMA InitSteps ==
  ASSUME BuilderInv, NEW scale, NEW use_yaw \in BOOLEAN,
         calls = << >>, ~BuilderLives, InitBuilder(scale, use_yaw),
         UNCHANGED <<trajectory, calls>>
  PROVE  MemoryStep /\ KeepsSegments
<1>1. /\ calls = << >> /\ ~BuilderLives /\ InitBuilder(scale, use_yaw)
      /\ trajectory' = trajectory /\ calls' = calls
  OBVIOUS
<1>2. /\ heap \subseteq Blocks /\ builder \in BuilderRecord /\ builder.buffer \in BufferRecord
      /\ calls \in Seq(CallRecord)
  BY DEF BuilderInv, UseTypeOK, BuilderRecord
<1>3. CASE scale \notin 1 .. 127
  <2>1. UNCHANGED <<heap, builder>>
    BY <1>1, <1>3 DEF InitBuilder
  <2>2. QED
    BY <1>1, <1>2, <2>1, MemoryUnchanged DEF MemoryStep, KeepsSegments
<1>4. CASE scale \in 1 .. 127
  <2> DEFINE v == IF use_yaw THEN scale + 128 ELSE scale
             New(o) == [o.buffer EXCEPT !.contents[1] = v]
  <2>1. PICK o \in InitBuffer(heap, builder.buffer, HeaderLength) :
          /\ heap' = o.heap /\ result' = o.result
          /\ builder' = IF o.result # "SUCCESS" THEN [builder EXCEPT !.buffer = o.buffer]
                        ELSE [buffer |-> New(o), last_position |-> Origin, scale |-> scale]
    BY <1>1, <1>4 DEF InitBuilder
  <2>2. v \in Byte
    BY <1>4, ScaleByte
  <2>3. HeaderLength \in 1 .. MaxObject
    BY BuilderAssumption, BufferAssumption DEF HeaderLength, SegmentLength
  <2>4. /\ o = Outcome(o.result, o.heap, o.buffer) /\ o.buffer \in BufferRecord
        /\ \/ o.result = "ENOMEM" /\ o.heap = heap /\ o.buffer.stor_begin = NoBlock
           \/ /\ o.result = "SUCCESS"
              /\ o.buffer.stor_begin \in Blocks /\ o.buffer.stor_begin \notin heap
              /\ o.heap = heap \cup {o.buffer.stor_begin}
    BY <1>2, <2>3, NewBuffer
  <2> HIDE DEF v
  <2>5. /\ o.result = "SUCCESS" => /\ New(o) \in BufferRecord /\ New(o).owned
                                   /\ New(o).stor_begin = o.buffer.stor_begin
                                   /\ Fits(o.heap, New(o)) /\ Size(New(o)) = HeaderLength
    BY <1>2, <2>2, NewHeader
  <2> HIDE DEF New
  <2> DEFINE c == IF o.result = "SUCCESS" THEN New(o) ELSE o.buffer
             p == Outcome(o.result, o.heap, c)
  <2>6. p.result = o.result /\ p.heap = o.heap /\ p.buffer = c /\ p = Outcome(p.result, p.heap, p.buffer)
    BY DEF Outcome
  <2> HIDE DEF p
  <2>7. Own(builder.buffer) \subseteq {NoBlock} /\ heap \ Own(builder.buffer) = heap
    BY <1>1, <1>2, Addresses DEF BuilderLives, Own
  <2>8. Keeps(heap, builder.buffer, p)
    <3>1. CASE o.result = "SUCCESS"
      BY <1>2, <2>4, <2>5, <2>6, <2>7, <3>1 DEF Keeps, Own, Results
    <3>2. CASE o.result # "SUCCESS"
      BY <1>2, <2>4, <2>6, <2>7, <3>2, Addresses DEF Keeps, Own, Results
    <3>3. QED
      BY <3>1, <3>2
  <2>9. builder' \in BuilderRecord /\ builder'.buffer = c
    <3>1. Origin \in [Axes -> Int]
      BY DEF Origin
    <3>2. QED
      BY <1>2, <1>4, <2>1, <2>4, <2>5, <3>1 DEF BuilderRecord
  <2>10. c.stor_begin # NoBlock => c.owned /\ Size(c) >= HeaderLength
    BY <2>3, <2>4, <2>5 DEF HeaderLength
  <2> HIDE DEF c
  <2>11. /\ BuilderInv'
         /\ p.result # "ENOMEM" => heap' \ OwnedBlocks' = heap \ OwnedBlocks
    BY <1>1, <1>2, <2>1, <2>6, <2>8, <2>9, <2>10, BuilderBufferStep
  <2>12. QED
    BY <1>1, <2>1, <2>6, <2>11 DEF MemoryStep, KeepsSegments
<1>5. QED
  BY <1>3, <1>4

(* A start position is written.                                            *)
LEMMA StartSteps ==
  ASSUME BuilderInv, NEW position \in [Axes -> Int],
         calls = << >>, BuilderLives, SetStartPosition(position),
         UNCHANGED <<trajectory, calls>>
  PROVE  MemoryStep /\ KeepsSegments
<1> DEFINE b == builder.buffer
           fitting == Fitting(builder.scale, position, Axes)
           bytes == Written(builder.scale, position, fitting)
           written == Overwritten(b.contents, 1, bytes)
           c == [b EXCEPT !.contents = written]
           o == Outcome("SUCCESS", heap, c)
<1>1. /\ calls = << >> /\ BuilderLives /\ SetStartPosition(position)
      /\ trajectory' = trajectory /\ calls' = calls
  OBVIOUS
<1>2. /\ builder \in BuilderRecord /\ b \in BufferRecord /\ builder.scale \in 1 .. 127
      /\ heap \subseteq Blocks /\ b.contents \in Seq(Byte) /\ calls \in Seq(CallRecord)
      /\ position \in [Axes -> Int]
  BY BuilderAssumption DEF BuilderInv, UseTypeOK, BuilderRecord, BufferRecord
<1>3. Fits(heap, b) /\ b.owned /\ b.stor_begin # NoBlock
  BY <1>1, <1>2, OwnerFits DEF BuilderInv
<1>4. CASE Size(b) # HeaderLength
  <2>1. UNCHANGED <<heap, builder>>
    BY <1>1, <1>4 DEF SetStartPosition
  <2>2. QED
    BY <1>1, <1>2, <2>1, MemoryUnchanged DEF MemoryStep, KeepsSegments
<1>5. CASE Size(b) = HeaderLength
  <2>1. bytes \in Seq(Byte) /\ Len(bytes) <= 8 /\ Len(bytes) \in Nat
    BY <1>2, WrittenType, LenProperties
  <2>2. /\ heap' = heap
        /\ builder' = [builder EXCEPT
             !.buffer.contents = written,
             !.last_position = IF fitting = Axes THEN position ELSE @]
    BY <1>1, <1>5 DEF SetStartPosition
  <2> HIDE DEF bytes, fitting
  <2>3. Len(b.contents) = 9
    BY <1>5 DEF Size, HeaderLength
  <2>4. 1 \in 0 .. Len(b.contents) /\ 1 + Len(bytes) <= Len(b.contents)
    BY <2>1, <2>3
  <2>5. written \in Seq(Byte) /\ Len(written) = 9
    BY <1>2, <2>1, <2>3, <2>4, OverwrittenType
  <2> HIDE DEF written
  <2>6. c \in BufferRecord /\ c.contents = written /\ c.owned /\ Size(c) = HeaderLength
    BY <1>2, <1>3, <2>5 DEF BufferRecord, Size, HeaderLength
  <2>7. builder' \in BuilderRecord /\ builder'.buffer = c
    <3>1. (IF fitting = Axes THEN position ELSE builder.last_position) \in [Axes -> Int]
      BY <1>2 DEF BuilderRecord
    <3>2. builder' = [buffer |-> c, scale |-> builder.scale,
                      last_position |-> IF fitting = Axes THEN position ELSE builder.last_position]
      BY <1>2, <2>2 DEF BuilderRecord, BufferRecord
    <3> HIDE DEF c
    <3>3. QED
      BY <1>2, <2>6, <3>1, <3>2 DEF BuilderRecord
  <2>8. Len(written) <= b.capacity
    BY <1>3, <1>5, <2>5 DEF Fits, HeaderLength
  <2>9. Keeps(heap, b, o)
    BY <1>3, <2>5, <2>8, ContentsKeep
  <2> HIDE DEF c
  <2>10. o.heap = heap /\ o.buffer = c /\ o.result = "SUCCESS"
    BY DEF Outcome
  <2> HIDE DEF o
  <2>11. c.stor_begin # NoBlock => c.owned /\ Size(c) >= HeaderLength
    BY <2>6 DEF HeaderLength
  <2>12. BuilderInv' /\ heap' \ OwnedBlocks' = heap \ OwnedBlocks
    BY <1>1, <1>2, <2>2, <2>7, <2>9, <2>10, <2>11, BuilderBufferStep
  <2>13. QED
    BY <1>1, <2>12 DEF MemoryStep, KeepsSegments
<1>6. QED
  BY <1>4, <1>5

(* A line or a hold is asked for.                                          *)
LEMMA DrawSteps ==
  ASSUME BuilderInv, NEW call \in CallRecord, NEW position, Draw(call, position)
  PROVE  MemoryStep /\ KeepsSegments
<1>1. /\ calls = << >> /\ BuilderLives /\ calls' = <<call>>
      /\ UNCHANGED <<heap, builder, trajectory>>
  BY DEF Draw, Ready
<1>2. calls' \in Seq(CallRecord)
  BY <1>1
<1>3. QED
  BY <1>1, <1>2, MemoryUnchanged DEF MemoryStep, KeepsSegments

(* A segment is written after those before it.                             *)
LEMMA AppendLineSteps ==
  ASSUME BuilderInv, AppendLine
  PROVE  MemoryStep /\ KeepsSegments
<1> DEFINE b == builder.buffer
           line == Head(calls)
<1>1. /\ calls # << >> /\ trajectory' = trajectory
      /\ calls' = IF result' = "SUCCESS" THEN Tail(calls) ELSE << >>
  BY DEF AppendLine, Continue
<1>2. /\ builder \in BuilderRecord /\ b \in BufferRecord /\ builder.scale \in 1 .. 127
      /\ heap \subseteq Blocks /\ calls \in Seq(CallRecord) /\ BuilderLives
      /\ builder.last_position \in [Axes -> Int] /\ b.contents \in Seq(Byte) /\ Size(b) \in Nat
  BY <1>1, LenProperties DEF BuilderInv, UseTypeOK, BuilderRecord, BufferRecord, Size
<1>3. Fits(heap, b) /\ b.owned /\ Size(b) >= HeaderLength
  BY <1>2, OwnerFits DEF BuilderInv
<1>4. line.target \in [Axes -> Int] /\ line.duration \in Nat /\ Tail(calls) \in Seq(CallRecord)
  BY <1>1, <1>2, CallsType
<1>5. PICK o \in AppendedSegment(line.target, line.duration) :
        /\ heap' = o.heap /\ result' = o.result
        /\ builder' = [builder EXCEPT !.buffer = o.buffer,
             !.last_position = IF o.result = "SUCCESS" THEN line.target ELSE @]
  BY DEF AppendLine
<1>6. /\ Keeps(heap, b, o) /\ Appended(b, o)
      /\ o.result = "SUCCESS" => o.buffer.stor_begin # NoBlock
  BY <1>2, <1>3, <1>4, SegmentKeeps
<1>7. builder' \in BuilderRecord /\ builder'.buffer = o.buffer
  <2>1. o.buffer \in BufferRecord
    BY <1>6 DEF Keeps
  <2>2. QED
    BY <1>2, <1>4, <1>5, <2>1 DEF BuilderRecord
<1>8. calls' \in Seq(CallRecord) /\ (calls' # << >> => o.buffer.stor_begin # NoBlock)
  <2>1. << >> \in Seq(CallRecord)
    BY EmptySeq
  <2>2. QED
    BY <1>1, <1>4, <1>5, <1>6, <2>1
<1>9. o.buffer.stor_begin # NoBlock => o.buffer.owned /\ Size(o.buffer) >= HeaderLength
  <2>1. ASSUME o.buffer.stor_begin # NoBlock PROVE Size(o.buffer) \in Nat
    BY <1>6, LenProperties DEF Keeps, BufferRecord, Size
  <2>2. QED
    BY <1>2, <1>3, <1>6, <2>1 DEF Appended, HeaderLength
<1>10. /\ BuilderInv'
       /\ o.result # "ENOMEM" => heap' \ OwnedBlocks' = heap \ OwnedBlocks
  BY <1>1, <1>5, <1>6, <1>7, <1>8, <1>9, BuilderBufferStep
<1>11. KeepsSegments
  BY <1>6, <1>7 DEF KeepsSegments, Appended, BuilderLives
<1>12. QED
  BY <1>5, <1>10, <1>11 DEF MemoryStep

(* A call that makes others leaves the bytes to them.                      *)
LEMMA OtherCallsSteps ==
  ASSUME BuilderInv, SplitLine \/ HoldPositionFor
  PROVE  MemoryStep /\ KeepsSegments
<1> DEFINE call == Head(calls)
<1>1. calls # << >> /\ UNCHANGED <<heap, builder, trajectory>>
  BY DEF SplitLine, HoldPositionFor
<1>2. /\ calls \in Seq(CallRecord) /\ BuilderLives
      /\ builder.last_position \in [Axes -> Int] /\ builder.buffer.contents \in Seq(Byte)
  BY <1>1 DEF BuilderInv, UseTypeOK, BufferRecord
<1>3. call.target \in [Axes -> Int] /\ call.duration \in Nat /\ Tail(calls) \in Seq(CallRecord)
  BY <1>1, <1>2, CallsType
<1>4. calls' \in Seq(CallRecord)
  <2>1. CASE SplitLine
    <3> DEFINE midpoint == Midpoint(builder.last_position, call.target)
               first == Line(midpoint, Halves(call.duration)[1])
               second == Line(call.target, Halves(call.duration)[2])
    <3>1. calls' = <<first, second>> \o Tail(calls)
      BY <2>1 DEF SplitLine
    <3>2. first \in CallRecord /\ second \in CallRecord
      <4>1. midpoint \in [Axes -> Int]
        BY <1>2, <1>3, MidpointType
      <4>2. Halves(call.duration)[1] \in Nat /\ Halves(call.duration)[2] \in Nat
        BY <1>3, HalvesType
      <4> HIDE DEF midpoint
      <4>3. QED
        BY <1>3, <4>1, <4>2, LineType
    <3> HIDE DEF first, second
    <3>3. QED
      BY <1>3, <3>1, <3>2, CallsReplaced
  <2>2. CASE HoldPositionFor
    <3> DEFINE part == PartOfHold(call.duration)
               first == Line(builder.last_position, part[1])
               second == Hold(part[2])
    <3>1. calls' = IF call.duration = 0 THEN Tail(calls) ELSE <<first, second>> \o Tail(calls)
      BY <2>2 DEF HoldPositionFor
    <3>2. first \in CallRecord /\ second \in CallRecord
      <4>1. part[1] \in Nat /\ part[2] \in Nat
        BY <1>3, PartType
      <4> HIDE DEF part
      <4>2. QED
        BY <1>2, <4>1, LineType
    <3> HIDE DEF first, second
    <3>3. <<first, second>> \o Tail(calls) \in Seq(CallRecord)
      BY <1>3, <3>2, CallsReplaced
    <3>4. QED
      BY <1>3, <3>1, <3>3
  <2>3. QED
    BY <2>1, <2>2
<1>5. KeepsSegments
  BY <1>1, <1>2, SubSeqFull DEF KeepsSegments, Size
<1>6. QED
  BY <1>1, <1>2, <1>4, <1>5, MemoryUnchanged DEF MemoryStep

(* The builder is destroyed.                                               *)
LEMMA DestroySteps ==
  ASSUME BuilderInv, calls = << >>, BuilderLives, DestroyBuilder,
         UNCHANGED <<trajectory, calls>>
  PROVE  MemoryStep /\ KeepsSegments
<1> DEFINE b == builder.buffer
           o == DestroyBuffer(heap, b)
<1>1. /\ calls = << >> /\ calls' = calls /\ BuilderLives /\ trajectory' = trajectory
      /\ heap' = o.heap
      /\ builder' = [builder EXCEPT !.buffer = o.buffer, !.last_position = Origin]
  BY DEF DestroyBuilder
<1>2. /\ builder \in BuilderRecord /\ b \in BufferRecord /\ heap \subseteq Blocks
      /\ calls \in Seq(CallRecord)
  BY DEF BuilderInv, UseTypeOK, BuilderRecord
<1>3. Fits(heap, b) /\ b.owned
  BY <1>1, <1>2, OwnerFits DEF BuilderInv
<1>4. Keeps(heap, b, o)
  BY <1>3, DestroyKeeps
<1>5. o.result = "SUCCESS" /\ o.buffer.stor_begin = NoBlock
  BY <1>2, <1>3 DEF DestroyBuffer, Outcome, BufferRecord
<1> HIDE DEF o
<1>6. builder' \in BuilderRecord /\ builder'.buffer = o.buffer
  <2>1. Origin \in [Axes -> Int] /\ o.buffer \in BufferRecord
    BY <1>4 DEF Origin, Keeps
  <2>2. QED
    BY <1>1, <1>2, <2>1 DEF BuilderRecord
<1>7. BuilderInv' /\ heap' \ OwnedBlocks' = heap \ OwnedBlocks
  BY <1>1, <1>2, <1>4, <1>5, <1>6, BuilderBufferStep
<1>8. QED
  BY <1>1, <1>7 DEF MemoryStep, KeepsSegments

(* The trajectory is destroyed.                                            *)
LEMMA DropTrajectorySteps ==
  ASSUME BuilderInv, DropTrajectory
  PROVE  MemoryStep /\ KeepsSegments
<1>1. /\ calls = << >> /\ calls' = calls /\ TrajectoryLives /\ builder' = builder
      /\ trajectory' = Unbuilt /\ heap' = DestroyBuffer(heap, trajectory).heap
  BY DEF DropTrajectory
<1>2. /\ heap \subseteq Blocks /\ trajectory \in BufferRecord /\ OwnsItsBytes(trajectory)
      /\ trajectory.stor_begin \in heap /\ calls \in Seq(CallRecord)
  BY <1>1 DEF BuilderInv, UseTypeOK, OwnsItsBytes
<1>3. heap' = heap \ {trajectory.stor_begin}
  BY <1>1, <1>2 DEF DestroyBuffer, Outcome, OwnsItsBytes
<1>4. Unbuilt \in BufferRecord /\ Unbuilt.stor_begin = NoBlock
  <2>1. << >> \in Seq(Byte)
    BY EmptySeq
  <2>2. QED
    BY <2>1 DEF Unbuilt, BufferRecord
<1> HIDE DEF Unbuilt
<1>5. BuilderLives => builder.buffer.stor_begin \in heap'
  BY <1>1, <1>3 DEF BuilderInv, BytesHaveOneOwner
<1>6. BuilderInv'
  BY <1>1, <1>2, <1>3, <1>4, <1>5
     DEF BuilderInv, UseTypeOK, BytesHaveOneOwner, OwnsItsBytes, BuilderLives, TrajectoryLives
<1>7. heap' \ OwnedBlocks' = heap \ OwnedBlocks
  <2>1. NoBlock \notin heap
    BY <1>2, Addresses
  <2>2. QED
    BY <1>1, <1>3, <1>4, <2>1 DEF OwnedBlocks
<1>8. QED
  BY <1>1, <1>6, <1>7 DEF MemoryStep, KeepsSegments

(* A hand-over: the block changes its owner, and the builder gets another  *)
(* one or none.  The array is not empty, or the trajectory would refuse    *)
(* what the builder lets go.                                               *)
LEMMA HandOverSteps ==
  ASSUME BuilderInv, calls = << >>, calls' = calls, BuilderLives, ~TrajectoryLives,
         InitFromBuilder
  PROVE  MemoryStep /\ KeepsSegments
<1> DEFINE b == builder.buffer
           bytes == b.contents
           taken == [stor_begin |-> b.stor_begin, capacity |-> Len(bytes),
                     contents |-> bytes, owned |-> TRUE]
           New(o) == [o.buffer EXCEPT !.contents[1] = Head(bytes)]
           Given(o) == IF o.result = "SUCCESS"
                         THEN [o EXCEPT !.buffer.contents[1] = Head(bytes)] ELSE o
<1>1. calls = << >> /\ calls' = calls /\ BuilderLives /\ ~TrajectoryLives /\ InitFromBuilder
  OBVIOUS
<1>2. /\ builder \in BuilderRecord /\ b \in BufferRecord /\ bytes \in Seq(Byte)
      /\ heap \subseteq Blocks /\ calls \in Seq(CallRecord) /\ trajectory \in BufferRecord
  BY DEF BuilderInv, UseTypeOK, BuilderRecord, BufferRecord
<1>3. /\ Fits(heap, b) /\ b.owned /\ b.stor_begin \in Blocks /\ b.stor_begin # NoBlock
      /\ b.stor_begin \in heap /\ Size(b) >= HeaderLength
  BY <1>1, <1>2, OwnerFits DEF BuilderInv, OwnsItsBytes
<1>4. /\ bytes # << >> /\ Head(bytes) \in Byte
      /\ Len(bytes) \in Nat /\ Len(bytes) = Size(b) /\ Len(bytes) <= MaxObject
  <2>1. Len(bytes) >= 9 /\ Len(bytes) \in Nat /\ Len(bytes) = Size(b)
    BY <1>2, <1>3, LenProperties DEF Size, HeaderLength
  <2>2. bytes # << >>
    BY <2>1, EmptySeq
  <2>3. Len(bytes) <= MaxObject
    BY <1>2, <1>3, <2>1, BufferAssumption DEF Fits, BufferRecord
  <2>4. QED
    BY <1>2, <2>1, <2>2, <2>3, HeadTailProperties
<1>5. InitFromBytes(heap, trajectory, b.stor_begin, bytes) = Outcome("SUCCESS", heap, taken)
  BY <1>4 DEF InitFromBytes
<1>6. /\ taken \in BufferRecord /\ taken.stor_begin = b.stor_begin /\ taken.owned
      /\ taken.capacity = Len(bytes) /\ Size(taken) = Len(bytes)
  BY <1>2, <1>3, <1>4 DEF BufferRecord, Size
<1> HIDE DEF taken
<1>7. Outcome("SUCCESS", heap, taken).buffer = taken /\ Outcome("SUCCESS", heap, taken).heap = heap
  BY DEF Outcome
<1>8. PICK o \in InitBuffer(heap, b, HeaderLength) :
        /\ trajectory' = taken
        /\ heap' = Given(o).heap /\ result' = Given(o).result
        /\ builder' = [builder EXCEPT !.buffer = Given(o).buffer]
  BY <1>1, <1>5, <1>7 DEF InitFromBuilder, Return
<1>9. HeaderLength \in 1 .. MaxObject /\ HeaderLength = 9
  BY BuilderAssumption, BufferAssumption DEF HeaderLength, SegmentLength
<1>10. /\ o = Outcome(o.result, o.heap, o.buffer) /\ o.buffer \in BufferRecord
       /\ \/ o.result = "ENOMEM" /\ o.heap = heap /\ o.buffer.stor_begin = NoBlock
          \/ /\ o.result = "SUCCESS"
             /\ o.buffer.stor_begin \in Blocks /\ o.buffer.stor_begin \notin heap
             /\ o.heap = heap \cup {o.buffer.stor_begin}
  BY <1>2, <1>9, NewBuffer
<1>11. NoBlock \notin heap
  BY <1>2, Addresses
<1>12. CASE o.result # "SUCCESS"
  <2>1. o.result = "ENOMEM" /\ o.heap = heap /\ o.buffer.stor_begin = NoBlock /\ Given(o) = o
    BY <1>10, <1>12
  <2>2. builder' \in BuilderRecord /\ builder'.buffer = o.buffer
    BY <1>2, <1>8, <1>10, <2>1 DEF BuilderRecord
  <2>3. heap' = heap /\ result' = "ENOMEM" /\ trajectory' = taken
    BY <1>8, <2>1
  <2>4. BuilderInv'
    BY <1>1, <1>2, <1>3, <1>4, <1>6, <2>1, <2>2, <2>3
       DEF BuilderInv, UseTypeOK, BytesHaveOneOwner, OwnsItsBytes, BuilderLives, TrajectoryLives,
           BuilderRecord
  <2>5. QED
    BY <1>1, <2>3, <2>4 DEF MemoryStep, KeepsSegments
<1>13. CASE o.result = "SUCCESS"
  <2> DEFINE c == New(o)
             k == o.buffer.stor_begin
  <2>1. k \in Blocks /\ k \notin heap /\ o.heap = heap \cup {k}
    BY <1>10, <1>13
  <2>2. /\ c \in BufferRecord /\ c.stor_begin = k /\ c.owned
        /\ Fits(o.heap, c) /\ Size(c) = HeaderLength
    BY <1>2, <1>4, <1>13, NewHeader
  <2>3. Given(o) = Outcome(o.result, o.heap, c)
    BY <1>10, <1>13 DEF Outcome
  <2> HIDE DEF New, Given
  <2>4. Given(o).heap = o.heap /\ Given(o).result = "SUCCESS" /\ Given(o).buffer = c
    BY <1>13, <2>3 DEF Outcome
  <2> HIDE DEF c
  <2>5. builder' \in BuilderRecord /\ builder'.buffer = c
    BY <1>2, <1>8, <2>2, <2>4 DEF BuilderRecord
  <2>6. heap' = heap \cup {k} /\ trajectory' = taken
    BY <1>8, <2>1, <2>4
  <2>7. k # b.stor_begin /\ k # NoBlock
    BY <1>3, <2>1, Addresses
  <2>8. UseTypeOK'
    BY <1>1, <1>2, <1>6, <2>1, <2>5, <2>6 DEF UseTypeOK, BuilderRecord
  <2>9. OwnsItsBytes(builder.buffer)' /\ Size(builder'.buffer) >= HeaderLength
    BY <1>9, <2>1, <2>2, <2>5, <2>6 DEF OwnsItsBytes, Fits
  <2>10. OwnsItsBytes(trajectory)'
    BY <1>3, <1>4, <1>6, <2>6 DEF OwnsItsBytes
  <2>11. BytesHaveOneOwner'
    BY <1>3, <1>6, <2>1, <2>2, <2>5, <2>6, <2>7
       DEF BytesHaveOneOwner, BuilderLives, TrajectoryLives
  <2>12. BuilderInv'
    BY <1>1, <2>8, <2>9, <2>10, <2>11 DEF BuilderInv
  <2>13. heap' \ OwnedBlocks' = heap \ OwnedBlocks
    BY <1>1, <1>6, <1>11, <2>1, <2>2, <2>5, <2>6, <2>7 DEF OwnedBlocks, TrajectoryLives
  <2>14. QED
    BY <1>1, <2>12, <2>13 DEF MemoryStep, KeepsSegments
<1>14. QED
  BY <1>12, <1>13

---------------------------------------------------------------------------

(* The arguments of the program.                                           *)
LEMMA PositionTypes ==
  /\ \A p \in Positions : p \in [Axes -> Int]
  /\ Durations \subseteq Nat
  BY BuilderUseAssumption

(* Every step of the program.                                              *)
LEMMA EveryStep ==
  ASSUME BuilderInv, [Next]_useVars
  PROVE  MemoryStep /\ KeepsSegments
<1>1. ASSUME NEW scale \in Scales, NEW use_yaw \in BOOLEAN, NewBuilder(scale, use_yaw)
      PROVE  MemoryStep /\ KeepsSegments
  BY <1>1, InitSteps DEF NewBuilder
<1>2. ASSUME NEW p \in Positions, StartAt(p)
      PROVE  MemoryStep /\ KeepsSegments
  BY <1>2, PositionTypes, StartSteps DEF StartAt, Ready
<1>3. ASSUME NEW p \in Positions, NEW d \in Durations, Draw(Line(p, d), OnGrid(p))
      PROVE  MemoryStep /\ KeepsSegments
  <2>1. Line(p, d) \in CallRecord
    BY PositionTypes, LineType
  <2>2. QED
    BY <1>3, <2>1, DrawSteps
<1>4. ASSUME NEW d \in Durations, Draw(Hold(d), route[Len(route)].position)
      PROVE  MemoryStep /\ KeepsSegments
  <2>1. Origin \in [Axes -> Int] /\ d \in Nat
    BY PositionTypes DEF Origin
  <2>2. Hold(d) \in CallRecord
    BY <2>1, LineType
  <2>3. QED
    BY <1>4, <2>2, DrawSteps
<1>5. ASSUME ContinueCall
      PROVE  MemoryStep /\ KeepsSegments
  BY <1>5, AppendLineSteps, OtherCallsSteps DEF ContinueCall
<1>6. ASSUME Finish
      PROVE  MemoryStep /\ KeepsSegments
  BY <1>6, HandOverSteps DEF Finish, Ready
<1>7. ASSUME DropBuilder
      PROVE  MemoryStep /\ KeepsSegments
  BY <1>7, DestroySteps DEF DropBuilder
<1>8. ASSUME DropTrajectory
      PROVE  MemoryStep /\ KeepsSegments
  BY <1>8, DropTrajectorySteps
<1>9. ASSUME UNCHANGED useVars
      PROVE  MemoryStep /\ KeepsSegments
  <2>1. UNCHANGED <<heap, builder, trajectory, calls>>
    BY <1>9 DEF useVars
  <2>2. calls' \in Seq(CallRecord) /\ (calls' # << >> => BuilderLives)
    BY <2>1 DEF BuilderInv, UseTypeOK
  <2>3. calls # << >> => builder.buffer.contents \in Seq(Byte)
    BY DEF BuilderInv, UseTypeOK, BufferRecord
  <2>4. KeepsSegments
    BY <2>1, <2>3, SubSeqFull DEF KeepsSegments, Size
  <2>5. QED
    BY <2>1, <2>2, <2>4, MemoryUnchanged DEF MemoryStep
<1>10. QED
  BY <1>1, <1>2, <1>3, <1>4, <1>5, <1>6, <1>7, <1>8, <1>9 DEF Next

(* The builder and its trajectory hold blocks of the heap that are large   *)
(* enough for their bytes, whatever is drawn and whichever allocation      *)
(* fails.                                                                  *)
THEOREM BuilderSafe == Spec => []BuilderInv
<1>1. BuilderInv /\ [Next]_useVars => BuilderInv'
  BY EveryStep DEF MemoryStep
<1>2. Init => BuilderInv
  BY InvHolds DEF Init
<1>3. QED
  BY <1>1, <1>2, PTL DEF Spec

(* A trajectory never shares its bytes with the builder it came from.      *)
THEOREM OneOwner == Spec => []BytesHaveOneOwner
<1>1. BuilderInv => BytesHaveOneOwner
  BY DEF BuilderInv
<1>2. QED
  BY BuilderSafe, <1>1, PTL

(* No sequence of calls leaves a block that nobody owns, but for the one   *)
(* that a growing builder forgets when the allocator has no memory.        *)
THEOREM NothingElseLeaks == Spec => LeaksOnlyWithoutMemory
<1>1. BuilderInv /\ [Next]_useVars
        => [heap' \ OwnedBlocks' # heap \ OwnedBlocks => result' = "ENOMEM"]_useVars
  BY EveryStep DEF MemoryStep
<1>2. QED
  BY BuilderSafe, <1>1, PTL DEF Spec, LeaksOnlyWithoutMemory

(* A segment that is split, is out of range or finds no memory leaves the  *)
(* segments before it as they were, in every call of a nested call.        *)
THEOREM WrittenStays == Spec => SegmentsAreKept
<1>1. BuilderInv /\ [Next]_useVars
        => [calls # << >> /\ BuilderLives'
              => SubSeq(builder'.buffer.contents, 1, Size(builder.buffer))
                   = builder.buffer.contents]_useVars
  BY EveryStep DEF KeepsSegments
<1>2. QED
  BY BuilderSafe, <1>1, PTL DEF Spec, SegmentsAreKept

---------------------------------------------------------------------------
(* What is written, read back: the bytes at an offset.                     *)

(* The bytes of s from an offset on.                                       *)
HasAt(bytes, offset, s) ==
  /\ offset + Len(s) <= Len(bytes)
  /\ \A i \in 1 .. Len(s) : bytes[offset + i] = s[i]

(* Two sequences of bytes, one after the other, byte by byte.              *)
LEMMA ConcatElements ==
  ASSUME NEW s \in Seq(Byte), NEW t \in Seq(Byte)
  PROVE  /\ s \o t \in Seq(Byte) /\ Len(s \o t) = Len(s) + Len(t)
         /\ Len(s) \in Nat /\ Len(t) \in Nat
         /\ \A i \in 1 .. Len(s) : (s \o t)[i] = s[i]
         /\ \A i \in 1 .. Len(t) : (s \o t)[Len(s) + i] = t[i]
<1>1. /\ s \o t \in Seq(Byte) /\ Len(s \o t) = Len(s) + Len(t)
      /\ Len(s) \in Nat /\ Len(t) \in Nat
      /\ \A i \in 1 .. Len(s) + Len(t) :
           (s \o t)[i] = IF i <= Len(s) THEN s[i] ELSE t[i - Len(s)]
  BY ConcatProperties, LenProperties
<1> DEFINE m == Len(s)
           n == Len(t)
           u == s \o t
<1>2. m \in Nat /\ n \in Nat /\ \A i \in 1 .. m + n : u[i] = IF i <= m THEN s[i] ELSE t[i - m]
  BY <1>1
<1> HIDE DEF m, n, u
<1>3. \A i \in 1 .. m : u[i] = s[i]
  BY <1>2
<1>4. ASSUME NEW i \in 1 .. n PROVE u[m + i] = t[i]
  <2>1. m + i \in 1 .. m + n /\ ~(m + i <= m) /\ (m + i) - m = i
    BY <1>2
  <2>2. QED
    BY <1>2, <2>1
<1>5. QED
  BY <1>1, <1>3, <1>4 DEF m, n, u

(* What is appended is there.                                              *)
LEMMA HasEnd ==
  ASSUME NEW c \in Seq(Byte), NEW s \in Seq(Byte)
  PROVE  HasAt(c \o s, Len(c), s)
  BY ConcatElements DEF HasAt

(* What is there in one piece is there in two.                             *)
LEMMA HasParts ==
  ASSUME NEW bytes, NEW offset \in Nat, NEW s \in Seq(Byte), NEW t \in Seq(Byte),
         Len(bytes) \in Nat, HasAt(bytes, offset, s \o t)
  PROVE  HasAt(bytes, offset, s) /\ HasAt(bytes, offset + Len(s), t)
<1> DEFINE m == Len(s)
           n == Len(t)
           u == s \o t
           l == Len(bytes)
<1>1. /\ m \in Nat /\ n \in Nat /\ l \in Nat /\ Len(u) = m + n
      /\ \A i \in 1 .. m : u[i] = s[i]
      /\ \A i \in 1 .. n : u[m + i] = t[i]
  BY ConcatElements
<1>2. offset + (m + n) <= l /\ \A i \in 1 .. m + n : bytes[offset + i] = u[i]
  BY <1>1 DEF HasAt
<1> HIDE DEF m, n, u, l
<1>3. offset + m <= l /\ (offset + m) + n <= l
  BY <1>1, <1>2
<1>4. ASSUME NEW i \in 1 .. m PROVE bytes[offset + i] = s[i]
  <2>1. i \in 1 .. m + n
    BY <1>1
  <2>2. QED
    BY <1>1, <1>2, <2>1
<1>5. ASSUME NEW i \in 1 .. n PROVE bytes[(offset + m) + i] = t[i]
  <2>1. m + i \in 1 .. m + n /\ offset + (m + i) = (offset + m) + i
    BY <1>1
  <2>2. QED
    BY <1>1, <1>2, <2>1
<1>6. QED
  BY <1>3, <1>4, <1>5 DEF HasAt, m, n, l

(* Two bytes are read as the number they were written for: one that is     *)
(* not negative, a duration for instance, and one that has a sign.         *)
LEMMA Uint16Decodes ==
  ASSUME NEW bytes, NEW offset \in Nat, NEW n \in Nat, n <= 65535,
         HasAt(bytes, offset, WrittenInt16(n))
  PROVE  Uint16At(bytes, offset) = n
<1>1. n % 65536 = n
  BY SMT
<1>2. (n % 256) + 256 * (n \div 256) = n
  OBVIOUS
<1> DEFINE a == n % 256
           b == n \div 256
           s == <<a, b>>
<1>3. WrittenInt16(n) = s
  BY <1>1, SMT DEF WrittenInt16
<1>4. Len(s) = 2 /\ s[1] = a /\ s[2] = b
  OBVIOUS
<1>5. a + 256 * b = n
  BY <1>2
<1> HIDE DEF a, b, s
<1>6. bytes[offset + 1] = a /\ bytes[offset + 2] = b
  <2>1. \A i \in 1 .. 2 : bytes[offset + i] = s[i]
    BY <1>3, <1>4 DEF HasAt
  <2>2. QED
    BY <1>4, <2>1
<1>7. QED
  BY <1>5, <1>6, SMT DEF Uint16At

(* A coordinate that fits is read as it was written.                       *)
LEMMA Int16Decodes ==
  ASSUME NEW bytes, NEW offset \in Nat, NEW n \in Int, Int16(n),
         HasAt(bytes, offset, WrittenInt16(n))
  PROVE  Int16At(bytes, offset) = n
<1> DEFINE m == IF n < 0 THEN n + 65536 ELSE n
<1>1. m \in Nat /\ m <= 65535 /\ (IF m < 32768 THEN m ELSE m - 65536) = n
  BY SMT DEF Int16
<1>2. m % 256 = n % 256 /\ m % 65536 = n % 65536
  BY SMT
<1>3. WrittenInt16(n) = WrittenInt16(m)
  BY <1>2, SMT DEF WrittenInt16
<1> HIDE DEF m
<1>4. Uint16At(bytes, offset) = m
  BY <1>1, <1>3, Uint16Decodes
<1>5. QED
  BY <1>1, <1>4, SMT DEF Int16At

---------------------------------------------------------------------------
(* Points and flags.                                                       *)

(* What the encoding keeps of a position: the grid point under it.         *)
Kept(scale, position) ==
  [a \in Axes |-> IF a = "yaw" THEN Angle(position[a]) ELSE (position[a] \div scale) * scale]

(* An angle is less than a turn, so that reading it changes nothing.       *)
LEMMA AngleKept ==
  ASSUME NEW yaw \in Int
  PROVE  /\ Angle(yaw) \in Nat /\ Angle(yaw) <= 3599
         /\ Angle(yaw) % 3600 = Angle(yaw)
  BY SMT DEF Angle

(* A coordinate that fits is read as the grid point that was kept.         *)
LEMMA PointDecodes ==
  ASSUME NEW bytes, NEW offset \in Nat, NEW scale \in 1 .. 127, ScaleOf(bytes) = scale,
         NEW p \in [Axes -> Int], NEW a \in Axes, Int16(Encoded(scale, p, a)),
         HasAt(bytes, offset, WrittenInt16(Encoded(scale, p, a)))
  PROVE  ParsePoint(bytes, offset, a) = Kept(scale, p)[a]
<1>1. Int16At(bytes, offset) = Encoded(scale, p, a)
  BY EncodedType, Int16Decodes
<1>2. CASE a = "yaw"
  <2>1. Encoded(scale, p, a) = Angle(p[a]) /\ p[a] \in Int
    BY <1>2 DEF Encoded
  <2>2. ParsePoint(bytes, offset, a) = Angle(p[a]) % 3600
    BY <1>1, <1>2, <2>1 DEF ParsePoint, ParseAngle
  <2>3. Kept(scale, p)[a] = Angle(p[a])
    BY <1>2 DEF Kept
  <2>4. QED
    BY <2>1, <2>2, <2>3, AngleKept
<1>3. CASE a # "yaw"
  <2>1. Encoded(scale, p, a) = p[a] \div scale
    BY <1>3 DEF Encoded
  <2>2. ParsePoint(bytes, offset, a) = Encoded(scale, p, a) * scale
    BY <1>1, <1>3 DEF ParsePoint, ParseCoordinate
  <2>3. Kept(scale, p)[a] = (p[a] \div scale) * scale
    BY <1>3 DEF Kept
  <2>4. QED
    BY <2>1, <2>2, <2>3
<1>4. QED
  BY <1>2, <1>3

(* The points that a segment adds on an axis.                              *)
Count(axes, a) == IF a \in axes THEN 1 ELSE 0

(* Two bits for each axis do not mix.                                      *)
LEMMA BitsAdd ==
  ASSUME NEW i \in 0 .. 1, NEW j \in 0 .. 1, NEW k \in 0 .. 1, NEW l \in 0 .. 1
  PROVE  LET n == i + 4 * j + 16 * k + 64 * l IN
         /\ n % 4 = i /\ (n \div 4) % 4 = j /\ (n \div 16) % 4 = k /\ (n \div 64) % 4 = l
  BY SMT

(* The flags are read as the axes they were written for: one point each.   *)
LEMMA FlagsDecode ==
  ASSUME NEW axes
  PROVE  PointsOf(FlagsOf(axes)) =
           <<Count(axes, "x"), Count(axes, "y"), Count(axes, "z"), Count(axes, "yaw")>>
<1> DEFINE i == Count(axes, "x")
           j == Count(axes, "y")
           k == Count(axes, "z")
           l == Count(axes, "yaw")
           n == FlagsOf(axes)
<1>1. n = i + 4 * j + 16 * k + 64 * l
  BY SMT DEF FlagsOf, Flag, Count
<1>2. i \in 0 .. 1 /\ j \in 0 .. 1 /\ k \in 0 .. 1 /\ l \in 0 .. 1
  BY DEF Count
<1> HIDE DEF i, j, k, l, n
<1>3. n % 4 = i /\ (n \div 4) % 4 = j /\ (n \div 16) % 4 = k /\ (n \div 64) % 4 = l
  BY <1>1, <1>2, BitsAdd
<1>4. \A m \in 0 .. 1 : PointsAdded[m + 1] = m
  BY DEF PointsAdded
<1>5. Added(n) = i /\ Added(n \div 4) = j /\ Added(n \div 16) = k /\ Added(n \div 64) = l
  BY <1>2, <1>3, <1>4 DEF Added
<1>6. QED
  BY <1>5 DEF PointsOf, i, j, k, l, n

---------------------------------------------------------------------------
(* The coordinates of a point.                                             *)

(* Four parts, one after the other.                                        *)
LEMMA FourParts ==
  ASSUME NEW bytes \in Seq(Byte), NEW offset \in Nat,
         NEW p \in Seq(Byte), NEW q \in Seq(Byte), NEW r \in Seq(Byte), NEW s \in Seq(Byte),
         HasAt(bytes, offset, p \o q \o r \o s)
  PROVE  /\ Len(p \o q \o r \o s) = Len(p) + Len(q) + Len(r) + Len(s)
         /\ HasAt(bytes, offset, p) /\ HasAt(bytes, offset + Len(p), q)
         /\ HasAt(bytes, offset + (Len(p) + Len(q)), r)
         /\ HasAt(bytes, offset + (Len(p) + Len(q) + Len(r)), s)
<1>1. p \o q \in Seq(Byte) /\ Len(p \o q) = Len(p) + Len(q)
  BY ConcatType
<1>2. p \o q \o r \in Seq(Byte) /\ Len(p \o q \o r) = Len(p) + Len(q) + Len(r)
  BY <1>1, ConcatType
<1>3. Len(p \o q \o r \o s) = Len(p) + Len(q) + Len(r) + Len(s)
  BY <1>2, ConcatType
<1>4. Len(bytes) \in Nat
  BY LenProperties
<1>5. /\ HasAt(bytes, offset, p \o q \o r)
      /\ HasAt(bytes, offset + (Len(p) + Len(q) + Len(r)), s)
  BY <1>2, <1>4, HasParts
<1>6. HasAt(bytes, offset, p \o q) /\ HasAt(bytes, offset + (Len(p) + Len(q)), r)
  BY <1>1, <1>4, <1>5, HasParts
<1>7. HasAt(bytes, offset, p) /\ HasAt(bytes, offset + Len(p), q)
  BY <1>4, <1>6, HasParts
<1>8. QED
  BY <1>3, <1>5, <1>6, <1>7

(* One coordinate for each bit of the flags, one after the other.          *)
WrittenAt(bytes, offset, scale, p, axes) ==
  LET At(a, o) == a \in axes => HasAt(bytes, o, WrittenInt16(Encoded(scale, p, a)))
      i == Count(axes, "x")
      j == Count(axes, "y")
      k == Count(axes, "z")
  IN  /\ Len(Written(scale, p, axes)) = 2 * (i + j + k + Count(axes, "yaw"))
      /\ At("x", offset)
      /\ At("y", offset + 2 * i)
      /\ At("z", offset + 2 * (i + j))
      /\ At("yaw", offset + 2 * (i + j + k))

(* The coordinates that are written are where the flags make the reader    *)
(* look for them.                                                          *)
LEMMA WrittenDecodes ==
  ASSUME NEW bytes \in Seq(Byte), NEW offset \in Nat, NEW scale \in 1 .. 127,
         NEW p \in [Axes -> Int], NEW axes, HasAt(bytes, offset, Written(scale, p, axes))
  PROVE  WrittenAt(bytes, offset, scale, p, axes)
<1> DEFINE Part(a) == IF a \in axes THEN WrittenInt16(Encoded(scale, p, a)) ELSE << >>
           i == Count(axes, "x")
           j == Count(axes, "y")
           k == Count(axes, "z")
           l == Count(axes, "yaw")
<1>1. ASSUME NEW a \in Axes
      PROVE  Part(a) \in Seq(Byte) /\ Len(Part(a)) = 2 * Count(axes, a)
  <2>1. Encoded(scale, p, a) \in Int
    BY EncodedType
  <2>2. /\ WrittenInt16(Encoded(scale, p, a)) \in Seq(Byte)
        /\ Len(WrittenInt16(Encoded(scale, p, a))) = 2
    BY <2>1, WrittenInt16Type
  <2>3. << >> \in Seq(Byte) /\ Len(<< >>) = 0
    BY EmptySeq
  <2>4. CASE a \in axes
    BY <2>2, <2>4 DEF Count
  <2>5. CASE a \notin axes
    BY <2>3, <2>5 DEF Count
  <2>6. QED
    BY <2>4, <2>5
<1>2. Written(scale, p, axes) = Part("x") \o Part("y") \o Part("z") \o Part("yaw")
  BY DEF Written
<1>3. /\ "x" \in axes => Part("x") = WrittenInt16(Encoded(scale, p, "x"))
      /\ "y" \in axes => Part("y") = WrittenInt16(Encoded(scale, p, "y"))
      /\ "z" \in axes => Part("z") = WrittenInt16(Encoded(scale, p, "z"))
      /\ "yaw" \in axes => Part("yaw") = WrittenInt16(Encoded(scale, p, "yaw"))
  OBVIOUS
<1>4. /\ Part("x") \in Seq(Byte) /\ Len(Part("x")) = 2 * i
      /\ Part("y") \in Seq(Byte) /\ Len(Part("y")) = 2 * j
      /\ Part("z") \in Seq(Byte) /\ Len(Part("z")) = 2 * k
      /\ Part("yaw") \in Seq(Byte) /\ Len(Part("yaw")) = 2 * l
  BY <1>1 DEF Axes
<1>5. i \in Nat /\ j \in Nat /\ k \in Nat /\ l \in Nat
  BY DEF Count
<1> HIDE DEF Part, i, j, k, l
<1> DEFINE px == Part("x")
           py == Part("y")
           pz == Part("z")
           pw == Part("yaw")
<1>6. /\ px \in Seq(Byte) /\ Len(px) = 2 * i /\ py \in Seq(Byte) /\ Len(py) = 2 * j
      /\ pz \in Seq(Byte) /\ Len(pz) = 2 * k /\ pw \in Seq(Byte) /\ Len(pw) = 2 * l
  BY <1>4
<1>7. Written(scale, p, axes) = px \o py \o pz \o pw
  BY <1>2
<1> HIDE DEF px, py, pz, pw
<1>8. HasAt(bytes, offset, px \o py \o pz \o pw)
  BY <1>7
<1>9. /\ Len(px \o py \o pz \o pw) = 2 * (i + j + k + l)
      /\ HasAt(bytes, offset, px) /\ HasAt(bytes, offset + 2 * i, py)
      /\ HasAt(bytes, offset + 2 * (i + j), pz) /\ HasAt(bytes, offset + 2 * (i + j + k), pw)
  <2>1. /\ Len(px \o py \o pz \o pw) = Len(px) + Len(py) + Len(pz) + Len(pw)
        /\ HasAt(bytes, offset, px) /\ HasAt(bytes, offset + Len(px), py)
        /\ HasAt(bytes, offset + (Len(px) + Len(py)), pz)
        /\ HasAt(bytes, offset + (Len(px) + Len(py) + Len(pz)), pw)
    BY <1>6, <1>8, FourParts
  <2>2. /\ 2 * i + 2 * j = 2 * (i + j) /\ 2 * i + 2 * j + 2 * k = 2 * (i + j + k)
        /\ 2 * i + 2 * j + 2 * k + 2 * l = 2 * (i + j + k + l)
    BY <1>5
  <2>3. QED
    BY <1>6, <2>1, <2>2
<1>10. /\ Len(Written(scale, p, axes)) = 2 * (i + j + k + l)
       /\ "x" \in axes => HasAt(bytes, offset, WrittenInt16(Encoded(scale, p, "x")))
       /\ "y" \in axes => HasAt(bytes, offset + 2 * i, WrittenInt16(Encoded(scale, p, "y")))
       /\ "z" \in axes => HasAt(bytes, offset + 2 * (i + j), WrittenInt16(Encoded(scale, p, "z")))
       /\ "yaw" \in axes
            => HasAt(bytes, offset + 2 * (i + j + k), WrittenInt16(Encoded(scale, p, "yaw")))
  BY <1>3, <1>7, <1>9, Zenon DEF px, py, pz, pw
<1>11. QED
  BY <1>10, Zenon DEF WrittenAt, i, j, k, l

(* The last control point of a curve with at most one point of its own.    *)
LEMMA CurveEnd ==
  ASSUME NEW v, NEW n \in 0 .. 1, NEW g, NEW c, c = <<v>> \o [k \in 1 .. n |-> g[k]]
  PROVE  c[Len(c)] = IF n = 0 THEN v ELSE g[1]
<1> DEFINE S == {v, g[1]}
           t == [k \in 1 .. n |-> g[k]]
<1>1. CASE n = 0
  <2>1. t = << >>
    BY <1>1
  <2>2. <<v>> \in Seq(S) /\ << >> \in Seq(S)
    OBVIOUS
  <2>3. c = <<v>>
    BY <2>1, <2>2, ConcatEmptySeq
  <2>4. QED
    BY <1>1, <2>3
<1>2. CASE n = 1
  <2>1. t = <<g[1]>>
    BY <1>2
  <2> DEFINE w == g[1]
  <2>2. c = <<v>> \o <<w>>
    BY <2>1
  <2> HIDE DEF w
  <2>3. <<v>> \in Seq({v, w}) /\ <<w>> \in Seq({v, w})
    OBVIOUS
  <2>4. Len(c) = 2 /\ c[2] = w
    BY <2>2, <2>3, ConcatProperties
  <2>5. QED
    BY <1>2, <2>4 DEF w
<1>3. QED
  BY <1>1, <1>2

(* Where a segment that changes some axes by one point each ends.          *)
EndWith(bytes, offset, axes, start) ==
  LET o == offset + 3
      i == Count(axes, "x")
      j == Count(axes, "y")
      k == Count(axes, "z")
      Last(a, b) == IF Count(axes, a) = 0 THEN start[a] ELSE ParsePoint(bytes, b, a)
  IN  [x |-> Last("x", o), y |-> Last("y", o + 2 * i), z |-> Last("z", o + 2 * (i + j)),
       yaw |-> Last("yaw", o + 2 * (i + j + k))]

(* A segment ends at the points that are read.                             *)
LEMMA EndDecodes ==
  ASSUME NEW bytes, NEW offset \in Nat, NEW start, NEW axes,
         bytes[offset + 1] = FlagsOf(axes)
  PROVE  EndOf(SegmentAt(bytes, offset, start)) = EndWith(bytes, offset, axes, start)
<1> DEFINE i == Count(axes, "x")
           j == Count(axes, "y")
           k == Count(axes, "z")
           l == Count(axes, "yaw")
<1>1. i \in 0 .. 1 /\ j \in 0 .. 1 /\ k \in 0 .. 1 /\ l \in 0 .. 1
  BY DEF Count
<1>2. PointsOf(bytes[offset + 1]) = <<i, j, k, l>>
  BY FlagsDecode
<1> HIDE DEF i, j, k, l
<1> DEFINE f(b, a) == [m \in 1 .. 1 |-> ParsePoint(bytes, offset + 3 + 2 * (b + m - 1), a)]
           c(n, b, a) == <<start[a]>> \o
             [m \in 1 .. n |-> ParsePoint(bytes, offset + 3 + 2 * (b + m - 1), a)]
           last(n, b, a) == IF n = 0 THEN start[a] ELSE ParsePoint(bytes, offset + 3 + 2 * b, a)
           s == SegmentAt(bytes, offset, start)
<1>3. ASSUME NEW n \in 0 .. 1, NEW b \in Nat, NEW a
      PROVE  c(n, b, a)[Len(c(n, b, a))] = last(n, b, a)
  <2>1. [m \in 1 .. n |-> ParsePoint(bytes, offset + 3 + 2 * (b + m - 1), a)]
          = [m \in 1 .. n |-> f(b, a)[m]]
    BY SMT
  <2>2. f(b, a)[1] = ParsePoint(bytes, offset + 3 + 2 * b, a)
    <3>1. b + 1 - 1 = b
      OBVIOUS
    <3>2. f(b, a)[1] = ParsePoint(bytes, offset + 3 + 2 * (b + 1 - 1), a)
      OBVIOUS
    <3>3. QED
      BY <3>1, <3>2
  <2> DEFINE g == f(b, a)
             d == c(n, b, a)
             v == start[a]
  <2>3. d = <<v>> \o [m \in 1 .. n |-> g[m]]
    BY <2>1
  <2> HIDE DEF g, d, v
  <2>4. d[Len(d)] = IF n = 0 THEN v ELSE g[1]
    BY <2>3, CurveEnd
  <2>5. QED
    BY <2>2, <2>4 DEF g, d, v
<1>4. s.curve = [x |-> c(i, 0, "x"), y |-> c(j, i, "y"), z |-> c(k, i + j, "z"),
                 yaw |-> c(l, i + j + k, "yaw")]
  <2> DEFINE r == [duration |-> Uint16At(bytes, offset + 1), length |-> 3 + 2 * (i + j + k + l),
                   curve |-> [x |-> c(i, 0, "x"), y |-> c(j, i, "y"), z |-> c(k, i + j, "z"),
                              yaw |-> c(l, i + j + k, "yaw")]]
  <2>1. s = r
    BY <1>2 DEF SegmentAt, AxisNames
  <2> HIDE DEF s, c
  <2>2. QED
    BY <2>1
<1> HIDE DEF s, c
<1>5. EndOf(s) = [x |-> c(i, 0, "x")[Len(c(i, 0, "x"))],
                  y |-> c(j, i, "y")[Len(c(j, i, "y"))],
                  z |-> c(k, i + j, "z")[Len(c(k, i + j, "z"))],
                  yaw |-> c(l, i + j + k, "yaw")[Len(c(l, i + j + k, "yaw"))]]
  BY <1>4 DEF EndOf
<1>6. 0 \in Nat /\ i \in Nat /\ i + j \in Nat /\ i + j + k \in Nat
  BY <1>1
<1> HIDE DEF last
<1>7. EndOf(s) = [x |-> last(i, 0, "x"), y |-> last(j, i, "y"), z |-> last(k, i + j, "z"),
                  yaw |-> last(l, i + j + k, "yaw")]
  BY <1>1, <1>3, <1>5, <1>6
<1>8. offset + 3 + 2 * 0 = offset + 3
  OBVIOUS
<1>9. last(i, 0, "x") = IF i = 0 THEN start["x"] ELSE ParsePoint(bytes, offset + 3, "x")
  BY <1>8 DEF last
<1>10. QED
  BY <1>7, <1>9 DEF EndWith, last, s, i, j, k, l

---------------------------------------------------------------------------
(* A segment.                                                              *)

(* The bytes of a segment to a point that changes some axes.               *)
SegmentOf(scale, p, axes, duration) ==
  <<FlagsOf(axes)>> \o WrittenInt16(duration) \o Written(scale, p, axes)

(* Where the parts of a segment are.                                       *)
LEMMA SegmentParts ==
  ASSUME NEW bytes \in Seq(Byte), NEW offset \in Nat, NEW scale \in 1 .. 127,
         NEW p \in [Axes -> Int], NEW axes, NEW duration \in Nat,
         HasAt(bytes, offset, SegmentOf(scale, p, axes, duration))
  PROVE  /\ bytes[offset + 1] = FlagsOf(axes)
         /\ HasAt(bytes, offset + 1, WrittenInt16(duration))
         /\ HasAt(bytes, offset + 3, Written(scale, p, axes))
<1> DEFINE f == <<FlagsOf(axes)>>
           d == WrittenInt16(duration)
           w == Written(scale, p, axes)
<1>1. f \in Seq(Byte) /\ Len(f) = 1 /\ f[1] = FlagsOf(axes)
  BY FlagsType
<1>2. d \in Seq(Byte) /\ Len(d) = 2
  BY WrittenInt16Type
<1>3. w \in Seq(Byte)
  BY WrittenType
<1>4. HasAt(bytes, offset, f \o d \o w) /\ Len(bytes) \in Nat
  BY LenProperties DEF SegmentOf
<1> HIDE DEF f, d, w
<1>5. f \o d \in Seq(Byte) /\ Len(f \o d) = 3
  <2>1. f \o d \in Seq(Byte) /\ Len(f \o d) = Len(f) + Len(d)
    BY <1>1, <1>2, ConcatType
  <2>2. QED
    BY <1>1, <1>2, <2>1
<1>7. HasAt(bytes, offset, f \o d) /\ HasAt(bytes, offset + 3, w)
  BY <1>3, <1>4, <1>5, HasParts
<1>8. HasAt(bytes, offset, f) /\ HasAt(bytes, offset + 1, d)
  BY <1>1, <1>2, <1>4, <1>7, HasParts
<1>9. bytes[offset + 1] = f[1]
  BY <1>1, <1>8 DEF HasAt
<1>10. QED
  BY <1>1, <1>7, <1>8, <1>9 DEF f, d, w, SegmentOf

(* How long a segment is.                                                  *)
LEMMA SegmentLen ==
  ASSUME NEW scale \in 1 .. 127, NEW p \in [Axes -> Int], NEW axes, NEW duration \in Nat
  PROVE  /\ SegmentOf(scale, p, axes, duration) \in Seq(Byte)
         /\ Len(SegmentOf(scale, p, axes, duration)) = Len(Written(scale, p, axes)) + 3
<1> DEFINE f == <<FlagsOf(axes)>>
           d == WrittenInt16(duration)
           w == Written(scale, p, axes)
<1>1. f \in Seq(Byte) /\ Len(f) = 1
  BY FlagsType
<1>2. d \in Seq(Byte) /\ Len(d) = 2
  BY WrittenInt16Type
<1>3. w \in Seq(Byte) /\ Len(w) \in Nat
  BY WrittenType, LenProperties
<1> HIDE DEF f, d, w
<1>4. f \o d \in Seq(Byte) /\ Len(f \o d) = Len(f) + Len(d)
  BY <1>1, <1>2, ConcatType
<1>5. f \o d \o w \in Seq(Byte) /\ Len(f \o d \o w) = Len(f \o d) + Len(w)
  BY <1>3, <1>4, ConcatType
<1>6. Len(f \o d \o w) = Len(w) + 3
  BY <1>1, <1>2, <1>3, <1>4, <1>5
<1>7. QED
  BY <1>5, <1>6 DEF SegmentOf, f, d, w

(* What is read of a segment: its duration and its length, and that it     *)
(* ends at what the encoding keeps of the point on the axes it has, and    *)
(* where it starts on the others.                                          *)
ReadsSegment(bytes, offset, start, scale, p, axes, duration) ==
  LET s == SegmentAt(bytes, offset, start)
  IN  /\ s.duration = duration
      /\ s.length = Len(SegmentOf(scale, p, axes, duration))
      /\ EndOf(s) = [a \in Axes |-> IF a \in axes THEN Kept(scale, p)[a] ELSE start[a]]

(* A segment whose coordinates fit is read as what was written.            *)
LEMMA SegmentDecodes ==
  ASSUME NEW bytes \in Seq(Byte), NEW offset \in Nat, NEW scale \in 1 .. 127,
         ScaleOf(bytes) = scale, NEW p \in [Axes -> Int], NEW axes \in SUBSET Axes,
         \A a \in axes : Int16(Encoded(scale, p, a)),
         NEW duration \in Nat, duration <= MaxDuration, NEW start,
         HasAt(bytes, offset, SegmentOf(scale, p, axes, duration))
  PROVE  ReadsSegment(bytes, offset, start, scale, p, axes, duration)
<1> DEFINE s == SegmentAt(bytes, offset, start)
           i == Count(axes, "x")
           j == Count(axes, "y")
           k == Count(axes, "z")
           l == Count(axes, "yaw")
           o == offset + 3
           At(a, b) == a \in axes => HasAt(bytes, b, WrittenInt16(Encoded(scale, p, a)))
           Last(a, b) == IF Count(axes, a) = 0 THEN start[a] ELSE ParsePoint(bytes, b, a)
           end(a) == IF a \in axes THEN Kept(scale, p)[a] ELSE start[a]
<1>1. /\ bytes[offset + 1] = FlagsOf(axes)
      /\ HasAt(bytes, offset + 1, WrittenInt16(duration))
      /\ HasAt(bytes, offset + 3, Written(scale, p, axes))
      /\ Len(SegmentOf(scale, p, axes, duration)) = Len(Written(scale, p, axes)) + 3
  <2> HIDE DEF s, i, j, k, l, o, At, Last, end
  <2>1. bytes[offset + 1] = FlagsOf(axes)
    BY SegmentParts
  <2>2. HasAt(bytes, offset + 1, WrittenInt16(duration))
    BY SegmentParts
  <2>3. HasAt(bytes, offset + 3, Written(scale, p, axes))
    BY SegmentParts
  <2>4. Len(SegmentOf(scale, p, axes, duration)) = Len(Written(scale, p, axes)) + 3
    BY SegmentLen, Zenon
  <2>5. QED
    BY <2>1, <2>2, <2>3, <2>4
<1>2. /\ i \in 0 .. 1 /\ j \in 0 .. 1 /\ k \in 0 .. 1 /\ l \in 0 .. 1 /\ o \in Nat
      /\ offset + 1 \in Nat
  BY DEF Count
<1>3. PointsOf(bytes[offset + 1]) = <<i, j, k, l>>
  BY <1>1, FlagsDecode
<1>4. /\ Len(Written(scale, p, axes)) = 2 * (i + j + k + l)
      /\ At("x", o) /\ At("y", o + 2 * i) /\ At("z", o + 2 * (i + j))
      /\ At("yaw", o + 2 * (i + j + k))
  <2>1. HasAt(bytes, o, Written(scale, p, axes)) /\ o \in Nat
    BY <1>1, <1>2
  <2> HIDE DEF o
  <2>2. WrittenAt(bytes, o, scale, p, axes)
    BY <2>1, WrittenDecodes
  <2>3. QED
    BY <2>2, Zenon DEF WrittenAt
<1>5. s.duration = duration
  <2>1. s.duration = Uint16At(bytes, offset + 1)
    BY DEF SegmentAt
  <2>2. QED
    <3>1. duration <= 65535
      BY BuilderAssumption, SMT
    <3> HIDE DEF s
    <3>2. QED
      BY <1>1, <1>2, <2>1, <3>1, Uint16Decodes, SMT
<1>6. s.length = Len(SegmentOf(scale, p, axes, duration))
  <2>1. s.length = 3 + 2 * (0 + i + j + k + l)
    BY <1>2, <1>3 DEF SegmentAt
  <2>2. QED
    BY <1>1, <1>2, <1>4, <2>1
<1>7. EndOf(s) = [x |-> Last("x", o), y |-> Last("y", o + 2 * i), z |-> Last("z", o + 2 * (i + j)),
                  yaw |-> Last("yaw", o + 2 * (i + j + k))]
  <2>1. EndOf(s) = EndWith(bytes, offset, axes, start)
    BY <1>1, EndDecodes
  <2>2. QED
    BY <2>1, Zenon DEF EndWith
<1>8. ASSUME NEW a \in Axes, NEW b \in Nat, At(a, b) PROVE Last(a, b) = end(a)
  <2>1. CASE a \in axes
    <3>1. ParsePoint(bytes, b, a) = Kept(scale, p)[a]
      BY <1>8, <2>1, PointDecodes
    <3>2. QED
      BY <2>1, <3>1 DEF Count
  <2>2. CASE a \notin axes
    BY <2>2 DEF Count
  <2>3. QED
    BY <2>1, <2>2
<1> HIDE DEF s, i, j, k, l, o, At, Last, end
<1>9. /\ o + 2 * i \in Nat /\ o + 2 * (i + j) \in Nat /\ o + 2 * (i + j + k) \in Nat
      /\ "x" \in Axes /\ "y" \in Axes /\ "z" \in Axes /\ "yaw" \in Axes
  BY <1>2 DEF Axes
<1>10. EndOf(s) = [x |-> end("x"), y |-> end("y"), z |-> end("z"), yaw |-> end("yaw")]
  BY <1>2, <1>4, <1>7, <1>8, <1>9
<1>11. [x |-> end("x"), y |-> end("y"), z |-> end("z"), yaw |-> end("yaw")]
         = [a \in Axes |-> end(a)]
  BY DEF Axes
<1>12. EndOf(s) = [a \in Axes |-> end(a)]
  BY <1>10, <1>11
<1>13. QED
  BY <1>5, <1>6, <1>12 DEF s, end, ReadsSegment

---------------------------------------------------------------------------
(* What follows a segment leaves it as it is.                              *)

(* Whatever the flags are, an axis has a number of points.                 *)
LEMMA PointsTypes ==
  ASSUME NEW code \in Byte
  PROVE  \E i, j, k, l \in Nat : PointsOf(code) = <<i, j, k, l>>
<1>1. \A m \in 0 .. 3 : PointsAdded[m + 1] \in Nat
  BY DEF PointsAdded
<1>2. \A m \in Nat : m % 4 \in 0 .. 3 /\ m \div 4 \in Nat /\ m \div 16 \in Nat /\ m \div 64 \in Nat
  OBVIOUS
<1>3. \A m \in Nat : Added(m) \in Nat
  BY <1>1, <1>2 DEF Added
<1>4. code \in Nat
  BY BuilderAssumption
<1>5. /\ Added(code) \in Nat /\ Added(code \div 4) \in Nat
      /\ Added(code \div 16) \in Nat /\ Added(code \div 64) \in Nat
  BY <1>2, <1>3, <1>4
<1>6. QED
  BY <1>5, Zenon DEF PointsOf

(* A point is read the same when more bytes follow.                        *)
LEMMA PointStays ==
  ASSUME NEW c \in Seq(Byte), NEW d, \A i \in 1 .. Len(c) : d[i] = c[i],
         NEW o \in Nat, o + 2 <= Len(c), NEW a
  PROVE  /\ ParsePoint(d, o, a) = ParsePoint(c, o, a)
         /\ Uint16At(d, o) = Uint16At(c, o)
<1>1. Len(c) \in Nat
  BY LenProperties
<1>2. 1 \in 1 .. Len(c) /\ o + 1 \in 1 .. Len(c) /\ o + 2 \in 1 .. Len(c)
  BY <1>1
<1>3. d[1] = c[1] /\ d[o + 1] = c[o + 1] /\ d[o + 2] = c[o + 2]
  BY <1>2
<1>4. Uint16At(d, o) = Uint16At(c, o)
  BY <1>3, Zenon DEF Uint16At
<1>5. ScaleOf(d) = ScaleOf(c) /\ Int16At(d, o) = Int16At(c, o)
  BY <1>3, <1>4, SMT DEF ScaleOf, Int16At
<1>6. QED
  BY <1>4, <1>5, SMT DEF ParsePoint, ParseAngle, ParseCoordinate

(* A segment has at least its flags and its duration.                      *)
LEMMA LengthType ==
  ASSUME NEW c, NEW o, c[o + 1] \in Byte, NEW start
  PROVE  SegmentAt(c, o, start).length \in Nat /\ SegmentAt(c, o, start).length >= 3
<1>1. PICK i, j, k, l \in Nat : PointsOf(c[o + 1]) = <<i, j, k, l>>
  BY PointsTypes
<1>2. SegmentAt(c, o, start).length = 3 + 2 * (i + j + k + l)
  BY <1>1 DEF SegmentAt
<1>3. QED
  BY <1>2

(* The points of an axis, when more bytes follow.                          *)
PointsRead(bytes, o, b, n, a) == [m \in 1 .. n |-> ParsePoint(bytes, o + 3 + 2 * (b + m - 1), a)]

(* A curve is read the same when more bytes follow.                        *)
LEMMA CurveStays ==
  ASSUME NEW c \in Seq(Byte), NEW d, \A i \in 1 .. Len(c) : d[i] = c[i],
         NEW o \in Nat, NEW b \in Nat, NEW n \in Nat, o + 3 + 2 * (b + n) <= Len(c), NEW a
  PROVE  PointsRead(d, o, b, n, a) = PointsRead(c, o, b, n, a)
<1>1. Len(c) \in Nat
  BY LenProperties
<1>2. ASSUME NEW m \in 1 .. n
      PROVE  ParsePoint(d, o + 3 + 2 * (b + m - 1), a) = ParsePoint(c, o + 3 + 2 * (b + m - 1), a)
  <2> DEFINE p == o + 3 + 2 * (b + m - 1)
  <2>1. p \in Nat /\ p + 2 <= Len(c)
    BY <1>1
  <2> HIDE DEF p
  <2>2. ParsePoint(d, p, a) = ParsePoint(c, p, a)
    BY <2>1, PointStays
  <2>3. QED
    BY <2>2 DEF p
<1>3. QED
  BY <1>2, Zenon DEF PointsRead

(* A segment is read the same when more bytes follow.                      *)
LEMMA SegmentStays ==
  ASSUME NEW c \in Seq(Byte), NEW d, \A i \in 1 .. Len(c) : d[i] = c[i],
         NEW o \in Nat, NEW start, o < Len(c), o + SegmentAt(c, o, start).length <= Len(c)
  PROVE  SegmentAt(d, o, start) = SegmentAt(c, o, start)
<1>1. Len(c) \in Nat
  BY LenProperties
<1>2. c[o + 1] \in Byte /\ d[o + 1] = c[o + 1]
  <2>1. o + 1 \in 1 .. Len(c)
    BY <1>1
  <2>2. QED
    BY <2>1, ElementOfSeq
<1>3. PICK i, j, k, l \in Nat : PointsOf(c[o + 1]) = <<i, j, k, l>>
  BY <1>2, PointsTypes
<1>4. SegmentAt(c, o, start).length = 3 + 2 * (i + j + k + l)
  BY <1>3 DEF SegmentAt
<1>5. o + (3 + 2 * (i + j + k + l)) <= Len(c)
  BY <1>4
<1> DEFINE g(e, n, b, a) == PointsRead(e, o, b, n, a)
           seg(e) == [duration |-> Uint16At(e, o + 1), length |-> 3 + 2 * (i + j + k + l),
                      curve |-> [x |-> <<start["x"]>> \o g(e, i, 0, "x"),
                                 y |-> <<start["y"]>> \o g(e, j, i, "y"),
                                 z |-> <<start["z"]>> \o g(e, k, i + j, "z"),
                                 yaw |-> <<start["yaw"]>> \o g(e, l, i + j + k, "yaw")]]
<1>6. SegmentAt(c, o, start) = seg(c)
  BY <1>3 DEF SegmentAt, AxisNames, PointsRead
<1>7. SegmentAt(d, o, start) = seg(d)
  BY <1>2, <1>3 DEF SegmentAt, AxisNames, PointsRead
<1>8. Uint16At(d, o + 1) = Uint16At(c, o + 1)
  <2>1. o + 1 \in Nat /\ (o + 1) + 2 <= Len(c)
    BY <1>1, <1>5
  <2>2. QED
    BY <2>1, PointStays
<1>9. /\ o + 3 + 2 * (0 + i) <= Len(c) /\ o + 3 + 2 * (i + j) <= Len(c)
      /\ o + 3 + 2 * ((i + j) + k) <= Len(c) /\ o + 3 + 2 * ((i + j + k) + l) <= Len(c)
      /\ i + j \in Nat /\ i + j + k \in Nat
  BY <1>1, <1>5
<1>10. /\ g(d, i, 0, "x") = g(c, i, 0, "x") /\ g(d, j, i, "y") = g(c, j, i, "y")
       /\ g(d, k, i + j, "z") = g(c, k, i + j, "z")
       /\ g(d, l, i + j + k, "yaw") = g(c, l, i + j + k, "yaw")
  BY <1>9, CurveStays
<1> HIDE DEF g
<1>11. QED
  BY <1>6, <1>7, <1>8, <1>10

---------------------------------------------------------------------------
(* The way through the bytes of a trajectory.                              *)

(* Induction over a set of numbers.                                        *)
LEMMA CountingInduction ==
  ASSUME NEW S, 0 \in S, \A n \in Nat : n \in S => n + 1 \in S
  PROVE  \A n \in Nat : n \in S
<1> DEFINE R == OpToRel(<, Nat)
           T == Nat \ S
<1>1. IsWellFoundedOn(R, Nat)
  BY NatLessThanWellFounded, Zenon
<1>2. SUFFICES ASSUME T # {} PROVE FALSE
  OBVIOUS
<1>3. \A x, y \in Nat : <<x, y>> \in R <=> x < y
  BY DEF OpToRel
<1>4. T \subseteq Nat
  OBVIOUS
<1> HIDE DEF R, T
<1>5. PICK x \in T : \A y \in T : <<y, x>> \notin R
  BY <1>1, <1>2, <1>4, WFMin
<1>6. x \in Nat /\ x # 0 /\ x \notin S
  BY <1>4 DEF T
<1>7. x - 1 \in Nat /\ <<x - 1, x>> \in R
  BY <1>3, <1>6
<1>8. x - 1 \in S
  BY <1>5, <1>7 DEF T
<1>9. QED
  BY <1>6, <1>7, <1>8

(* The way through the bytes of a trajectory: from the header, one segment *)
(* after another, to the end.                                              *)
IsWay(bytes, way) ==
  /\ Len(way) \in Nat /\ Len(way) >= 1 /\ way = [i \in 1 .. Len(way) |-> way[i]]
  /\ way[1] = FirstPoint(bytes)
  /\ \A i \in 1 .. Len(way) : way[i].offset \in Nat
  /\ \A i \in 1 .. Len(way) - 1 :
       way[i].offset < Len(bytes) /\ way[i + 1] = PointAfter(bytes, way[i])
  /\ way[Len(way)].offset = Len(bytes)

(* Its offsets grow by three bytes or more.                                *)
LEMMA WayIsShort ==
  ASSUME NEW bytes \in Seq(Byte), NEW way, IsWay(bytes, way)
  PROVE  Len(way) - 1 <= Len(bytes) \div 3
<1> DEFINE n == Len(way)
           N == Len(bytes)
<1>1. n \in Nat /\ n >= 1 /\ N \in Nat /\ \A i \in 1 .. n : way[i].offset \in Nat
  BY LenProperties DEF IsWay
<1>2. /\ \A i \in 1 .. n - 1 : way[i].offset < N /\ way[i + 1] = PointAfter(bytes, way[i])
      /\ way[n].offset = N
  BY DEF IsWay
<1>3. ASSUME NEW i \in 1 .. n - 1 PROVE way[i + 1].offset >= way[i].offset + 3
  <2> DEFINE o == way[i].offset
             l == SegmentAt(bytes, o, way[i].position).length
  <2>1. o \in Nat /\ o < N /\ way[i + 1] = PointAfter(bytes, way[i])
    BY <1>1, <1>2
  <2>2. bytes[o + 1] \in Byte
    <3>1. o + 1 \in 1 .. Len(bytes)
      BY <1>1, <2>1
    <3> HIDE DEF o
    <3>2. QED
      BY <3>1, ElementOfSeq
  <2>3. way[i + 1].offset = o + l
    BY <2>1 DEF PointAfter
  <2>4. l \in Nat /\ l >= 3
    <3> HIDE DEF o
    <3>1. QED
      BY <2>2, LengthType
  <2> HIDE DEF o, l
  <2>5. way[i + 1].offset >= o + 3
    BY <2>1, <2>3, <2>4
  <2>6. QED
    BY <2>5 DEF o
<1> DEFINE S == {i \in Nat : i + 1 <= n => way[i + 1].offset >= 3 * i}
<1> HIDE DEF n, N
<1>4. 0 \in S
  <2>1. 1 \in 1 .. n
    BY <1>1
  <2>2. QED
    BY <1>1, <2>1
<1>5. ASSUME NEW i \in Nat, i \in S PROVE i + 1 \in S
  <2>1. SUFFICES ASSUME (i + 1) + 1 <= n PROVE way[(i + 1) + 1].offset >= 3 * (i + 1)
    OBVIOUS
  <2>2. i + 1 \in 1 .. n - 1 /\ i + 1 \in 1 .. n /\ (i + 1) + 1 \in 1 .. n
    BY <1>1, <2>1
  <2>3. way[(i + 1) + 1].offset >= way[i + 1].offset + 3
    BY <1>3, <2>2
  <2>4. way[i + 1].offset >= 3 * i
    BY <1>1, <1>5, <2>1
  <2>5. way[i + 1].offset \in Nat /\ way[(i + 1) + 1].offset \in Nat
    BY <1>1, <2>2
  <2>6. QED
    BY <2>3, <2>4, <2>5
<1> HIDE DEF S
<1>6. \A i \in Nat : i \in S
  BY <1>4, <1>5, CountingInduction
<1>7. n - 1 \in Nat /\ n - 1 \in S
  BY <1>1, <1>6
<1>8. N >= 3 * (n - 1)
  <2>1. (n - 1) + 1 = n /\ (n - 1) + 1 <= n
    BY <1>1
  <2>2. way[(n - 1) + 1].offset >= 3 * (n - 1)
    BY <1>7, <2>1 DEF S
  <2>3. QED
    BY <1>2, <2>1, <2>2
<1>9. n - 1 <= N \div 3
  BY <1>1, <1>7, <1>8
<1>10. QED
  BY <1>9 DEF n, N

(* The first points of a way, one more each time until it ends.            *)
FirstOf(way, k) == [i \in 1 .. k |-> way[i]]
Turns(way, m) == IF m + 1 <= Len(way) THEN m + 1 ELSE Len(way)

(* The first points and the next one.                                      *)
LEMMA OneMore ==
  ASSUME NEW way, NEW k \in Nat
  PROVE  /\ Append(FirstOf(way, k), way[k + 1]) = FirstOf(way, k + 1)
         /\ Len(FirstOf(way, k)) = k
<1> DEFINE S == {way[i] : i \in 1 .. k + 1}
           s == FirstOf(way, k)
           v == way[k + 1]
<1>1. s \in [1 .. k -> S] /\ v \in S
  BY DEF FirstOf
<1>2. s \in Seq(S) /\ Len(s) = k
  BY <1>1, IsASeq, LenProperties
<1>3. \A i \in 1 .. k : s[i] = way[i]
  BY DEF FirstOf
<1> HIDE DEF S, s, v
<1>4. /\ Append(s, v) \in Seq(S) /\ Len(Append(s, v)) = k + 1
      /\ \A i \in 1 .. k : Append(s, v)[i] = s[i]
      /\ Append(s, v)[k + 1] = v
  BY <1>1, <1>2, AppendProperties
<1> DEFINE t == Append(s, v)
<1>5. t = [i \in 1 .. k + 1 |-> t[i]]
  BY <1>4, LenProperties
<1>6. \A i \in 1 .. k + 1 : t[i] = way[i]
  <2>1. \A i \in 1 .. k + 1 : i \in 1 .. k \/ i = k + 1
    OBVIOUS
  <2>2. QED
    BY <1>3, <1>4, <2>1 DEF v
<1> HIDE DEF t
<1>7. t = [i \in 1 .. k + 1 |-> way[i]]
  BY <1>5, <1>6
<1>8. QED
  BY <1>2, <1>7 DEF s, t, v, FirstOf

(* One turn of the walk.                                                   *)
Turn(bytes, walk, m) ==
  IF m = 0 THEN <<FirstPoint(bytes)>>
  ELSE LET before == walk[m - 1]
           last == before[Len(before)]
       IN  IF last.offset >= Len(bytes) THEN before ELSE Append(before, PointAfter(bytes, last))

(* A turn of the walk adds the next point, or none at the end.             *)
LEMMA TurnIsOneMore ==
  ASSUME NEW bytes \in Seq(Byte), NEW way, IsWay(bytes, way), NEW walk, NEW m \in Nat,
         m # 0 => walk[m - 1] = FirstOf(way, Turns(way, m - 1))
  PROVE  Turn(bytes, walk, m) = FirstOf(way, Turns(way, m))
<1> DEFINE n == Len(way)
<1>1. n \in Nat /\ n >= 1 /\ Len(bytes) \in Nat
  BY LenProperties DEF IsWay
<1>2. CASE m = 0
  <2>1. Turns(way, m) = 1
    BY <1>1, <1>2 DEF Turns
  <2>2. Turn(bytes, walk, m) = <<way[1]>>
    BY <1>2 DEF Turn, IsWay
  <2>3. FirstOf(way, 1) = <<way[1]>>
    BY DEF FirstOf
  <2>4. QED
    BY <2>1, <2>2, <2>3
<1>3. CASE m # 0
  <2> DEFINE k == Turns(way, m - 1)
             before == walk[m - 1]
             last == before[Len(before)]
  <2>1. /\ k \in 1 .. n /\ m - 1 \in Nat
        /\ k = n => Turns(way, m) = n
        /\ k # n => Turns(way, m) = k + 1
    BY <1>1, <1>3 DEF Turns
  <2>2. before = FirstOf(way, k)
    BY <1>3
  <2> HIDE DEF k
  <2>3. Len(before) = k /\ last = way[k]
    <3>1. Len(before) = k
      BY <2>1, <2>2, OneMore
    <3>2. FirstOf(way, k)[k] = way[k]
      BY <2>1 DEF FirstOf
    <3>3. QED
      BY <2>2, <3>1, <3>2
  <2>4. Turn(bytes, walk, m) =
          IF last.offset >= Len(bytes) THEN before ELSE Append(before, PointAfter(bytes, last))
    BY <1>3 DEF Turn
  <2> HIDE DEF before, last, n
  <2>5. CASE k = n
    <3>1. last.offset = Len(bytes)
      BY <2>3, <2>5 DEF IsWay, n
    <3>2. last.offset >= Len(bytes)
      BY <1>1, <3>1
    <3>3. QED
      BY <2>1, <2>2, <2>4, <2>5, <3>2
  <2>6. CASE k # n
    <3>1. k \in 1 .. n - 1
      BY <1>1, <2>1, <2>6
    <3>2. way[k].offset < Len(bytes) /\ way[k + 1] = PointAfter(bytes, way[k])
      BY <3>1 DEF IsWay, n
    <3>3. way[k].offset \in Nat
      BY <2>1 DEF IsWay, n
    <3>4. ~(last.offset >= Len(bytes))
      BY <1>1, <2>3, <3>2, <3>3
    <3>5. Turn(bytes, walk, m) = Append(FirstOf(way, k), way[k + 1])
      BY <2>2, <2>3, <2>4, <3>2, <3>4
    <3>6. k \in Nat
      BY <2>1
    <3>7. QED
      BY <2>1, <2>6, <3>5, <3>6, OneMore
  <2>7. QED
    BY <2>5, <2>6
<1>4. QED
  BY <1>2, <1>3

(* What the walk through the bytes finds is the way.                       *)
LEMMA WaypointsAre ==
  ASSUME NEW bytes \in Seq(Byte), NEW way, IsWay(bytes, way)
  PROVE  Waypoints(bytes) = way
<1> DEFINE N == Len(bytes)
           f == [m \in 0 .. N |-> FirstOf(way, Turns(way, m))]
           walk == CHOOSE w : w = [m \in 0 .. N |-> Turn(bytes, w, m)]
<1>1. N \in Nat
  BY LenProperties
<1>2. ASSUME NEW m \in 0 .. N PROVE Turn(bytes, f, m) = f[m]
  <2>1. m # 0 => m - 1 \in 0 .. N
    BY <1>1
  <2>2. m # 0 => f[m - 1] = FirstOf(way, Turns(way, m - 1))
    BY <2>1
  <2> DEFINE g == f
  <2>3. g[m] = FirstOf(way, Turns(way, m)) /\ (m # 0 => g[m - 1] = FirstOf(way, Turns(way, m - 1)))
    BY <2>2
  <2> HIDE DEF g
  <2>4. m \in Nat
    BY <1>1
  <2>5. Turn(bytes, g, m) = g[m]
    BY <2>3, <2>4, TurnIsOneMore
  <2>6. QED
    BY <2>5 DEF g
<1>3. f = [m \in 0 .. N |-> Turn(bytes, f, m)]
  <2> DEFINE g == f
  <2>1. g = [m \in 0 .. N |-> g[m]]
    OBVIOUS
  <2>2. \A m \in 0 .. N : Turn(bytes, g, m) = g[m]
    BY <1>2
  <2> HIDE DEF g, N
  <2>3. g = [m \in 0 .. N |-> Turn(bytes, g, m)]
    BY <2>1, <2>2, Zenon
  <2>4. QED
    BY <2>3 DEF g, N
<1> HIDE DEF f
<1>4. walk = [m \in 0 .. N |-> Turn(bytes, walk, m)]
  BY <1>3, Zenon
<1>5. Waypoints(bytes) = walk[N \div 3]
  BY Zenon DEF Waypoints, Turn
<1> HIDE DEF walk, N
<1> DEFINE S == {m \in Nat : m <= N => walk[m] = FirstOf(way, Turns(way, m))}
<1>6. 0 \in S
  <2>1. 0 \in 0 .. N /\ 0 \in Nat
    BY <1>1
  <2>2. walk[0] = Turn(bytes, walk, 0)
    BY <1>4, <2>1
  <2>3. Turn(bytes, walk, 0) = FirstOf(way, Turns(way, 0))
    BY <2>1, TurnIsOneMore
  <2>4. QED
    BY <2>2, <2>3
<1>7. ASSUME NEW m \in Nat, m \in S PROVE m + 1 \in S
  <2>1. SUFFICES ASSUME m + 1 <= N PROVE walk[m + 1] = FirstOf(way, Turns(way, m + 1))
    OBVIOUS
  <2>2. m + 1 \in 0 .. N /\ m + 1 \in Nat /\ (m + 1) - 1 = m /\ m <= N
    BY <1>1, <2>1
  <2>3. walk[(m + 1) - 1] = FirstOf(way, Turns(way, (m + 1) - 1))
    BY <1>7, <2>2
  <2>4. walk[m + 1] = Turn(bytes, walk, m + 1)
    BY <1>4, <2>2
  <2>5. Turn(bytes, walk, m + 1) = FirstOf(way, Turns(way, m + 1))
    BY <2>2, <2>3, TurnIsOneMore
  <2>6. QED
    BY <2>4, <2>5
<1> HIDE DEF S
<1>8. N \div 3 \in Nat /\ N \div 3 <= N /\ N \div 3 \in S
  BY <1>1, <1>6, <1>7, CountingInduction
<1>9. walk[N \div 3] = FirstOf(way, Turns(way, N \div 3))
  BY <1>8 DEF S
<1>10. Turns(way, N \div 3) = Len(way)
  <2>1. Len(way) \in Nat /\ Len(way) - 1 <= N \div 3
    BY WayIsShort DEF IsWay, N
  <2>2. QED
    BY <1>8, <2>1 DEF Turns
<1>11. FirstOf(way, Len(way)) = way
  BY DEF FirstOf, IsWay
<1>12. QED
  BY <1>5, <1>9, <1>10, <1>11

---------------------------------------------------------------------------
(* A way grows by a segment.                                               *)

(* The header is read the same when more bytes follow.                     *)
LEMMA FirstPointStays ==
  ASSUME NEW c \in Seq(Byte), Len(c) >= 9, NEW d, \A i \in 1 .. Len(c) : d[i] = c[i]
  PROVE  FirstPoint(d) = FirstPoint(c)
<1>1. Len(c) \in Nat
  BY LenProperties
<1>2. \A o \in {1, 3, 5, 7} : o \in Nat /\ o + 2 <= Len(c)
  BY <1>1
<1>3. \A o \in {1, 3, 5, 7}, a \in Axes : ParsePoint(d, o, a) = ParsePoint(c, o, a)
  BY <1>2, PointStays
<1>4. /\ ParsePoint(d, 1, "x") = ParsePoint(c, 1, "x")
      /\ ParsePoint(d, 3, "y") = ParsePoint(c, 3, "y")
      /\ ParsePoint(d, 5, "z") = ParsePoint(c, 5, "z")
      /\ ParsePoint(d, 7, "yaw") = ParsePoint(c, 7, "yaw")
  BY <1>3 DEF Axes
<1>5. ParseHeader(d).start = ParseHeader(c).start
  BY <1>4 DEF ParseHeader
<1>6. QED
  BY <1>5, Zenon DEF FirstPoint

(* One more point at the end.                                              *)
Longer(way, v) == [i \in 1 .. Len(way) + 1 |-> IF i <= Len(way) THEN way[i] ELSE v]

(* The points of a way with one more.                                      *)
LEMMA LongerType ==
  ASSUME NEW way, NEW v, Len(way) \in Nat
  PROVE  /\ Len(Longer(way, v)) = Len(way) + 1
         /\ \A i \in 1 .. Len(way) : Longer(way, v)[i] = way[i]
         /\ Longer(way, v)[Len(way) + 1] = v
<1> DEFINE l == Longer(way, v)
           n == Len(way)
<1>1. l = FirstOf(l, n + 1)
  BY DEF Longer, FirstOf
<1>2. \A i \in 1 .. n : l[i] = way[i]
  BY DEF Longer
<1>3. l[n + 1] = v
  BY DEF Longer
<1> HIDE DEF l, n
<1>4. n + 1 \in Nat
  BY DEF n
<1>5. Len(FirstOf(l, n + 1)) = n + 1
  BY <1>4, OneMore
<1>6. QED
  BY <1>1, <1>2, <1>3, <1>5 DEF l, n

(* A way goes on through a segment that is added to its bytes.             *)
LEMMA WayGoesOn ==
  ASSUME NEW c \in Seq(Byte), Len(c) >= 9, NEW t \in Seq(Byte), Len(t) >= 1,
         NEW way, IsWay(c, way), NEW v, v = PointAfter(c \o t, way[Len(way)]),
         v.offset = Len(c \o t)
  PROVE  IsWay(c \o t, Longer(way, v))
<1> DEFINE d == c \o t
           n == Len(way)
           l == Longer(way, v)
<1>1. /\ d \in Seq(Byte) /\ Len(d) = Len(c) + Len(t) /\ Len(c) \in Nat /\ Len(t) \in Nat
      /\ \A i \in 1 .. Len(c) : d[i] = c[i]
  BY ConcatElements
<1>2. /\ n \in Nat /\ n >= 1 /\ way[1] = FirstPoint(c) /\ way[n].offset = Len(c)
      /\ \A i \in 1 .. n : way[i].offset \in Nat
      /\ \A i \in 1 .. n - 1 : way[i].offset < Len(c) /\ way[i + 1] = PointAfter(c, way[i])
  BY DEF IsWay
<1>3. Len(l) = n + 1 /\ (\A i \in 1 .. n : l[i] = way[i]) /\ l[n + 1] = v
  BY <1>2, LongerType
<1>4. v = PointAfter(d, way[n]) /\ v.offset = Len(d)
  OBVIOUS
<1>5. l = [i \in 1 .. n + 1 |-> l[i]]
  BY DEF Longer
<1> HIDE DEF d, n, l
<1>6. FirstPoint(d) = FirstPoint(c)
  BY <1>1, FirstPointStays
<1>7. ASSUME NEW i \in 1 .. n - 1
      PROVE  l[i].offset < Len(d) /\ l[i + 1] = PointAfter(d, l[i])
  <2> DEFINE w == way[i]
             s == SegmentAt(c, w.offset, w.position)
  <2>1. i \in 1 .. n /\ i + 1 \in 1 .. n /\ (i + 1 \in 1 .. n - 1 \/ i + 1 = n)
    BY <1>2
  <2>2. w.offset \in Nat /\ w.offset < Len(c) /\ way[i + 1] = PointAfter(c, w)
    BY <1>2, <2>1
  <2>3. way[i + 1].offset <= Len(c)
    <3>1. way[i + 1].offset \in Nat /\ (way[i + 1].offset < Len(c) \/ way[i + 1].offset = Len(c))
      BY <1>2, <2>1
    <3>2. QED
      BY <1>1, <3>1
  <2>4. way[i + 1].offset = w.offset + s.length
    BY <2>2 DEF PointAfter
  <2> HIDE DEF w
  <2>5. SegmentAt(d, w.offset, w.position) = s
    <3> DEFINE o == w.offset
               p == w.position
    <3>1. o \in Nat /\ o < Len(c) /\ o + SegmentAt(c, o, p).length <= Len(c)
      BY <2>2, <2>3, <2>4
    <3> HIDE DEF o, p
    <3>2. SegmentAt(d, o, p) = SegmentAt(c, o, p)
      BY <1>1, <3>1, SegmentStays
    <3>3. QED
      BY <3>2 DEF o, p
  <2>6. PointAfter(d, w) = PointAfter(c, w)
    BY <2>5, Zenon DEF PointAfter
  <2>7. l[i] = w /\ l[i + 1] = way[i + 1]
    BY <1>3, <2>1 DEF w
  <2>8. w.offset < Len(d)
    BY <1>1, <2>2
  <2>9. QED
    BY <2>2, <2>6, <2>7, <2>8
<1>8. ASSUME NEW i \in 1 .. (n + 1) - 1
      PROVE  l[i].offset < Len(d) /\ l[i + 1] = PointAfter(d, l[i])
  <2>1. i \in 1 .. n - 1 \/ i = n
    BY <1>2
  <2>2. CASE i = n
    <3>1. n \in 1 .. n
      BY <1>2
    <3>2. l[n] = way[n] /\ l[n + 1] = PointAfter(d, l[n])
      BY <1>3, <1>4, <3>1
    <3>3. way[n].offset < Len(d)
      BY <1>1, <1>2
    <3>4. QED
      BY <2>2, <3>2, <3>3
  <2>3. QED
    BY <1>7, <2>1, <2>2
<1>9. ASSUME NEW i \in 1 .. n + 1 PROVE l[i].offset \in Nat
  <2>1. i \in 1 .. n \/ i = n + 1
    BY <1>2
  <2>2. v.offset \in Nat
    BY <1>1, <1>4
  <2>3. QED
    BY <1>2, <1>3, <2>1, <2>2
<1>10. l[1] = FirstPoint(d)
  <2>1. 1 \in 1 .. n
    BY <1>2
  <2>2. QED
    BY <1>2, <1>3, <1>6, <2>1
<1>11. n + 1 \in Nat /\ n + 1 >= 1
  BY <1>2
<1>12. IsWay(d, l)
  BY <1>3, <1>4, <1>5, <1>8, <1>9, <1>10, <1>11 DEF IsWay
<1>13. QED
  BY <1>12 DEF d, l

---------------------------------------------------------------------------
(* The segment that append_line() writes.                                  *)

(* What is written over the zeros that were added, without the rest.       *)
LEMMA WrittenAfter ==
  ASSUME NEW c \in Seq(Byte), NEW s \in Seq(Byte), NEW n \in Nat, Len(s) <= n
  PROVE  SubSeq(Overwritten(c \o Zeros(n), Len(c), s), 1, Len(c) + Len(s)) = c \o s
<1> DEFINE t == c \o Zeros(n)
           z == SubSeq(t, Len(c) + Len(s) + 1, Len(t))
<1>1. Zeros(n) \in Seq(Byte) /\ Len(Zeros(n)) = n /\ Len(c) \in Nat /\ Len(s) \in Nat
  BY ZerosType, LenProperties
<1>2. t \in Seq(Byte) /\ Len(t) = Len(c) + n /\ Extends(t, c)
  <2>1. t \in Seq(Byte) /\ Len(t) = Len(c) + Len(Zeros(n)) /\ Extends(t, c)
    BY <1>1, ConcatType, ConcatExtends
  <2>2. QED
    BY <1>1, <2>1
<1> HIDE DEF t
<1>3. SubSeq(t, 1, Len(c)) = c
  BY <1>2, ExtendsPrefix
<1>4. z \in Seq(Byte)
  <2>1. \A i \in Len(c) + Len(s) + 1 .. Len(t) : t[i] \in Byte
    BY <1>1, <1>2, ElementOfSeq
  <2>2. QED
    BY <1>1, <1>2, <2>1, SubSeqProperties
<1>5. Overwritten(t, Len(c), s) = c \o s \o z
  BY <1>3 DEF Overwritten
<1> HIDE DEF z
<1>6. c \o s \in Seq(Byte) /\ Len(c \o s) = Len(c) + Len(s)
  BY ConcatType
<1>7. c \o s \o z \in Seq(Byte) /\ Extends(c \o s \o z, c \o s)
  <2> DEFINE u == c \o s
  <2>1. u \in Seq(Byte)
    BY <1>6
  <2> HIDE DEF u
  <2>2. u \o z \in Seq(Byte) /\ Extends(u \o z, u)
    BY <1>4, <2>1, ConcatType, ConcatExtends
  <2>3. QED
    BY <2>2 DEF u
<1>8. SubSeq(c \o s \o z, 1, Len(c \o s)) = c \o s
  BY <1>6, <1>7, ExtendsPrefix
<1>9. QED
  BY <1>5, <1>6, <1>8 DEF t

(* When the coordinates written are all there are, all of them fit.        *)
LEMMA AllFit ==
  ASSUME NEW scale, NEW p, NEW axes \in SUBSET Axes, Fitting(scale, p, axes) = axes
  PROVE  /\ \A a \in axes : Int16(Encoded(scale, p, a))
         /\ Touched(scale, p, axes) = axes
<1>1. ASSUME NEW a \in axes PROVE Int16(Encoded(scale, p, a))
  <2>1. a \in Fitting(scale, p, axes)
    OBVIOUS
  <2>2. Rank[a] <= Rank[a]
    BY DEF Rank, Axes
  <2>3. QED
    BY <2>1, <2>2 DEF Fitting
<1>2. QED
  BY <1>1 DEF Touched

(* A segment that is added follows the bytes that were there, and all that *)
(* it says of the target fits.                                             *)
Changed(target) == {a \in Axes : builder.last_position[a] # target[a]}

(* A call that succeeds adds the segment, cut to its length, whatever      *)
(* happened to the storage; one that does not fit is not a success.        *)
LEMMA SegmentAdded ==
  ASSUME Fits(heap, builder.buffer), builder.buffer.owned, builder.scale \in 1 .. 127,
         NEW target \in [Axes -> Int], NEW duration \in Nat,
         NEW o \in AppendedSegment(target, duration), o.result = "SUCCESS"
  PROVE  /\ o.buffer.contents =
              builder.buffer.contents
                \o SegmentOf(builder.scale, target, Changed(target), duration)
         /\ \A a \in Changed(target) : Int16(Encoded(builder.scale, target, a))
<1> DEFINE b == builder.buffer
           c == b.contents
           changed == Changed(target)
           fitting == Fitting(builder.scale, target, changed)
           segment == <<FlagsOf(Touched(builder.scale, target, changed))>>
                        \o WrittenInt16(duration) \o Written(builder.scale, target, fitting)
           written == Overwritten(c \o Zeros(SegmentLength), Size(b), segment)
           Encode(p) == [p EXCEPT !.buffer.contents = Overwritten(@, Size(b), segment)]
           Trim(p) == IF fitting = changed
                        THEN Resize(p.heap, Encode(p).buffer, Size(b) + Len(segment))
                        ELSE {[Encode(p) EXCEPT !.result = "EINVAL"]}
<1>1. /\ c \in Seq(Byte) /\ Size(b) = Len(c) /\ Len(c) \in Nat /\ b \in BufferRecord
  BY LenProperties DEF Fits, BufferRecord, Size
<1>2. SegmentLength \in 0 .. MaxObject /\ SegmentLength = 11
  BY BuilderAssumption, BufferAssumption DEF SegmentLength
<1>3. segment \in Seq(Byte) /\ Len(segment) \in Nat /\ Len(segment) <= 11
  <2>1. segment \in Seq(Byte) /\ Len(segment) \in 3 .. 11
    BY <1>2, SegmentType
  <2> HIDE DEF segment
  <2>2. \A n \in 3 .. 11 : n \in Nat /\ n <= 11
    OBVIOUS
  <2>3. QED
    BY <2>1, <2>2, Zenon
<1>4. PICK p \in ExtendWithZeros(heap, b, SegmentLength) : p.result = "SUCCESS" /\ o \in Trim(p)
  BY DEF AppendedSegment, Check, Changed
<1> HIDE DEF changed, fitting, segment
<1>5. /\ Keeps(heap, b, p) /\ p.buffer.owned /\ p.buffer.stor_begin # NoBlock
      /\ p.buffer.contents = c \o Zeros(SegmentLength)
      /\ p = Outcome(p.result, p.heap, p.buffer) /\ p.buffer \in BufferRecord
  <2>1. Keeps(heap, b, p)
    BY <1>2, ExtendKeeps
  <2>2. p \in ExtendWithZeros(heap, b, SegmentLength) /\ p.result = "SUCCESS"
    BY <1>4
  <2>3. Fits(heap, b) /\ b.owned
    OBVIOUS
  <2> HIDE DEF b, c, written, Encode, Trim
  <2>4. /\ p.buffer.owned /\ p.buffer.stor_begin # NoBlock
        /\ p.buffer.contents = b.contents \o Zeros(SegmentLength)
    BY <1>2, <2>2, <2>3, ExtendGives
  <2>5. QED
    BY <2>1, <2>4 DEF c, Keeps
<1> DEFINE e == [p EXCEPT !.buffer.contents = written]
<1>6. Encode(p) = e
  BY <1>5
<1>7. Size(b) = Len(c) /\ written = Overwritten(c \o Zeros(SegmentLength), Len(c), segment)
  BY <1>1
<1> HIDE DEF written
<1>8. /\ e.result = "SUCCESS" /\ e.heap = p.heap /\ e.buffer.contents = written
      /\ e.buffer.stor_begin = p.buffer.stor_begin /\ e.buffer.owned
  <2> DEFINE d == [p.buffer EXCEPT !.contents = written]
  <2>1. /\ e.result = p.result /\ e.heap = p.heap /\ e.buffer = d
        /\ d.contents = written /\ d.stor_begin = p.buffer.stor_begin
        /\ d.owned = p.buffer.owned
    <3>1. p = Outcome(p.result, p.heap, p.buffer) /\ p.buffer \in BufferRecord
      BY <1>5
    <3> HIDE DEF b, c, Encode, Trim
    <3>2. QED
      BY ONLY <3>1, FilledBuffer
  <2> HIDE DEF d, e
  <2>2. QED
    BY <1>4, <1>5, <2>1
<1> HIDE DEF c
<1>9. /\ written \in Seq(Byte) /\ Len(written) = Len(c) + 11
      /\ SubSeq(written, 1, Len(c) + Len(segment)) = c \o segment
  <2>1. SegmentLength \in Nat /\ Len(segment) <= SegmentLength
    BY <1>2, <1>3
  <2>2. /\ Overwritten(c \o Zeros(SegmentLength), Len(c), segment) \in Seq(Byte)
        /\ Len(Overwritten(c \o Zeros(SegmentLength), Len(c), segment)) = Len(c) + SegmentLength
    BY <1>1, <1>3, <2>1, WrittenOverZeros
  <2>3. SubSeq(Overwritten(c \o Zeros(SegmentLength), Len(c), segment), 1, Len(c) + Len(segment))
          = c \o segment
    BY <1>1, <1>3, <2>1, WrittenAfter
  <2>4. QED
    BY <1>2, <1>7, <2>2, <2>3
<1> HIDE DEF e
<1>10. fitting = changed
  <2>1. SUFFICES ASSUME fitting # changed PROVE FALSE
    OBVIOUS
  <2>2. o = [e EXCEPT !.result = "EINVAL"]
    BY <1>4, <1>6, <2>1
  <2>3. e = Outcome(e.result, e.heap, e.buffer)
    BY <1>5 DEF e, Outcome
  <2>4. o.result = "EINVAL"
    BY <2>2, <2>3 DEF Outcome
  <2>5. QED
    BY <2>4
<1>11. o \in Resize(e.heap, e.buffer, Len(c) + Len(segment))
  BY <1>4, <1>6, <1>7, <1>8, <1>10
<1>12. o.buffer.contents = SubSeq(written, 1, Len(c) + Len(segment))
  <2> DEFINE n == Len(c) + Len(segment)
  <2>1. ~(Size(e.buffer) < n)
    BY <1>1, <1>3, <1>8, <1>9 DEF Size
  <2> HIDE DEF n
  <2>2. o = Outcome("SUCCESS", e.heap, [e.buffer EXCEPT !.contents = SubSeq(@, 1, n)])
    BY <1>8, <1>11, <2>1 DEF Resize, n
  <2>3. "contents" \in DOMAIN e.buffer
    <3>1. e.buffer = [p.buffer EXCEPT !.contents = written]
      BY <1>5, FilledBuffer DEF e
    <3>2. QED
      BY <1>5, <3>1 DEF BufferRecord
  <2>4. o.buffer.contents = SubSeq(e.buffer.contents, 1, n)
    BY <2>2, <2>3 DEF Outcome
  <2>5. QED
    BY <1>8, <2>4 DEF n
<1>13. /\ \A a \in changed : Int16(Encoded(builder.scale, target, a))
       /\ Touched(builder.scale, target, changed) = changed
  <2>1. changed \in SUBSET Axes
    BY DEF changed, Changed
  <2>2. QED
    BY <1>10, <2>1, AllFit DEF fitting
<1>14. segment = SegmentOf(builder.scale, target, changed, duration)
  BY <1>10, <1>13 DEF segment, SegmentOf
<1>15. QED
  BY <1>9, <1>12, <1>13, <1>14 DEF changed, c

---------------------------------------------------------------------------
(* The header.                                                             *)

(* Bytes written over others are there, and those before them stay.        *)
LEMMA OverwrittenHas ==
  ASSUME NEW c \in Seq(Byte), NEW s \in Seq(Byte), NEW offset \in 0 .. Len(c),
         offset + Len(s) <= Len(c)
  PROVE  /\ HasAt(Overwritten(c, offset, s), offset, s)
         /\ \A i \in 1 .. offset : Overwritten(c, offset, s)[i] = c[i]
<1> DEFINE a == SubSeq(c, 1, offset)
           z == SubSeq(c, offset + Len(s) + 1, Len(c))
<1>1. Len(c) \in Nat /\ Len(s) \in Nat /\ offset \in Nat
  BY LenProperties
<1>2. a \in Seq(Byte) /\ Len(a) = offset /\ \A i \in 1 .. offset : a[i] = c[i]
  <2>1. \A i \in 1 .. offset : c[i] \in Byte
    BY <1>1, ElementOfSeq
  <2>2. /\ a \in Seq(Byte) /\ Len(a) = offset
        /\ \A i \in 1 .. offset - 1 + 1 : a[i] = c[1 + i - 1]
    BY <1>1, <2>1, SubSeqProperties
  <2> HIDE DEF a
  <2>3. QED
    BY <1>1, <2>2
<1>3. z \in Seq(Byte)
  <2>1. \A i \in offset + Len(s) + 1 .. Len(c) : c[i] \in Byte
    BY <1>1, ElementOfSeq
  <2>2. QED
    BY <1>1, <2>1, SubSeqProperties
<1>4. Overwritten(c, offset, s) = a \o s \o z
  BY DEF Overwritten
<1> HIDE DEF a, z
<1>5. /\ a \o s \in Seq(Byte) /\ Len(a \o s) = offset + Len(s)
      /\ \A i \in 1 .. offset : (a \o s)[i] = a[i]
      /\ \A i \in 1 .. Len(s) : (a \o s)[offset + i] = s[i]
  BY <1>2, ConcatElements
<1> DEFINE u == a \o s
           v == a \o s \o z
<1>6. Len(v) >= offset + Len(s) /\ \A i \in 1 .. offset + Len(s) : v[i] = u[i]
  <2>1. v = u \o z /\ u \in Seq(Byte) /\ Len(u) = offset + Len(s)
    BY <1>5
  <2> HIDE DEF u, v
  <2>2. /\ Len(v) = Len(u) + Len(z) /\ Len(z) \in Nat /\ Len(u) \in Nat
        /\ \A i \in 1 .. Len(u) : v[i] = u[i]
    BY <1>3, <2>1, ConcatElements
  <2>3. QED
    BY <2>1, <2>2
<1>7. /\ \A i \in 1 .. offset : u[i] = a[i]
      /\ \A i \in 1 .. Len(s) : u[offset + i] = s[i]
  BY <1>5
<1>8. v = Overwritten(c, offset, s)
  BY <1>4
<1> HIDE DEF u, v
<1>9. ASSUME NEW i \in 1 .. offset PROVE v[i] = c[i]
  <2>1. i \in 1 .. offset + Len(s)
    BY <1>1
  <2>2. v[i] = u[i]
    BY <1>6, <2>1
  <2>3. QED
    BY <1>2, <1>7, <2>2
<1>10. ASSUME NEW i \in 1 .. Len(s) PROVE v[offset + i] = s[i]
  <2>1. offset + i \in 1 .. offset + Len(s)
    BY <1>1
  <2>2. QED
    BY <1>6, <1>7, <2>1
<1>11. HasAt(v, offset, s)
  BY <1>6, <1>10 DEF HasAt
<1>12. QED
  BY <1>8, <1>9, <1>11

(* A header whose coordinates fit is read as the start that was kept.      *)
LEMMA HeaderDecodes ==
  ASSUME NEW bytes \in Seq(Byte), NEW scale \in 1 .. 127, ScaleOf(bytes) = scale,
         NEW p \in [Axes -> Int], \A a \in Axes : Int16(Encoded(scale, p, a)),
         HasAt(bytes, 1, Written(scale, p, Axes))
  PROVE  ParseHeader(bytes).start = Kept(scale, p)
<1> DEFINE At(a, b) == a \in Axes => HasAt(bytes, b, WrittenInt16(Encoded(scale, p, a)))
           k(a) == Kept(scale, p)[a]
<1>1. /\ Count(Axes, "x") = 1 /\ Count(Axes, "y") = 1 /\ Count(Axes, "z") = 1
  BY DEF Count, Axes
<1>2. /\ At("x", 1) /\ At("y", 1 + 2 * Count(Axes, "x"))
      /\ At("z", 1 + 2 * (Count(Axes, "x") + Count(Axes, "y")))
      /\ At("yaw", 1 + 2 * (Count(Axes, "x") + Count(Axes, "y") + Count(Axes, "z")))
  <2>1. 1 \in Nat
    OBVIOUS
  <2>2. WrittenAt(bytes, 1, scale, p, Axes)
    BY <2>1, WrittenDecodes
  <2>3. QED
    BY <2>2, Zenon DEF WrittenAt
<1>3. 1 + 2 * 1 = 3 /\ 1 + 2 * (1 + 1) = 5 /\ 1 + 2 * (1 + 1 + 1) = 7
  OBVIOUS
<1> HIDE DEF At
<1>4. At("x", 1) /\ At("y", 3) /\ At("z", 5) /\ At("yaw", 7)
  BY <1>1, <1>2, <1>3
<1>5. ASSUME NEW a \in Axes, NEW b \in Nat, At(a, b) PROVE ParsePoint(bytes, b, a) = k(a)
  BY <1>5, PointDecodes DEF At
<1> HIDE DEF k
<1>6. /\ ParsePoint(bytes, 1, "x") = k("x") /\ ParsePoint(bytes, 3, "y") = k("y")
      /\ ParsePoint(bytes, 5, "z") = k("z") /\ ParsePoint(bytes, 7, "yaw") = k("yaw")
  BY <1>4, <1>5 DEF Axes
<1>7. ParseHeader(bytes).start = [x |-> k("x"), y |-> k("y"), z |-> k("z"), yaw |-> k("yaw")]
  BY <1>6 DEF ParseHeader
<1>8. [x |-> k("x"), y |-> k("y"), z |-> k("z"), yaw |-> k("yaw")] = [a \in Axes |-> k(a)]
  BY DEF Axes
<1>9. Kept(scale, p) = [a \in Axes |-> k(a)]
  BY DEF Kept, k
<1>10. QED
  BY <1>7, <1>8, <1>9

(* A header on its own is one point.                                       *)
LEMMA HeaderIsWay ==
  ASSUME NEW bytes \in Seq(Byte), Len(bytes) = HeaderLength
  PROVE  IsWay(bytes, <<FirstPoint(bytes)>>)
<1> DEFINE v == FirstPoint(bytes)
           w == <<v>>
<1>1. v.offset = Len(bytes) /\ Len(bytes) = 9
  BY DEF FirstPoint, HeaderSize, HeaderLength
<1> HIDE DEF v
<1>2. Len(w) = 1 /\ w[1] = v /\ w = [i \in 1 .. 1 |-> w[i]]
  OBVIOUS
<1> HIDE DEF w
<1>3. IsWay(bytes, w)
  BY <1>1, <1>2 DEF IsWay, v
<1>4. QED
  BY <1>3 DEF w, v

(* The origin is on every grid.                                            *)
LEMMA OriginKept ==
  ASSUME NEW scale \in 1 .. 127
  PROVE  Kept(scale, Origin) = Origin
<1>1. 0 \div scale = 0 /\ 0 * scale = 0
  OBVIOUS
<1>2. 0 % 3600 = 0
  BY SMT
<1>3. QED
  BY <1>1, <1>2 DEF Kept, Origin, Angle, Axes

(* A header of zeros but for the scale starts at the origin.               *)
LEMMA EmptyHeader ==
  ASSUME NEW bytes, ScaleOf(bytes) \in Int, \A i \in 2 .. 9 : bytes[i] = 0
  PROVE  ParseHeader(bytes).start = Origin
<1>1. ASSUME NEW o \in {1, 3, 5, 7} PROVE Int16At(bytes, o) = 0
  <2>1. bytes[o + 1] = 0 /\ bytes[o + 2] = 0
    BY <1>1
  <2>2. QED
    BY <2>1, SMT DEF Int16At, Uint16At
<1>2. 0 % 3600 = 0 /\ 0 * ScaleOf(bytes) = 0
  BY SMT
<1>3. ASSUME NEW o \in {1, 3, 5, 7}, NEW a PROVE ParsePoint(bytes, o, a) = 0
  BY <1>1, <1>2, SMT DEF ParsePoint, ParseAngle, ParseCoordinate
<1>4. QED
  BY <1>3 DEF ParseHeader, Origin, Axes

---------------------------------------------------------------------------
(* The calls that are still to be made.                                    *)

(* Calls that, made one after another, take from one time to another.      *)
Timed(s, t0, t1) ==
  \E due :
    /\ \A i \in 0 .. Len(s) : due[i] \in Nat
    /\ due[0] = t0 /\ due[Len(s)] = t1
    /\ \A i \in 1 .. Len(s) : due[i] = due[i - 1] + s[i].duration

(* Only the last one waits, and all together end at a place of the grid.   *)
Leads(s, scale, here, there) ==
  /\ \A i \in 1 .. Len(s) - 1 : s[i].call = "line"
  /\ there = IF Len(s) = 0 THEN here
             ELSE IF s[Len(s)].call = "line" THEN Kept(scale, s[Len(s)].target)
             ELSE IF Len(s) = 1 THEN here
             ELSE Kept(scale, s[Len(s) - 1].target)

(* The calls without the first one.                                        *)
LEMMA TailElements ==
  ASSUME NEW s \in Seq(CallRecord), s # << >>
  PROVE  /\ Len(s) \in Nat /\ Len(s) >= 1 /\ Len(Tail(s)) = Len(s) - 1
         /\ Head(s) = s[1] /\ \A i \in 1 .. Len(s) - 1 : Tail(s)[i] = s[i + 1]
         /\ Tail(s) \in Seq(CallRecord) /\ \A i \in 1 .. Len(s) : s[i] \in CallRecord
<1>1. Len(s) \in Nat /\ Len(s) # 0
  BY LenProperties, EmptySeq
<1>2. /\ Head(s) = s[1] /\ Tail(s) \in Seq(CallRecord) /\ Len(Tail(s)) = Len(s) - 1
      /\ \A i \in 1 .. Len(Tail(s)) : Tail(s)[i] = s[i + 1]
  BY HeadTailProperties
<1>3. QED
  BY <1>1, <1>2, ElementOfSeq

(* The calls with two in place of the first one.                           *)
LEMMA PairElements ==
  ASSUME NEW s \in Seq(CallRecord), s # << >>, NEW c \in CallRecord, NEW d \in CallRecord
  PROVE  /\ Len(<<c, d>> \o Tail(s)) = Len(s) + 1
         /\ (<<c, d>> \o Tail(s))[1] = c /\ (<<c, d>> \o Tail(s))[2] = d
         /\ \A i \in 3 .. Len(s) + 1 : (<<c, d>> \o Tail(s))[i] = s[i - 1]
<1> DEFINE p == <<c, d>>
           t == Tail(s)
           n == Len(s)
<1>1. p \in Seq(CallRecord) /\ Len(p) = 2 /\ p[1] = c /\ p[2] = d
  OBVIOUS
<1>2. /\ n \in Nat /\ n >= 1 /\ t \in Seq(CallRecord) /\ Len(t) = n - 1
      /\ \A i \in 1 .. n - 1 : t[i] = s[i + 1]
  BY TailElements
<1> HIDE DEF p, t, n
<1> DEFINE u == p \o t
<1>3. /\ Len(u) = Len(p) + Len(t)
      /\ \A i \in 1 .. Len(p) + Len(t) : u[i] = IF i <= Len(p) THEN p[i] ELSE t[i - Len(p)]
  BY <1>1, <1>2, ConcatProperties
<1> HIDE DEF u
<1>4. /\ Len(u) = n + 1
      /\ \A i \in 1 .. n + 1 : u[i] = IF i <= 2 THEN p[i] ELSE t[i - 2]
  BY <1>1, <1>2, <1>3
<1>5. u[1] = c /\ u[2] = d
  BY <1>1, <1>2, <1>4
<1>6. ASSUME NEW i \in 3 .. n + 1 PROVE u[i] = s[i - 1]
  <2>1. i \in 1 .. n + 1 /\ ~(i <= 2) /\ i - 2 \in 1 .. n - 1 /\ (i - 2) + 1 = i - 1
    BY <1>2
  <2>2. QED
    BY <1>2, <1>4, <2>1
<1>7. QED
  BY <1>4, <1>5, <1>6 DEF u, p, t, n

(* No calls take no time.                                                  *)
LEMMA TimedEmpty ==
  ASSUME NEW t0, NEW t1
  PROVE  /\ Timed(<< >>, t0, t1) => t0 = t1
         /\ t0 \in Nat => Timed(<< >>, t0, t0)
<1>1. Len(<< >>) = 0
  OBVIOUS
<1>2. Timed(<< >>, t0, t1) => t0 = t1
  BY <1>1 DEF Timed
<1>3. ASSUME t0 \in Nat PROVE Timed(<< >>, t0, t0)
  <2> DEFINE due == [i \in 0 .. 0 |-> t0]
  <2>1. /\ \A i \in 0 .. 0 : due[i] \in Nat
        /\ due[0] = t0
    BY <1>3
  <2> HIDE DEF due
  <2>2. QED
    BY <1>1, <2>1 DEF Timed
<1>4. QED
  BY <1>2, <1>3

(* A call takes as long as it says.                                        *)
LEMMA TimedOne ==
  ASSUME NEW c \in CallRecord, NEW t \in Nat
  PROVE  Timed(<<c>>, t, t + c.duration)
<1> DEFINE s == <<c>>
           due == [i \in 0 .. 1 |-> IF i = 0 THEN t ELSE t + c.duration]
<1>1. Len(s) = 1 /\ s[1] = c /\ c.duration \in Nat
  BY DEF CallRecord
<1>2. due[0] = t /\ due[1] = t + c.duration
  OBVIOUS
<1> HIDE DEF s, due
<1>3. /\ \A i \in 0 .. 1 : due[i] \in Nat
      /\ \A i \in 1 .. 1 : due[i] = due[i - 1] + s[i].duration
  BY <1>1, <1>2
<1>4. Timed(s, t, t + c.duration)
  BY <1>1, <1>2, <1>3 DEF Timed
<1>5. QED
  BY <1>4 DEF s

(* When the first call has returned, the others start when it ended.       *)
LEMMA TimedPop ==
  ASSUME NEW s \in Seq(CallRecord), s # << >>, NEW t0, NEW t1, Timed(s, t0, t1)
  PROVE  /\ Timed(Tail(s), t0 + Head(s).duration, t1)
         /\ t0 \in Nat /\ t1 \in Nat
<1> DEFINE n == Len(s)
           t == Tail(s)
<1>1. /\ n \in Nat /\ n >= 1 /\ Len(t) = n - 1 /\ Head(s) = s[1]
      /\ \A i \in 1 .. n - 1 : t[i] = s[i + 1]
  BY TailElements
<1>2. PICK due : /\ \A i \in 0 .. n : due[i] \in Nat
                 /\ due[0] = t0 /\ due[n] = t1
                 /\ \A i \in 1 .. n : due[i] = due[i - 1] + s[i].duration
  BY DEF Timed
<1> DEFINE d == [i \in 0 .. n - 1 |-> due[i + 1]]
<1> HIDE DEF n, t
<1>3. \A i \in 0 .. n - 1 : d[i] = due[i + 1] /\ d[i] \in Nat
  <2>1. \A i \in 0 .. n - 1 : i + 1 \in 0 .. n
    BY <1>1
  <2>2. QED
    BY <1>2, <2>1
<1> HIDE DEF d
<1>4. d[0] = t0 + Head(s).duration /\ d[n - 1] = t1
  <2>1. 0 \in 0 .. n - 1 /\ n - 1 \in 0 .. n - 1 /\ (n - 1) + 1 = n /\ 1 \in 1 .. n /\ 0 + 1 = 1
        /\ 1 - 1 = 0
    BY <1>1
  <2>2. d[0] = due[1] /\ d[n - 1] = due[n]
    BY <1>3, <2>1
  <2>3. due[1] = due[0] + s[1].duration
    BY <1>2, <2>1
  <2>4. QED
    BY <1>1, <1>2, <2>2, <2>3
<1>5. ASSUME NEW i \in 1 .. n - 1 PROVE d[i] = d[i - 1] + t[i].duration
  <2>1. i \in 0 .. n - 1 /\ i - 1 \in 0 .. n - 1 /\ i + 1 \in 1 .. n
        /\ (i + 1) - 1 = i /\ (i - 1) + 1 = i
    BY <1>1
  <2>2. d[i] = due[i + 1] /\ d[i - 1] = due[i]
    BY <1>3, <2>1
  <2>3. due[i + 1] = due[i] + s[i + 1].duration
    BY <1>2, <2>1
  <2>4. QED
    BY <1>1, <2>2, <2>3
<1>6. Timed(t, t0 + Head(s).duration, t1)
  BY <1>1, <1>3, <1>4, <1>5 DEF Timed
<1>7. t0 \in Nat /\ t1 \in Nat
  BY <1>1, <1>2
<1>8. QED
  BY <1>6, <1>7 DEF t

(* Two calls that take as long as the one they replace change no time.     *)
LEMMA TimedSplit ==
  ASSUME NEW s \in Seq(CallRecord), s # << >>, NEW t0, NEW t1, Timed(s, t0, t1),
         NEW c \in CallRecord, NEW d \in CallRecord,
         c.duration + d.duration = Head(s).duration
  PROVE  Timed(<<c, d>> \o Tail(s), t0, t1)
<1> DEFINE n == Len(s)
           u == <<c, d>> \o Tail(s)
<1>1. /\ n \in Nat /\ n >= 1 /\ Head(s) = s[1]
      /\ Len(u) = n + 1 /\ u[1] = c /\ u[2] = d
      /\ \A i \in 3 .. n + 1 : u[i] = s[i - 1]
      /\ c.duration \in Nat /\ d.duration \in Nat
  BY TailElements, PairElements DEF CallRecord
<1>2. PICK due : /\ \A i \in 0 .. n : due[i] \in Nat
                 /\ due[0] = t0 /\ due[n] = t1
                 /\ \A i \in 1 .. n : due[i] = due[i - 1] + s[i].duration
  BY DEF Timed
<1> DEFINE e == [i \in 0 .. n + 1 |-> IF i = 0 THEN due[0]
                                      ELSE IF i = 1 THEN due[0] + c.duration ELSE due[i - 1]]
<1> HIDE DEF n, u
<1>3. /\ e[0] = due[0] /\ e[1] = due[0] + c.duration
      /\ \A i \in 2 .. n + 1 : e[i] = due[i - 1]
  BY <1>1
<1> HIDE DEF e
<1>4. due[0] \in Nat /\ due[1] = due[0] + Head(s).duration /\ due[1] \in Nat
  <2>1. 0 \in 0 .. n /\ 1 \in 1 .. n /\ 1 \in 0 .. n /\ 1 - 1 = 0
    BY <1>1
  <2>2. QED
    BY <1>1, <1>2, <2>1
<1>5. ASSUME NEW i \in 0 .. n + 1 PROVE e[i] \in Nat
  <2>1. CASE i = 0
    BY <1>3, <1>4, <2>1
  <2>2. CASE i = 1
    BY <1>1, <1>3, <1>4, <2>2
  <2>3. CASE i \in 2 .. n + 1
    <3>1. i - 1 \in 0 .. n
      BY <1>1, <2>3
    <3>2. QED
      BY <1>2, <1>3, <2>3, <3>1
  <2>4. QED
    BY <1>1, <2>1, <2>2, <2>3
<1>6. e[0] = t0 /\ e[n + 1] = t1
  <2>1. n + 1 \in 2 .. n + 1 /\ (n + 1) - 1 = n
    BY <1>1
  <2>2. QED
    BY <1>2, <1>3, <2>1
<1>7. ASSUME NEW i \in 1 .. n + 1 PROVE e[i] = e[i - 1] + u[i].duration
  <2>1. CASE i = 1
    BY <1>1, <1>3, <2>1
  <2>2. CASE i = 2
    <3>1. e[2] = due[1] /\ 2 - 1 = 1
      <4>1. 2 \in 2 .. n + 1
        BY <1>1
      <4>2. QED
        BY <1>3, <4>1
    <3>2. due[1] = (due[0] + c.duration) + d.duration
      BY <1>1, <1>4
    <3>3. QED
      BY <1>1, <1>3, <2>2, <3>1, <3>2
  <2>3. CASE i >= 3
    <3>1. /\ i \in 3 .. n + 1 /\ i \in 2 .. n + 1 /\ i - 1 \in 2 .. n + 1 /\ i - 1 \in 1 .. n
      BY <1>1, <2>3
    <3>2. e[i] = due[i - 1] /\ e[i - 1] = due[(i - 1) - 1] /\ u[i] = s[i - 1]
      BY <1>1, <1>3, <3>1
    <3>3. due[i - 1] = due[(i - 1) - 1] + s[i - 1].duration
      BY <1>2, <3>1
    <3>4. QED
      BY <3>2, <3>3
  <2>4. i = 1 \/ i = 2 \/ i >= 3
    OBVIOUS
  <2>5. QED
    BY <2>1, <2>2, <2>3, <2>4
<1>8. Timed(u, t0, t1)
  BY <1>1, <1>5, <1>6, <1>7 DEF Timed
<1>9. QED
  BY <1>8 DEF u

(* Without calls nothing moves.                                            *)
LEMMA LeadsEmpty ==
  ASSUME NEW scale, NEW here, NEW there
  PROVE  /\ Leads(<< >>, scale, here, there) => there = here
         /\ Leads(<< >>, scale, here, here)
<1>1. Len(<< >>) = 0
  OBVIOUS
<1>2. QED
  BY <1>1 DEF Leads

(* One call leads to its target, or waits.                                 *)
LEMMA LeadsOne ==
  ASSUME NEW c \in CallRecord, NEW scale, NEW here
  PROVE  Leads(<<c>>, scale, here, IF c.call = "line" THEN Kept(scale, c.target) ELSE here)
<1> DEFINE s == <<c>>
<1>1. Len(s) = 1 /\ s[1] = c
  OBVIOUS
<1> HIDE DEF s
<1>2. Leads(s, scale, here, IF c.call = "line" THEN Kept(scale, c.target) ELSE here)
  BY <1>1 DEF Leads
<1>3. QED
  BY <1>2 DEF s

(* When a line has been drawn, the others lead on from its target.         *)
LEMMA LeadsPop ==
  ASSUME NEW s \in Seq(CallRecord), s # << >>, Head(s).call = "line",
         NEW scale, NEW here, NEW there, Leads(s, scale, here, there)
  PROVE  Leads(Tail(s), scale, Kept(scale, Head(s).target), there)
<1> DEFINE n == Len(s)
           t == Tail(s)
<1>1. /\ n \in Nat /\ n >= 1 /\ Len(t) = n - 1 /\ Head(s) = s[1]
      /\ \A i \in 1 .. n - 1 : t[i] = s[i + 1]
  BY TailElements
<1>2. /\ \A i \in 1 .. n - 1 : s[i].call = "line"
      /\ there = IF n = 0 THEN here
                 ELSE IF s[n].call = "line" THEN Kept(scale, s[n].target)
                 ELSE IF n = 1 THEN here ELSE Kept(scale, s[n - 1].target)
  BY DEF Leads
<1> HIDE DEF n, t
<1>3. ASSUME NEW i \in 1 .. Len(t) - 1 PROVE t[i].call = "line"
  <2>1. i \in 1 .. n - 1 /\ i + 1 \in 1 .. n - 1
    BY <1>1
  <2>2. QED
    BY <1>1, <1>2, <2>1
<1>4. CASE n = 1
  <2>1. there = Kept(scale, Head(s).target) /\ Len(t) = 0
    BY <1>1, <1>2, <1>4
  <2>2. Leads(t, scale, Kept(scale, Head(s).target), Kept(scale, Head(s).target))
    BY <1>3, <2>1 DEF Leads
  <2>3. QED
    BY <2>1, <2>2 DEF t
<1>5. CASE n = 2
  <2>1. Len(t) = 1 /\ t[1] = s[2] /\ 2 - 1 = 1
    <3>1. 1 \in 1 .. n - 1 /\ 1 + 1 = 2
      BY <1>5
    <3>2. QED
      BY <1>1, <1>5, <3>1
  <2>2. there = IF t[1].call = "line" THEN Kept(scale, t[1].target)
                ELSE Kept(scale, Head(s).target)
    BY <1>1, <1>2, <1>5, <2>1
  <2>3. Leads(t, scale, Kept(scale, Head(s).target), there)
    BY <1>3, <2>1, <2>2 DEF Leads
  <2>4. QED
    BY <2>3 DEF t
<1>6. CASE n >= 3
  <2>1. /\ n - 1 \in 1 .. n - 1 /\ n - 2 \in 1 .. n - 1 /\ (n - 1) + 1 = n /\ (n - 2) + 1 = n - 1
        /\ (n - 1) - 1 = n - 2 /\ n # 0 /\ n # 1 /\ n - 1 # 0 /\ n - 1 # 1
    BY <1>1, <1>6
  <2>2. t[n - 1] = s[n] /\ t[n - 2] = s[n - 1]
    BY <1>1, <2>1
  <2>3. there = IF t[n - 1].call = "line" THEN Kept(scale, t[n - 1].target)
                ELSE Kept(scale, t[n - 2].target)
    BY <1>2, <2>1, <2>2
  <2>4. QED
    BY <1>1, <1>3, <2>1, <2>3 DEF Leads, t
<1>7. n = 1 \/ n = 2 \/ n >= 3
  BY <1>1
<1>8. QED
  BY <1>4, <1>5, <1>6, <1>7

(* A hold that is next is the last call.                                   *)
LEMMA LeadsHold ==
  ASSUME NEW s \in Seq(CallRecord), s # << >>, Head(s).call # "line",
         NEW scale, NEW here, NEW there, Leads(s, scale, here, there)
  PROVE  /\ Len(s) = 1 /\ Tail(s) = << >>
         /\ there = here
<1>1. /\ Len(s) \in Nat /\ Len(s) >= 1 /\ Len(Tail(s)) = Len(s) - 1 /\ Head(s) = s[1]
      /\ Tail(s) \in Seq(CallRecord)
  BY TailElements
<1>2. Len(s) = 1
  <2>1. \A i \in 1 .. Len(s) - 1 : s[i].call = "line"
    BY DEF Leads
  <2>2. QED
    BY <1>1, <2>1
<1>3. Tail(s) = << >>
  <2>1. Len(Tail(s)) = 0
    BY <1>1, <1>2
  <2>2. QED
    BY <1>1, <2>1, EmptySeq
<1>4. there = here
  BY <1>1, <1>2 DEF Leads
<1>5. QED
  BY <1>2, <1>3, <1>4

(* A line may be drawn in two, by way of any point.                        *)
LEMMA LeadsSplit ==
  ASSUME NEW s \in Seq(CallRecord), s # << >>, Head(s).call = "line",
         NEW scale, NEW here, NEW there, Leads(s, scale, here, there),
         NEW c \in CallRecord, NEW d \in CallRecord, c.call = "line", d.call = "line",
         d.target = Head(s).target
  PROVE  Leads(<<c, d>> \o Tail(s), scale, here, there)
<1> DEFINE n == Len(s)
           u == <<c, d>> \o Tail(s)
<1>1. /\ n \in Nat /\ n >= 1 /\ Head(s) = s[1]
      /\ Len(u) = n + 1 /\ u[1] = c /\ u[2] = d
      /\ \A i \in 3 .. n + 1 : u[i] = s[i - 1]
  BY TailElements, PairElements
<1>2. /\ \A i \in 1 .. n - 1 : s[i].call = "line"
      /\ there = IF n = 0 THEN here
                 ELSE IF s[n].call = "line" THEN Kept(scale, s[n].target)
                 ELSE IF n = 1 THEN here ELSE Kept(scale, s[n - 1].target)
  BY DEF Leads
<1> HIDE DEF n, u
<1>3. ASSUME NEW i \in 1 .. Len(u) - 1 PROVE u[i].call = "line"
  <2>1. CASE i = 1
    BY <1>1, <2>1
  <2>2. CASE i = 2
    BY <1>1, <2>2
  <2>3. CASE i >= 3
    <3>1. i \in 3 .. n + 1 /\ i - 1 \in 1 .. n - 1
      BY <1>1, <2>3
    <3>2. QED
      BY <1>1, <1>2, <3>1
  <2>4. QED
    BY <2>1, <2>2, <2>3
<1>4. CASE n = 1
  <2>1. Len(u) = 2 /\ u[2].call = "line" /\ there = Kept(scale, u[2].target)
    BY <1>1, <1>2, <1>4
  <2>2. QED
    BY <1>3, <2>1 DEF Leads, u
<1>5. CASE n = 2
  <2>1. Len(u) = 3 /\ u[3] = s[2] /\ 3 - 1 = 2 /\ 2 - 1 = 1
    <3>1. 3 \in 3 .. n + 1 /\ 3 - 1 = 2
      BY <1>5
    <3>2. QED
      BY <1>1, <1>5, <3>1
  <2>2. there = IF u[3].call = "line" THEN Kept(scale, u[3].target)
                ELSE Kept(scale, u[2].target)
    BY <1>1, <1>2, <1>5, <2>1
  <2>3. QED
    BY <1>3, <2>1, <2>2 DEF Leads, u
<1>6. CASE n >= 3
  <2>1. /\ n + 1 \in 3 .. n + 1 /\ n \in 3 .. n + 1 /\ (n + 1) - 1 = n
        /\ n # 0 /\ n # 1 /\ n + 1 # 0 /\ n + 1 # 1
    BY <1>1, <1>6
  <2>2. u[n + 1] = s[n] /\ u[n] = s[n - 1]
    BY <1>1, <2>1
  <2>3. there = IF u[n + 1].call = "line" THEN Kept(scale, u[n + 1].target)
                ELSE Kept(scale, u[n].target)
    BY <1>2, <2>1, <2>2
  <2>4. QED
    BY <1>1, <1>3, <2>1, <2>3 DEF Leads, u
<1>7. n = 1 \/ n = 2 \/ n >= 3
  BY <1>1
<1>8. QED
  BY <1>4, <1>5, <1>6, <1>7

(* A hold may be a line to where it is, and another hold.                  *)
LEMMA LeadsWait ==
  ASSUME NEW s \in Seq(CallRecord), s # << >>, Head(s).call # "line",
         NEW scale, NEW here, NEW there, Leads(s, scale, here, there),
         NEW c \in CallRecord, NEW d \in CallRecord, c.call = "line", d.call # "line",
         Kept(scale, c.target) = here
  PROVE  Leads(<<c, d>> \o Tail(s), scale, here, there)
<1> DEFINE u == <<c, d>> \o Tail(s)
<1>1. Len(s) = 1 /\ there = here
  BY LeadsHold
<1>2. Len(u) = 2 /\ u[1] = c /\ u[2] = d
  <2>1. Len(u) = Len(s) + 1 /\ u[1] = c /\ u[2] = d
    BY PairElements
  <2> HIDE DEF u
  <2>2. QED
    BY <1>1, <2>1
<1> HIDE DEF u
<1>3. Leads(u, scale, here, there)
  BY <1>1, <1>2 DEF Leads
<1>4. QED
  BY <1>3 DEF u

---------------------------------------------------------------------------
(* The route.                                                              *)

(* A point of the route.                                                   *)
RoutePoint == [time: Nat, position: [Axes -> Int]]

(* A point that is passed at its time.                                     *)
Met(way, p) == \E w \in 1 .. Len(way) : way[w].time = p.time /\ way[w].position = p.position

(* The end of a way.                                                       *)
EndsAt(way, time, position) == way[Len(way)].time = time /\ way[Len(way)].position = position

(* The bytes lead past the points of the route, up to the one that is      *)
(* still being drawn; the calls that are left lead from where they end to  *)
(* that one, in the time that is left.                                     *)
Drawn(bytes, scale, last, s, r, way) ==
  /\ IsWay(bytes, way)
  /\ r \in Seq(RoutePoint) /\ r # << >>
  /\ \E time \in Nat :
       /\ EndsAt(way, time, Kept(scale, last))
       /\ Timed(s, time, r[Len(r)].time)
       /\ Leads(s, scale, Kept(scale, last), r[Len(r)].position)
  /\ \A p \in 1 .. Len(r) - 1 : Met(way, r[p])

(* What is kept of a position is one.                                      *)
LEMMA KeptType ==
  ASSUME NEW scale \in 1 .. 127, NEW p \in [Axes -> Int]
  PROVE  Kept(scale, p) \in [Axes -> Int]
<1>1. ASSUME NEW a \in Axes
      PROVE  (IF a = "yaw" THEN Angle(p[a]) ELSE (p[a] \div scale) * scale) \in Int
  <2>1. p[a] \in Int
    OBVIOUS
  <2>2. Angle(p[a]) \in Int
    <3>1. Angle(p[a]) \in Nat
      BY <2>1, AngleKept
    <3>2. QED
      BY <3>1
  <2>3. (p[a] \div scale) * scale \in Int
    BY <2>1
  <2>4. QED
    BY <2>2, <2>3
<1>2. QED
  BY <1>1 DEF Kept

(* The last element of a sequence that is not empty.                       *)
LEMMA LastElement ==
  ASSUME NEW S, NEW r \in Seq(S), r # << >>
  PROVE  Len(r) \in Nat /\ Len(r) >= 1 /\ r[Len(r)] \in S
<1>1. Len(r) \in Nat /\ Len(r) # 0
  BY LenProperties, EmptySeq
<1>2. QED
  BY <1>1, ElementOfSeq

(* A header alone is the route to where it starts.                         *)
LEMMA DrawnStart ==
  ASSUME NEW bytes \in Seq(Byte), Len(bytes) = HeaderLength, NEW scale,
         NEW last, NEW position \in [Axes -> Int], position = Kept(scale, last),
         ParseHeader(bytes).start = position
  PROVE  \E way : /\ Len(way) = 1
                 /\ Drawn(bytes, scale, last, << >>, <<[time |-> 0, position |-> position]>>, way)
<1> DEFINE v == FirstPoint(bytes)
           way == <<v>>
           p == [time |-> 0, position |-> position]
           r == <<p>>
<1>1. IsWay(bytes, way)
  BY HeaderIsWay
<1>2. v.time = 0 /\ v.position = Kept(scale, last)
  BY DEF FirstPoint
<1>3. Len(way) = 1 /\ way[1] = v /\ Len(r) = 1 /\ r[1] = p
  OBVIOUS
<1>4. p \in RoutePoint /\ p.time = 0 /\ p.position = Kept(scale, last)
  BY DEF RoutePoint
<1>5. r \in Seq(RoutePoint) /\ r # << >>
  BY <1>4
<1> HIDE DEF v, way, p, r
<1>6. EndsAt(way, 0, Kept(scale, last))
  BY <1>2, <1>3 DEF EndsAt
<1>7. Timed(<< >>, 0, r[Len(r)].time)
  <2>1. Timed(<< >>, 0, 0)
    BY TimedEmpty
  <2>2. QED
    BY <1>3, <1>4, <2>1
<1>8. Leads(<< >>, scale, Kept(scale, last), r[Len(r)].position)
  <2>1. Leads(<< >>, scale, Kept(scale, last), Kept(scale, last))
    BY LeadsEmpty
  <2>2. QED
    BY <1>3, <1>4, <2>1
<1>9. Drawn(bytes, scale, last, << >>, r, way)
  <2>1. \A i \in 1 .. Len(r) - 1 : Met(way, r[i])
    BY <1>3
  <2>2. QED
    BY <1>1, <1>5, <1>6, <1>7, <1>8, <2>1 DEF Drawn
<1>10. QED
  BY <1>3, <1>9 DEF r, p

(* With no calls left the last point is met too.                           *)
LEMMA AllMet ==
  ASSUME NEW bytes, NEW scale, NEW last, NEW r, NEW way,
         Drawn(bytes, scale, last, << >>, r, way)
  PROVE  /\ \A p \in 1 .. Len(r) : Met(way, r[p])
         /\ EndsAt(way, r[Len(r)].time, r[Len(r)].position)
<1>1. PICK time \in Nat : /\ EndsAt(way, time, Kept(scale, last))
                          /\ Timed(<< >>, time, r[Len(r)].time)
                          /\ Leads(<< >>, scale, Kept(scale, last), r[Len(r)].position)
  BY DEF Drawn
<1>2. time = r[Len(r)].time
  BY <1>1, TimedEmpty
<1>3. Kept(scale, last) = r[Len(r)].position
  BY <1>1, LeadsEmpty
<1>4. EndsAt(way, r[Len(r)].time, r[Len(r)].position)
  BY <1>1, <1>2, <1>3
<1>5. Len(way) \in 1 .. Len(way)
  BY DEF Drawn, IsWay
<1>6. Met(way, r[Len(r)])
  BY <1>4, <1>5 DEF Met, EndsAt
<1>7. Len(r) \in Nat /\ Len(r) >= 1
  BY LastElement DEF Drawn
<1>8. \A p \in 1 .. Len(r) - 1 : Met(way, r[p])
  BY DEF Drawn
<1>9. ASSUME NEW p \in 1 .. Len(r) PROVE Met(way, r[p])
  <2>1. p = Len(r) \/ p \in 1 .. Len(r) - 1
    BY <1>7
  <2>2. QED
    BY <1>6, <1>8, <2>1
<1>10. QED
  BY <1>4, <1>9

(* A call that is made adds a point to the route.                          *)
LEMMA DrawnAsk ==
  ASSUME NEW bytes, NEW scale \in 1 .. 127, NEW last, NEW r, NEW way,
         Drawn(bytes, scale, last, << >>, r, way), NEW c \in CallRecord,
         NEW position,
         position = IF c.call = "line" THEN Kept(scale, c.target) ELSE r[Len(r)].position
  PROVE  Drawn(bytes, scale, last, <<c>>,
               Append(r, [time |-> r[Len(r)].time + c.duration, position |-> position]), way)
<1> DEFINE t == r[Len(r)].time
           p == [time |-> t + c.duration, position |-> position]
           q == Append(r, p)
<1>1. PICK time \in Nat : /\ EndsAt(way, time, Kept(scale, last))
                          /\ Timed(<< >>, time, r[Len(r)].time)
                          /\ Leads(<< >>, scale, Kept(scale, last), r[Len(r)].position)
  BY DEF Drawn
<1>2. time = t
  BY <1>1, TimedEmpty
<1>3. Kept(scale, last) = r[Len(r)].position
  BY <1>1, LeadsEmpty
<1>4. r \in Seq(RoutePoint) /\ r # << >> /\ IsWay(bytes, way)
  BY DEF Drawn
<1>5. Len(r) \in Nat /\ Len(r) >= 1 /\ r[Len(r)] \in RoutePoint
  BY <1>4, LastElement
<1>6. c.duration \in Nat /\ c.target \in [Axes -> Int]
  BY DEF CallRecord
<1>7. position \in [Axes -> Int]
  <2>1. Kept(scale, c.target) \in [Axes -> Int]
    BY <1>6, KeptType
  <2>2. QED
    BY <1>5, <2>1 DEF RoutePoint
<1>8. p \in RoutePoint /\ p.time = t + c.duration /\ p.position = position
  BY <1>1, <1>2, <1>6, <1>7 DEF RoutePoint
<1> HIDE DEF p
<1>9. /\ q \in Seq(RoutePoint) /\ q # << >> /\ Len(q) = Len(r) + 1
      /\ q[Len(r) + 1] = p /\ \A i \in 1 .. Len(r) : q[i] = r[i]
  BY <1>4, <1>5, <1>8
<1> HIDE DEF q
<1>10. q[Len(q)].time = time + c.duration /\ q[Len(q)].position = position
  BY <1>2, <1>8, <1>9
<1>11. Timed(<<c>>, time, q[Len(q)].time)
  <2>1. Timed(<<c>>, time, time + c.duration)
    BY TimedOne
  <2>2. QED
    BY <1>10, <2>1
<1>12. Leads(<<c>>, scale, Kept(scale, last), q[Len(q)].position)
  <2>1. Leads(<<c>>, scale, Kept(scale, last),
              IF c.call = "line" THEN Kept(scale, c.target) ELSE Kept(scale, last))
    BY LeadsOne
  <2>2. QED
    BY <1>3, <1>10, <2>1
<1>13. ASSUME NEW i \in 1 .. Len(q) - 1 PROVE Met(way, q[i])
  <2>1. i \in 1 .. Len(r)
    BY <1>5, <1>9
  <2>2. QED
    BY <1>9, <2>1, AllMet
<1>14. Drawn(bytes, scale, last, <<c>>, q, way)
  BY <1>1, <1>4, <1>9, <1>11, <1>12, <1>13 DEF Drawn
<1>15. QED
  BY <1>14 DEF q, p

(* A segment that is added has drawn the next call.                        *)
LEMMA DrawnLine ==
  ASSUME NEW c \in Seq(Byte), Len(c) >= 9, NEW d \in Seq(Byte), Len(d) >= 1,
         NEW scale, NEW last, NEW s \in Seq(CallRecord), s # << >>, Head(s).call = "line",
         NEW r, NEW way, Drawn(c, scale, last, s, r, way),
         NEW v, v = PointAfter(c \o d, way[Len(way)]), v.offset = Len(c \o d),
         v.time = way[Len(way)].time + Head(s).duration,
         v.position = Kept(scale, Head(s).target)
  PROVE  Drawn(c \o d, scale, Head(s).target, Tail(s), r, Longer(way, v))
<1> DEFINE l == Longer(way, v)
           here == Kept(scale, Head(s).target)
<1>1. PICK time \in Nat : /\ EndsAt(way, time, Kept(scale, last))
                          /\ Timed(s, time, r[Len(r)].time)
                          /\ Leads(s, scale, Kept(scale, last), r[Len(r)].position)
  BY DEF Drawn
<1>2. IsWay(c, way) /\ r \in Seq(RoutePoint) /\ r # << >>
  BY DEF Drawn
<1>3. IsWay(c \o d, l)
  BY <1>2, WayGoesOn
<1>4. Len(way) \in Nat
  BY <1>2 DEF IsWay
<1>5. /\ Len(l) = Len(way) + 1
      /\ \A i \in 1 .. Len(way) : l[i] = way[i]
      /\ l[Len(way) + 1] = v
  BY <1>4, LongerType
<1>6. time + Head(s).duration \in Nat
  <2>1. Head(s) \in CallRecord
    BY TailElements
  <2>2. QED
    BY <2>1 DEF CallRecord
<1> HIDE DEF l
<1>7. EndsAt(l, time + Head(s).duration, here)
  BY <1>1, <1>4, <1>5 DEF EndsAt
<1>8. Timed(Tail(s), time + Head(s).duration, r[Len(r)].time)
  BY <1>1, TimedPop
<1>9. Leads(Tail(s), scale, here, r[Len(r)].position)
  BY <1>1, LeadsPop
<1>10. ASSUME NEW p \in 1 .. Len(r) - 1 PROVE Met(l, r[p])
  <2>1. Met(way, r[p])
    BY DEF Drawn
  <2>2. PICK w \in 1 .. Len(way) : way[w].time = r[p].time /\ way[w].position = r[p].position
    BY <2>1 DEF Met
  <2>3. w \in 1 .. Len(l) /\ l[w] = way[w]
    BY <1>4, <1>5
  <2>4. QED
    BY <2>2, <2>3 DEF Met
<1>11. Drawn(c \o d, scale, Head(s).target, Tail(s), r, l)
  BY <1>2, <1>3, <1>6, <1>7, <1>8, <1>9, <1>10 DEF Drawn
<1>12. QED
  BY <1>11 DEF l

(* Other calls that take the same time to the same place will do.          *)
LEMMA DrawnCalls ==
  ASSUME NEW bytes, NEW scale, NEW last, NEW s, NEW r, NEW way,
         Drawn(bytes, scale, last, s, r, way), NEW u,
         \A time \in Nat : Timed(s, time, r[Len(r)].time) => Timed(u, time, r[Len(r)].time),
         Leads(s, scale, Kept(scale, last), r[Len(r)].position)
           => Leads(u, scale, Kept(scale, last), r[Len(r)].position)
  PROVE  Drawn(bytes, scale, last, u, r, way)
BY DEF Drawn

(* Two calls take the place of a line, or of a hold.                       *)
LEMMA DrawnSplit ==
  ASSUME NEW bytes, NEW scale, NEW last, NEW s \in Seq(CallRecord), s # << >>,
         NEW r, NEW way, Drawn(bytes, scale, last, s, r, way),
         NEW c \in CallRecord, NEW d \in CallRecord,
         c.duration + d.duration = Head(s).duration, c.call = "line",
         \/ Head(s).call = "line" /\ d.call = "line" /\ d.target = Head(s).target
         \/ Head(s).call # "line" /\ d.call # "line" /\ c.target = last
  PROVE  Drawn(bytes, scale, last, <<c, d>> \o Tail(s), r, way)
<1> DEFINE there == r[Len(r)].position
<1>1. ASSUME NEW time \in Nat, Timed(s, time, r[Len(r)].time)
      PROVE  Timed(<<c, d>> \o Tail(s), time, r[Len(r)].time)
  BY <1>1, TimedSplit
<1>2. ASSUME Leads(s, scale, Kept(scale, last), there)
      PROVE  Leads(<<c, d>> \o Tail(s), scale, Kept(scale, last), there)
  <2>1. CASE Head(s).call = "line" /\ d.call = "line" /\ d.target = Head(s).target
    BY <1>2, <2>1, LeadsSplit
  <2>2. CASE Head(s).call # "line" /\ d.call # "line" /\ c.target = last
    BY <1>2, <2>2, LeadsWait
  <2>3. QED
    BY <2>1, <2>2
<1>3. QED
  BY <1>1, <1>2, DrawnCalls

(* A hold that is over was the last call.                                  *)
LEMMA DrawnHoldEnds ==
  ASSUME NEW bytes, NEW scale, NEW last, NEW s \in Seq(CallRecord), s # << >>,
         NEW r, NEW way, Drawn(bytes, scale, last, s, r, way),
         Head(s).call # "line", Head(s).duration = 0
  PROVE  Drawn(bytes, scale, last, Tail(s), r, way)
<1> DEFINE there == r[Len(r)].position
<1>1. ASSUME NEW time \in Nat, Timed(s, time, r[Len(r)].time)
      PROVE  Timed(Tail(s), time, r[Len(r)].time)
  <2>1. Timed(Tail(s), time + Head(s).duration, r[Len(r)].time)
    BY <1>1, TimedPop
  <2>2. time + Head(s).duration = time
    OBVIOUS
  <2>3. QED
    BY <2>1, <2>2
<1>2. ASSUME Leads(s, scale, Kept(scale, last), there)
      PROVE  Leads(Tail(s), scale, Kept(scale, last), there)
  <2>1. Tail(s) = << >> /\ there = Kept(scale, last)
    BY <1>2, LeadsHold
  <2>2. Leads(<< >>, scale, Kept(scale, last), Kept(scale, last))
    BY LeadsEmpty
  <2>3. QED
    BY <2>1, <2>2
<1>3. QED
  BY <1>1, <1>2, DrawnCalls

(* When no calls are left, the route is drawn.                             *)
LEMMA DrawnPasses ==
  ASSUME NEW bytes \in Seq(Byte), NEW scale, NEW last, NEW r, NEW way,
         Drawn(bytes, scale, last, << >>, r, way)
  PROVE  Passes(bytes, r)
<1>1. IsWay(bytes, way) /\ way[Len(way)].offset = Len(bytes)
  BY DEF Drawn, IsWay
<1>2. Waypoints(bytes) = way
  BY <1>1, WaypointsAre
<1>3. QED
  BY <1>1, <1>2, AllMet DEF Passes, Met, EndsAt

---------------------------------------------------------------------------
(* The steps.                                                              *)

(* The inductive invariant: as long as no call failed, the header gives    *)
(* the scale of the builder, and the bytes and the calls that are left     *)
(* lead along the route.                                                   *)
Built ==
  BuilderLives /\ ~torn =>
    /\ ScaleOf(builder.buffer.contents) = builder.scale
    /\ started => \E way : Drawn(builder.buffer.contents, builder.scale,
                                 builder.last_position, calls, route, way)

(* The header of a new builder.                                            *)
EmptyBytes(v) == [Zeros(HeaderLength) EXCEPT ![1] = v]

(* It starts at the origin and has the scale of its first byte.            *)
LEMMA EmptyBytesDecode ==
  ASSUME NEW v \in Byte
  PROVE  /\ EmptyBytes(v) \in Seq(Byte) /\ Len(EmptyBytes(v)) = HeaderLength
         /\ ScaleOf(EmptyBytes(v)) = v % 128
         /\ ParseHeader(EmptyBytes(v)).start = Origin
<1> DEFINE z == Zeros(HeaderLength)
           s == EmptyBytes(v)
<1>1. HeaderLength \in Nat /\ HeaderLength = 9
  BY DEF HeaderLength
<1>2. z \in Seq(Byte) /\ Len(z) = HeaderLength
  BY <1>1, ZerosType
<1>3. s = [z EXCEPT ![1] = v]
  BY DEF EmptyBytes
<1>4. \A i \in 1 .. 9 : z[i] = 0
  BY <1>1 DEF Zeros
<1> HIDE DEF z, s
<1>5. /\ s \in Seq(Byte) /\ Len(s) = Len(z) /\ s[1] = v
      /\ \A i \in 1 .. Len(z) : i # 1 => s[i] = z[i]
  <2>1. 1 \in 1 .. Len(z)
    BY <1>1, <1>2
  <2>2. QED
    BY <1>2, <1>3, <2>1, ExceptSeq
<1>6. ScaleOf(s) = v % 128
  BY <1>5 DEF ScaleOf
<1>7. \A i \in 2 .. 9 : s[i] = 0
  BY <1>1, <1>2, <1>4, <1>5
<1>8. ScaleOf(s) \in Int
  BY <1>6, BuilderAssumption
<1>9. ParseHeader(s).start = Origin
  BY <1>7, <1>8, EmptyHeader
<1>10. QED
  BY <1>2, <1>5, <1>6, <1>9 DEF s

(* The bit for yaw is not part of the scale.                               *)
LEMMA ScaleOfByte ==
  ASSUME NEW scale \in 1 .. 127, NEW use_yaw \in BOOLEAN
  PROVE  (IF use_yaw THEN scale + 128 ELSE scale) % 128 = scale
  OBVIOUS

(* There is no builder at first.                                           *)
LEMMA BuiltAtFirst == ASSUME Init PROVE Built
<1>1. builder.buffer.stor_begin = NoBlock
  BY DEF Init, BuilderInit, Unbuilt
<1>2. QED
  BY <1>1 DEF Built, BuilderLives

(* A builder that got its buffer is at the origin, and there is nothing    *)
(* but a header.                                                           *)
LEMMA InitGives ==
  ASSUME BuilderInv, NEW scale \in 1 .. 127, NEW use_yaw \in BOOLEAN,
         InitBuilder(scale, use_yaw)
  PROVE  \/ result' = "ENOMEM" /\ builder'.buffer.stor_begin = NoBlock
         \/ /\ result' = "SUCCESS" /\ builder'.buffer.stor_begin # NoBlock
            /\ builder'.last_position = Origin /\ builder'.scale = scale
            /\ \E v \in Byte : builder'.buffer.contents = EmptyBytes(v) /\ v % 128 = scale
<1> DEFINE v == IF use_yaw THEN scale + 128 ELSE scale
<1>1. PICK o \in InitBuffer(heap, builder.buffer, HeaderLength) :
        /\ result' = o.result
        /\ builder' = IF o.result # "SUCCESS" THEN [builder EXCEPT !.buffer = o.buffer]
                      ELSE [buffer |-> [o.buffer EXCEPT !.contents[1] = v],
                            last_position |-> Origin, scale |-> scale]
  BY DEF InitBuilder
<1>2. HeaderLength \in 1 .. MaxObject
  BY BuilderAssumption, BufferAssumption DEF HeaderLength, SegmentLength
<1>3. /\ builder \in BuilderRecord /\ builder.buffer \in BufferRecord /\ heap \subseteq Blocks
  BY DEF BuilderInv, UseTypeOK, BuilderRecord
<1>4. /\ o.buffer \in BufferRecord
      /\ \/ o.result = "ENOMEM" /\ o.buffer.stor_begin = NoBlock
         \/ /\ o.result = "SUCCESS" /\ o.buffer.contents = Zeros(HeaderLength)
            /\ o.buffer.stor_begin \in Blocks
  BY <1>2, <1>3, NewBuffer
<1>5. CASE o.result # "SUCCESS"
  <2>1. builder'.buffer.stor_begin = NoBlock
    BY <1>1, <1>3, <1>4, <1>5 DEF BuilderRecord
  <2>2. QED
    BY <1>1, <1>4, <1>5, <2>1
<1>6. CASE o.result = "SUCCESS"
  <2>1. /\ builder'.buffer.contents = EmptyBytes(v) /\ builder'.last_position = Origin
        /\ builder'.scale = scale /\ builder'.buffer.stor_begin = o.buffer.stor_begin
    BY <1>1, <1>4, <1>6 DEF BufferRecord, EmptyBytes
  <2>2. v \in Byte /\ v % 128 = scale
    BY ScaleByte, ScaleOfByte
  <2>3. o.buffer.stor_begin # NoBlock
    BY <1>4, <1>6, Addresses
  <2> HIDE DEF v
  <2>4. QED
    BY <1>1, <1>6, <2>1, <2>2, <2>3
<1>7. QED
  BY <1>5, <1>6

(* A new builder is at the origin.                                         *)
LEMMA NewBuilderBuilds ==
  ASSUME BuilderInv, Built, NEW scale, NEW use_yaw \in BOOLEAN, NewBuilder(scale, use_yaw)
  PROVE  Built'
<1> DEFINE c == builder'.buffer.contents
<1>1. /\ calls = << >> /\ calls' = calls /\ ~BuilderLives /\ InitBuilder(scale, use_yaw)
      /\ route' = <<[time |-> 0, position |-> Origin]>>
  BY DEF NewBuilder, FromOrigin
<1>2. CASE scale \notin 1 .. 127
  <2>1. builder' = builder
    BY <1>1, <1>2 DEF InitBuilder
  <2>2. QED
    BY <1>1, <2>1 DEF Built, BuilderLives
<1>3. CASE scale \in 1 .. 127 /\ BuilderLives'
  <2>1. /\ builder'.last_position = Origin /\ builder'.scale = scale
        /\ \E v \in Byte : c = EmptyBytes(v) /\ v % 128 = scale
    BY <1>1, <1>3, InitGives DEF BuilderLives
  <2>2. /\ c \in Seq(Byte) /\ Len(c) = HeaderLength /\ ScaleOf(c) = scale
        /\ ParseHeader(c).start = Origin
    BY <2>1, EmptyBytesDecode
  <2>3. Origin \in [Axes -> Int] /\ Origin = Kept(scale, Origin)
    <3>1. Kept(scale, Origin) = Origin
      BY <1>3, OriginKept
    <3>2. QED
      BY <3>1 DEF Origin
  <2>4. \E way : Drawn(c, scale, Origin, << >>, <<[time |-> 0, position |-> Origin]>>, way)
    BY <2>2, <2>3, DrawnStart
  <2>5. QED
    BY <1>1, <2>1, <2>2, <2>4 DEF Built
<1>4. QED
  BY <1>2, <1>3 DEF Built

(* A start that fits replaces the one in the header, as long as nothing    *)
(* follows it.                                                             *)
LEMMA StartGives ==
  ASSUME BuilderInv, NEW p \in [Axes -> Int], SetStartPosition(p),
         Size(builder.buffer) = HeaderLength,
         ScaleOf(builder.buffer.contents) = builder.scale
  PROVE  \/ result' = "EINVAL" /\ ~\A a \in Axes : Int16(Encoded(builder.scale, p, a))
         \/ /\ result' = "SUCCESS"
            /\ builder'.last_position = p /\ builder'.scale = builder.scale
            /\ ScaleOf(builder'.buffer.contents) = builder.scale
            /\ \E way : /\ Len(way) = 1
                        /\ Drawn(builder'.buffer.contents, builder.scale, p, << >>,
                                 <<[time |-> 0, position |-> Kept(builder.scale, p)]>>, way)
<1> DEFINE b == builder.buffer
           fitting == Fitting(builder.scale, p, Axes)
           s == Written(builder.scale, p, fitting)
           written == Overwritten(b.contents, 1, s)
           k == Kept(builder.scale, p)
<1>1. /\ builder \in BuilderRecord /\ b \in BufferRecord /\ b.contents \in Seq(Byte)
      /\ builder.scale \in 1 .. 127
  BY DEF BuilderInv, UseTypeOK, BuilderRecord, BufferRecord
<1>2. /\ result' = (IF fitting = Axes THEN "SUCCESS" ELSE "EINVAL")
      /\ builder' = [builder EXCEPT !.buffer.contents = written,
                       !.last_position = IF fitting = Axes THEN p ELSE @]
  BY DEF SetStartPosition
<1>3. CASE fitting # Axes
  <2>1. ~\A a \in Axes : Int16(Encoded(builder.scale, p, a))
    BY <1>3 DEF Fitting
  <2>2. QED
    BY <1>2, <1>3, <2>1
<1>4. CASE fitting = Axes
  <2>1. /\ builder'.buffer.contents = written /\ builder'.last_position = p
        /\ builder'.scale = builder.scale
    BY <1>1, <1>2, <1>4 DEF BuilderRecord, BufferRecord
  <2>2. s \in Seq(Byte) /\ Len(s) <= 8 /\ Len(s) \in Nat
    BY <1>1, WrittenType, LenProperties
  <2>3. Len(b.contents) = 9 /\ HeaderLength = 9
    BY DEF Size, HeaderLength
  <2> HIDE DEF s, fitting, b, written
  <2>4. 1 \in 0 .. Len(b.contents) /\ 1 + Len(s) <= Len(b.contents) /\ 1 \in 1 .. 1
    BY <2>2, <2>3
  <2>5. /\ written \in Seq(Byte) /\ Len(written) = Len(b.contents)
        /\ HasAt(written, 1, s) /\ \A i \in 1 .. 1 : written[i] = b.contents[i]
    BY <1>1, <2>2, <2>4, OverwrittenType, OverwrittenHas DEF written
  <2>6. ScaleOf(written) = builder.scale
    BY <2>4, <2>5 DEF ScaleOf, b
  <2>7. ParseHeader(written).start = k
    <3>1. \A a \in Axes : Int16(Encoded(builder.scale, p, a))
      BY <1>4, AllFit DEF fitting
    <3>2. HasAt(written, 1, Written(builder.scale, p, Axes))
      BY <1>4, <2>5 DEF s
    <3>3. QED
      BY <1>1, <2>5, <2>6, <3>1, <3>2, HeaderDecodes
  <2>8. k \in [Axes -> Int] /\ Len(written) = HeaderLength
    BY <1>1, <2>3, <2>5, KeptType
  <2>9. \E way : /\ Len(way) = 1
                 /\ Drawn(written, builder.scale, p, << >>, <<[time |-> 0, position |-> k]>>, way)
    BY <2>5, <2>7, <2>8, DrawnStart
  <2>10. QED
    BY <1>2, <1>4, <2>1, <2>6, <2>9
<1>5. QED
  BY <1>3, <1>4

(* The route starts where the program said.                                *)
LEMMA StartAtBuilds ==
  ASSUME BuilderInv, Built, NEW p \in [Axes -> Int], StartAt(p)
  PROVE  Built'
<1>1. /\ calls = << >> /\ calls' = calls /\ BuilderLives /\ ~torn /\ SetStartPosition(p)
      /\ torn' = (result' = "EINVAL")
      /\ IF result' = "SUCCESS"
           THEN route' = <<[time |-> 0, position |-> OnGrid(p)]>> /\ started' = TRUE
           ELSE route' = route /\ started' = started
  BY DEF StartAt, Ready
<1>2. ScaleOf(builder.buffer.contents) = builder.scale
  BY <1>1 DEF Built
<1>3. CASE Size(builder.buffer) # HeaderLength
  <2>1. result' = "FAILURE" /\ builder' = builder
    BY <1>1, <1>3 DEF SetStartPosition
  <2>2. route' = route /\ started' = started
    BY <1>1, <2>1
  <2>3. QED
    BY <1>1, <2>1, <2>2 DEF Built
<1>4. CASE Size(builder.buffer) = HeaderLength /\ result' = "SUCCESS"
  <2>1. OnGrid(p) = Kept(builder.scale, p)
    BY DEF OnGrid, Kept
  <2>2. "SUCCESS" # "EINVAL"
    OBVIOUS
  <2>3. QED
    BY <1>1, <1>2, <1>4, <2>1, <2>2, StartGives DEF Built
<1>5. CASE Size(builder.buffer) = HeaderLength /\ result' # "SUCCESS"
  BY <1>1, <1>2, <1>5, StartGives DEF Built
<1>6. QED
  BY <1>3, <1>4, <1>5

(* A call that is made is still to be drawn.                               *)
LEMMA DrawBuilds ==
  ASSUME BuilderInv, Built, NEW c \in CallRecord, NEW position, Draw(c, position),
         position = IF c.call = "line" THEN OnGrid(c.target) ELSE route[Len(route)].position
  PROVE  Built'
<1>1. /\ calls = << >> /\ BuilderLives /\ ~torn
      /\ calls' = <<c>> /\ route' = Extended(position, c.duration)
      /\ builder' = builder /\ torn' = torn /\ started' = started
  BY DEF Draw, Ready
<1>2. ScaleOf(builder.buffer.contents) = builder.scale
  BY <1>1 DEF Built
<1>3. CASE ~started
  BY <1>1, <1>2, <1>3 DEF Built
<1>4. builder.scale \in 1 .. 127
  BY DEF BuilderInv, UseTypeOK
<1>5. position = IF c.call = "line" THEN Kept(builder.scale, c.target)
                                    ELSE route[Len(route)].position
  BY DEF OnGrid, Kept
<1>6. CASE started
  <2>1. PICK way : Drawn(builder.buffer.contents, builder.scale, builder.last_position,
                         << >>, route, way)
    BY <1>1, <1>6 DEF Built
  <2>2. Drawn(builder.buffer.contents, builder.scale, builder.last_position, <<c>>,
              Append(route, [time |-> route[Len(route)].time + c.duration,
                             position |-> position]),
              way)
    BY <2>1, <1>4, <1>5, DrawnAsk
  <2>3. Drawn(builder'.buffer.contents, builder'.scale, builder'.last_position, calls', route', way)
    BY <1>1, <2>2 DEF Extended
  <2>4. QED
    BY <1>1, <1>2, <2>3 DEF Built
<1>7. QED
  BY <1>3, <1>6

(* What is not written of a point stays as it was, and was the same.       *)
LEMMA UnchangedKept ==
  ASSUME NEW scale, NEW target, builder.scale = scale
  PROVE  [a \in Axes |-> IF a \in Changed(target) THEN Kept(scale, target)[a]
                         ELSE Kept(scale, builder.last_position)[a]]
           = Kept(scale, target)
<1>1. ASSUME NEW a \in Axes, a \notin Changed(target)
      PROVE  Kept(scale, builder.last_position)[a] = Kept(scale, target)[a]
  <2>1. builder.last_position[a] = target[a]
    BY <1>1 DEF Changed
  <2>2. QED
    BY <2>1 DEF Kept
<1>2. Kept(scale, target) = [a \in Axes |-> Kept(scale, target)[a]]
  BY DEF Kept
<1>3. QED
  BY <1>1, <1>2

(* The bytes after a line that was drawn: whatever way led to where it     *)
(* began goes on to its target.                                            *)
LineDrawn(bytes, scale, last, s, more) ==
  \A r, way : Drawn(bytes, scale, last, s, r, way) =>
    \E v : /\ v.time = way[Len(way)].time + Head(s).duration
          /\ v.position = Kept(scale, Head(s).target)
          /\ Drawn(more, scale, Head(s).target, Tail(s), r, Longer(way, v))

(* A line that is written leads to its target.                             *)
LEMMA LineGives ==
  ASSUME BuilderInv, AppendLine, result' = "SUCCESS",
         ScaleOf(builder.buffer.contents) = builder.scale
  PROVE  /\ builder'.last_position = Head(calls).target /\ builder'.scale = builder.scale
         /\ ScaleOf(builder'.buffer.contents) = builder.scale
         /\ calls' = Tail(calls)
         /\ LineDrawn(builder.buffer.contents, builder.scale, builder.last_position, calls,
                      builder'.buffer.contents)
<1> DEFINE b == builder.buffer
           c == b.contents
           scale == builder.scale
           last == builder.last_position
           line == Head(calls)
           d == SegmentOf(scale, line.target, Changed(line.target), line.duration)
<1>1. /\ calls # << >> /\ line.call = "line" /\ line.duration <= MaxDuration
      /\ calls' = Tail(calls)
  BY DEF AppendLine, Continue
<1>2. /\ builder \in BuilderRecord /\ b \in BufferRecord /\ c \in Seq(Byte)
      /\ heap \subseteq Blocks /\ calls \in Seq(CallRecord) /\ BuilderLives
      /\ OwnsItsBytes(b) /\ Size(b) >= HeaderLength /\ scale \in 1 .. 127
  BY <1>1 DEF BuilderInv, UseTypeOK, BuilderRecord, BufferRecord
<1>3. Fits(heap, b) /\ b.owned
  BY <1>2, OwnerFits
<1>4. line.target \in [Axes -> Int] /\ line.duration \in Nat
  BY <1>1, <1>2, CallsType
<1>5. PICK o \in AppendedSegment(line.target, line.duration) :
        /\ o.result = "SUCCESS"
        /\ builder' = [builder EXCEPT !.buffer = o.buffer, !.last_position = line.target]
  <2>1. PICK o \in AppendedSegment(line.target, line.duration) :
          /\ heap' = o.heap /\ result' = o.result
          /\ builder' = [builder EXCEPT !.buffer = o.buffer,
               !.last_position = IF o.result = "SUCCESS" THEN line.target ELSE @]
    BY DEF AppendLine
  <2>2. QED
    BY <1>1, <2>1
<1>6. builder'.buffer = o.buffer /\ builder'.last_position = line.target /\ builder'.scale = scale
  BY <1>2, <1>5 DEF BuilderRecord
<1>7. /\ o.buffer.contents = c \o d
      /\ \A a \in Changed(line.target) : Int16(Encoded(scale, line.target, a))
  BY <1>2, <1>3, <1>4, <1>5, SegmentAdded
<1>8. ScaleOf(c) = scale
  OBVIOUS
<1>9. d \in Seq(Byte) /\ Len(d) >= 1 /\ Len(c) >= 9 /\ Len(c) \in Nat /\ Len(d) \in Nat
  <2>1. Len(Written(scale, line.target, Changed(line.target))) \in Nat
    BY <1>2, <1>4, WrittenType, LenProperties
  <2>2. d \in Seq(Byte)
        /\ Len(d) = Len(Written(scale, line.target, Changed(line.target))) + 3
    BY <1>2, <1>4, SegmentLen
  <2>3. QED
    BY <1>2, <2>1, <2>2, LenProperties DEF Size, HeaderLength
<1>10. HasAt(c \o d, Len(c), d) /\ c \o d \in Seq(Byte) /\ Len(c \o d) = Len(c) + Len(d)
  BY <1>2, <1>9, HasEnd, ConcatType
<1>11. ScaleOf(c \o d) = scale
  <2> HIDE DEF c, d
  <2>1. \A i \in 1 .. Len(c) : (c \o d)[i] = c[i]
    BY <1>2, <1>9, ConcatElements
  <2>2. 1 \in 1 .. Len(c)
    BY <1>9
  <2>3. QED
    BY <1>8, <2>1, <2>2 DEF ScaleOf
<1>12. ASSUME NEW r, NEW way, Drawn(c, scale, last, calls, r, way)
       PROVE  \E v : /\ v.time = way[Len(way)].time + line.duration
                    /\ v.position = Kept(scale, line.target)
                    /\ Drawn(c \o d, scale, line.target, Tail(calls), r, Longer(way, v))
  <2>1. Drawn(c, scale, last, calls, r, way)
    BY <1>12
  <2> DEFINE w == way[Len(way)]
             s == SegmentAt(c \o d, w.offset, w.position)
             v == PointAfter(c \o d, w)
  <2>2. w.offset = Len(c) /\ w.position = Kept(scale, last)
    BY <2>1 DEF Drawn, IsWay, EndsAt
  <2>3. /\ s.duration = line.duration /\ s.length = Len(d)
        /\ EndOf(s) = [a \in Axes |-> IF a \in Changed(line.target)
                                      THEN Kept(scale, line.target)[a] ELSE w.position[a]]
    <3>1. Changed(line.target) \in SUBSET Axes
      BY DEF Changed
    <3> DEFINE changed == Changed(line.target)
    <3>2. changed \in SUBSET Axes
      BY <3>1
    <3>3. HasAt(c \o d, w.offset, SegmentOf(scale, line.target, changed, line.duration))
      BY <1>10, <2>2
    <3>4. /\ w.offset \in Nat
          /\ \A a \in changed : Int16(Encoded(scale, line.target, a))
      BY <1>7, <1>9, <2>2
    <3> DEFINE e == c \o d
               target == line.target
               duration == line.duration
               offset == w.offset
               start == w.position
    <3>5. /\ e \in Seq(Byte) /\ ScaleOf(e) = scale /\ scale \in 1 .. 127
          /\ target \in [Axes -> Int] /\ duration \in Nat /\ duration <= MaxDuration
          /\ HasAt(e, offset, SegmentOf(scale, target, changed, duration))
          /\ \A a \in changed : Int16(Encoded(scale, target, a))
          /\ offset \in Nat /\ changed \in SUBSET Axes
      BY <1>1, <1>2, <1>4, <1>10, <1>11, <3>2, <3>3, <3>4
    <3> HIDE DEF e, changed, target, duration, offset, start, scale
    <3>6. ReadsSegment(e, offset, start, scale, target, changed, duration)
      BY ONLY <3>5, SegmentDecodes
    <3>7. QED
      BY <3>6 DEF ReadsSegment, e, changed, target, duration, offset, start, scale
  <2>4. EndOf(s) = Kept(scale, line.target)
    BY <2>2, <2>3, UnchangedKept
  <2>5. /\ v.time = w.time + line.duration /\ v.position = Kept(scale, line.target)
        /\ v.offset = Len(c \o d)
    <3>1. v.time = w.time + s.duration /\ v.position = EndOf(s) /\ v.offset = w.offset + s.length
      BY DEF PointAfter
    <3> HIDE DEF v, s, w, c, d, line
    <3>2. QED
      BY <1>10, <2>2, <2>3, <2>4, <3>1
  <2>6. v = PointAfter(c \o d, way[Len(way)])
    OBVIOUS
  <2> HIDE DEF v, s, c, d
  <2>7. Drawn(c \o d, scale, line.target, Tail(calls), r, Longer(way, v))
    BY <1>1, <1>2, <1>9, <2>1, <2>5, <2>6, DrawnLine
  <2>8. QED
    BY <2>5, <2>7 DEF w
<1>13. LineDrawn(c, scale, last, calls, c \o d)
  <2> HIDE DEF c, d, scale, last
  <2>1. QED
    BY <1>12 DEF LineDrawn
<1>14. QED
  BY <1>1, <1>6, <1>7, <1>11, <1>13

(* A line that is written leads along the route, or the call failed.       *)
LEMMA AppendLineBuilds ==
  ASSUME BuilderInv, Built, AppendLine, route' = route, started' = started,
         torn' = (torn \/ result' # "SUCCESS")
  PROVE  Built'
<1> DEFINE c == builder.buffer.contents
           scale == builder.scale
           target == Head(calls).target
<1> SUFFICES ASSUME BuilderLives', ~torn' PROVE Built'
  BY DEF Built
<1>1. result' = "SUCCESS" /\ ~torn /\ BuilderLives
  BY DEF AppendLine, BuilderInv
<1>2. ScaleOf(c) = scale
  BY <1>1 DEF Built
<1>3. /\ builder'.last_position = target /\ builder'.scale = scale
      /\ ScaleOf(builder'.buffer.contents) = scale /\ calls' = Tail(calls)
      /\ LineDrawn(c, scale, builder.last_position, calls, builder'.buffer.contents)
  BY <1>1, <1>2, LineGives
<1>4. ASSUME started
      PROVE  \E way : Drawn(builder'.buffer.contents, scale, target, Tail(calls), route, way)
  <2>1. PICK way : Drawn(c, scale, builder.last_position, calls, route, way)
    BY <1>1, <1>4 DEF Built
  <2>2. QED
    BY <1>3, <2>1 DEF LineDrawn
<1>5. QED
  BY <1>3, <1>4 DEF Built

(* A long line is drawn in two, by way of the point in the middle.         *)
LEMMA SplitGives ==
  ASSUME BuilderInv, SplitLine
  PROVE  \E c \in CallRecord, d \in CallRecord :
           /\ calls' = <<c, d>> \o Tail(calls)
           /\ c.target = Midpoint(builder.last_position, Head(calls).target)
           /\ d.target = Head(calls).target
           /\ \A r, way :
                Drawn(builder.buffer.contents, builder.scale, builder.last_position, calls, r, way)
                  => Drawn(builder.buffer.contents, builder.scale, builder.last_position, calls',
                           r, way)
<1> DEFINE line == Head(calls)
           last == builder.last_position
           midpoint == Midpoint(last, line.target)
           c == Line(midpoint, Halves(line.duration)[1])
           d == Line(line.target, Halves(line.duration)[2])
<1>1. /\ calls # << >> /\ line.call = "line" /\ calls' = <<c, d>> \o Tail(calls)
      /\ builder' = builder
  BY DEF SplitLine
<1>2. calls \in Seq(CallRecord) /\ last \in [Axes -> Int]
  BY DEF BuilderInv, UseTypeOK
<1>3. line.target \in [Axes -> Int] /\ line.duration \in Nat
  BY <1>1, <1>2, CallsType
<1>4. /\ Halves(line.duration)[1] \in Nat /\ Halves(line.duration)[2] \in Nat
      /\ Halves(line.duration)[1] + Halves(line.duration)[2] = line.duration
  <2>1. Halves(line.duration)[1] \in Nat /\ Halves(line.duration)[2] \in Nat
    BY <1>3, HalvesType
  <2>2. /\ Halves(line.duration)[1] = line.duration \div 2
        /\ Halves(line.duration)[2] = line.duration - line.duration \div 2
    BY DEF Halves
  <2>3. ASSUME NEW n \in Nat PROVE (n \div 2) + (n - (n \div 2)) = n
    OBVIOUS
  <2>4. (line.duration \div 2) + (line.duration - (line.duration \div 2)) = line.duration
    BY <1>3, <2>3
  <2>5. QED
    BY <2>1, <2>2, <2>4
<1>5. midpoint \in [Axes -> Int] /\ c.target = midpoint
  BY <1>2, <1>3, MidpointType DEF Line
<1> HIDE DEF midpoint
<1>6. /\ c \in CallRecord /\ d \in CallRecord
      /\ c.call = "line" /\ d.call = "line" /\ d.target = line.target
      /\ c.duration + d.duration = line.duration
  <2>1. c \in CallRecord /\ d \in CallRecord
    BY <1>3, <1>4, <1>5, LineType
  <2>2. /\ c.call = "line" /\ d.call = "line" /\ d.target = line.target
        /\ c.duration = Halves(line.duration)[1] /\ d.duration = Halves(line.duration)[2]
    BY DEF Line
  <2>3. QED
    BY <1>4, <2>1, <2>2
<1> HIDE DEF c, d
<1>7. ASSUME NEW r, NEW way,
             Drawn(builder.buffer.contents, builder.scale, last, calls, r, way)
      PROVE  Drawn(builder.buffer.contents, builder.scale, last, calls', r, way)
  BY <1>1, <1>2, <1>6, <1>7, DrawnSplit
<1>8. QED
  BY <1>1, <1>5, <1>6, <1>7 DEF midpoint

(* That leads along the route as well.                                     *)
LEMMA SplitLineBuilds ==
  ASSUME BuilderInv, Built, SplitLine, route' = route, started' = started, torn' = torn
  PROVE  Built'
<1>1. builder' = builder
  BY DEF SplitLine
<1>2. \A r, way :
        Drawn(builder.buffer.contents, builder.scale, builder.last_position, calls, r, way)
          => Drawn(builder.buffer.contents, builder.scale, builder.last_position, calls', r, way)
  BY SplitGives
<1>3. QED
  BY <1>1, <1>2 DEF Built, BuilderLives

(* A hold is drawn one part after another.                                 *)
LEMMA HoldGives ==
  ASSUME BuilderInv, HoldPositionFor
  PROVE  /\ \/ calls' = Tail(calls)
            \/ \E c \in CallRecord, d \in CallRecord :
                  /\ calls' = <<c, d>> \o Tail(calls)
                  /\ c.target = builder.last_position /\ d.call = "hold" /\ d.target = Origin
         /\ \A r, way :
              Drawn(builder.buffer.contents, builder.scale, builder.last_position, calls, r, way)
                => Drawn(builder.buffer.contents, builder.scale, builder.last_position, calls',
                         r, way)
<1> DEFINE hold == Head(calls)
           last == builder.last_position
           part == PartOfHold(hold.duration)
           c == Line(last, part[1])
           d == Hold(part[2])
<1>1. /\ calls # << >> /\ hold.call # "line"
      /\ calls' = IF hold.duration = 0 THEN Tail(calls) ELSE <<c, d>> \o Tail(calls)
  <2>1. /\ calls # << >> /\ hold.call = "hold"
        /\ calls' = IF hold.duration = 0 THEN Tail(calls) ELSE <<c, d>> \o Tail(calls)
    BY DEF HoldPositionFor
  <2>2. "hold" # "line"
    OBVIOUS
  <2>3. QED
    BY <2>1, <2>2
<1>2. calls \in Seq(CallRecord) /\ last \in [Axes -> Int]
  BY DEF BuilderInv, UseTypeOK
<1>3. hold.duration \in Nat
  BY <1>1, <1>2, CallsType
<1>4. part[1] \in Nat /\ part[2] \in Nat /\ part[1] + part[2] = hold.duration
  <2>1. MaxDuration \in Nat
    BY BuilderAssumption
  <2>2. CASE hold.duration > MaxDuration
    <3>1. part[1] = MaxDuration /\ part[2] = hold.duration - MaxDuration
      BY <2>2 DEF PartOfHold
    <3>2. QED
      BY <1>3, <2>1, <2>2, <3>1
  <2>3. CASE ~(hold.duration > MaxDuration)
    <3>1. part[1] = hold.duration /\ part[2] = 0
      BY <2>3 DEF PartOfHold
    <3>2. QED
      BY <1>3, <3>1
  <2>4. QED
    BY <2>2, <2>3
<1> HIDE DEF part
<1>5. /\ c \in CallRecord /\ d \in CallRecord
      /\ c.call = "line" /\ d.call = "hold" /\ d.call # "line"
      /\ c.target = last /\ d.target = Origin
      /\ c.duration + d.duration = hold.duration
  <2>1. c \in CallRecord /\ d \in CallRecord
    BY <1>2, <1>4, LineType
  <2>2. /\ c.call = "line" /\ d.call = "hold" /\ c.target = last /\ d.target = Origin
        /\ c.duration = part[1] /\ d.duration = part[2]
    BY DEF Line, Hold
  <2>3. QED
    BY <1>4, <2>1, <2>2
<1> HIDE DEF c, d
<1>6. ASSUME NEW r, NEW way,
             Drawn(builder.buffer.contents, builder.scale, last, calls, r, way)
      PROVE  Drawn(builder.buffer.contents, builder.scale, last, calls', r, way)
  <2>1. CASE hold.duration = 0
    BY <1>1, <1>2, <1>6, <2>1, DrawnHoldEnds
  <2>2. CASE hold.duration # 0
    BY <1>1, <1>2, <1>5, <1>6, <2>2, DrawnSplit
  <2>3. QED
    BY <2>1, <2>2
<1>7. QED
  BY <1>1, <1>5, <1>6

(* It keeps to the route.                                                  *)
LEMMA HoldBuilds ==
  ASSUME BuilderInv, Built, HoldPositionFor, route' = route, started' = started,
         torn' = (torn \/ result' # "SUCCESS")
  PROVE  Built'
<1>1. builder' = builder /\ result' = "SUCCESS"
  BY DEF HoldPositionFor
<1>2. \A r, way :
        Drawn(builder.buffer.contents, builder.scale, builder.last_position, calls, r, way)
          => Drawn(builder.buffer.contents, builder.scale, builder.last_position, calls', r, way)
  BY HoldGives
<1>3. QED
  BY <1>1, <1>2 DEF Built, BuilderLives

(* A hand-over: the trajectory has the bytes, the builder the header of a  *)
(* new one if there is memory for it.                                      *)
LEMMA HandOverGives ==
  ASSUME BuilderInv, BuilderLives, InitFromBuilder
  PROVE  /\ trajectory'.contents = builder.buffer.contents
         /\ trajectory'.stor_begin = builder.buffer.stor_begin
         /\ builder.buffer.contents[1] \in Byte
         /\ \/ result' = "ENOMEM"
            \/ /\ result' = "SUCCESS" /\ builder'.scale = builder.scale
               /\ builder'.buffer.contents = EmptyBytes(builder.buffer.contents[1])
               /\ builder'.buffer.stor_begin # NoBlock
<1> DEFINE b == builder.buffer
           bytes == b.contents
           taken == [stor_begin |-> b.stor_begin, capacity |-> Len(bytes),
                     contents |-> bytes, owned |-> TRUE]
           Given(o) == IF o.result = "SUCCESS"
                         THEN [o EXCEPT !.buffer.contents[1] = Head(bytes)] ELSE o
<1>1. BuilderLives /\ InitFromBuilder
  OBVIOUS
<1>2. /\ builder \in BuilderRecord /\ b \in BufferRecord /\ bytes \in Seq(Byte)
      /\ heap \subseteq Blocks
  BY DEF BuilderInv, UseTypeOK, BuilderRecord, BufferRecord
<1>3. bytes # << >> /\ Head(bytes) = bytes[1] /\ bytes[1] \in Byte
  <2>1. Len(bytes) >= 9 /\ Len(bytes) \in Nat
    BY <1>1, <1>2, LenProperties DEF BuilderInv, Size, HeaderLength
  <2>2. bytes # << >>
    BY <2>1, EmptySeq
  <2>3. Head(bytes) = bytes[1] /\ Head(bytes) \in Byte
    BY <1>2, <2>2, HeadTailProperties
  <2>4. QED
    BY <2>2, <2>3
<1>4. InitFromBytes(heap, trajectory, b.stor_begin, bytes) = Outcome("SUCCESS", heap, taken)
  BY <1>3 DEF InitFromBytes
<1> HIDE DEF taken
<1>5. Outcome("SUCCESS", heap, taken).buffer = taken /\ Outcome("SUCCESS", heap, taken).heap = heap
  BY DEF Outcome
<1>6. PICK o \in InitBuffer(heap, b, HeaderLength) :
        /\ trajectory' = taken
        /\ heap' = Given(o).heap /\ result' = Given(o).result
        /\ builder' = [builder EXCEPT !.buffer = Given(o).buffer]
  <2>1. InitFromBuilder
    BY <1>1
  <2>2. QED
    BY ONLY <2>1, <1>4, <1>5 DEF InitFromBuilder, Return
<1>7. HeaderLength \in 1 .. MaxObject
  BY BuilderAssumption, BufferAssumption DEF HeaderLength, SegmentLength
<1>8. /\ o = Outcome(o.result, o.heap, o.buffer) /\ o.buffer \in BufferRecord
      /\ \/ o.result = "ENOMEM"
         \/ /\ o.result = "SUCCESS" /\ o.buffer.contents = Zeros(HeaderLength)
            /\ o.buffer.stor_begin \in Blocks
  BY <1>2, <1>7, NewBuffer
<1>9. o.result # "SUCCESS" => result' = "ENOMEM"
  BY <1>6, <1>8
<1>10. ASSUME o.result = "SUCCESS"
       PROVE  /\ Given(o).buffer.contents = EmptyBytes(bytes[1])
              /\ Given(o).buffer.stor_begin # NoBlock /\ Given(o).result = "SUCCESS"
  <2> DEFINE c == [o.buffer EXCEPT !.contents[1] = Head(bytes)]
  <2>1. Given(o) = Outcome(o.result, o.heap, c)
    BY <1>8, <1>10 DEF Outcome
  <2>2. /\ c.contents = [Zeros(HeaderLength) EXCEPT ![1] = Head(bytes)]
        /\ c.stor_begin = o.buffer.stor_begin
    BY <1>8, <1>10 DEF BufferRecord
  <2>3. o.buffer.stor_begin # NoBlock
    BY <1>8, <1>10, Addresses
  <2> HIDE DEF c, Given
  <2>4. Given(o).buffer = c /\ Given(o).result = "SUCCESS"
    BY <1>10, <2>1 DEF Outcome
  <2>5. QED
    BY <1>3, <2>2, <2>3, <2>4 DEF EmptyBytes
<1> HIDE DEF Given
<1>11. builder'.buffer = Given(o).buffer /\ builder'.scale = builder.scale
  BY <1>2, <1>6 DEF BuilderRecord
<1>12. trajectory'.contents = bytes /\ trajectory'.stor_begin = b.stor_begin
  BY <1>6 DEF taken
<1>13. QED
  BY <1>3, <1>6, <1>9, <1>10, <1>11, <1>12

(* A hand-over passes the route on.                                        *)
LEMMA FinishBuilds ==
  ASSUME BuilderInv, Built, Finish
  PROVE  /\ Built'
         /\ started /\ result' = "SUCCESS"
              => /\ Passes(trajectory'.contents, route)
                 /\ Len(builder'.buffer.contents) = HeaderLength
                 /\ Waypoints(builder'.buffer.contents) =
                      <<[time |-> 0, position |-> Origin, offset |-> HeaderLength]>>
                 /\ ScaleOf(builder'.buffer.contents) = builder'.scale
<1> DEFINE c == builder.buffer.contents
           e == builder'.buffer.contents
<1>1. /\ calls = << >> /\ BuilderLives /\ ~torn
      /\ started' = FALSE /\ torn' = (result' # "SUCCESS")
  BY DEF Finish, Ready
<1>2. c \in Seq(Byte) /\ ScaleOf(c) = builder.scale
  BY <1>1 DEF Built, BuilderInv, UseTypeOK, BufferRecord
<1>3. ASSUME result' = "SUCCESS"
      PROVE  /\ trajectory'.contents = c
             /\ Len(e) = HeaderLength /\ ScaleOf(e) = builder'.scale
             /\ Waypoints(e) = <<[time |-> 0, position |-> Origin, offset |-> HeaderLength]>>
  <2>1. /\ trajectory'.contents = c /\ e = EmptyBytes(c[1]) /\ builder'.scale = builder.scale
        /\ c[1] \in Byte
    <3>1. "SUCCESS" # "ENOMEM"
      OBVIOUS
    <3>2. QED
      BY <1>3, <3>1, HandOverGives DEF Finish, Ready
  <2>2. /\ e \in Seq(Byte) /\ Len(e) = HeaderLength /\ ScaleOf(e) = c[1] % 128
        /\ ParseHeader(e).start = Origin
    BY <2>1, EmptyBytesDecode
  <2>3. ScaleOf(e) = builder'.scale
    BY <1>2, <2>1, <2>2 DEF ScaleOf
  <2>4. Waypoints(e) = <<FirstPoint(e)>>
    BY <2>2, HeaderIsWay, WaypointsAre
  <2>5. FirstPoint(e) = [time |-> 0, position |-> Origin, offset |-> HeaderLength]
    BY <2>2 DEF FirstPoint, HeaderSize, HeaderLength
  <2>6. QED
    BY <2>1, <2>2, <2>3, <2>4, <2>5
<1>4. ASSUME started, result' = "SUCCESS"
      PROVE  Passes(trajectory'.contents, route)
  <2>1. PICK way : Drawn(c, builder.scale, builder.last_position, << >>, route, way)
    BY <1>1, <1>4 DEF Built
  <2>2. Passes(c, route)
    BY <1>2, <2>1, DrawnPasses
  <2>3. QED
    BY <1>3, <1>4, <2>2
<1>5. Built'
  BY <1>1, <1>3 DEF Built
<1>6. QED
  BY <1>3, <1>4, <1>5

(* What concerns the trajectory only, or nothing.                          *)
LEMMA BuiltStays ==
  ASSUME Built, UNCHANGED <<builder, calls, route, torn, started>>
  PROVE  Built'
BY DEF Built, BuilderLives

(* A builder that is gone has nothing to keep to.                          *)
LEMMA DropBuilderBuilds ==
  ASSUME BuilderInv, DropBuilder
  PROVE  Built'
<1>1. /\ BuilderLives
      /\ builder' = [builder EXCEPT !.buffer = DestroyBuffer(heap, builder.buffer).buffer,
                                    !.last_position = Origin]
  BY DEF DropBuilder, DestroyBuilder
<1>2. builder \in BuilderRecord /\ builder.buffer \in BufferRecord /\ builder.buffer.owned
  BY <1>1 DEF BuilderInv, UseTypeOK, OwnsItsBytes, BuilderRecord
<1>3. DestroyBuffer(heap, builder.buffer).buffer.stor_begin = NoBlock
  BY <1>2 DEF DestroyBuffer, Outcome, BufferRecord
<1>4. builder'.buffer.stor_begin = NoBlock
  BY <1>1, <1>2, <1>3 DEF BuilderRecord
<1>5. QED
  BY <1>4 DEF Built, BuilderLives

(* Every step keeps to the route.                                          *)
LEMMA EveryStepBuilds ==
  ASSUME BuilderInv, Built, [Next]_useVars
  PROVE  Built'
<1>1. ASSUME NEW scale \in Scales, NEW use_yaw \in BOOLEAN, NewBuilder(scale, use_yaw)
      PROVE  Built'
  BY <1>1, NewBuilderBuilds
<1>2. ASSUME NEW p \in Positions, StartAt(p)
      PROVE  Built'
  BY <1>2, PositionTypes, StartAtBuilds
<1>3. ASSUME NEW p \in Positions, NEW d \in Durations, Draw(Line(p, d), OnGrid(p))
      PROVE  Built'
  <2> DEFINE c == Line(p, d)
  <2>1. c \in CallRecord
    BY PositionTypes, LineType
  <2>2. OnGrid(p) = IF c.call = "line" THEN OnGrid(c.target) ELSE route[Len(route)].position
    BY DEF Line
  <2>3. Draw(c, OnGrid(p))
    BY <1>3
  <2> HIDE DEF c
  <2>4. QED
    BY <2>1, <2>2, <2>3, DrawBuilds
<1>4. ASSUME NEW d \in Durations, Draw(Hold(d), route[Len(route)].position)
      PROVE  Built'
  <2> DEFINE c == Hold(d)
             position == route[Len(route)].position
  <2>1. c \in CallRecord
    <3>1. Origin \in [Axes -> Int] /\ d \in Nat
      BY PositionTypes DEF Origin
    <3>2. QED
      BY <3>1, LineType
  <2>2. position = IF c.call = "line" THEN OnGrid(c.target) ELSE route[Len(route)].position
    BY DEF Hold
  <2>3. Draw(c, position)
    BY <1>4
  <2> HIDE DEF c, position
  <2>4. QED
    BY <2>1, <2>2, <2>3, DrawBuilds
<1>5. ASSUME ContinueCall
      PROVE  Built'
  <2>1. route' = route /\ started' = started
    BY <1>5 DEF ContinueCall
  <2>2. CASE AppendLine /\ torn' = (torn \/ result' # "SUCCESS")
    BY <2>1, <2>2, AppendLineBuilds
  <2>3. CASE HoldPositionFor /\ torn' = (torn \/ result' # "SUCCESS")
    BY <2>1, <2>3, HoldBuilds
  <2>4. CASE SplitLine /\ torn' = torn
    BY <2>1, <2>4, SplitLineBuilds
  <2>5. QED
    BY <1>5, <2>2, <2>3, <2>4 DEF ContinueCall
<1>6. ASSUME Finish
      PROVE  Built'
  BY <1>6, FinishBuilds
<1>7. ASSUME DropBuilder
      PROVE  Built'
  BY <1>7, DropBuilderBuilds
<1>8. ASSUME DropTrajectory
      PROVE  Built'
  BY <1>8, BuiltStays DEF DropTrajectory
<1>9. ASSUME UNCHANGED useVars
      PROVE  Built'
  BY <1>9, BuiltStays DEF useVars
<1>10. QED
  BY <1>1, <1>2, <1>3, <1>4, <1>5, <1>6, <1>7, <1>8, <1>9 DEF Next

(* As long as no call fails, what the builder holds between calls is what  *)
(* was asked of it: read back, it starts where it was told to, is on the   *)
(* grid point of every target when its line ends, and takes as long as its *)
(* parts together, however long the lines and holds are and whichever axes *)
(* stay the same.                                                          *)
THEOREM RouteBuilt == Spec => []BuiltAsAsked
<1>1. Init => BuilderInv /\ Built
  BY InvHolds, BuiltAtFirst DEF Init
<1>2. BuilderInv /\ Built /\ [Next]_useVars => BuilderInv' /\ Built'
  BY EveryStep, EveryStepBuilds DEF MemoryStep
<1>3. BuilderInv /\ Built => BuiltAsAsked
  <2> SUFFICES ASSUME BuilderInv, Built, calls = << >>, BuilderLives, started, ~torn
               PROVE  Passes(builder.buffer.contents, route)
    BY DEF BuiltAsAsked
  <2>1. PICK way : Drawn(builder.buffer.contents, builder.scale, builder.last_position,
                         << >>, route, way)
    BY DEF Built
  <2>2. builder.buffer.contents \in Seq(Byte)
    BY DEF BuilderInv, UseTypeOK, BufferRecord
  <2>3. QED
    BY <2>1, <2>2, DrawnPasses
<1>4. QED
  BY <1>1, <1>2, <1>3, PTL DEF Spec

(* A trajectory that is handed over passes the points of the route, and    *)
(* the bytes left to the builder are an empty trajectory of the same       *)
(* scale.                                                                  *)
THEOREM RouteHandedOver == Spec => HandsOver
<1>1. Init => BuilderInv /\ Built
  BY InvHolds, BuiltAtFirst DEF Init
<1>2. BuilderInv /\ Built /\ [Next]_useVars => BuilderInv' /\ Built'
  BY EveryStep, EveryStepBuilds DEF MemoryStep
<1>3. BuilderInv /\ Built /\ [Next]_useVars
        => [Finish /\ started /\ result' = "SUCCESS"
             => /\ Passes(trajectory'.contents, route)
                /\ Len(builder'.buffer.contents) = HeaderLength
                /\ Waypoints(builder'.buffer.contents) =
                     <<[time |-> 0, position |-> Origin, offset |-> HeaderLength]>>
                /\ ScaleOf(builder'.buffer.contents) = builder'.scale]_useVars
  BY FinishBuilds
<1>4. QED
  BY <1>1, <1>2, <1>3, PTL DEF Spec, HandsOver
============================================================================
