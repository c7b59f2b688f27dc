---------------------------- MODULE Buffer_proofs --------------------------
(***************************************************************************)
(* What the operations of a buffer keep, on any heap and whichever         *)
(* allocation fails: the storage they leave is allocated and large enough, *)
(* the blocks of others are left alone, and a failed call changes nothing  *)
(* or loses the storage.  The programs that use buffers build on this.     *)
(***************************************************************************)
EXTENDS Buffer, SequenceTheorems, TLAPS

Results == {"SUCCESS", "FAILURE", "EINVAL", "ENOMEM"}

(* A buffer that is initialised, on a heap.                                *)
Fits(h, b) ==
  /\ h \subseteq Blocks /\ b \in BufferRecord
  /\ Size(b) <= b.capacity /\ b.capacity <= MaxObject
  /\ b.owned => b.stor_begin \in h
  /\ ~b.owned => b.stor_begin = Array /\ Size(b) = b.capacity

Own(b) == IF b.owned THEN {b.stor_begin} ELSE {}

(* What an outcome of an operation on b keeps: the buffer is as it should  *)
(* be or has no storage, the blocks of others are left alone, and nothing  *)
(* is lost but for want of memory.                                         *)
Keeps(h, b, o) ==
  /\ o = Outcome(o.result, o.heap, o.buffer)
  /\ o.result \in Results
  /\ o.heap \subseteq Blocks /\ o.buffer \in BufferRecord
  /\ o.buffer.stor_begin # NoBlock => Fits(o.heap, o.buffer)
  /\ h \ Own(b) \subseteq o.heap
  /\ \A k \in h \ Own(b) : k \notin Own(o.buffer)
  /\ o.result # "ENOMEM" => o.heap \ Own(o.buffer) = h \ Own(b)

---------------------------------------------------------------------------
(* Helpers.                                                                *)

LEMMA ModSmall ==
  ASSUME NEW a \in Nat, NEW n \in Nat, a < n
  PROVE  a % n = a
  BY SMT

(* A sum of sizes that wraps around is below both.                         *)
LEMMA ModWraps ==
  ASSUME NEW a \in Nat, NEW c \in Nat, NEW m \in Nat, a <= m, c <= m, a + c > m
  PROVE  (a + c) % (m + 1) < a
<1>1. a + c - (m + 1) \in Nat /\ a + c - (m + 1) < m + 1
  OBVIOUS
<1>2. (a + c) % (m + 1) = a + c - (m + 1)
  BY <1>1, SMTT(30)
<1>3. QED
  BY <1>2

LEMMA ConstantSeq ==
  ASSUME NEW n \in Nat, NEW v \in Byte
  PROVE  [i \in 1 .. n |-> v] \in Seq(Byte) /\ Len([i \in 1 .. n |-> v]) = n
<1>1. [i \in 1 .. n |-> v] \in [1 .. n -> Byte]
  OBVIOUS
<1>2. QED
  BY <1>1, LenProperties, IsASeq

LEMMA ZerosType ==
  ASSUME NEW n \in Nat
  PROVE  Zeros(n) \in Seq(Byte) /\ Len(Zeros(n)) = n
  BY ConstantSeq, BufferAssumption DEF Zeros

LEMMA AtLeastOneType ==
  ASSUME NEW n \in Nat
  PROVE  AtLeastOne(n) \in Nat /\ AtLeastOne(n) >= n /\ AtLeastOne(n) >= 1
  BY DEF AtLeastOne

(* What an allocation gives is free and large enough to be asked for.      *)
LEMMA AllocationType ==
  ASSUME NEW h, NEW n \in Nat, NEW k \in Allocation(h, n), k # NoBlock
  PROVE  k \in Blocks /\ k \notin h /\ n <= MaxObject
  BY DEF Allocation

(* The array of a view is no block, and neither is the null pointer.       *)
LEMMA Addresses ==
  Array \notin Blocks /\ NoBlock \notin Blocks /\ Array # NoBlock
  BY BufferAssumption

---------------------------------------------------------------------------
(* Operations of the allocator.                                            *)

LEMMA UnchangedKeeps ==
  ASSUME NEW h, NEW b, Fits(h, b), NEW r \in Results
  PROVE  Keeps(h, b, Outcome(r, h, b))
  BY DEF Keeps, Outcome, Fits

LEMMA ReallocKeeps ==
  ASSUME NEW h, NEW b, Fits(h, b), NEW n \in Nat, NEW o \in Realloc(h, b, n)
  PROVE  /\ Keeps(h, b, o)
         /\ o.result = "SUCCESS" => /\ o.buffer.capacity >= n
                                    /\ o.buffer.stor_begin # NoBlock
                                    /\ o.buffer.owned = b.owned
                                    /\ b.owned \/ o.buffer = b
         /\ o.result = "SUCCESS" /\ Size(b) <= n => o.buffer.contents = b.contents
<1> DEFINE m == AtLeastOne(n)
           size == IF Size(b) <= m THEN Size(b) ELSE m
           Moved(k) == [b EXCEPT !.stor_begin = k, !.capacity = m,
                                 !.contents = SubSeq(@, 1, size)]
           Lost == [b EXCEPT !.stor_begin = NoBlock, !.capacity = 0, !.contents = << >>]
<1>1. m \in Nat /\ m >= n /\ m >= 1
  BY AtLeastOneType
<1>2. /\ b \in BufferRecord /\ b.contents \in Seq(Byte) /\ Size(b) \in Nat
      /\ Size(b) = Len(b.contents)
  BY LenProperties DEF Fits, BufferRecord, Size
<1>3. CASE b.capacity = m
  <2>1. o = Outcome("SUCCESS", h, b)
    BY <1>3 DEF Realloc
  <2>2. b.stor_begin # NoBlock
    BY Addresses DEF Fits
  <2>3. QED
    BY <1>1, <1>2, <1>3, <2>1, <2>2, UnchangedKeeps DEF Outcome, Results
<1>4. CASE b.capacity # m /\ ~b.owned
  <2>1. o = Outcome("FAILURE", h, b)
    BY <1>4 DEF Realloc
  <2>2. QED
    BY <2>1, UnchangedKeeps DEF Outcome, Results
<1>5. CASE b.capacity # m /\ b.owned
  <2>1. PICK k \in Allocation(h \ {b.stor_begin}, m) :
          o = IF k = NoBlock THEN Outcome("ENOMEM", h, Lost)
              ELSE Outcome("SUCCESS", (h \ {b.stor_begin}) \cup {k}, Moved(k))
    BY <1>5 DEF Realloc
  <2>2. CASE k = NoBlock
    <3>1. Lost \in BufferRecord /\ Lost.stor_begin = NoBlock /\ Lost.owned
      BY <1>2, <1>5, EmptySeq DEF BufferRecord
    <3>2. o.result = "ENOMEM" /\ o.heap = h /\ o.buffer = Lost
      BY <2>1, <2>2 DEF Outcome
    <3> HIDE DEF Lost
    <3>3. QED
      <4>1. o = Outcome(o.result, o.heap, o.buffer)
        BY <2>1, <2>2, <3>2
      <4>2. QED
        BY <1>5, <3>1, <3>2, <4>1, Addresses DEF Keeps, Fits, Own, Results
  <2>3. CASE k # NoBlock
    <3>1. k \in Blocks /\ k \notin h \ {b.stor_begin} /\ m <= MaxObject
      BY <1>1, <2>3, AllocationType
    <3>2. size \in Nat /\ size <= m /\ size <= Len(b.contents)
      BY <1>1, <1>2
    <3>3. \A i \in 1 .. size : b.contents[i] \in Byte
      BY <1>2, <3>2, ElementOfSeq
    <3>4. SubSeq(b.contents, 1, size) \in Seq(Byte) /\ Len(SubSeq(b.contents, 1, size)) = size
      BY <3>2, <3>3, SubSeqProperties
    <3>5. /\ Moved(k) \in BufferRecord /\ Moved(k).stor_begin = k /\ Moved(k).capacity = m
          /\ Moved(k).contents = SubSeq(b.contents, 1, size) /\ Moved(k).owned
      BY <1>1, <1>2, <1>5, <3>1, <3>4 DEF BufferRecord
    <3>6. o.result = "SUCCESS" /\ o.heap = (h \ {b.stor_begin}) \cup {k} /\ o.buffer = Moved(k)
      BY <2>1, <2>3 DEF Outcome
    <3>7. Size(b) <= n => Moved(k).contents = b.contents
      BY <1>1, <1>2, <3>5, SubSeqFull
    <3> HIDE DEF Moved, m, size
    <3>8. Fits(o.heap, o.buffer)
      BY <1>1, <3>1, <3>2, <3>4, <3>5, <3>6 DEF Fits, Size
    <3>9. Keeps(h, b, o)
      <4>1. o = Outcome(o.result, o.heap, o.buffer)
        BY <2>1, <2>3, <3>6
      <4>2. QED
        BY <1>5, <3>1, <3>5, <3>6, <3>8, <4>1 DEF Keeps, Own, Fits, Results
    <3>10. QED
      BY <1>1, <1>5, <2>3, <3>5, <3>6, <3>7, <3>9
  <2>4. QED
    BY <2>2, <2>3
<1>6. QED
  BY <1>3, <1>4, <1>5

(* When room is made for min_space bytes, there is room for them.          *)
LEMMA EnsureKeeps ==
  ASSUME NEW h, NEW b, Fits(h, b), NEW min_space \in 0 .. SizeMax,
         NEW o \in EnsureFreeSpace(h, b, min_space)
  PROVE  /\ Keeps(h, b, o)
         /\ o.result = "SUCCESS" => /\ o.buffer.capacity >= Size(b) + min_space
                                    /\ o.buffer.stor_begin # NoBlock
                                    /\ o.buffer.owned = b.owned
                                    /\ o.buffer.contents = b.contents
                                    /\ b.owned \/ min_space = 0
<1> DEFINE new_size == (Size(b) + min_space) % (SizeMax + 1)
<1>1. /\ b \in BufferRecord /\ Size(b) \in Nat /\ b.capacity \in Nat
      /\ SizeMax \in Nat /\ MaxObject \in Nat /\ Size(b) <= SizeMax
      /\ Size(b) <= b.capacity /\ b.stor_begin # NoBlock
  <2>1. b \in BufferRecord /\ b.capacity \in Nat /\ Size(b) \in Nat
    BY LenProperties DEF Fits, BufferRecord, Size
  <2>2. Size(b) <= b.capacity /\ b.capacity <= MaxObject /\ b.stor_begin # NoBlock
    BY Addresses DEF Fits
  <2>3. QED
    BY <2>1, <2>2, BufferAssumption
<1>2. CASE min_space = 0
  <2>1. o = Outcome("SUCCESS", h, b)
    BY <1>2 DEF EnsureFreeSpace
  <2>2. o.buffer = b /\ Keeps(h, b, o)
    BY <2>1, UnchangedKeeps DEF Outcome, Results
  <2>3. b.capacity >= Size(b) + min_space
    BY <1>1, <1>2
  <2>4. QED
    BY <1>1, <1>2, <2>2, <2>3
<1>3. CASE min_space # 0 /\ new_size < Size(b)
  <2>1. o = Outcome("ENOMEM", h, b)
    BY <1>3 DEF EnsureFreeSpace
  <2>2. QED
    BY <2>1, UnchangedKeeps DEF Outcome, Results
<1>4. CASE min_space # 0 /\ ~(new_size < Size(b))
  <2>1. new_size = Size(b) + min_space
    <3>1. ~(Size(b) + min_space > SizeMax)
      BY <1>1, <1>4, ModWraps
    <3>2. QED
      BY <1>1, <3>1, ModSmall
  <2> HIDE DEF new_size
  <2>2. PICK d \in DesiredCapacity(b.capacity, new_size) :
          o \in IF new_size <= d THEN Realloc(h, b, d) ELSE {Outcome("ENOMEM", h, b)}
    BY <1>4 DEF EnsureFreeSpace, new_size
  <2>3. d \in Nat
    BY <1>1, <2>2 DEF DesiredCapacity
  <2>4. CASE ~(new_size <= d)
    <3>1. o = Outcome("ENOMEM", h, b)
      BY <2>2, <2>4
    <3>2. QED
      BY <3>1, UnchangedKeeps DEF Outcome, Results
  <2>5. CASE new_size <= d
    <3>1. o \in Realloc(h, b, d)
      BY <2>2, <2>5
    <3>2. Size(b) <= d
      BY <1>1, <2>1, <2>3, <2>5
    <3>3. o.result = "SUCCESS" => o.buffer.capacity >= Size(b) + min_space
      <4>1. Keeps(h, b, o) /\ (o.result = "SUCCESS" => o.buffer.capacity >= d)
        BY <2>3, <3>1, ReallocKeeps
      <4>2. o.buffer.capacity \in Nat
        BY <4>1 DEF Keeps, BufferRecord
      <4>3. QED
        BY <1>1, <2>1, <2>3, <2>5, <4>1, <4>2
    <3>4. /\ Keeps(h, b, o)
          /\ o.result = "SUCCESS" => /\ o.buffer.stor_begin # NoBlock
                                     /\ o.buffer.owned = b.owned
                                     /\ o.buffer.contents = b.contents
                                     /\ b.owned \/ o.buffer = b
      BY <2>3, <3>1, <3>2, ReallocKeeps
    <3>5. o.result = "SUCCESS" => b.owned
      <4>1. SUFFICES ASSUME o.result = "SUCCESS", ~b.owned, o.buffer = b PROVE FALSE
        BY <3>4 DEF Keeps, BufferRecord
      <4>2. Size(b) = b.capacity
        BY <4>1 DEF Fits
      <4>3. QED
        BY <1>1, <1>4, <3>3, <4>1, <4>2
    <3>6. QED
      BY <3>3, <3>4, <3>5
  <2>6. QED
    BY <2>4, <2>5
<1>5. QED
  BY <1>2, <1>3, <1>4

---------------------------------------------------------------------------
(* Operations of the buffer.                                               *)

(* New contents may be given to a buffer of the same storage.              *)
LEMMA ContentsKeep ==
  ASSUME NEW h, NEW b, NEW s \in Seq(Byte), Fits(h, b),
         Len(s) <= b.capacity, b.owned \/ Len(s) = b.capacity
  PROVE  Keeps(h, b, Outcome("SUCCESS", h, [b EXCEPT !.contents = s]))
<1> DEFINE c == [b EXCEPT !.contents = s]
           q == Outcome("SUCCESS", h, c)
<1>1. b \in BufferRecord
  BY DEF Fits
<1>2. /\ c \in BufferRecord /\ c.contents = s /\ c.stor_begin = b.stor_begin
      /\ c.capacity = b.capacity /\ c.owned = b.owned
  BY <1>1 DEF BufferRecord
<1> HIDE DEF c
<1>3. q.result = "SUCCESS" /\ q.heap = h /\ q.buffer = c
  BY DEF Outcome
<1>4. Fits(h, c)
  BY <1>2 DEF Fits, Size
<1>5. Own(c) = Own(b)
  BY <1>2 DEF Own
<1> HIDE DEF q
<1>6. q = Outcome(q.result, q.heap, q.buffer)
  BY <1>3 DEF q
<1>7. h \subseteq Blocks
  BY DEF Fits
<1>8. Keeps(h, b, q)
  BY <1>2, <1>3, <1>4, <1>5, <1>6, <1>7 DEF Keeps, Results
<1>9. QED
  BY <1>8 DEF q, c

(* Contents may be given to a buffer that has room for them.               *)
LEMMA FilledKeeps ==
  ASSUME NEW h, NEW b, NEW o, NEW s \in Seq(Byte),
         Fits(h, b), Keeps(h, b, o), o.buffer.stor_begin # NoBlock,
         Len(s) <= o.buffer.capacity, o.buffer.owned \/ Len(s) = o.buffer.capacity
  PROVE  Keeps(h, b, [o EXCEPT !.buffer.contents = s])
<1> DEFINE c == [o.buffer EXCEPT !.contents = s]
           q == Outcome(o.result, o.heap, c)
<1>1. o.buffer \in BufferRecord /\ o = Outcome(o.result, o.heap, o.buffer)
  BY DEF Keeps
<1>2. [o EXCEPT !.buffer.contents = s] = q
  BY <1>1 DEF Outcome
<1>3. /\ c \in BufferRecord /\ c.contents = s /\ c.stor_begin = o.buffer.stor_begin
      /\ c.capacity = o.buffer.capacity /\ c.owned = o.buffer.owned
  BY <1>1 DEF BufferRecord
<1> HIDE DEF c
<1>4. q.result = o.result /\ q.heap = o.heap /\ q.buffer = c
  BY DEF Outcome
<1>5. Fits(o.heap, c)
  BY <1>3 DEF Keeps, Fits, Size
<1>6. Own(c) = Own(o.buffer)
  BY <1>3 DEF Own
<1> HIDE DEF q
<1>7. Keeps(h, b, q)
  <2>1. q = Outcome(q.result, q.heap, q.buffer)
    BY <1>4 DEF q
  <2>2. QED
    BY <1>3, <1>4, <1>5, <1>6, <2>1 DEF Keeps
<1>8. QED
  BY <1>2, <1>7

LEMMA AppendKeeps ==
  ASSUME NEW h, NEW b, Fits(h, b), NEW s \in Seq(Byte), Len(s) <= MaxObject,
         NEW o \in AppendBytes(h, b, s)
  PROVE  Keeps(h, b, o)
<1>1. /\ b.contents \in Seq(Byte) /\ Size(b) = Len(b.contents) /\ Size(b) \in Nat
      /\ b.capacity \in Nat
  BY LenProperties DEF Fits, BufferRecord, Size
<1>2. Len(s) \in 0 .. SizeMax /\ Len(s) \in Nat
  BY BufferAssumption, LenProperties
<1>3. CASE o \in EnsureFreeSpace(h, b, Len(s))
  BY <1>2, <1>3, EnsureKeeps
<1>4. CASE o \notin EnsureFreeSpace(h, b, Len(s))
  <2>1. PICK p \in EnsureFreeSpace(h, b, Len(s)) :
          p.result = "SUCCESS" /\ o = [p EXCEPT !.buffer.contents = @ \o s]
    BY <1>4 DEF AppendBytes, Check
  <2>2. /\ Keeps(h, b, p) /\ p.buffer.capacity >= Size(b) + Len(s)
        /\ p.buffer.stor_begin # NoBlock /\ p.buffer.owned = b.owned
        /\ p.buffer.contents = b.contents /\ (b.owned \/ Len(s) = 0)
    BY <1>2, <2>1, EnsureKeeps
  <2>3. b.contents \o s \in Seq(Byte) /\ Len(b.contents \o s) = Size(b) + Len(s)
    BY <1>1, ConcatProperties
  <2>4. Len(b.contents \o s) <= p.buffer.capacity
    BY <2>2, <2>3
  <2>5. p.buffer.owned \/ Len(b.contents \o s) = p.buffer.capacity
    <3>1. CASE b.owned
      BY <2>2, <3>1
    <3>2. CASE ~b.owned
      <4>1. Size(p.buffer) = p.buffer.capacity
        BY <2>2, <3>2 DEF Keeps, Fits
      <4>2. Size(p.buffer) = Size(b)
        BY <2>2 DEF Size
      <4>3. QED
        BY <1>1, <2>2, <2>3, <3>2, <4>1, <4>2
    <3>3. QED
      BY <3>1, <3>2
  <2>6. Keeps(h, b, [p EXCEPT !.buffer.contents = b.contents \o s])
    BY <2>2, <2>3, <2>4, <2>5, FilledKeeps
  <2>7. o = [p EXCEPT !.buffer.contents = b.contents \o s]
    BY <2>1, <2>2
  <2>8. QED
    BY <2>6, <2>7
<1>5. QED
  BY <1>3, <1>4

LEMMA ExtendKeeps ==
  ASSUME NEW h, NEW b, Fits(h, b), NEW n \in 0 .. MaxObject,
         NEW o \in ExtendWithZeros(h, b, n)
  PROVE  Keeps(h, b, o)
<1> DEFINE space == (Size(b) + n) % (SizeMax + 1)
<1>1. /\ b.contents \in Seq(Byte) /\ Size(b) = Len(b.contents) /\ Size(b) \in Nat
      /\ b.capacity \in Nat /\ Size(b) <= MaxObject /\ MaxObject \in Nat /\ SizeMax \in Nat
  <2>1. /\ b.contents \in Seq(Byte) /\ Size(b) = Len(b.contents) /\ Size(b) \in Nat
        /\ b.capacity \in Nat
    BY LenProperties DEF Fits, BufferRecord, Size
  <2>2. Size(b) <= b.capacity /\ b.capacity <= MaxObject
    BY DEF Fits
  <2>3. QED
    BY <2>1, <2>2, BufferAssumption
<1>2. space = Size(b) + n /\ space \in 0 .. SizeMax
  <2>1. Size(b) + n < SizeMax + 1 /\ Size(b) + n \in Nat /\ SizeMax + 1 \in Nat
    BY <1>1, BufferAssumption
  <2>2. space = Size(b) + n
    BY <2>1, ModSmall
  <2>3. Size(b) + n <= SizeMax
    BY <1>1, <2>1
  <2> HIDE DEF space
  <2>4. QED
    BY <1>1, <2>1, <2>2, <2>3
<1> HIDE DEF space
<1>3. CASE o \in EnsureFreeSpace(h, b, space)
  BY <1>2, <1>3, EnsureKeeps
<1>4. CASE o \notin EnsureFreeSpace(h, b, space)
  <2>1. PICK p \in EnsureFreeSpace(h, b, space) :
          p.result = "SUCCESS" /\ o = [p EXCEPT !.buffer.contents = @ \o Zeros(n)]
    BY <1>4 DEF ExtendWithZeros, Check, space
  <2>2. /\ Keeps(h, b, p) /\ p.buffer.capacity >= Size(b) + space
        /\ p.buffer.stor_begin # NoBlock /\ p.buffer.owned = b.owned
        /\ p.buffer.contents = b.contents /\ (b.owned \/ space = 0)
    BY <1>2, <2>1, EnsureKeeps
  <2>3. /\ b.contents \o Zeros(n) \in Seq(Byte)
        /\ Len(b.contents \o Zeros(n)) = Size(b) + n
    BY <1>1, ZerosType, ConcatProperties
  <2>4. p.buffer.capacity \in Nat
    BY <2>2 DEF Keeps, BufferRecord
  <2>5. Len(b.contents \o Zeros(n)) <= p.buffer.capacity
    BY <1>1, <1>2, <2>2, <2>3, <2>4
  <2>6. p.buffer.owned \/ Len(b.contents \o Zeros(n)) = p.buffer.capacity
    <3>1. CASE b.owned
      BY <2>2, <3>1
    <3>2. CASE ~b.owned
      <4>1. Size(p.buffer) = p.buffer.capacity
        BY <2>2, <3>2 DEF Keeps, Fits
      <4>2. Size(p.buffer) = Size(b)
        BY <2>2 DEF Size
      <4>3. QED
        BY <1>1, <1>2, <2>2, <2>3, <3>2, <4>1, <4>2
    <3>3. QED
      BY <3>1, <3>2
  <2>7. Keeps(h, b, [p EXCEPT !.buffer.contents = b.contents \o Zeros(n)])
    BY <2>2, <2>3, <2>5, <2>6, FilledKeeps
  <2>8. o = [p EXCEPT !.buffer.contents = b.contents \o Zeros(n)]
    BY <2>1, <2>2
  <2>9. QED
    BY <2>7, <2>8
<1>5. QED
  BY <1>3, <1>4

LEMMA ResizeKeeps ==
  ASSUME NEW h, NEW b, Fits(h, b), NEW n \in 0 .. MaxObject, NEW o \in Resize(h, b, n)
  PROVE  Keeps(h, b, o)
<1>1. /\ b.contents \in Seq(Byte) /\ Size(b) = Len(b.contents) /\ Size(b) \in Nat
      /\ b.capacity \in Nat /\ MaxObject \in Nat /\ n \in Nat /\ Size(b) <= b.capacity
      /\ b.stor_begin # NoBlock /\ b \in BufferRecord
  <2>1. /\ b.contents \in Seq(Byte) /\ Size(b) = Len(b.contents) /\ Size(b) \in Nat
        /\ b.capacity \in Nat
    BY LenProperties DEF Fits, BufferRecord, Size
  <2>2. Size(b) <= b.capacity /\ b.capacity <= MaxObject /\ b.stor_begin # NoBlock
    BY Addresses DEF Fits
  <2>3. QED
    BY <2>1, <2>2, BufferAssumption DEF Fits
<1>2. CASE ~b.owned
  <2>1. o = Outcome("FAILURE", h, b)
    BY <1>2 DEF Resize
  <2>2. QED
    BY <2>1, UnchangedKeeps DEF Results
<1>3. CASE b.owned /\ Size(b) < n
  <2>1. CASE o \in Realloc(h, b, n)
    BY <1>1, <2>1, ReallocKeeps
  <2>2. CASE o \notin Realloc(h, b, n)
    <3>1. PICK p \in Realloc(h, b, n) :
            p.result = "SUCCESS" /\ o = [p EXCEPT !.buffer.contents = @ \o Zeros(n - Size(b))]
      BY <1>3, <2>2 DEF Resize, Check
    <3>2. /\ Keeps(h, b, p) /\ p.buffer.capacity >= n /\ p.buffer.stor_begin # NoBlock
          /\ p.buffer.owned /\ p.buffer.contents = b.contents
      BY <1>1, <1>3, <3>1, ReallocKeeps
    <3> DEFINE d == n - Size(b)
               z == Zeros(d)
    <3>3. d \in Nat /\ Size(b) + d = n
      BY <1>1, <1>3
    <3>4. o = [p EXCEPT !.buffer.contents = b.contents \o z]
      BY <3>1, <3>2
    <3> HIDE DEF d
    <3>5. z \in Seq(Byte) /\ Len(z) = d
      BY <3>3, ZerosType
    <3> HIDE DEF z
    <3>6. b.contents \o z \in Seq(Byte) /\ Len(b.contents \o z) = n
      <4>1. /\ b.contents \o z \in Seq(Byte)
            /\ Len(b.contents \o z) = Len(b.contents) + Len(z)
        BY <1>1, <3>5, ConcatProperties
      <4>2. QED
        BY <1>1, <3>3, <3>5, <4>1
    <3>8. Len(b.contents \o z) <= p.buffer.capacity
      <4>1. p.buffer.capacity \in Nat
        BY <3>2 DEF Keeps, BufferRecord
      <4>2. QED
        BY <1>1, <3>2, <3>6, <4>1
    <3>9. Keeps(h, b, [p EXCEPT !.buffer.contents = b.contents \o z])
      BY <3>2, <3>6, <3>8, FilledKeeps
    <3>10. QED
      BY <3>4, <3>9
  <2>3. QED
    BY <2>1, <2>2
<1>4. CASE b.owned /\ ~(Size(b) < n)
  <2> DEFINE s == SubSeq(b.contents, 1, n)
  <2>1. o = Outcome("SUCCESS", h, [b EXCEPT !.contents = s])
    BY <1>4 DEF Resize
  <2>2. \A i \in 1 .. n : b.contents[i] \in Byte
    BY <1>1, <1>4, ElementOfSeq
  <2>3. s \in Seq(Byte) /\ Len(s) = n
    BY <1>1, <1>4, <2>2, SubSeqProperties
  <2> HIDE DEF s
  <2>4. Len(s) <= b.capacity
    BY <1>1, <1>4, <2>3
  <2>5. QED
    BY <1>4, <2>1, <2>3, <2>4, ContentsKeep
<1>5. QED
  BY <1>2, <1>3, <1>4

LEMMA FillKeeps ==
  ASSUME NEW h, NEW b, Fits(h, b), NEW v \in Byte
  PROVE  Keeps(h, b, Fill(h, b, v))
<1> DEFINE s == [i \in 1 .. Size(b) |-> v]
<1>1. Size(b) \in Nat
  BY LenProperties DEF Fits, BufferRecord, Size
<1>2. s \in Seq(Byte) /\ Len(s) = Size(b)
  BY <1>1, ConstantSeq
<1>3. Fill(h, b, v) = Outcome("SUCCESS", h, [b EXCEPT !.contents = s])
  BY DEF Fill
<1> HIDE DEF s
<1>4. Len(s) <= b.capacity /\ (b.owned \/ Len(s) = b.capacity)
  BY <1>2 DEF Fits
<1>5. QED
  BY <1>2, <1>3, <1>4, ContentsKeep

LEMMA DestroyKeeps ==
  ASSUME NEW h, NEW b, Fits(h, b), NEW o, o = DestroyBuffer(h, b)
  PROVE  Keeps(h, b, o) /\ Own(o.buffer) \subseteq {NoBlock}
<1> DEFINE c == [b EXCEPT !.stor_begin = IF b.owned THEN NoBlock ELSE @,
                          !.capacity = 0, !.contents = << >>]
<1>1. b \in BufferRecord /\ h \subseteq Blocks
  BY DEF Fits
<1>2. /\ c \in BufferRecord /\ c.stor_begin = (IF b.owned THEN NoBlock ELSE b.stor_begin)
      /\ c.capacity = 0 /\ c.contents = << >> /\ c.owned = b.owned
  BY <1>1, EmptySeq DEF BufferRecord
<1>3. /\ o.result = "SUCCESS" /\ o.buffer = c
      /\ o.heap = (IF b.owned THEN h \ {b.stor_begin} ELSE h)
      /\ o = Outcome(o.result, o.heap, o.buffer)
  BY DEF DestroyBuffer, Outcome
<1> HIDE DEF c
<1>4. CASE b.owned
  BY <1>1, <1>2, <1>3, <1>4, Addresses DEF Keeps, Own, Results, Fits
<1>5. CASE ~b.owned
  <2>1. Fits(h, c)
    BY <1>1, <1>2, <1>5, BufferAssumption, EmptySeq DEF Fits, Size
  <2>2. QED
    BY <1>1, <1>2, <1>3, <1>5, <2>1 DEF Keeps, Own, Results
<1>6. QED
  BY <1>4, <1>5

---------------------------------------------------------------------------
(* What the operations do to the string of bytes.                          *)

Extends(t, s) == t = s \o SubSeq(t, Len(s) + 1, Len(t))

(* What becomes of the bytes of b, unless the storage is lost: they stay,  *)
(* more are added, some are cut off, or all are overwritten.  The length   *)
(* of a view stays.                                                        *)
Promises(b, o) ==
  o.buffer.stor_begin # NoBlock =>
    /\ o.buffer.owned = b.owned
    /\ \/ o.buffer.contents = b.contents
       \/ b.owned /\ Extends(o.buffer.contents, b.contents)
       \/ b.owned /\ \E n \in 0 .. Size(b) : o.buffer.contents = SubSeq(b.contents, 1, n)
       \/ \E v \in Byte : o.buffer.contents = [i \in 1 .. Size(b) |-> v]

(* A buffer whose bytes are the same, or that has no storage.              *)
Same(b, o) ==
  o.buffer.stor_begin # NoBlock =>
    o.buffer.owned = b.owned /\ o.buffer.contents = b.contents

LEMMA ConcatExtends ==
  ASSUME NEW s \in Seq(Byte), NEW t \in Seq(Byte)
  PROVE  Extends(s \o t, s)
<1>1. Len(s \o t) = Len(s) + Len(t) /\ Len(s) \in Nat /\ Len(t) \in Nat
  BY ConcatProperties, LenProperties
<1>2. SubSeq(s \o t, Len(s) + 1, Len(s) + Len(t)) = t
  <2>1. CASE Len(t) = 0
    <3>1. t = << >>
      BY <2>1, EmptySeq
    <3>2. SubSeq(s \o t, Len(s) + 1, Len(s) + Len(t)) = << >>
      BY <1>1, <2>1, SubSeqEmpty
    <3>3. QED
      BY <3>1, <3>2
  <2>2. CASE Len(t) # 0
    <3>1. /\ Len(s) + 1 \in Len(s) + 1 .. Len(s) + Len(t)
          /\ Len(s) + Len(t) \in Len(s) + 1 .. Len(s) + Len(t)
          /\ Len(s) + 1 - Len(s) = 1 /\ Len(s) + Len(t) - Len(s) = Len(t)
      BY <1>1, <2>2
    <3>2. SubSeq(s \o t, Len(s) + 1, Len(s) + Len(t)) = SubSeq(t, 1, Len(t))
      BY <3>1, SubSeqOfConcat2
    <3>3. QED
      BY <3>2, SubSeqFull
  <2>3. QED
    BY <2>1, <2>2
<1>3. QED
  BY <1>1, <1>2 DEF Extends

(* A prefix of what a string was extended to.                              *)
LEMMA ExtendsPrefix ==
  ASSUME NEW s \in Seq(Byte), NEW t \in Seq(Byte), Extends(t, s)
  PROVE  SubSeq(t, 1, Len(s)) = s
<1> DEFINE r == SubSeq(t, Len(s) + 1, Len(t))
<1>1. Len(s) \in Nat /\ Len(t) \in Nat
  BY LenProperties
<1>2. \A i \in Len(s) + 1 .. Len(t) : t[i] \in Byte
  BY <1>1, ElementOfSeq
<1>3. r \in Seq(Byte)
  BY <1>1, <1>2, SubSeqProperties
<1>4. t = s \o r
  BY DEF Extends
<1> HIDE DEF r
<1>5. CASE Len(s) = 0
  <2>1. SubSeq(t, 1, Len(s)) = << >>
    BY <1>5, SubSeqEmpty
  <2>2. QED
    BY <1>5, <2>1, EmptySeq
<1>6. CASE Len(s) # 0
  <2>1. SubSeq(s \o r, 1, Len(s)) = SubSeq(s, 1, Len(s))
    BY <1>1, <1>3, <1>6, SubSeqOfConcat1
  <2>2. QED
    BY <1>4, <2>1, SubSeqFull
<1>7. QED
  BY <1>5, <1>6

(* A growth that fails changes nothing or loses all.                       *)
LEMMA ReallocFails ==
  ASSUME NEW h, NEW b \in BufferRecord, NEW n, NEW o \in Realloc(h, b, n), o.result # "SUCCESS"
  PROVE  o.buffer = b \/ o.buffer.stor_begin = NoBlock
<1> DEFINE m == AtLeastOne(n)
           size == IF Size(b) <= m THEN Size(b) ELSE m
           Moved(k) == [b EXCEPT !.stor_begin = k, !.capacity = m,
                                 !.contents = SubSeq(@, 1, size)]
           Lost == [b EXCEPT !.stor_begin = NoBlock, !.capacity = 0, !.contents = << >>]
<1>1. CASE b.capacity = m \/ ~b.owned
  <2>1. o = Outcome("SUCCESS", h, b) \/ o = Outcome("FAILURE", h, b)
    BY <1>1 DEF Realloc
  <2>2. QED
    BY <2>1 DEF Outcome
<1>2. CASE ~(b.capacity = m \/ ~b.owned)
  <2>1. PICK k \in Allocation(h \ {b.stor_begin}, m) :
          o = IF k = NoBlock THEN Outcome("ENOMEM", h, Lost)
              ELSE Outcome("SUCCESS", (h \ {b.stor_begin}) \cup {k}, Moved(k))
    BY <1>2 DEF Realloc
  <2>2. Lost.stor_begin = NoBlock
    BY DEF BufferRecord
  <2> HIDE DEF Lost, Moved
  <2>3. QED
    BY <2>1, <2>2 DEF Outcome
<1>3. QED
  BY <1>1, <1>2

LEMMA ReallocPromises ==
  ASSUME NEW h, NEW b, Fits(h, b), NEW n \in Nat, NEW o \in Realloc(h, b, n), Size(b) <= n
  PROVE  Same(b, o)
<1>1. CASE o.result = "SUCCESS"
  BY <1>1, ReallocKeeps DEF Same
<1>2. CASE o.result # "SUCCESS"
  BY <1>2, ReallocFails DEF Same, Fits
<1>3. QED
  BY <1>1, <1>2

LEMMA EnsurePromises ==
  ASSUME NEW h, NEW b, Fits(h, b), NEW min_space \in 0 .. SizeMax,
         NEW o \in EnsureFreeSpace(h, b, min_space)
  PROVE  Same(b, o)
<1>1. CASE o.result = "SUCCESS"
  BY <1>1, EnsureKeeps DEF Same
<1>2. CASE o.result # "SUCCESS"
  <2>1. CASE o.buffer = b
    BY <2>1 DEF Same
  <2>2. CASE o.buffer # b
    <3>1. \E d \in DesiredCapacity(b.capacity, (Size(b) + min_space) % (SizeMax + 1)) :
            o \in Realloc(h, b, d)
      BY <2>2 DEF EnsureFreeSpace, Outcome
    <3>2. QED
      BY <1>2, <2>2, <3>1, ReallocFails DEF Same, Fits
  <2>3. QED
    BY <2>1, <2>2
<1>3. QED
  BY <1>1, <1>2
(* An outcome whose buffer is given contents.                              *)
LEMMA FilledBuffer ==
  ASSUME NEW o, NEW s, o = Outcome(o.result, o.heap, o.buffer), o.buffer \in BufferRecord
  PROVE  /\ [o EXCEPT !.buffer.contents = s].result = o.result
         /\ [o EXCEPT !.buffer.contents = s].heap = o.heap
         /\ [o EXCEPT !.buffer.contents = s].buffer = [o.buffer EXCEPT !.contents = s]
         /\ [o.buffer EXCEPT !.contents = s].contents = s
         /\ [o.buffer EXCEPT !.contents = s].stor_begin = o.buffer.stor_begin
         /\ [o.buffer EXCEPT !.contents = s].owned = o.buffer.owned
<1> DEFINE c == [o.buffer EXCEPT !.contents = s]
<1>1. c.contents = s /\ c.stor_begin = o.buffer.stor_begin /\ c.owned = o.buffer.owned
  BY DEF BufferRecord
<1>2. [o EXCEPT !.buffer.contents = s] = Outcome(o.result, o.heap, c)
  BY DEF Outcome
<1> HIDE DEF c
<1>3. /\ [o EXCEPT !.buffer.contents = s].result = o.result
      /\ [o EXCEPT !.buffer.contents = s].heap = o.heap
      /\ [o EXCEPT !.buffer.contents = s].buffer = c
  <2>1. /\ Outcome(o.result, o.heap, c).result = o.result
        /\ Outcome(o.result, o.heap, c).heap = o.heap
        /\ Outcome(o.result, o.heap, c).buffer = c
    BY DEF Outcome
  <2>2. QED
    BY <1>2, <2>1, Zenon
<1>4. QED
  BY <1>1, <1>3, Zenon DEF c

(* Bytes that are added to an outcome that has kept those of b.            *)
LEMMA AddedPromises ==
  ASSUME NEW b \in BufferRecord, NEW p, p = Outcome(p.result, p.heap, p.buffer),
         p.buffer \in BufferRecord, Same(b, p), p.buffer.stor_begin # NoBlock,
         NEW s \in Seq(Byte), b.owned \/ Len(s) = 0
  PROVE  Promises(b, [p EXCEPT !.buffer.contents = b.contents \o s])
<1> DEFINE t == b.contents \o s
           o == [p EXCEPT !.buffer.contents = t]
<1>1. /\ o.buffer.contents = b.contents \o s
      /\ o.buffer.stor_begin = p.buffer.stor_begin /\ o.buffer.owned = p.buffer.owned
  <2> DEFINE c == [p.buffer EXCEPT !.contents = t]
  <2> HIDE DEF t
  <2>1. o.buffer = c /\ c.contents = t /\ c.stor_begin = p.buffer.stor_begin /\ c.owned = p.buffer.owned
    BY FilledBuffer
  <2> HIDE DEF o, c
  <2>2. QED
    BY <2>1 DEF t
<1>2. b.contents \in Seq(Byte) /\ o.buffer.owned = b.owned
  BY <1>1 DEF BufferRecord, Same
<1> HIDE DEF o, t
<1>3. ASSUME b.owned PROVE Promises(b, o)
  BY <1>1, <1>2, <1>3, ConcatExtends DEF Promises
<1>4. ASSUME Len(s) = 0 PROVE Promises(b, o)
  <2>1. b.contents \o s = b.contents
    BY <1>2, <1>4, ConcatEmptySeq, EmptySeq
  <2>2. QED
    BY <1>1, <1>2, <2>1 DEF Promises
<1>5. Promises(b, o)
  BY <1>3, <1>4
<1>6. QED
  BY <1>5 DEF o, t

LEMMA AppendPromises ==
  ASSUME NEW h, NEW b, Fits(h, b), NEW s \in Seq(Byte), Len(s) <= MaxObject,
         NEW o \in AppendBytes(h, b, s)
  PROVE  Promises(b, o)
<1>1. Len(s) \in 0 .. SizeMax /\ Len(s) \in Nat
  BY BufferAssumption, LenProperties
<1>2. CASE o \in EnsureFreeSpace(h, b, Len(s))
  BY <1>1, <1>2, EnsurePromises DEF Same, Promises
<1>3. CASE o \notin EnsureFreeSpace(h, b, Len(s))
  <2>1. PICK p \in EnsureFreeSpace(h, b, Len(s)) :
          p.result = "SUCCESS" /\ o = [p EXCEPT !.buffer.contents = @ \o s]
    BY <1>3 DEF AppendBytes, Check
  <2>2. /\ Keeps(h, b, p) /\ p.buffer.stor_begin # NoBlock /\ (b.owned \/ Len(s) = 0)
        /\ p.buffer.contents = b.contents /\ Same(b, p)
    BY <1>1, <2>1, EnsureKeeps, EnsurePromises
  <2>3. o = [p EXCEPT !.buffer.contents = b.contents \o s]
    BY <2>1, <2>2
  <2>4. QED
    BY <2>2, <2>3, AddedPromises DEF Keeps, Fits
<1>4. QED
  BY <1>2, <1>3

(* Zeros are added, or the bytes stay as they are or are lost.             *)
LEMMA ExtendGives ==
  ASSUME NEW h, NEW b, Fits(h, b), NEW n \in 0 .. MaxObject,
         NEW o \in ExtendWithZeros(h, b, n)
  PROVE  /\ o.result # "SUCCESS" => Same(b, o)
         /\ o.result = "SUCCESS" =>
              /\ o.buffer.stor_begin # NoBlock /\ o.buffer.owned = b.owned
              /\ o.buffer.contents = b.contents \o Zeros(n)
              /\ b.owned \/ n = 0
<1> DEFINE space == (Size(b) + n) % (SizeMax + 1)
<1>1. space = Size(b) + n /\ space \in 0 .. SizeMax /\ (space = 0 => n = 0)
  <2>1. Size(b) \in Nat /\ Size(b) <= b.capacity /\ b.capacity <= MaxObject /\ b.capacity \in Nat
    BY LenProperties DEF Fits, BufferRecord, Size
  <2>2. /\ Size(b) + n < SizeMax + 1 /\ Size(b) + n \in Nat /\ SizeMax + 1 \in Nat
        /\ SizeMax \in Nat
    BY <2>1, BufferAssumption
  <2>3. space = Size(b) + n
    BY <2>2, ModSmall
  <2> HIDE DEF space
  <2>4. QED
    BY <2>1, <2>2, <2>3
<1> HIDE DEF space
<1>2. CASE o \in EnsureFreeSpace(h, b, space) /\ o.result # "SUCCESS"
  BY <1>1, <1>2, EnsurePromises
<1>3. CASE ~(o \in EnsureFreeSpace(h, b, space) /\ o.result # "SUCCESS")
  <2> DEFINE t == b.contents \o Zeros(n)
  <2>1. PICK p \in EnsureFreeSpace(h, b, space) :
          p.result = "SUCCESS" /\ o = [p EXCEPT !.buffer.contents = @ \o Zeros(n)]
    BY <1>3 DEF ExtendWithZeros, Check, space
  <2>2. /\ Keeps(h, b, p) /\ p.buffer.stor_begin # NoBlock /\ (b.owned \/ n = 0)
        /\ p.buffer.contents = b.contents /\ p.buffer.owned = b.owned
    BY <1>1, <2>1, EnsureKeeps
  <2>3. o = [p EXCEPT !.buffer.contents = t]
    BY <2>1, <2>2
  <2>4. p = Outcome(p.result, p.heap, p.buffer) /\ p.buffer \in BufferRecord
    BY <2>2 DEF Keeps
  <2> DEFINE c == [p.buffer EXCEPT !.contents = t]
  <2> HIDE DEF t
  <2>5. /\ o.result = p.result /\ o.buffer = c
        /\ c.contents = t /\ c.stor_begin = p.buffer.stor_begin /\ c.owned = p.buffer.owned
    BY <2>3, <2>4, FilledBuffer
  <2> HIDE DEF c
  <2>6. QED
    BY <2>1, <2>2, <2>5 DEF t
<1>4. QED
  BY <1>2, <1>3

LEMMA ExtendPromises ==
  ASSUME NEW h, NEW b, Fits(h, b), NEW n \in 0 .. MaxObject,
         NEW o \in ExtendWithZeros(h, b, n)
  PROVE  Promises(b, o)
<1>1. CASE o.result # "SUCCESS"
  BY <1>1, ExtendGives DEF Same, Promises
<1>2. CASE o.result = "SUCCESS"
  <2>1. b.contents \in Seq(Byte) /\ Zeros(n) \in Seq(Byte) /\ Len(Zeros(n)) = n
    BY ZerosType DEF Fits, BufferRecord
  <2>2. o.buffer.contents = b.contents \o Zeros(n) /\ o.buffer.owned = b.owned /\ (b.owned \/ n = 0)
    BY <1>2, ExtendGives
  <2>3. CASE b.owned
    BY <2>1, <2>2, <2>3, ConcatExtends DEF Promises
  <2>4. CASE n = 0
    <3>1. b.contents \o Zeros(n) = b.contents
      BY <2>1, <2>4, ConcatEmptySeq, EmptySeq
    <3>2. QED
      BY <2>2, <3>1 DEF Promises
  <2>5. QED
    BY <2>2, <2>3, <2>4
<1>3. QED
  BY <1>1, <1>2

LEMMA ResizePromises ==
  ASSUME NEW h, NEW b, Fits(h, b), NEW n \in 0 .. MaxObject, NEW o \in Resize(h, b, n)
  PROVE  Promises(b, o)
<1>1. /\ Size(b) \in Nat /\ n \in Nat /\ b \in BufferRecord /\ MaxObject \in Nat
  BY LenProperties, BufferAssumption DEF Fits, BufferRecord, Size
<1>2. CASE ~b.owned
  <2>1. o = Outcome("FAILURE", h, b)
    BY <1>2 DEF Resize
  <2>2. QED
    BY <2>1 DEF Outcome, Promises
<1>3. CASE b.owned /\ Size(b) < n
  <2>1. CASE o \in Realloc(h, b, n)
    <3>1. Size(b) <= n
      BY <1>1, <1>3
    <3>2. Same(b, o)
      BY <1>1, <2>1, <3>1, ReallocPromises
    <3>3. QED
      BY <3>2 DEF Same, Promises
  <2>2. CASE o \notin Realloc(h, b, n)
    <3>1. PICK p \in Realloc(h, b, n) :
            p.result = "SUCCESS" /\ o = [p EXCEPT !.buffer.contents = @ \o Zeros(n - Size(b))]
      BY <1>3, <2>2 DEF Resize, Check
    <3>2. /\ Keeps(h, b, p) /\ p.buffer.stor_begin # NoBlock
          /\ p.buffer.contents = b.contents /\ Same(b, p)
      BY <1>1, <1>3, <3>1, ReallocKeeps, ReallocPromises
    <3>3. o = [p EXCEPT !.buffer.contents = b.contents \o Zeros(n - Size(b))]
      BY <3>1, <3>2
    <3>4. n - Size(b) \in Nat
      BY <1>1, <1>3
    <3>5. Zeros(n - Size(b)) \in Seq(Byte)
      BY <3>4, ZerosType
    <3>6. QED
      BY <1>1, <1>3, <3>2, <3>3, <3>5, AddedPromises DEF Keeps
  <2>3. QED
    BY <2>1, <2>2
<1>4. CASE b.owned /\ ~(Size(b) < n)
  <2> DEFINE c == [b EXCEPT !.contents = SubSeq(@, 1, n)]
  <2>1. o = Outcome("SUCCESS", h, c)
    BY <1>4 DEF Resize
  <2>2. c.contents = SubSeq(b.contents, 1, n) /\ c.owned = b.owned
    BY <1>1 DEF BufferRecord
  <2>3. n \in 0 .. Size(b)
    BY <1>1, <1>4
  <2> HIDE DEF c
  <2>4. o.buffer = c
    BY <2>1 DEF Outcome
  <2>5. QED
    BY <1>4, <2>2, <2>3, <2>4 DEF Promises
<1>5. QED
  BY <1>2, <1>3, <1>4

LEMMA FillPromises ==
  ASSUME NEW h, NEW b, Fits(h, b), NEW v \in Byte
  PROVE  Promises(b, Fill(h, b, v))
<1> DEFINE c == [b EXCEPT !.contents = [i \in 1 .. Size(b) |-> v]]
<1>1. c.contents = [i \in 1 .. Size(b) |-> v] /\ c.owned = b.owned
  BY DEF Fits, BufferRecord
<1>2. Fill(h, b, v).buffer = c
  BY DEF Fill, Outcome
<1> HIDE DEF c
<1>3. QED
  BY <1>1, <1>2 DEF Promises
---------------------------------------------------------------------------
(* Operations made of others.                                              *)

(* An operation on the buffer that another one left.                       *)
LEMMA KeepsThenKeeps ==
  ASSUME NEW h, NEW b, NEW p, Keeps(h, b, p), p.result # "ENOMEM",
         p.buffer.stor_begin # NoBlock, NEW o, Keeps(p.heap, p.buffer, o)
  PROVE  Keeps(h, b, o)
  BY DEF Keeps

(* An error that is found after the operation succeeded.                   *)
LEMMA FailedKeeps ==
  ASSUME NEW h, NEW b, NEW p, Keeps(h, b, p), p.result # "ENOMEM"
  PROVE  /\ Keeps(h, b, [p EXCEPT !.result = "EINVAL"])
         /\ [p EXCEPT !.result = "EINVAL"].result = "EINVAL"
         /\ [p EXCEPT !.result = "EINVAL"].buffer = p.buffer
<1> DEFINE o == Outcome("EINVAL", p.heap, p.buffer)
<1>1. p = Outcome(p.result, p.heap, p.buffer)
  BY DEF Keeps
<1>2. [p EXCEPT !.result = "EINVAL"] = o
  BY <1>1 DEF Outcome
<1>3. o.result = "EINVAL" /\ o.heap = p.heap /\ o.buffer = p.buffer
  BY DEF Outcome
<1>4. o = Outcome(o.result, o.heap, o.buffer)
  BY <1>3
<1> HIDE DEF o
<1>5. Keeps(h, b, o)
  BY <1>3, <1>4 DEF Keeps, Results
<1>6. QED
  BY <1>2, <1>3, <1>5
============================================================================
