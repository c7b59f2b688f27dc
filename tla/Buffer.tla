------------------------------- MODULE Buffer -----------------------------
(***************************************************************************)
(* Byte buffers: an array that the buffer owns and may move when it grows, *)
(* or a view of an array of someone else.                                  *)
(*                                                                         *)
(* An operation is a set of outcomes, since an allocation may fail.  The   *)
(* bytes beyond the end of the contents are never read, so a buffer is its *)
(* contents and the length of its storage.                                 *)
(***************************************************************************)
EXTENDS Naturals, Sequences

CONSTANTS
  Byte,         \* the values of a byte, zero among them
  Blocks,       \* the addresses malloc() may return
  NoBlock,      \* the null pointer
  Array,        \* the address of an array of the caller, for views
  SizeBits,     \* the width of size_t
  SizeMax,      \* SIZE_MAX
  MaxObject     \* the largest object an allocator grants, PTRDIFF_MAX

ASSUME BufferAssumption ==
  /\ 0 \in Byte
  /\ NoBlock \notin Blocks /\ Array \notin Blocks /\ Array # NoBlock
  /\ SizeBits \in Nat /\ SizeMax \in Nat /\ MaxObject \in Nat
  /\ 2 * MaxObject <= SizeMax

BufferRecord == [stor_begin: Blocks \cup {NoBlock, Array}, capacity: Nat,
                 contents: Seq(Byte), owned: BOOLEAN]

Outcome(result, heap, buffer) == [result |-> result, heap |-> heap, buffer |-> buffer]

(* SB_CHECK: an error is returned at once.                                 *)
Check(outcomes, Op(_)) ==
  {o \in outcomes : o.result # "SUCCESS"}
    \cup UNION {Op(o) : o \in {p \in outcomes : p.result = "SUCCESS"}}

Zeros(n) == [i \in 1 .. n |-> 0]

Size(b) == Len(b.contents)

AtLeastOne(n) == IF n < 1 THEN 1 ELSE n

(* The addresses an allocation of n bytes may give.                        *)
Allocation(heap, n) ==
  {NoBlock} \cup (IF n <= MaxObject THEN Blocks \ heap ELSE {})

InitBuffer(heap, b, n) ==
  {IF k = NoBlock
     THEN Outcome("ENOMEM", heap, [b EXCEPT !.stor_begin = NoBlock])
     ELSE Outcome("SUCCESS", heap \cup {k},
                  [stor_begin |-> k, capacity |-> AtLeastOne(n),
                   contents |-> Zeros(n), owned |-> TRUE])
   : k \in Allocation(heap, AtLeastOne(n))}

(* The array, in a block of the heap, becomes the buffer's.                *)
InitFromBytes(heap, b, block, bytes) ==
  IF bytes = << >> THEN Outcome("EINVAL", heap, b)
  ELSE Outcome("SUCCESS", heap, [stor_begin |-> block, capacity |-> Len(bytes),
                                 contents |-> bytes, owned |-> TRUE])

InitView(heap, bytes) ==
  Outcome("SUCCESS", heap, [stor_begin |-> Array, capacity |-> Len(bytes),
                            contents |-> bytes, owned |-> FALSE])

(* Mutant: the memory of the buffer is forgotten.                          *)
ForgetBuffer(heap, b) ==
  Outcome("SUCCESS", heap,
          [b EXCEPT !.stor_begin = IF b.owned THEN NoBlock ELSE @,
                    !.capacity = 0, !.contents = << >>])

DestroyBuffer(heap, b) ==
  Outcome("SUCCESS", IF b.owned THEN heap \ {b.stor_begin} ELSE heap,
          [b EXCEPT !.stor_begin = IF b.owned THEN NoBlock ELSE @,
                    !.capacity = 0, !.contents = << >>])

(* Mutant: the buffer keeps the pointer it had.                            *)
ReallocInPlace(heap, b, new_capacity) ==
  IF ~b.owned \/ b.capacity = AtLeastOne(new_capacity) THEN {Outcome("SUCCESS", heap, b)}
  ELSE {Outcome("SUCCESS", (heap \ {b.stor_begin}) \cup {k}, [b EXCEPT !.capacity = new_capacity])
        : k \in Allocation(heap \ {b.stor_begin}, new_capacity) \ {NoBlock}}

(* realloc() may leave the block where it is.  When it fails, the buffer   *)
(* forgets the block, which nobody frees.                                  *)
Realloc(heap, b, new_capacity) ==
  LET n == AtLeastOne(new_capacity)
      size == IF Size(b) <= n THEN Size(b) ELSE n
  IN  IF b.capacity = n THEN {Outcome("SUCCESS", heap, b)}
      ELSE IF ~b.owned THEN {Outcome("FAILURE", heap, b)}
      ELSE {IF k = NoBlock
              THEN Outcome("ENOMEM", heap,
                     [b EXCEPT !.stor_begin = NoBlock, !.capacity = 0, !.contents = << >>])
              ELSE Outcome("SUCCESS", (heap \ {b.stor_begin}) \cup {k},
                     [b EXCEPT !.stor_begin = k, !.capacity = n,
                               !.contents = SubSeq(@, 1, size)])
            : k \in Allocation(heap \ {b.stor_begin}, n)}

(* One turn of the loop that looks for a capacity.                         *)
Doubled(capacity) == IF capacity <= SizeMax \div 2 THEN 2 * capacity ELSE SizeMax - 1

(* The capacity the loop stops at, if it stops: a capacity of one or more  *)
(* passes SIZE_MAX when it is doubled as often as size_t has bits.         *)
DesiredCapacity(capacity, new_size) ==
  LET desired[turn \in 0 .. SizeBits] ==
        IF turn = 0 THEN capacity ELSE Doubled(desired[turn - 1])
      stops == {turn \in 0 .. SizeBits :
                  new_size <= desired[turn] \/ desired[turn] >= SizeMax - 1}
  IN  {desired[turn] : turn \in {t \in stops : \A other \in stops : t <= other}}
        \cap (0 .. SizeMax)

(* No outcome when the loop does not stop.                                 *)
EnsureFreeSpace(heap, b, min_space) ==
  LET new_size == (Size(b) + min_space) % (SizeMax + 1)
  IN  IF min_space = 0 THEN {Outcome("SUCCESS", heap, b)}
      ELSE IF new_size < Size(b) THEN {Outcome("ENOMEM", heap, b)}
      ELSE UNION {IF new_size <= d THEN Realloc(heap, b, d)
                                   ELSE {Outcome("ENOMEM", heap, b)}
                  : d \in DesiredCapacity(b.capacity, new_size)}

(* Mutant: all of the buffer is cleared, not only what is new.             *)
ResizeAndClearAll(heap, b, new_size) ==
  LET Cleared(o) == {[o EXCEPT !.buffer.contents = Zeros(new_size)]}
  IN  IF b.owned THEN Check(Realloc(heap, b, new_size), Cleared)
                 ELSE {Outcome("FAILURE", heap, b)}

(* Mutant: the capacity is not looked at.                                  *)
ResizeInPlace(heap, b, new_size) ==
  IF ~b.owned THEN {Outcome("FAILURE", heap, b)}
  ELSE {Outcome("SUCCESS", heap,
          [b EXCEPT !.contents = [i \in 1 .. new_size |-> IF i <= Size(b) THEN @[i] ELSE 0]])}

Resize(heap, b, new_size) ==
  IF ~b.owned THEN {Outcome("FAILURE", heap, b)}
  ELSE IF Size(b) < new_size
    THEN LET Cleared(o) == {[o EXCEPT !.buffer.contents = @ \o Zeros(new_size - Size(b))]}
         IN  Check(Realloc(heap, b, new_size), Cleared)
    ELSE {Outcome("SUCCESS", heap, [b EXCEPT !.contents = SubSeq(@, 1, new_size)])}

Clear(heap, b) == Resize(heap, b, 0)
Prune(heap, b) == Realloc(heap, b, Size(b))
Fill(heap, b, value) ==
  Outcome("SUCCESS", heap, [b EXCEPT !.contents = [i \in 1 .. Size(b) |-> value]])

AppendBytes(heap, b, bytes) ==
  LET Copied(o) == {[o EXCEPT !.buffer.contents = @ \o bytes]}
  IN  Check(EnsureFreeSpace(heap, b, Len(bytes)), Copied)

(* With another buffer: the bytes to copy do not move in between.          *)
Concat(heap, b, other) == AppendBytes(heap, b, other.contents)

(* More room is made than needed: the size counts twice.                   *)
ExtendWithZeros(heap, b, num_zeros) ==
  LET Cleared(o) == {[o EXCEPT !.buffer.contents = @ \o Zeros(num_zeros)]}
  IN  Check(EnsureFreeSpace(heap, b, (Size(b) + num_zeros) % (SizeMax + 1)), Cleared)
===========================================================================
