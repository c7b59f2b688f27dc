------------------------------ MODULE Buffers -----------------------------
(***************************************************************************)
(* A program that uses several buffers, owned ones and views, within the   *)
(* preconditions the code asserts: a buffer is initialised before it is    *)
(* used, and destroyed before it is initialised again.                     *)
(***************************************************************************)
EXTENDS Buffer

CONSTANTS
  Names,        \* the buffers
  Lengths,      \* the sizes the program asks for
  Strings       \* the arrays the program copies or views

ASSUME BuffersAssumption ==
  /\ Lengths \subseteq 0 .. MaxObject
  /\ NoBlock \notin Seq(Byte)
  /\ \A s \in Strings : s \in Seq(Byte) /\ Len(s) <= MaxObject

VARIABLES
  heap,         \* the blocks that are allocated
  buffers,      \* each sb_buffer_t
  live,         \* the buffers that are initialised
  result        \* of the last call

buffersVars == <<heap, buffers, live, result>>

(* Nothing is known of an uninitialised buffer; it is not looked at.       *)
Uninitialised ==
  [stor_begin |-> NoBlock, capacity |-> 0, contents |-> << >>, owned |-> FALSE]

Init ==
  /\ heap = {}
  /\ buffers = [i \in Names |-> Uninitialised]
  /\ live = {}
  /\ result = "SUCCESS"

(* A buffer whose storage is lost or given up may only be initialised.     *)
Became(i, o) ==
  /\ heap' = o.heap
  /\ buffers' = [buffers EXCEPT ![i] = o.buffer]
  /\ result' = o.result

InitOwned(i, n) ==
  /\ i \notin live
  /\ \E o \in InitBuffer(heap, buffers[i], n) :
       /\ Became(i, o)
       /\ live' = IF o.result = "SUCCESS" THEN live \cup {i} ELSE live

(* The program allocates an array and hands it over; when the buffer does  *)
(* not take it, the program frees it.                                      *)
TakeOver(i, bytes) ==
  /\ i \notin live
  /\ \E block \in Blocks \ heap :
       LET o == InitFromBytes(heap \cup {block}, buffers[i], block, bytes)
       IN  IF o.result = "SUCCESS"
             THEN Became(i, o) /\ live' = live \cup {i}
             ELSE result' = o.result /\ UNCHANGED <<heap, buffers, live>>

(* A view of an array that is not empty: the code asserts it is no null    *)
(* pointer, and growing an empty view by a byte would not return, because  *)
(* its capacity, zero, is doubled until it is enough.                      *)
View(i, bytes) ==
  /\ i \notin live /\ bytes # << >>
  /\ Became(i, InitView(heap, bytes))
  /\ live' = live \cup {i}

Destroy(i) ==
  /\ i \in live
  /\ Became(i, DestroyBuffer(heap, buffers[i]))
  /\ live' = live \ {i}

Call(i, outcomes) ==
  /\ i \in live
  /\ \E o \in outcomes :
       /\ Became(i, o)
       /\ live' = IF o.buffer.stor_begin = NoBlock THEN live \ {i} ELSE live

Next ==
  \E i \in Names :
    \/ \E n \in Lengths : InitOwned(i, n)
    \/ \E s \in Strings : TakeOver(i, s)
    \/ \E s \in Strings : View(i, s)
    \/ Destroy(i)
    \/ \E n \in Lengths : Call(i, Resize(heap, buffers[i], n))
    \/ Call(i, Clear(heap, buffers[i]))
    \/ Call(i, Prune(heap, buffers[i]))
    \/ \E value \in Byte : Call(i, {Fill(heap, buffers[i], value)})
    \/ \E s \in Strings : Call(i, AppendBytes(heap, buffers[i], s))
    \/ \E j \in live \ {i} : Call(i, Concat(heap, buffers[i], buffers[j]))
    \/ \E n \in Lengths : Call(i, ExtendWithZeros(heap, buffers[i], n))

Spec == Init /\ [][Next]_buffersVars

---------------------------------------------------------------------------
TypeOK ==
  /\ heap \subseteq Blocks
  /\ buffers \in [Names -> BufferRecord]
  /\ live \subseteq Names
  /\ result \in {"SUCCESS", "FAILURE", "EINVAL", "ENOMEM"}

(* No operation writes past the storage of its buffer: whatever was grown, *)
(* shrunk and pruned before, the contents end within the capacity.  In a   *)
(* view they are the whole array.                                          *)
WritesStayInside ==
  \A i \in live :
    /\ Size(buffers[i]) <= buffers[i].capacity
    /\ ~buffers[i].owned => Size(buffers[i]) = buffers[i].capacity

(* Nothing is freed twice or used after it was freed: the storage of every *)
(* owned buffer is allocated, and no two buffers own the same block.       *)
OneOwner ==
  /\ \A i \in live : IF buffers[i].owned THEN buffers[i].stor_begin \in heap
                                         ELSE buffers[i].stor_begin = Array
  /\ \A i, j \in live :
       i # j /\ buffers[i].owned /\ buffers[j].owned
         => buffers[i].stor_begin # buffers[j].stor_begin

(* No array is larger than an allocator grants.                            *)
CapacitiesAreObjects == \A i \in live : buffers[i].capacity <= MaxObject

(* The inductive invariant.  Without a bound on the capacities, the sizes  *)
(* that a growth computes might wrap around.                               *)
IInv ==
  /\ TypeOK
  /\ WritesStayInside
  /\ OneOwner
  /\ CapacitiesAreObjects

Owned == {buffers[i].stor_begin : i \in {j \in live : buffers[j].owned}}

(* A block is lost only to a growth that ran out of memory: destroying     *)
(* frees all, every other operation keeps or replaces the storage.         *)
LeaksOnlyWithoutMemory ==
  [][heap' \ Owned' # heap \ Owned => result' = "ENOMEM"]_buffersVars

(* A buffer is a string of bytes: capacity is invisible, a failed call     *)
(* changes nothing or loses the whole string, and a view has the length it *)
(* was made with.                                                          *)
StringOf(i) == INSTANCE ByteString WITH
  Nothing <- NoBlock,
  bytes <- IF i \in live THEN buffers[i].contents ELSE NoBlock,
  growable <- i \in live /\ buffers[i].owned

ImplementsByteString ==
  /\ \A i \in Names : StringOf(i)!Init
  /\ [][\A i \in Names : [StringOf(i)!Next]_(StringOf(i)!stringVars)]_buffersVars
===========================================================================
