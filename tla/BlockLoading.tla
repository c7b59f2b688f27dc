---------------------------- MODULE BlockLoading --------------------------
(***************************************************************************)
(* A program that reads a file block by block, or loads an object from it: *)
(* a light program, a trajectory, a yaw control curve or a return-to-home  *)
(* plan.  Loading finds the first block of the kind, copies its body into  *)
(* new memory and gives the memory to the object.                          *)
(***************************************************************************)
EXTENDS BlockFile, FiniteSets

CONSTANTS
  Blocks,       \* what calloc() may return
  NoBlock,      \* its null pointer
  Lent,         \* an encoded object in memory of the program's own
  TypesAsked    \* the types of blocks the program looks for

ASSUME LoadingAssumption ==
  NoBlock \notin Blocks /\ Lent \in Seq(0 .. 255) \ {<< >>} /\ TypesAsked \subseteq 1 .. 255

VARIABLES
  heap,         \* the blocks of memory that are allocated
  object,       \* what is loaded
  lent,         \* the program's own memory
  answer        \* of the last call

loadVars == <<fileVars, heap, object, lent, answer>>

BlockType == [trajectory |-> 1, program |-> 2, rth |-> 4, yaw |-> 5]
Kinds == DOMAIN BlockType

Nothing == [kind |-> "nothing", stor |-> NoBlock, owner |-> FALSE, bytes |-> << >>]
Silence == [of |-> "nothing", result |-> "SUCCESS", type |-> 0, body |-> << >>,
            from |-> 0, fault |-> FALSE]

Init ==
  /\ file \in [bytes: Files, source: Sources]
  /\ offset = 0 /\ parser = Closed /\ call = Idle
  /\ heap = {} /\ object = Nothing /\ lent = Lent /\ answer = Silence

Quiet == call.at = "idle"

---------------------------------------------------------------------------
(* Calls of the parser, and of a function that loads an object.            *)
Ask(todo, type) ==
  /\ Quiet
  /\ call' = [Idle EXCEPT !.todo = todo, !.at = "begin", !.type = type]
  /\ answer' = Silence
  /\ UNCHANGED <<file, offset, parser, heap, object, lent>>

Open == ~parser.open /\ object = Nothing /\ Ask(<<"init">>, 0)
AskParser == parser.open /\ \E op \in {"rewind", "next", "read"} : Ask(<<op>>, 0)
Find == parser.open /\ \E type \in TypesAsked : Ask(<<"find">>, type)

Load(kind) ==
  /\ ~parser.open /\ object = Nothing
  /\ Ask(<<"init", "find", "allocate", "read", kind>>, BlockType[kind])

Close ==
  /\ Quiet /\ parser.open
  /\ parser' = Closed /\ answer' = Silence
  /\ UNCHANGED <<file, offset, call, heap, object, lent>>

(* Between calls the program may go back to the start of the file.         *)
LSeek ==
  /\ Quiet /\ ~parser.open /\ file.source = "file" /\ offset # 0
  /\ offset' = 0 /\ answer' = Silence
  /\ UNCHANGED <<file, parser, call, heap, object, lent>>

Parse == ParserStep /\ UNCHANGED <<heap, object, lent, answer>>

(* A null pointer may also be the answer to a request for zero bytes.      *)
Allocate ==
  /\ call.at = "begin" /\ Doing("allocate")
  /\ \E block \in {NoBlock} \cup (Blocks \ heap) :
       IF block = NoBlock
         THEN call' = Returned("ENOMEM") /\ UNCHANGED heap
         ELSE heap' = heap \cup {block} /\ call' = [Succeeded EXCEPT !.held = {block}]
  /\ UNCHANGED <<file, offset, parser, object, lent, answer>>

(* The object takes the memory over; a trajectory takes none that is empty.*)
TakeOwnership ==
  /\ call.at = "begin" /\ \E kind \in Kinds : Doing(kind)
  /\ IF Doing("trajectory") /\ call.body = << >>
       THEN call' = Returned("EINVAL") /\ UNCHANGED object
       ELSE /\ object' = [kind |-> Head(call.todo), stor |-> CHOOSE k \in call.held : TRUE,
                          owner |-> TRUE, bytes |-> call.body]
            /\ call' = [Succeeded EXCEPT !.held = {}]
  /\ UNCHANGED <<file, offset, parser, heap, lent, answer>>

Answered ==
  [of |-> IF call.type = 0 THEN "parser" ELSE IF parser.open THEN "find" ELSE "load",
   result |-> call.result, type |-> call.type, body |-> call.body,
   from |-> parser.from, fault |-> call.fault]

(* Mutant: memory is only freed when the object does not take it.          *)
ReturnWithoutFree ==
  /\ call.at = "return"
  /\ heap' = IF call.result = "EINVAL" THEN heap \ call.held ELSE heap
  /\ parser' = [parser EXCEPT !.open = @ \/ (call.type = 0 /\ call.result = "SUCCESS")]
  /\ answer' = Answered /\ call' = Idle
  /\ UNCHANGED <<file, offset, object, lent>>

(* What an error leaves held is freed.  The parser of a load is destroyed. *)
Return ==
  /\ call.at = "return"
  /\ heap' = heap \ call.held
  /\ parser' = [parser EXCEPT !.open = @ \/ (call.type = 0 /\ call.result = "SUCCESS")]
  /\ answer' = Answered /\ call' = Idle
  /\ UNCHANGED <<file, offset, object, lent>>

---------------------------------------------------------------------------
(* Objects that are not loaded from a file.                                *)

Makes(o) ==
  /\ Quiet /\ object = Nothing /\ ~parser.open
  /\ object' = o /\ answer' = Silence
  /\ UNCHANGED <<file, offset, parser, call, lent>>

InitFromBuffer(kind) ==
  Makes([kind |-> kind, stor |-> NoBlock, owner |-> FALSE, bytes |-> lent]) /\ UNCHANGED heap

(* An empty trajectory owns a buffer, the other objects own nothing.       *)
InitEmpty(kind) ==
  IF kind # "trajectory"
    THEN Makes([kind |-> kind, stor |-> NoBlock, owner |-> FALSE, bytes |-> << >>]) /\ UNCHANGED heap
    ELSE \E block \in Blocks \ heap :
           /\ Makes([kind |-> kind, stor |-> block, owner |-> TRUE, bytes |-> << >>])
           /\ heap' = heap \cup {block}

(* A trajectory that does not own its bytes fills them with zeros.         *)
Wiped == IF object.kind = "trajectory" /\ ~object.owner /\ object.bytes # << >>
         THEN [i \in DOMAIN lent |-> 0] ELSE lent

ClearTrajectory ==
  /\ Quiet /\ object.kind = "trajectory"
  /\ object' = [object EXCEPT !.bytes = IF object.owner THEN << >> ELSE Wiped]
  /\ lent' = Wiped /\ answer' = Silence
  /\ UNCHANGED <<file, offset, parser, call, heap>>

Freed(h, o) == IF o.owner THEN h \ {o.stor} ELSE h

Destroy ==
  /\ Quiet /\ object # Nothing
  /\ heap' = Freed(heap, object)
  /\ object' = Nothing /\ lent' = Wiped /\ answer' = Silence
  /\ UNCHANGED <<file, offset, parser, call>>

Turn == Parse \/ Allocate \/ TakeOwnership \/ Return

Next ==
  \/ Open \/ AskParser \/ Find \/ (\E kind \in Kinds : Load(kind))
  \/ Close \/ LSeek
  \/ (\E kind \in Kinds : InitFromBuffer(kind)) \/ (\E kind \in Kinds : InitEmpty(kind))
  \/ ClearTrajectory \/ Destroy
  \/ Turn

Spec == Init /\ [][Next]_loadVars

(* A call that has begun goes on: every turn ends a step of the call.      *)
FairSpec == Spec /\ WF_loadVars(Turn)

---------------------------------------------------------------------------
(* The reference: the bytes of a file are a header and blocks.             *)

HasMagic(bytes) == Len(bytes) > 4 /\ SubSeq(bytes, 1, 4) = Magic
Checked(bytes) == bytes[5] = 2 /\ bytes[6] % 2 = 1
HeaderSize(bytes) == IF bytes[5] = 1 THEN 5 ELSE IF Checked(bytes) THEN 10 ELSE 6

HasHeader(bytes) ==
  /\ HasMagic(bytes) /\ bytes[5] \in {1, 2}
  /\ bytes[5] = 2 => Len(bytes) >= 6
  /\ Len(bytes) >= HeaderSize(bytes)

(* The checksum is that of the file with zeros in its place.               *)
Zeroed(bytes) == [i \in 1 .. Len(bytes) |-> IF i \in 7 .. 10 THEN 0 ELSE bytes[i]]
Expected(bytes) == LongWord(SubSeq(bytes, 7, 10))
Checksum(bytes) == CrcUpdate(0, Zeroed(bytes))

Sound(bytes) == HasHeader(bytes) /\ (Checked(bytes) => Expected(bytes) = Checksum(bytes))

(* The blocks whose header is there, up to the first with the type zero or *)
(* with a body that is cut off.                                            *)
IsBlockAt(bytes, at) == at + 3 <= Len(bytes) /\ bytes[at + 1] # 0

BlockAt(bytes, at) ==
  [type |-> bytes[at + 1], length |-> Word(SubSeq(bytes, at + 2, at + 3)), start |-> at + 3]

End(b) == b.start + b.length

BlocksFrom(bytes) ==
  LET from[at \in 0 .. Len(bytes)] ==
        IF ~IsBlockAt(bytes, at) THEN {}
        ELSE {BlockAt(bytes, at)}
               \cup (IF End(BlockAt(bytes, at)) <= Len(bytes) THEN from[End(BlockAt(bytes, at))] ELSE {})
  IN  from

Rest(bytes, at) == IF at <= Len(bytes) THEN BlocksFrom(bytes)[at] ELSE {}
BlocksOf(bytes) == Rest(bytes, HeaderSize(bytes))
BlocksOfType(bytes, type) == {b \in BlocksOf(bytes) : b.type = type}
IsFirst(b, bytes, type) ==
  b \in BlocksOfType(bytes, type) /\ \A c \in BlocksOfType(bytes, type) : b.start <= c.start
Body(b, bytes) == SubSeq(bytes, b.start + 1, End(b))

(* A parser that was placed on a block is on a block of the file, and the  *)
(* body it reads is that block's.  What a search finds is the first block  *)
(* of its type, and what it does not find is not there, also when reads    *)
(* fail or are short.                                                      *)
AnswersAreTrue ==
  Quiet /\ answer.of # "nothing" /\ answer.from = 0 /\ Sound(file.bytes) =>
    /\ parser.open /\ parser.placed /\ IsCurrentBlockValid =>
         /\ parser.block \in BlocksOf(file.bytes)
         /\ answer.body # << >> => answer.body = Body(parser.block, file.bytes)
    /\ answer.of = "find" /\ answer.result = "SUCCESS" => IsFirst(parser.block, file.bytes, answer.type)
    /\ answer.of \in {"find", "load"} /\ answer.result = "ENOENT" =>
         BlocksOfType(file.bytes, answer.type) = {}
    /\ answer.of = "load" /\ answer.result = "SUCCESS" =>
         \E b \in BlocksOf(file.bytes) :
           /\ IsFirst(b, file.bytes, answer.type)
           /\ object.bytes = Body(b, file.bytes) /\ Len(object.bytes) = b.length

(* A parser is opened on a file that is sound and on no other, with or     *)
(* without a checksum, whatever the size of the file and of the chunks; a  *)
(* sound file is rejected only when it cannot be read.                     *)
OpensSoundFiles ==
  Quiet /\ answer.of # "nothing" /\ answer.from = 0 =>
    /\ (parser.open \/ (answer.of = "load" /\ answer.result = "SUCCESS")) => Sound(file.bytes)
    /\ Sound(file.bytes) /\ ~answer.fault => answer.result \notin {"EPARSE", "ECORRUPTED"}

(* All memory belongs to the object or to the call that loads it, whatever *)
(* fails on the way, and the object has what it owns.                      *)
MemoryIsOwned ==
  /\ heap = call.held \cup (IF object.owner THEN {object.stor} ELSE {})
  /\ object.owner => object.stor \notin call.held

(* What a call has still to do, and what it holds by then: a load has the  *)
(* memory from its allocation to the end, and no object exists meanwhile.  *)
ParserOps == {"init", "rewind", "next", "find", "read"}
Asked == {<<op>> : op \in ParserOps}
BeforeMemory == UNION {{<<"init", "find", "allocate", "read", kind>>,
                        <<"find", "allocate", "read", kind>>,
                        <<"allocate", "read", kind>>} : kind \in Kinds}
WithMemory == UNION {{<<"read", kind>>, <<kind>>} : kind \in Kinds}

StagesMatch ==
  /\ call.todo \in {<< >>} \cup Asked \cup BeforeMemory \cup WithMemory
  /\ call.todo = << >> <=> call.at \in {"idle", "return"}
  /\ call.at \notin {"idle", "begin", "return"} => Head(call.todo) \in ParserOps
  /\ call.todo \in Asked \cup BeforeMemory \/ call.at = "idle" => call.held = {}
  /\ call.todo \in WithMemory => call.held # {}
  /\ call.todo \in BeforeMemory \/ call.held # {} => object = Nothing
  /\ \A k, l \in call.held : k = l

(* The inductive invariant of the memory.  The types are those of the      *)
(* parts it reads.                                                         *)
MemoryInv ==
  /\ DOMAIN call = DOMAIN Idle /\ DOMAIN object = DOMAIN Nothing
  /\ object.owner \in BOOLEAN /\ heap \subseteq Blocks
  /\ MemoryIsOwned
  /\ StagesMatch

(* What the parser knows of the file.  It only knows where it is in the    *)
(* file if it was set up at the start of it.                               *)
AtStart == parser.from = 0
ChecksumSteps == {"first chunk", "chunk", "compare"}
HeaderSteps == {"magic", "version", "features", "expected", "offset"} \cup ChecksumSteps

(* What is still to do, for the calls of a parser and of a load.           *)
OpsMatch ==
  /\ call.todo # << >> =>
       IF parser.open
         THEN call.todo \in (IF call.type = 0 THEN {<<"rewind">>, <<"next">>, <<"read">>} ELSE {<<"find">>})
         ELSE call.todo \in (IF call.type = 0 THEN {<<"init">>} ELSE BeforeMemory \cup WithMemory)
  /\ call.at \in HeaderSteps => Doing("init")
  /\ call.at \in {"type", "length"} => Doing("init") \/ Doing("rewind") \/ Doing("next") \/ Doing("find")
  /\ call.at = "skip" => Doing("find")
  /\ call.at = "body" => Doing("read")

BlockRecords == [type: 0 .. 255, length: Nat, start: Nat]
Parsers == [open: BOOLEAN, version: 0 .. 255, features: 0 .. 255, expected: Nat, observed: Crcs,
            start_of_first_block: Nat, block: BlockRecords, from: Nat, placed: BOOLEAN]

ParserTypes ==
  /\ file.bytes \in Seq(0 .. 255) /\ offset \in Nat
  /\ call.type \in 0 .. 255 /\ call.fault \in BOOLEAN
  /\ parser \in Parsers

(* The header, as far as it has been read.                                 *)
HeaderAsRead ==
  /\ HasHeader(file.bytes)
  /\ HasChecksum(parser) <=> Checked(file.bytes)
  /\ HasChecksum(parser) => parser.expected = Expected(file.bytes)

HeaderInv ==
  AtStart =>
    /\ call.at \in {"magic", "version"} => parser.features = 0
    /\ call.at = "magic" => offset = 0
    /\ call.at = "version" => offset = 4 /\ Len(file.bytes) >= 4 /\ SubSeq(file.bytes, 1, 4) = Magic
    /\ call.at = "features" => offset = 5 /\ HasMagic(file.bytes) /\ file.bytes[5] = 2
    /\ call.at = "expected" =>
         /\ offset = 6 /\ HasMagic(file.bytes) /\ file.bytes[5] = 2 /\ Len(file.bytes) >= 6
         /\ HasChecksum(parser) /\ parser.features = file.bytes[6]
    /\ call.at = "offset" => offset = HeaderSize(file.bytes) /\ HeaderAsRead
    /\ call.at \in ChecksumSteps =>
         parser.start_of_first_block = HeaderSize(file.bytes) /\ HeaderAsRead /\ HasChecksum(parser)

(* The checksum of what has been read of the file so far.                  *)
ChecksumInv ==
  AtStart =>
    /\ call.at = "first chunk" => offset = 0 /\ parser.observed = 0
    /\ call.at = "chunk" =>
         /\ offset \in 10 .. Len(file.bytes)
         /\ parser.observed = CrcUpdate(0, SubSeq(Zeroed(file.bytes), 1, offset))
    /\ call.at = "compare" /\ ~call.fault => parser.observed = Checksum(file.bytes)

(* The header has been read and accepted.                                  *)
PastHeader ==
  \/ parser.open
  \/ call.at \in {"type", "length", "skip", "body"}
  \/ call.at = "begin" /\ ~Doing("init")
  \/ call.at = "return" /\ call.result = "SUCCESS"

LocatedInv ==
  AtStart /\ PastHeader =>
    HasHeader(file.bytes) /\ parser.start_of_first_block = HeaderSize(file.bytes)

SoundInv == AtStart /\ PastHeader => Sound(file.bytes)

RejectedInv ==
  AtStart /\ call.at = "return" /\ call.result \in {"EPARSE", "ECORRUPTED"} /\ ~call.fault =>
    ~Sound(file.bytes)

(* The checksum of a file that could only be read in part is another one   *)
(* than that of the whole file.                                            *)
ShortReadsAreNoticed == call.at = "compare" /\ call.fault => parser.observed # parser.expected

(* The blocks from here on, at least those of the type that is looked for. *)
Ahead(at) == Rest(file.bytes, at) \subseteq BlocksOf(file.bytes)
NonePassed(at) == BlocksOfType(file.bytes, call.type) \subseteq Rest(file.bytes, at)
Follows == parser.placed \/ ~Doing("next")

PlacedInv ==
  AtStart =>
    /\ parser.placed /\ IsCurrentBlockValid /\ call.at # "length" =>
         parser.block \in BlocksOf(file.bytes) /\ Ahead(End(parser.block))
    /\ call.at = "type" /\ Follows => Ahead(offset)
    /\ call.at = "length" /\ Follows => Ahead(offset - 1)
    /\ call.at = "length" => offset \in 1 .. Len(file.bytes) /\ parser.block.type = file.bytes[offset]
    /\ call.at = "skip" => parser.placed /\ IsCurrentBlockValid

SearchInv ==
  AtStart =>
    /\ call.at = "type" /\ Doing("find") => NonePassed(offset)
    /\ call.at = "length" /\ Doing("find") => NonePassed(offset - 1)
    /\ call.at = "skip" => NonePassed(End(parser.block))

(* The search of the call, if it has one, has succeeded.                   *)
HasFound ==
  /\ call.type # 0
  /\ \/ call.at = "begin" /\ ~Doing("init") /\ ~Doing("find")
     \/ call.at = "body"
     \/ call.at = "return" /\ call.result = "SUCCESS"

FoundInv ==
  AtStart =>
    /\ HasFound => IsFirst(parser.block, file.bytes, call.type)
    /\ call.at = "return" /\ call.result = "ENOENT" => BlocksOfType(file.bytes, call.type) = {}

HasBody(bytes) == bytes = Body(parser.block, file.bytes) /\ Len(bytes) = parser.block.length
Giving == call.at = "begin" /\ \E kind \in Kinds : Doing(kind)

BodyInv ==
  /\ call.at = "body" => offset = parser.block.start
  /\ Giving \/ call.body # << >> => HasBody(call.body)
  /\ call.body # << >> => Giving \/ call.at = "return"
  /\ call.at = "return" /\ call.result = "SUCCESS" /\ call.type # 0 /\ ~parser.open => HasBody(object.bytes)

(* The inductive invariant of what the parser knows, on top of MemoryInv.  *)
ParserInv ==
  /\ ParserTypes /\ OpsMatch /\ HeaderInv /\ ChecksumInv /\ LocatedInv /\ RejectedInv
  /\ PlacedInv /\ SearchInv /\ FoundInv /\ BodyInv

(* Every call returns, also for files that are cut off.                    *)
CallsReturn == call.at # "idle" ~> call.at = "idle"
===========================================================================
