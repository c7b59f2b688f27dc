------------------------- MODULE BlockLoading_proofs ------------------------
(***************************************************************************)
(* Reading files block by block and loading objects from them: whatever    *)
(* the file, wherever a read or an allocation fails, all memory belongs to *)
(* the object or to the call, what the parser answers is true of the file, *)
(* and sound files are the ones it opens.                                  *)
(***************************************************************************)
EXTENDS BlockLoading, SequenceTheorems, WellFoundedInduction, TLAPS

---------------------------------------------------------------------------
(* The parser: what a step of it makes of the call.                        *)

Stops == {"idle", "begin", "return"}

(* The call is over, goes on with its operation, or with the next one.     *)
Turned(c) ==
  /\ DOMAIN c = DOMAIN Idle /\ c.held = call.held
  /\ \/ c.todo = << >> /\ c.at = "return"
     \/ c.todo = call.todo /\ c.at \notin Stops
     \/ Len(call.todo) > 1 /\ c.todo = Tail(call.todo) /\ c.at = "begin"

IsCall == DOMAIN call = DOMAIN Idle

LEMMA CallDomain ==
  DOMAIN Idle = {"todo", "at", "type", "body", "held", "result", "fault"}
  BY DEF Idle

LEMMA ReturnedTurned ==
  ASSUME IsCall, NEW result
  PROVE  Turned(Returned(result))
  BY CallDomain DEF IsCall, Turned, Returned

LEMMA ContinuedTurned ==
  ASSUME IsCall, NEW at, at \notin Stops
  PROVE  Turned([call EXCEPT !.at = at])
  BY CallDomain DEF IsCall, Turned

LEMMA SucceededTurned ==
  ASSUME IsCall
  PROVE  Turned(Succeeded)
<1>1. CASE Len(call.todo) > 1
  BY <1>1, CallDomain DEF IsCall, Turned, Succeeded
<1>2. CASE ~(Len(call.todo) > 1)
  BY <1>2, ReturnedTurned DEF Succeeded
<1>3. QED
  BY <1>1, <1>2

(* Noting a fault, or the body that was read, changes nothing of this.     *)
LEMMA NotedTurned ==
  ASSUME NEW c, Turned(c), NEW v
  PROVE  Turned([c EXCEPT !.fault = v]) /\ Turned([c EXCEPT !.body = v])
  BY CallDomain DEF Turned

(* How a read may go on.                                                   *)
GoesOn(n) == Turned(n.call)

LEMMA FailGoesOn ==
  ASSUME IsCall, NEW result
  PROVE  GoesOn(Fail(result))
<1>1. Fail(result).call = Returned(result)
  BY DEF Fail, On
<1>2. QED
  BY <1>1, ReturnedTurned DEF GoesOn

LEMMA ContinueGoesOn ==
  ASSUME IsCall, NEW at, at \notin Stops, NEW p
  PROVE  GoesOn(Continue(at, p))
<1>1. Continue(at, p).call = [call EXCEPT !.at = at]
  BY DEF Continue, On
<1>2. QED
  BY <1>1, ContinuedTurned DEF GoesOn

LEMMA PlacedGoesOn ==
  ASSUME IsCall, NEW block
  PROVE  GoesOn(Placed(block))
<1> DEFINE p == [parser EXCEPT !.block = block, !.placed = @ \/ ~Doing("next")]
<1>1. \/ Placed(block) = On(Succeeded, p)
      \/ Placed(block) = On(Returned("ENOENT"), p)
      \/ Placed(block) = Continue("skip", p)
  BY DEF Placed
<1> HIDE DEF p
<1>2. On(Succeeded, p).call = Succeeded /\ On(Returned("ENOENT"), p).call = Returned("ENOENT")
  BY DEF On
<1>3. GoesOn(Continue("skip", p))
  BY ContinueGoesOn DEF Stops
<1>4. QED
  BY <1>1, <1>2, <1>3, SucceededTurned, ReturnedTurned DEF GoesOn

(* A read in the middle of a call: Then is one of the ways it may go on.   *)
ReadTurned == call.at \notin Stops /\ Turned(call')

LEMMA ReadMagicTurns ==
  ASSUME IsCall, ReadMagic PROVE ReadTurned
<1>1. PICK r : LET n == IF r.bytes # Magic THEN Fail("EPARSE") ELSE Continue("version", parser)
               IN  call' = [n.call EXCEPT !.fault = @ \/ r.fault]
  BY DEF ReadMagic, Reads
<1>2. QED
  BY <1>1, FailGoesOn, ContinueGoesOn, NotedTurned DEF GoesOn, Stops, ReadMagic, Reads, ReadTurned

LEMMA ReadVersionTurns ==
  ASSUME IsCall, ReadVersion PROVE ReadTurned
<1>1. PICK r : LET n == IF r.bytes = << >> \/ r.bytes[1] \notin {1, 2} THEN Fail("EPARSE")
                        ELSE Continue(IF r.bytes[1] = 2 THEN "features" ELSE "offset",
                                      [parser EXCEPT !.version = r.bytes[1]])
               IN  call' = [n.call EXCEPT !.fault = @ \/ r.fault]
  BY DEF ReadVersion, Reads
<1>2. QED
  BY <1>1, FailGoesOn, ContinueGoesOn, NotedTurned DEF GoesOn, Stops, ReadVersion, Reads, ReadTurned

LEMMA ReadFeaturesTurns ==
  ASSUME IsCall, ReadFeatures PROVE ReadTurned
<1>1. PICK r : LET n == IF r.bytes = << >> THEN Fail("EPARSE")
                        ELSE LET p == [parser EXCEPT !.features = r.bytes[1]]
                             IN  Continue(IF HasChecksum(p) THEN "expected" ELSE "offset", p)
               IN  call' = [n.call EXCEPT !.fault = @ \/ r.fault]
  BY DEF ReadFeatures, Reads
<1>2. QED
  BY <1>1, FailGoesOn, ContinueGoesOn, NotedTurned DEF GoesOn, Stops, ReadFeatures, Reads, ReadTurned

LEMMA ReadExpectedTurns ==
  ASSUME IsCall, ReadExpected PROVE ReadTurned
<1>1. PICK r : LET n == IF Len(r.bytes) # 4 THEN Fail("EPARSE")
                        ELSE Continue("offset", [parser EXCEPT !.expected = LongWord(r.bytes)])
               IN  call' = [n.call EXCEPT !.fault = @ \/ r.fault]
  BY DEF ReadExpected, Reads
<1>2. QED
  BY <1>1, FailGoesOn, ContinueGoesOn, NotedTurned DEF GoesOn, Stops, ReadExpected, Reads, ReadTurned

LEMMA AfterChunkGoesOn ==
  ASSUME IsCall, NEW r, NEW bytes
  PROVE  GoesOn(AfterChunk(r, bytes))
  BY FailGoesOn, ContinueGoesOn DEF AfterChunk, Stops

LEMMA ReadFirstChunkTurns ==
  ASSUME IsCall, ReadFirstChunk PROVE ReadTurned
<1>1. PICK r : LET n == AfterChunk(r, WithoutChecksum(r.bytes))
               IN  call' = [n.call EXCEPT !.fault = @ \/ r.fault]
  BY DEF ReadFirstChunk, Reads
<1>2. QED
  BY <1>1, AfterChunkGoesOn, NotedTurned DEF GoesOn, Stops, ReadFirstChunk, Reads, ReadTurned

LEMMA ReadChunkTurns ==
  ASSUME IsCall, ReadChunk PROVE ReadTurned
<1>1. PICK r : LET n == AfterChunk(r, r.bytes)
               IN  call' = [n.call EXCEPT !.fault = @ \/ r.fault]
  BY DEF ReadChunk, Reads
<1>2. QED
  BY <1>1, AfterChunkGoesOn, NotedTurned DEF GoesOn, Stops, ReadChunk, Reads, ReadTurned

LEMMA ReadTypeTurns ==
  ASSUME IsCall, ReadType PROVE ReadTurned
<1>1. PICK r : LET n == IF r.error THEN Fail("EREAD")
                        ELSE IF r.bytes = << >> THEN Placed(NoBlockHere)
                        ELSE Continue("length", [parser EXCEPT !.block.type = r.bytes[1]])
               IN  call' = [n.call EXCEPT !.fault = @ \/ r.fault]
  BY DEF ReadType, Reads
<1>2. QED
  BY <1>1, FailGoesOn, ContinueGoesOn, PlacedGoesOn, NotedTurned DEF GoesOn, Stops, ReadType, Reads, ReadTurned

LEMMA ReadLengthTurns ==
  ASSUME IsCall, ReadLength PROVE ReadTurned
<1> DEFINE p == [parser EXCEPT !.placed = FALSE]
<1>1. PICK r :
        LET n == IF Len(r.bytes) # 2 THEN On(Returned("EREAD"), p)
                 ELSE Placed([parser.block EXCEPT !.length = Word(r.bytes), !.start = offset + 2])
        IN  call' = [n.call EXCEPT !.fault = @ \/ r.fault]
  BY DEF ReadLength, Reads
<1> HIDE DEF p
<1>2. GoesOn(On(Returned("EREAD"), p))
  BY ReturnedTurned DEF GoesOn, On
<1>3. QED
  BY <1>1, <1>2, PlacedGoesOn, NotedTurned DEF GoesOn, Stops, ReadLength, Reads, ReadTurned

LEMMA ReadBodyTurns ==
  ASSUME IsCall, ReadBody PROVE ReadTurned
<1>1. PICK r :
        LET n == IF r.error \/ Len(r.bytes) # parser.block.length THEN Fail("EREAD")
                 ELSE On([Succeeded EXCEPT !.body = r.bytes], parser)
        IN  call' = [n.call EXCEPT !.fault = @ \/ r.fault]
  BY DEF ReadBody, Reads
<1>2. GoesOn(On([Succeeded EXCEPT !.body = r.bytes], parser))
  BY SucceededTurned, NotedTurned DEF GoesOn, On
<1>3. QED
  BY <1>1, <1>2, FailGoesOn, NotedTurned DEF GoesOn, Stops, ReadBody, Reads, ReadTurned

(* The steps that only seek, or keep the offset.                           *)
LEMMA SeekTurns ==
  ASSUME IsCall, NEW to, NEW at, at \notin Stops, SeekAndGo(to, at)
  PROVE  Turned(call')
  BY ContinuedTurned, ReturnedTurned DEF SeekAndGo

LEMMA KeepOffsetTurns ==
  ASSUME IsCall, KeepOffset PROVE ReadTurned
  BY ContinuedTurned, ReturnedTurned DEF KeepOffset, ReadTurned, Stops

LEMMA CompareTurns ==
  ASSUME IsCall, CompareChecksum PROVE ReadTurned
  BY ContinuedTurned, ReturnedTurned DEF CompareChecksum, ReadTurned, Stops

LEMMA SkipTurns ==
  ASSUME IsCall, SkipBlock PROVE ReadTurned
  BY SeekTurns DEF SkipBlock, ReadTurned, Stops

(* The steps that begin an operation of the parser.                        *)
BeginTurned ==
  call.at = "begin" /\ call.todo # << >> /\ Head(call.todo) \in ParserOps /\ Turned(call')

LEMMA BeginInitTurns ==
  ASSUME IsCall, BeginInit PROVE BeginTurned
  BY CallDomain DEF BeginInit, BeginTurned, Doing, ParserOps, Turned, IsCall, Stops

LEMMA BeginRewindTurns ==
  ASSUME IsCall, BeginRewind PROVE BeginTurned
  BY SeekTurns DEF BeginRewind, BeginTurned, Doing, ParserOps, Stops

LEMMA BeginNextTurns ==
  ASSUME IsCall, BeginNext PROVE BeginTurned
  BY SeekTurns, ReturnedTurned DEF BeginNext, BeginTurned, Doing, ParserOps, Stops

LEMMA BeginReadTurns ==
  ASSUME IsCall, BeginRead PROVE BeginTurned
  BY SeekTurns, ReturnedTurned DEF BeginRead, BeginTurned, Doing, ParserOps, Stops

LEMMA ParserTurns ==
  ASSUME IsCall, ParserStep
  PROVE  BeginTurned \/ ReadTurned
  BY ReadMagicTurns, ReadVersionTurns, ReadFeaturesTurns, ReadExpectedTurns, KeepOffsetTurns,
     ReadFirstChunkTurns, ReadChunkTurns, CompareTurns, ReadTypeTurns, ReadLengthTurns,
     SkipTurns, ReadBodyTurns, BeginInitTurns, BeginRewindTurns, BeginNextTurns, BeginReadTurns
     DEF ParserStep
---------------------------------------------------------------------------
(* What is still to do.                                                    *)

LEMMA KindsAre == Kinds = {"trajectory", "program", "rth", "yaw"}
  BY DEF Kinds, BlockType

(* The stages are apart: what is still to do says whether memory is held.  *)
LEMMA StagesDiffer ==
  /\ << >> \notin Asked \cup BeforeMemory \cup WithMemory
  /\ \A t \in WithMemory : t \notin Asked \cup BeforeMemory
<1>1. << >> \notin Asked \cup BeforeMemory \cup WithMemory
  BY DEF Asked, BeforeMemory, WithMemory
<1>2. ASSUME NEW kind \in Kinds PROVE <<kind>> \notin Asked \cup BeforeMemory
  BY <1>2, KindsAre DEF Asked, BeforeMemory, ParserOps
<1>3. ASSUME NEW kind PROVE <<"read", kind>> \notin Asked \cup BeforeMemory
  BY <1>3 DEF Asked, BeforeMemory, ParserOps
<1>4. QED
  BY <1>1, <1>2, <1>3 DEF WithMemory

(* After an operation of the parser comes one of the same stage.           *)
LEMMA NextStage ==
  ASSUME NEW t \in Asked \cup BeforeMemory \cup WithMemory, Len(t) > 1, Head(t) \in ParserOps
  PROVE  \/ t \in BeforeMemory /\ Tail(t) \in BeforeMemory
         \/ t \in WithMemory /\ Tail(t) \in WithMemory
<1>0. ASSUME NEW op PROVE ~(Len(<<op>>) > 1)
  OBVIOUS
<1>1. CASE t \in Asked
  BY <1>0, <1>1 DEF Asked
<1>2. CASE t \in BeforeMemory
  <2>1. PICK kind \in Kinds : t \in {<<"init", "find", "allocate", "read", kind>>,
                                   <<"find", "allocate", "read", kind>>,
                                   <<"allocate", "read", kind>>}
    BY <1>2 DEF BeforeMemory
  <2>2. Tail(<<"init", "find", "allocate", "read", kind>>) \in BeforeMemory
    BY DEF BeforeMemory
  <2>3. Tail(<<"find", "allocate", "read", kind>>) \in BeforeMemory
    BY DEF BeforeMemory
  <2>4. t # <<"allocate", "read", kind>>
    BY DEF ParserOps
  <2>5. QED
    BY <1>2, <2>1, <2>2, <2>3, <2>4
<1>3. CASE t \in WithMemory
  <2>1. PICK kind \in Kinds : t = <<"read", kind>> \/ t = <<kind>>
    BY <1>3 DEF WithMemory
  <2>2. Tail(<<"read", kind>>) \in WithMemory
    BY DEF WithMemory
  <2>3. t # <<kind>>
    BY <1>0
  <2>4. QED
    BY <1>3, <2>1, <2>2, <2>3
<1>4. QED
  BY <1>1, <1>2, <1>3

LEMMA ParseKeepsInv ==
  ASSUME MemoryInv, Parse
  PROVE  MemoryInv'
<1>1. heap' = heap /\ object' = object
  BY DEF Parse
<1>2. BeginTurned \/ ReadTurned
  BY ParserTurns DEF MemoryInv, IsCall, Parse
<1>3. Turned(call') /\ Head(call.todo) \in ParserOps
  BY <1>2 DEF BeginTurned, ReadTurned, MemoryInv, StagesMatch, Stops
<1>4. call.todo \in Asked \cup BeforeMemory \cup WithMemory
  BY <1>2 DEF BeginTurned, ReadTurned, MemoryInv, StagesMatch, Stops
<1>5. DOMAIN call' = DOMAIN Idle /\ call'.held = call.held
  BY <1>3 DEF Turned
<1>6. StagesMatch'
  <2>1. CASE call'.todo = << >> /\ call'.at = "return"
    BY <1>1, <1>5, <2>1, StagesDiffer DEF MemoryInv, StagesMatch
  <2>2. CASE call'.todo = call.todo /\ call'.at \notin Stops
    <3>1. call.todo # << >>
      BY <1>4, StagesDiffer
    <3>2. QED
      BY <1>1, <1>3, <1>4, <1>5, <2>2, <3>1 DEF MemoryInv, StagesMatch, Stops
  <2>3. CASE Len(call.todo) > 1 /\ call'.todo = Tail(call.todo) /\ call'.at = "begin"
    <3>1. \/ call.todo \in BeforeMemory /\ call'.todo \in BeforeMemory
          \/ call.todo \in WithMemory /\ call'.todo \in WithMemory
      BY <1>3, <1>4, <2>3, NextStage
    <3>2. call'.todo # << >>
      BY <3>1, StagesDiffer
    <3>3. QED
      BY <1>1, <1>5, <2>3, <3>1, <3>2, StagesDiffer DEF MemoryInv, StagesMatch
  <2>4. QED
    BY <1>3, <2>1, <2>2, <2>3 DEF Turned
<1>7. QED
  BY <1>1, <1>5, <1>6 DEF MemoryInv, MemoryIsOwned
---------------------------------------------------------------------------
(* The other steps of a call.                                              *)

(* A call begins with one of these lists, and holds nothing.               *)
LEMMA AskKeepsInv ==
  ASSUME MemoryInv, NEW todo \in Asked \cup BeforeMemory, NEW type, Ask(todo, type),
         todo \in BeforeMemory => object = Nothing
  PROVE  MemoryInv'
<1>1. call' = [Idle EXCEPT !.todo = todo, !.at = "begin", !.type = type]
  BY DEF Ask
<1>2. /\ DOMAIN call' = DOMAIN Idle /\ call'.todo = todo /\ call'.at = "begin"
      /\ call'.held = {}
  BY <1>1, CallDomain DEF Idle
<1>3. call.held = {} /\ UNCHANGED <<heap, object>>
  BY DEF Ask, Quiet, MemoryInv, StagesMatch
<1>4. todo # << >> /\ todo \notin WithMemory
  BY StagesDiffer
<1>5. StagesMatch'
  BY <1>2, <1>3, <1>4 DEF StagesMatch
<1>6. QED
  BY <1>2, <1>3, <1>5 DEF MemoryInv, MemoryIsOwned

LEMMA OpenKeepsInv ==
  ASSUME MemoryInv, Open PROVE MemoryInv'
<1>1. <<"init">> \in Asked
  BY DEF Asked, ParserOps
<1>2. QED
  BY <1>1, AskKeepsInv DEF Open

LEMMA AskParserKeepsInv ==
  ASSUME MemoryInv, AskParser PROVE MemoryInv'
<1>1. PICK op \in {"rewind", "next", "read"} : Ask(<<op>>, 0)
  BY DEF AskParser
<1>2. <<op>> \in Asked /\ <<op>> \notin BeforeMemory
  BY DEF Asked, BeforeMemory, ParserOps
<1>3. QED
  BY <1>1, <1>2, AskKeepsInv

LEMMA FindKeepsInv ==
  ASSUME MemoryInv, Find PROVE MemoryInv'
<1>1. PICK type \in TypesAsked : Ask(<<"find">>, type)
  BY DEF Find
<1>2. <<"find">> \in Asked /\ <<"find">> \notin BeforeMemory
  BY DEF Asked, BeforeMemory, ParserOps
<1>3. QED
  BY <1>1, <1>2, AskKeepsInv

LEMMA LoadKeepsInv ==
  ASSUME MemoryInv, NEW kind \in Kinds, Load(kind) PROVE MemoryInv'
<1>1. <<"init", "find", "allocate", "read", kind>> \in BeforeMemory
  BY DEF BeforeMemory
<1>2. QED
  BY <1>1, AskKeepsInv DEF Load

(* The memory a load allocates is free, and nothing was held before.       *)
LEMMA AllocateKeepsInv ==
  ASSUME MemoryInv, Allocate PROVE MemoryInv'
<1>1. /\ call.at = "begin" /\ call.todo # << >> /\ Head(call.todo) = "allocate"
      /\ object' = object /\ DOMAIN call = DOMAIN Idle
  BY DEF Allocate, Doing, MemoryInv
<1>2. PICK kind \in Kinds : call.todo = <<"allocate", "read", kind>>
  <2>1. call.todo \notin Asked
    BY <1>1 DEF Asked, ParserOps
  <2>2. call.todo \notin WithMemory
    BY <1>1, KindsAre DEF WithMemory
  <2>3. call.todo \in BeforeMemory
    BY <1>1, <2>1, <2>2 DEF MemoryInv, StagesMatch
  <2>4. QED
    BY <1>1, <2>3 DEF BeforeMemory
<1>3. call.held = {} /\ object = Nothing /\ heap = {}
  <2>1. call.todo \in BeforeMemory
    BY <1>2 DEF BeforeMemory
  <2>2. QED
    BY <2>1 DEF MemoryInv, StagesMatch, MemoryIsOwned, Nothing
<1>4. Len(call.todo) > 1 /\ Tail(call.todo) = <<"read", kind>>
  BY <1>2
<1>5. <<"read", kind>> \in WithMemory
  BY DEF WithMemory
<1>6. PICK block \in {NoBlock} \cup (Blocks \ heap) :
        IF block = NoBlock
          THEN call' = Returned("ENOMEM") /\ UNCHANGED heap
          ELSE heap' = heap \cup {block} /\ call' = [Succeeded EXCEPT !.held = {block}]
  BY DEF Allocate
<1>7. CASE block = NoBlock
  <2>1. /\ DOMAIN call' = DOMAIN Idle /\ call'.todo = << >> /\ call'.at = "return"
        /\ call'.held = {} /\ heap' = heap
    BY <1>1, <1>3, <1>6, <1>7, CallDomain DEF Returned
  <2>2. StagesMatch'
    BY <1>1, <1>3, <2>1, StagesDiffer DEF StagesMatch
  <2>3. QED
    BY <1>1, <1>3, <2>1, <2>2 DEF MemoryInv, MemoryIsOwned
<1>8. CASE block # NoBlock
  <2>1. /\ DOMAIN call' = DOMAIN Idle /\ call'.todo = <<"read", kind>> /\ call'.at = "begin"
        /\ call'.held = {block} /\ heap' = {block} /\ block \in Blocks
    BY <1>1, <1>3, <1>4, <1>6, <1>8, CallDomain DEF Succeeded
  <2>2. StagesMatch'
    BY <1>1, <1>3, <1>5, <2>1, StagesDiffer DEF StagesMatch
  <2>3. QED
    BY <1>1, <1>3, <2>1, <2>2 DEF MemoryInv, MemoryIsOwned, Nothing
<1>9. QED
  BY <1>7, <1>8

(* The object takes the one block that is held.                            *)
LEMMA TakeOwnershipKeepsInv ==
  ASSUME MemoryInv, TakeOwnership PROVE MemoryInv'
<1>1. PICK kind \in Kinds : Doing(kind)
  BY DEF TakeOwnership
<1>2. /\ call.at = "begin" /\ call.todo # << >> /\ Head(call.todo) = kind
      /\ heap' = heap /\ DOMAIN call = DOMAIN Idle
  BY <1>1 DEF TakeOwnership, Doing, MemoryInv
<1>3. call.todo = <<kind>> /\ call.todo \in WithMemory
  <2>1. call.todo \notin Asked
    BY <1>2, KindsAre DEF Asked, ParserOps
  <2>2. call.todo \notin BeforeMemory
    BY <1>2, KindsAre DEF BeforeMemory
  <2>3. call.todo \in WithMemory
    BY <1>2, <2>1, <2>2 DEF MemoryInv, StagesMatch
  <2>4. QED
    BY <1>2, <2>3, KindsAre DEF WithMemory
<1>4. PICK k : call.held = {k} /\ heap = {k} /\ object = Nothing
  <2>1. call.held # {} /\ object = Nothing /\ \A k, l \in call.held : k = l
    BY <1>3 DEF MemoryInv, StagesMatch
  <2>2. PICK k : call.held = {k}
    BY <2>1
  <2>3. heap = {k}
    BY <2>1, <2>2 DEF MemoryInv, MemoryIsOwned, Nothing
  <2>4. QED
    BY <2>1, <2>2, <2>3
<1>5. (CHOOSE l \in call.held : TRUE) = k
  BY <1>4
<1>6. ~(Len(call.todo) > 1)
  BY <1>3
<1>7. CASE Doing("trajectory") /\ call.body = << >>
  <2>1. call' = Returned("EINVAL") /\ object' = object
    BY <1>7 DEF TakeOwnership
  <2>2. /\ DOMAIN call' = DOMAIN Idle /\ call'.todo = << >> /\ call'.at = "return"
        /\ call'.held = call.held
    BY <1>2, <2>1, CallDomain DEF Returned
  <2>3. StagesMatch'
    BY <1>4, <2>1, <2>2, StagesDiffer DEF StagesMatch
  <2>4. QED
    BY <1>2, <1>4, <2>1, <2>2, <2>3 DEF MemoryInv, MemoryIsOwned
<1>8. CASE ~(Doing("trajectory") /\ call.body = << >>)
  <2>1. object' = [kind |-> kind, stor |-> k, owner |-> TRUE, bytes |-> call.body]
    BY <1>2, <1>5, <1>8 DEF TakeOwnership
  <2>2. call' = [Returned("SUCCESS") EXCEPT !.held = {}]
    BY <1>6, <1>8 DEF TakeOwnership, Succeeded
  <2>3. /\ DOMAIN call' = DOMAIN Idle /\ call'.todo = << >> /\ call'.at = "return"
        /\ call'.held = {}
    BY <1>2, <2>2, CallDomain DEF Returned
  <2>4. StagesMatch'
    BY <2>3, StagesDiffer DEF StagesMatch
  <2>5. object'.owner = TRUE /\ object'.stor = k /\ DOMAIN object' = DOMAIN Nothing
    BY <2>1 DEF Nothing
  <2>6. QED
    BY <1>2, <1>4, <2>3, <2>4, <2>5 DEF MemoryInv, MemoryIsOwned
<1>9. QED
  BY <1>7, <1>8

(* What is still held when the call returns is freed.                      *)
LEMMA ReturnKeepsInv ==
  ASSUME MemoryInv, Return PROVE MemoryInv'
<1>1. heap' = heap \ call.held /\ call' = Idle /\ object' = object
  BY DEF Return
<1>2. /\ Idle.todo = << >> /\ Idle.at = "idle" /\ Idle.held = {}
  BY DEF Idle
<1>3. StagesMatch'
  BY <1>1, <1>2, StagesDiffer DEF StagesMatch
<1>4. QED
  BY <1>1, <1>2, <1>3 DEF MemoryInv, MemoryIsOwned
---------------------------------------------------------------------------
(* Steps between calls.                                                    *)

(* Nothing is held, and nothing is to be done.                             *)
LEMMA QuietHoldsNothing ==
  ASSUME MemoryInv, Quiet
  PROVE  call.todo = << >> /\ call.held = {}
  BY DEF MemoryInv, StagesMatch, Quiet

(* The object changes while nothing is held.                               *)
LEMMA ObjectKeepsInv ==
  ASSUME MemoryInv, Quiet, call' = call, DOMAIN object' = DOMAIN Nothing,
         object'.owner \in BOOLEAN, heap' \subseteq Blocks,
         heap' = (IF object'.owner THEN {object'.stor} ELSE {})
  PROVE  MemoryInv'
<1>1. call.todo = << >> /\ call.held = {} /\ call.at = "idle"
  BY QuietHoldsNothing DEF Quiet
<1>2. StagesMatch'
  BY <1>1, StagesDiffer DEF StagesMatch
<1>3. QED
  BY <1>1, <1>2 DEF MemoryInv, MemoryIsOwned

LEMMA UnloadedKeepsInv ==
  ASSUME MemoryInv, UNCHANGED <<call, heap, object>>
  PROVE  MemoryInv'
  BY DEF MemoryInv, MemoryIsOwned, StagesMatch

LEMMA InitFromBufferKeepsInv ==
  ASSUME MemoryInv, NEW kind \in Kinds, InitFromBuffer(kind) PROVE MemoryInv'
<1>1. /\ object' = [kind |-> kind, stor |-> NoBlock, owner |-> FALSE, bytes |-> lent]
      /\ Quiet /\ object = Nothing /\ UNCHANGED <<call, heap>>
  BY DEF InitFromBuffer, Makes
<1>2. DOMAIN object' = DOMAIN Nothing /\ object'.owner = FALSE
  BY <1>1 DEF Nothing
<1>3. heap = {} /\ heap \subseteq Blocks
  BY <1>1, QuietHoldsNothing DEF MemoryInv, MemoryIsOwned, Nothing
<1>4. QED
  BY <1>1, <1>2, <1>3, ObjectKeepsInv

LEMMA InitEmptyKeepsInv ==
  ASSUME MemoryInv, NEW kind \in Kinds, InitEmpty(kind) PROVE MemoryInv'
<1>1. /\ Quiet /\ object = Nothing /\ call' = call
      /\ \/ /\ object' = [kind |-> kind, stor |-> NoBlock, owner |-> FALSE, bytes |-> << >>]
            /\ heap' = heap
         \/ \E block \in Blocks \ heap :
              /\ object' = [kind |-> kind, stor |-> block, owner |-> TRUE, bytes |-> << >>]
              /\ heap' = heap \cup {block}
  BY DEF InitEmpty, Makes
<1>2. heap = {}
  BY <1>1, QuietHoldsNothing DEF MemoryInv, MemoryIsOwned, Nothing
<1>3. CASE /\ object' = [kind |-> kind, stor |-> NoBlock, owner |-> FALSE, bytes |-> << >>]
           /\ heap' = heap
  <2>1. DOMAIN object' = DOMAIN Nothing /\ object'.owner = FALSE
    BY <1>3 DEF Nothing
  <2>2. QED
    BY <1>1, <1>2, <1>3, <2>1, ObjectKeepsInv
<1>4. ASSUME NEW block \in Blocks \ heap,
             object' = [kind |-> kind, stor |-> block, owner |-> TRUE, bytes |-> << >>],
             heap' = heap \cup {block}
      PROVE  MemoryInv'
  <2>1. DOMAIN object' = DOMAIN Nothing /\ object'.owner = TRUE /\ object'.stor = block
    BY <1>4 DEF Nothing
  <2>2. heap' \subseteq Blocks /\ heap' = {object'.stor}
    BY <1>2, <1>4, <2>1
  <2>3. QED
    BY <1>1, <2>1, <2>2, ObjectKeepsInv
<1>5. QED
  BY <1>1, <1>3, <1>4

(* Clearing a trajectory keeps its storage.                                *)
LEMMA ClearTrajectoryKeepsInv ==
  ASSUME MemoryInv, ClearTrajectory PROVE MemoryInv'
<1> DEFINE bytes == IF object.owner THEN << >> ELSE Wiped
<1>1. Quiet /\ object' = [object EXCEPT !.bytes = bytes] /\ UNCHANGED <<call, heap>>
  BY DEF ClearTrajectory
<1> HIDE DEF bytes
<1>2. DOMAIN object = DOMAIN Nothing /\ object.owner \in BOOLEAN
  BY DEF MemoryInv
<1>3. DOMAIN Nothing = {"kind", "stor", "owner", "bytes"}
  BY DEF Nothing
<1>4. DOMAIN object' = DOMAIN Nothing /\ object'.owner = object.owner /\ object'.stor = object.stor
  BY <1>1, <1>2, <1>3
<1>5. heap = (IF object.owner THEN {object.stor} ELSE {}) /\ heap \subseteq Blocks
  BY <1>1, QuietHoldsNothing DEF MemoryInv, MemoryIsOwned
<1>6. QED
  BY <1>1, <1>2, <1>4, <1>5, ObjectKeepsInv

LEMMA DestroyKeepsInv ==
  ASSUME MemoryInv, Destroy PROVE MemoryInv'
<1>1. Quiet /\ heap' = Freed(heap, object) /\ object' = Nothing /\ call' = call
  BY DEF Destroy
<1>2. heap = (IF object.owner THEN {object.stor} ELSE {})
  BY <1>1, QuietHoldsNothing DEF MemoryInv, MemoryIsOwned
<1>3. heap' = {}
  BY <1>1, <1>2 DEF Freed
<1>4. Nothing.owner = FALSE
  BY DEF Nothing
<1>5. QED
  BY <1>1, <1>3, <1>4, ObjectKeepsInv

LEMMA NextKeepsInv ==
  ASSUME MemoryInv, [Next]_loadVars
  PROVE  MemoryInv'
<1>1. CASE UNCHANGED loadVars
  BY <1>1, UnloadedKeepsInv DEF loadVars, fileVars
<1>2. CASE Open \/ AskParser \/ Find \/ (\E kind \in Kinds : Load(kind))
  BY <1>2, OpenKeepsInv, AskParserKeepsInv, FindKeepsInv, LoadKeepsInv
<1>3. CASE Close \/ LSeek
  BY <1>3, UnloadedKeepsInv DEF Close, LSeek
<1>4. CASE \/ \E kind \in Kinds : InitFromBuffer(kind)
           \/ \E kind \in Kinds : InitEmpty(kind)
  BY <1>4, InitFromBufferKeepsInv, InitEmptyKeepsInv
<1>5. CASE ClearTrajectory \/ Destroy
  BY <1>5, ClearTrajectoryKeepsInv, DestroyKeepsInv
<1>6. CASE Turn
  BY <1>6, ParseKeepsInv, AllocateKeepsInv, TakeOwnershipKeepsInv, ReturnKeepsInv DEF Turn
<1>7. QED
  BY <1>1, <1>2, <1>3, <1>4, <1>5, <1>6 DEF Next

LEMMA InitInv == Init => MemoryInv
<1> SUFFICES ASSUME Init PROVE MemoryInv
  OBVIOUS
<1>1. call = Idle /\ object = Nothing /\ heap = {}
  BY DEF Init
<1>2. Idle.todo = << >> /\ Idle.at = "idle" /\ Idle.held = {} /\ Nothing.owner = FALSE
  BY DEF Idle, Nothing
<1>3. StagesMatch
  BY <1>1, <1>2, StagesDiffer DEF StagesMatch
<1>4. QED
  BY <1>1, <1>2, <1>3 DEF MemoryInv, MemoryIsOwned

---------------------------------------------------------------------------
(* The invariant holds for every set of files, sound or not, every source  *)
(* of bytes, size of chunks and heap.                                      *)
THEOREM LoadingSafe == Spec => []MemoryInv
<1>1. MemoryInv /\ [Next]_loadVars => MemoryInv'
  BY NextKeepsInv
<1>2. QED
  BY InitInv, <1>1, PTL DEF Spec

(* Loading neither leaks memory nor frees it twice, whichever of its steps *)
(* fails: the memory that an object does not take is freed by the function *)
(* that allocated it, and only then.                                       *)
THEOREM MemoryIsAlwaysOwned == Spec => []MemoryIsOwned
<1>1. MemoryInv => MemoryIsOwned
  BY DEF MemoryInv
<1>2. QED
  BY LoadingSafe, <1>1, PTL
---------------------------------------------------------------------------
(* Induction over a set of numbers.                                        *)
LEMMA SetInduction ==
  ASSUME NEW S, 0 \in S, \A n \in Nat : n \in S => n + 1 \in S
  PROVE  \A n \in Nat : n \in S
<1> DEFINE R == OpToRel(<, Nat)
           T == Nat \ S
<1>1. IsWellFoundedOn(R, Nat)
  BY NatLessThanWellFounded, Zenon
<1>2. SUFFICES ASSUME T # {} PROVE FALSE
  OBVIOUS
<1>3. \A x, y \in Nat : <<x, y>> \in R <=> x < y
  BY DEF OpToRel
<1>4. T \subseteq Nat
  OBVIOUS
<1> HIDE DEF R, T
<1>5. PICK x \in T : \A y \in T : <<y, x>> \notin R
  BY <1>1, <1>2, <1>4, WFMin
<1>6. x \in Nat /\ x # 0 /\ x \notin S
  BY <1>4 DEF T
<1>7. x - 1 \in Nat /\ <<x - 1, x>> \in R
  BY <1>3, <1>6
<1>8. x - 1 \in S
  BY <1>5, <1>7 DEF T
<1>9. QED
  BY <1>6, <1>7, <1>8

LEMMA SeqElements ==
  ASSUME NEW S, NEW s \in Seq(S)
  PROVE  Len(s) \in Nat /\ \A i \in 1 .. Len(s) : s[i] \in S
  OBVIOUS

LEMMA Piece ==
  ASSUME NEW S, NEW s \in Seq(S), NEW k \in 0 .. Len(s), NEW m \in k .. Len(s)
  PROVE  /\ SubSeq(s, k + 1, m) \in Seq(S) /\ Len(SubSeq(s, k + 1, m)) = m - k
         /\ \A i \in 1 .. m - k : SubSeq(s, k + 1, m)[i] = s[k + i]
<1>1. k + 1 \in Int /\ m \in Int /\ \A i \in k + 1 .. m : s[i] \in S
  BY SeqElements
<1>2. SubSeq(s, k + 1, m) \in Seq(S)
  BY <1>1, SubSeqProperties
<1>3. Len(SubSeq(s, k + 1, m)) = IF k + 1 <= m THEN m - (k + 1) + 1 ELSE 0
  BY <1>1, SubSeqProperties
<1>4. \A i \in 1 .. m - (k + 1) + 1 : SubSeq(s, k + 1, m)[i] = s[(k + 1) + i - 1]
  BY <1>1, SubSeqProperties
<1>5. m - (k + 1) + 1 = m - k /\ Len(s) \in Nat
  OBVIOUS
<1>6. Len(SubSeq(s, k + 1, m)) = m - k
  BY <1>3, <1>5
<1>7. ASSUME NEW i \in 1 .. m - k PROVE SubSeq(s, k + 1, m)[i] = s[k + i]
  <2>1. (k + 1) + i - 1 = k + i
    OBVIOUS
  <2>2. SubSeq(s, k + 1, m)[i] = s[(k + 1) + i - 1]
    BY <1>4, <1>5
  <2>3. QED
    BY <2>1, <2>2
<1>8. QED
  BY <1>2, <1>6, <1>7

(* The same of bytes.                                                      *)
LEMMA BytePiece ==
  ASSUME NEW s \in Seq(0 .. 255), NEW k \in 0 .. Len(s), NEW m \in k .. Len(s)
  PROVE  /\ SubSeq(s, k + 1, m) \in Seq(0 .. 255) /\ Len(SubSeq(s, k + 1, m)) = m - k
         /\ \A i \in 1 .. m - k : SubSeq(s, k + 1, m)[i] = s[k + i]
<1> DEFINE S == 0 .. 255
<1>1. s \in Seq(S)
  OBVIOUS
<1> HIDE DEF S
<1>2. /\ SubSeq(s, k + 1, m) \in Seq(S) /\ Len(SubSeq(s, k + 1, m)) = m - k
      /\ \A i \in 1 .. m - k : SubSeq(s, k + 1, m)[i] = s[k + i]
  BY <1>1, Piece
<1>3. QED
  BY <1>2 DEF S

(* What the recursive definition of a checksum computes.                   *)
LEMMA CrcSumsAre ==
  ASSUME NEW crc \in Crcs, NEW bytes \in Seq(0 .. 255)
  PROVE  /\ CrcSums(crc, bytes) \in [0 .. Len(bytes) -> Crcs]
         /\ CrcSums(crc, bytes)[0] = crc
         /\ \A i \in 1 .. Len(bytes) :
              CrcSums(crc, bytes)[i] = CrcStep(CrcSums(crc, bytes)[i - 1], bytes[i])
<1> DEFINE n == Len(bytes)
           Fs == [0 .. n -> Crcs]
           UpTo(f, k) == f[0] = crc /\ \A i \in 1 .. n : i <= k => f[i] = CrcStep(f[i - 1], bytes[i])
           S == {k \in Nat : \E f \in Fs : UpTo(f, k)}
<1>0. n \in Nat /\ \A i \in 1 .. n : bytes[i] \in 0 .. 255
  BY SeqElements
<1> HIDE DEF n
<1>1. 0 \in S
  <2>1. [i \in 0 .. n |-> crc] \in Fs /\ UpTo([i \in 0 .. n |-> crc], 0)
    BY <1>0
  <2>2. QED
    BY <2>1
<1>2. ASSUME NEW k \in Nat, k \in S PROVE k + 1 \in S
  <2>1. PICK f \in Fs : UpTo(f, k)
    BY <1>2
  <2>2. CASE k + 1 > n
    <3>1. UpTo(f, k + 1)
      BY <1>0, <2>1, <2>2
    <3> HIDE DEF UpTo, Fs
    <3>2. QED
      BY <3>1
  <2>3. CASE k + 1 <= n
    <3> DEFINE g == [f EXCEPT ![k + 1] = CrcStep(f[k], bytes[k + 1])]
    <3>1. f[k] \in Crcs /\ bytes[k + 1] \in 0 .. 255
      BY <1>0, <2>1, <2>3
    <3>2. CrcStep(f[k], bytes[k + 1]) \in Crcs
      BY <3>1, BlockFileAssumption
    <3>3. g \in Fs
      BY <3>2
    <3>4. UpTo(g, k + 1)
      BY <1>0, <2>1, <2>3
    <3> HIDE DEF g, UpTo, Fs
    <3>5. QED
      BY <3>3, <3>4
  <2>4. QED
    BY <1>0, <2>2, <2>3
<1> HIDE DEF S
<1>3. n \in S
  BY <1>0, <1>1, <1>2, SetInduction
<1>4. PICK f \in Fs : UpTo(f, n)
  BY <1>3 DEF S
<1>5. f = [i \in 0 .. n |-> IF i = 0 THEN crc ELSE CrcStep(f[i - 1], bytes[i])]
  BY <1>0, <1>4
<1>6. CrcSums(crc, bytes)
        = [i \in 0 .. n |-> IF i = 0 THEN crc ELSE CrcStep(CrcSums(crc, bytes)[i - 1], bytes[i])]
  BY <1>5 DEF CrcSums, n
<1> HIDE DEF Fs, UpTo
<1> DEFINE s == CrcSums(crc, bytes)
<1>7. s = [i \in 0 .. n |-> IF i = 0 THEN crc ELSE CrcStep(s[i - 1], bytes[i])]
  BY <1>6
<1> HIDE DEF s
<1>8. s[0] = crc /\ \A i \in 1 .. n : s[i] = CrcStep(s[i - 1], bytes[i])
  BY <1>0, <1>7
<1>9. s \in [0 .. n -> Crcs]
  <2> DEFINE P == {i \in Nat : i <= n => s[i] \in Crcs}
  <2>1. 0 \in P
    BY <1>8
  <2>2. ASSUME NEW i \in Nat, i \in P PROVE i + 1 \in P
    <3>1. CASE i + 1 <= n
      <4>1. i + 1 \in 1 .. n /\ (i + 1) - 1 = i /\ s[i] \in Crcs
        BY <1>0, <2>2, <3>1
      <4>2. s[i + 1] = CrcStep(s[i], bytes[i + 1]) /\ bytes[i + 1] \in 0 .. 255
        BY <1>0, <1>8, <4>1
      <4>3. s[i + 1] \in Crcs
        BY <4>1, <4>2, BlockFileAssumption
      <4>4. QED
        BY <4>3
    <3>2. QED
      BY <3>1, <1>0
  <2> HIDE DEF P
  <2>3. \A i \in Nat : i \in P
    BY <2>1, <2>2, SetInduction
  <2>4. \A i \in 0 .. n : s[i] \in Crcs
    BY <1>0, <2>3 DEF P
  <2>5. QED
    BY <1>7, <2>4
<1>10. QED
  BY <1>8, <1>9 DEF s, n

LEMMA CrcUpdateType ==
  ASSUME NEW crc \in Crcs, NEW bytes \in Seq(0 .. 255)
  PROVE  CrcUpdate(crc, bytes) \in Crcs
  BY CrcSumsAre DEF CrcUpdate

(* The checksum may be computed in parts.                                  *)
LEMMA CrcContinues ==
  ASSUME NEW crc \in Crcs, NEW bytes \in Seq(0 .. 255),
         NEW k \in 0 .. Len(bytes), NEW m \in k .. Len(bytes)
  PROVE  CrcUpdate(CrcUpdate(crc, SubSeq(bytes, 1, k)), SubSeq(bytes, k + 1, m))
           = CrcUpdate(crc, SubSeq(bytes, 1, m))
<1> DEFINE a == SubSeq(bytes, 1, k)
           b == SubSeq(bytes, k + 1, m)
           c == SubSeq(bytes, 1, m)
<1>1. /\ a \in Seq(0 .. 255) /\ Len(a) = k /\ \A i \in 1 .. k : a[i] = bytes[i]
      /\ b \in Seq(0 .. 255) /\ Len(b) = m - k /\ \A i \in 1 .. m - k : b[i] = bytes[k + i]
      /\ c \in Seq(0 .. 255) /\ Len(c) = m /\ \A i \in 1 .. m : c[i] = bytes[i]
  <2>1. a \in Seq(0 .. 255) /\ Len(a) = k /\ \A i \in 1 .. k : a[i] = bytes[i]
    <3>1. 0 \in 0 .. Len(bytes) /\ k \in 0 .. Len(bytes) /\ k - 0 = k /\ \A i \in 1 .. k : 0 + i = i
      OBVIOUS
    <3>2. a = SubSeq(bytes, 0 + 1, k)
      OBVIOUS
    <3> HIDE DEF a
    <3>3. QED
      BY <3>1, <3>2, Piece
  <2>2. b \in Seq(0 .. 255) /\ Len(b) = m - k /\ \A i \in 1 .. m - k : b[i] = bytes[k + i]
    BY Piece
  <2>3. c \in Seq(0 .. 255) /\ Len(c) = m /\ \A i \in 1 .. m : c[i] = bytes[i]
    <3>1. 0 \in 0 .. Len(bytes) /\ m \in 0 .. Len(bytes) /\ m - 0 = m /\ \A i \in 1 .. m : 0 + i = i
      OBVIOUS
    <3>2. c = SubSeq(bytes, 0 + 1, m)
      OBVIOUS
    <3> HIDE DEF c
    <3>3. QED
      BY <3>1, <3>2, Piece
  <2>4. QED
    BY <2>1, <2>2, <2>3
<1> HIDE DEF a, b, c
<1> DEFINE sa == CrcSums(crc, a)
           sc == CrcSums(crc, c)
<1>2. /\ sa[0] = crc /\ \A i \in 1 .. k : sa[i] = CrcStep(sa[i - 1], a[i])
      /\ sc[0] = crc /\ \A i \in 1 .. m : sc[i] = CrcStep(sc[i - 1], c[i])
      /\ sa[k] \in Crcs
  <2>1. sa \in [0 .. k -> Crcs] /\ sa[0] = crc /\ \A i \in 1 .. k : sa[i] = CrcStep(sa[i - 1], a[i])
    BY <1>1, CrcSumsAre
  <2>2. sc[0] = crc /\ \A i \in 1 .. m : sc[i] = CrcStep(sc[i - 1], c[i])
    BY <1>1, CrcSumsAre
  <2> HIDE DEF sa, sc
  <2>3. QED
    BY <2>1, <2>2
<1> DEFINE sb == CrcSums(sa[k], b)
<1>3. sb[0] = sa[k] /\ \A i \in 1 .. m - k : sb[i] = CrcStep(sb[i - 1], b[i])
  BY <1>1, <1>2, CrcSumsAre
<1> HIDE DEF sa, sb, sc
<1>4. \A i \in Nat : i \in {j \in Nat : j <= k => sa[j] = sc[j]}
  <2> DEFINE P == {j \in Nat : j <= k => sa[j] = sc[j]}
  <2>1. 0 \in P
    BY <1>2
  <2>2. ASSUME NEW j \in Nat, j \in P PROVE j + 1 \in P
    <3>1. CASE j + 1 <= k
      <4>1. j + 1 \in 1 .. k /\ j + 1 \in 1 .. m /\ (j + 1) - 1 = j /\ sa[j] = sc[j]
        BY <2>2, <3>1
      <4>2. /\ sa[j + 1] = CrcStep(sa[j], a[j + 1]) /\ sc[j + 1] = CrcStep(sc[j], c[j + 1])
            /\ a[j + 1] = c[j + 1]
        BY <1>1, <1>2, <4>1
      <4>3. QED
        BY <4>1, <4>2
    <3>2. QED
      BY <3>1
  <2> HIDE DEF P
  <2>3. \A i \in Nat : i \in P
    BY <2>1, <2>2, SetInduction
  <2>4. QED
    BY <2>3 DEF P
<1>5. \A i \in Nat : i \in {j \in Nat : j <= m - k => sb[j] = sc[k + j]}
  <2> DEFINE P == {j \in Nat : j <= m - k => sb[j] = sc[k + j]}
  <2>1. 0 \in P
    BY <1>3, <1>4
  <2>2. ASSUME NEW j \in Nat, j \in P PROVE j + 1 \in P
    <3>1. CASE j + 1 <= m - k
      <4>1. j + 1 \in 1 .. m - k /\ k + (j + 1) \in 1 .. m /\ (k + (j + 1)) - 1 = k + j
            /\ (j + 1) - 1 = j /\ sb[j] = sc[k + j]
        BY <2>2, <3>1
      <4>2. sb[j + 1] = CrcStep(sb[j], b[j + 1]) /\ b[j + 1] = bytes[k + (j + 1)]
        BY <1>1, <1>3, <4>1
      <4>3. sc[k + (j + 1)] = CrcStep(sc[k + j], c[k + (j + 1)]) /\ c[k + (j + 1)] = bytes[k + (j + 1)]
        BY <1>1, <1>2, <4>1
      <4>4. QED
        BY <4>1, <4>2, <4>3
    <3>2. QED
      BY <3>1
  <2> HIDE DEF P
  <2>3. \A i \in Nat : i \in P
    BY <2>1, <2>2, SetInduction
  <2>4. QED
    BY <2>3 DEF P
<1>6. m - k \in Nat /\ k + (m - k) = m /\ sb[m - k] = sc[m]
  BY <1>5
<1>7. QED
  BY <1>1, <1>6 DEF CrcUpdate, sa, sb, sc, a, b, c
---------------------------------------------------------------------------
(* The blocks of a file.                                                   *)

LEMMA WordType ==
  ASSUME NEW s \in Seq(0 .. 255), Len(s) >= 2
  PROVE  Word(s) \in Nat
<1>1. \A i \in 1 .. Len(s) : s[i] \in 0 .. 255
  BY SeqElements
<1>2. Len(s) \in Nat
  BY SeqElements
<1> DEFINE x == s[1]
           y == s[2]
<1>3. x \in 0 .. 255 /\ y \in 0 .. 255
  BY <1>1, <1>2
<1>4. Word(s) = x + 256 * y
  BY DEF Word
<1> HIDE DEF x, y
<1>5. QED
  BY <1>3, <1>4

LEMMA BlockAtType ==
  ASSUME NEW bytes \in Seq(0 .. 255), NEW at \in Nat, IsBlockAt(bytes, at)
  PROVE  /\ BlockAt(bytes, at) \in BlockRecords
         /\ End(BlockAt(bytes, at)) \in Nat /\ End(BlockAt(bytes, at)) >= at + 3
         /\ BlockAt(bytes, at).start = at + 3
<1>1. at + 1 \in 0 .. Len(bytes) /\ at + 3 \in at + 1 .. Len(bytes) /\ at + 1 \in 1 .. Len(bytes)
  BY SeqElements DEF IsBlockAt
<1> DEFINE w == SubSeq(bytes, at + 2, at + 3)
<1>2. w \in Seq(0 .. 255) /\ Len(w) = 2
  <2>1. w = SubSeq(bytes, (at + 1) + 1, at + 3) /\ (at + 3) - (at + 1) = 2
    OBVIOUS
  <2> HIDE DEF w
  <2>2. QED
    BY <1>1, <2>1, Piece
<1> HIDE DEF w
<1>3. Word(w) \in Nat /\ bytes[at + 1] \in 0 .. 255
  <2>1. \A i \in 1 .. Len(bytes) : bytes[i] \in 0 .. 255
    BY SeqElements
  <2>2. Len(w) >= 2
    BY <1>2
  <2>3. Word(w) \in Nat
    BY <1>2, <2>2, WordType
  <2>4. QED
    BY <1>1, <2>1, <2>3
<1>4. BlockAt(bytes, at) = [type |-> bytes[at + 1], length |-> Word(w), start |-> at + 3]
  BY DEF BlockAt, w
<1>5. QED
  BY <1>3, <1>4 DEF BlockRecords, End

LEMMA BlocksFromAre ==
  ASSUME NEW bytes \in Seq(0 .. 255), NEW at \in 0 .. Len(bytes)
  PROVE  BlocksFrom(bytes)[at] =
           IF ~IsBlockAt(bytes, at) THEN {}
           ELSE {BlockAt(bytes, at)}
                  \cup (IF End(BlockAt(bytes, at)) <= Len(bytes)
                          THEN BlocksFrom(bytes)[End(BlockAt(bytes, at))] ELSE {})
<1> DEFINE n == Len(bytes)
           b(i) == BlockAt(bytes, i)
           Step(f, i) == IF ~IsBlockAt(bytes, i) THEN {}
                         ELSE {b(i)} \cup (IF End(b(i)) <= n THEN f[End(b(i))] ELSE {})
           Fs == [0 .. n -> SUBSET BlockRecords]
           Down(f, k) == \A i \in 0 .. n : i + k > n => f[i] = Step(f, i)
           S == {k \in Nat : \E f \in Fs : Down(f, k)}
<1>0. n \in Nat
  BY SeqElements
<1>1. ASSUME NEW i \in 0 .. n, IsBlockAt(bytes, i)
      PROVE  b(i) \in BlockRecords /\ End(b(i)) \in Nat /\ End(b(i)) > i
  BY <1>0, <1>1, BlockAtType
<1> HIDE DEF n, b
<1>2. 0 \in S
  <2>1. [i \in 0 .. n |-> {}] \in Fs /\ Down([i \in 0 .. n |-> {}], 0)
    BY <1>0
  <2> HIDE DEF Fs, Down
  <2>2. QED
    BY <2>1
<1>3. ASSUME NEW k \in Nat, k \in S PROVE k + 1 \in S
  <2>1. PICK f \in Fs : Down(f, k)
    BY <1>3
  <2>2. CASE k > n
    <3>1. Down(f, k + 1)
      <4>1. \A i \in 0 .. n : i + k > n
        BY <1>0, <2>2
      <4> HIDE DEF Step
      <4>2. QED
        BY <2>1, <4>1
    <3> HIDE DEF Fs, Down
    <3>2. QED
      BY <3>1
  <2>3. CASE k <= n
    <3> DEFINE p == n - k
               g == [f EXCEPT ![p] = Step(f, p)]
    <3>1. p \in 0 .. n
      BY <1>0, <2>3
    <3>2. Step(f, p) \in SUBSET BlockRecords
      BY <1>0, <1>1, <3>1
    <3>3. g \in Fs /\ g[p] = Step(f, p) /\ \A i \in 0 .. n : i # p => g[i] = f[i]
      <4> HIDE DEF Step, p
      <4>1. QED
        BY <3>1, <3>2
    <3>4. ASSUME NEW i \in 0 .. n, i >= p PROVE Step(g, i) = Step(f, i)
      <4>1. CASE IsBlockAt(bytes, i) /\ End(b(i)) <= n
        <5>1. End(b(i)) \in 0 .. n /\ End(b(i)) # p
          BY <1>0, <1>1, <3>1, <3>4, <4>1
        <5> HIDE DEF g, p
        <5>2. g[End(b(i))] = f[End(b(i))]
          BY <3>3, <5>1
        <5>3. QED
          BY <4>1, <5>2
      <4>2. CASE ~(IsBlockAt(bytes, i) /\ End(b(i)) <= n)
        BY <4>2
      <4>3. QED
        BY <4>1, <4>2
    <3>5. Down(g, k + 1)
      <4>1. SUFFICES ASSUME NEW i \in 0 .. n, i + (k + 1) > n PROVE g[i] = Step(g, i)
        OBVIOUS
      <4>2. i >= p /\ (i = p \/ i + k > n)
        BY <1>0, <2>3, <4>1
      <4>3. Step(g, i) = Step(f, i)
        BY <3>4, <4>2
      <4>4. CASE i = p
        <5> HIDE DEF g, p, Step
        <5>1. QED
          BY <3>3, <4>3, <4>4
      <4>5. CASE i # p
        <5>1. f[i] = Step(f, i)
          BY <2>1, <4>2, <4>5
        <5> HIDE DEF g, p, Step
        <5>2. QED
          BY <3>3, <4>3, <4>5, <5>1
      <4>6. QED
        BY <4>4, <4>5
    <3> HIDE DEF g, Fs, Down
    <3>6. QED
      BY <3>3, <3>5
  <2> HIDE DEF S
  <2>4. QED
    BY <1>0, <2>2, <2>3
<1> HIDE DEF S
<1>4. n + 1 \in S
  BY <1>0, <1>2, <1>3, SetInduction
<1>5. PICK f \in Fs : Down(f, n + 1)
  BY <1>4 DEF S
<1>6. f = [i \in 0 .. n |-> Step(f, i)]
  <2>1. \A i \in 0 .. n : i + (n + 1) > n
    BY <1>0
  <2> HIDE DEF Step
  <2>2. QED
    BY <1>5, <2>1
<1>7. BlocksFrom(bytes) = [i \in 0 .. n |-> Step(BlocksFrom(bytes), i)]
  BY <1>6 DEF BlocksFrom, n, b
<1> HIDE DEF Step
<1>8. BlocksFrom(bytes)[at] = Step(BlocksFrom(bytes), at)
  BY <1>7 DEF n
<1>9. QED
  BY <1>8 DEF Step, n, b

(* Without a block here there is none after it; otherwise come the block   *)
(* and those after its end.                                                *)
LEMMA RestUnfolds ==
  ASSUME NEW bytes \in Seq(0 .. 255), NEW at \in Nat
  PROVE  Rest(bytes, at) =
           IF IsBlockAt(bytes, at)
             THEN {BlockAt(bytes, at)} \cup Rest(bytes, End(BlockAt(bytes, at))) ELSE {}
<1>0. Len(bytes) \in Nat
  BY SeqElements
<1>1. CASE at <= Len(bytes)
  <2>1. at \in 0 .. Len(bytes)
    BY <1>0, <1>1
  <2>2. QED
    BY <1>1, <2>1, BlocksFromAre DEF Rest
<1>2. CASE ~(at <= Len(bytes))
  BY <1>0, <1>2 DEF Rest, IsBlockAt
<1>3. QED
  BY <1>1, <1>2

(* The blocks from an offset on begin after it.                            *)
LEMMA RestIsLater ==
  ASSUME NEW bytes \in Seq(0 .. 255)
  PROVE  \A at \in Nat : \A b \in Rest(bytes, at) : b \in BlockRecords /\ b.start >= at + 3
<1> DEFINE n == Len(bytes)
           S == {k \in Nat : \A at \in Nat : at + k > n => \A b \in Rest(bytes, at) : b \in BlockRecords /\ b.start >= at + 3}
<1>0. n \in Nat
  BY SeqElements
<1>1. 0 \in S
  BY <1>0 DEF Rest
<1>2. ASSUME NEW k \in Nat, k \in S PROVE k + 1 \in S
  <2>1. SUFFICES ASSUME NEW at \in Nat, at + (k + 1) > n, NEW b \in Rest(bytes, at)
                 PROVE  b \in BlockRecords /\ b.start >= at + 3
    <3> DEFINE Later(i) == \A b \in Rest(bytes, i) : b \in BlockRecords /\ b.start >= i + 3
    <3>1. S = {i \in Nat : \A at \in Nat : at + i > n => Later(at)}
      OBVIOUS
    <3>2. \A at \in Nat : at + (k + 1) > n => Later(at)
      BY <2>1
    <3> HIDE DEF Later, S
    <3>3. QED
      BY <3>1, <3>2
  <2> DEFINE here == BlockAt(bytes, at)
  <2>2. IsBlockAt(bytes, at) /\ (b = here \/ b \in Rest(bytes, End(here)))
    BY <2>1, RestUnfolds
  <2>3. here \in BlockRecords /\ here.start = at + 3 /\ End(here) \in Nat /\ End(here) >= at + 3
    BY <2>2, BlockAtType
  <2> HIDE DEF here
  <2>4. CASE b \in Rest(bytes, End(here))
    <3>1. End(here) + k > n
      BY <1>0, <2>1, <2>3
    <3>2. b \in BlockRecords /\ b.start >= End(here) + 3
      BY <1>2, <2>3, <2>4, <3>1
    <3>3. b.start \in Nat
      BY <3>2 DEF BlockRecords
    <3>4. QED
      BY <2>3, <3>2, <3>3
  <2>5. QED
    BY <2>2, <2>3, <2>4
<1> HIDE DEF S
<1>3. n + 1 \in S
  BY <1>0, <1>1, <1>2, SetInduction
<1>4. \A at \in Nat : at + (n + 1) > n
  BY <1>0
<1>5. \A at \in Nat : at + (n + 1) > n => \A b \in Rest(bytes, at) : b \in BlockRecords /\ b.start >= at + 3
  BY <1>3 DEF S
<1>6. QED
  BY <1>4, <1>5
---------------------------------------------------------------------------
(* What the parser keeps when one of its fields changes.                   *)
LEMMA ParserUpdates ==
  ASSUME NEW p \in Parsers
  PROVE  /\ \A x \in BOOLEAN : [p EXCEPT !.open = x] \in Parsers /\ [p EXCEPT !.placed = x] \in Parsers
         /\ \A x \in 0 .. 255 : [p EXCEPT !.version = x] \in Parsers /\ [p EXCEPT !.features = x] \in Parsers
         /\ \A x \in Nat : /\ [p EXCEPT !.expected = x] \in Parsers
                           /\ [p EXCEPT !.start_of_first_block = x] \in Parsers
                           /\ [p EXCEPT !.from = x] \in Parsers
         /\ \A x \in Crcs : [p EXCEPT !.observed = x] \in Parsers
         /\ \A x \in BlockRecords : [p EXCEPT !.block = x] \in Parsers
<1>1. \A x \in BOOLEAN : [p EXCEPT !.open = x] \in Parsers /\ [p EXCEPT !.placed = x] \in Parsers
  BY DEF Parsers
<1>2. \A x \in 0 .. 255 : [p EXCEPT !.version = x] \in Parsers /\ [p EXCEPT !.features = x] \in Parsers
  BY DEF Parsers
<1>3. \A x \in Nat : /\ [p EXCEPT !.expected = x] \in Parsers
                    /\ [p EXCEPT !.start_of_first_block = x] \in Parsers
                    /\ [p EXCEPT !.from = x] \in Parsers
  BY DEF Parsers
<1>4. \A x \in Crcs : [p EXCEPT !.observed = x] \in Parsers
  BY DEF Parsers
<1>5. \A x \in BlockRecords : [p EXCEPT !.block = x] \in Parsers
  BY DEF Parsers
<1>6. QED
  BY <1>1, <1>2, <1>3, <1>4, <1>5

LEMMA ClosedIsParser == Closed \in Parsers
  BY BlockFileAssumption DEF Closed, NoBlockHere, Parsers, BlockRecords

---------------------------------------------------------------------------
(* What is read, and how a call goes on after it.                          *)

LEMMA AvailableIs ==
  ASSUME ParserTypes, NEW n \in Nat
  PROVE  \E m \in 0 .. n :
           /\ Available(n) = SubSeq(file.bytes, offset + 1, offset + m)
           /\ Available(n) \in Seq(0 .. 255) /\ Len(Available(n)) = m
           /\ m = 0 \/ offset + m <= Len(file.bytes)
           /\ m = n \/ offset + m >= Len(file.bytes)
<1>1. file.bytes \in Seq(0 .. 255) /\ Len(file.bytes) \in Nat /\ offset \in Nat
  BY SeqElements DEF ParserTypes, Parsers
<1>2. CASE offset >= Len(file.bytes)
  <2>1. ~(offset + n < Len(file.bytes)) /\ 0 \in 0 .. n /\ offset + 0 >= Len(file.bytes)
    BY <1>1, <1>2
  <2>2. Available(n) = SubSeq(file.bytes, offset + 1, Len(file.bytes))
    BY <2>1 DEF Available
  <2>3. SubSeq(file.bytes, offset + 1, Len(file.bytes)) = << >>
    BY <1>1, <1>2, SubSeqEmpty
  <2>4. SubSeq(file.bytes, offset + 1, offset + 0) = << >>
    BY <1>1, SubSeqEmpty
  <2>5. << >> \in Seq(0 .. 255) /\ Len(<< >>) = 0
    OBVIOUS
  <2>6. Available(n) = << >>
    BY <2>2, <2>3
  <2>7. QED
    BY <2>1, <2>4, <2>5, <2>6
<1>3. CASE offset < Len(file.bytes)
  <2> DEFINE m == IF offset + n < Len(file.bytes) THEN n ELSE Len(file.bytes) - offset
  <2>1. /\ m \in 0 .. n /\ offset + m \in offset .. Len(file.bytes)
        /\ m = n \/ offset + m >= Len(file.bytes)
        /\ offset + m <= Len(file.bytes)
        /\ offset + m = IF offset + n < Len(file.bytes) THEN offset + n ELSE Len(file.bytes)
        /\ (offset + m) - offset = m
    BY <1>1, <1>3
  <2> HIDE DEF m
  <2>2. Available(n) = SubSeq(file.bytes, offset + 1, offset + m)
    BY <2>1 DEF Available
  <2>3. offset \in 0 .. Len(file.bytes)
    BY <1>1, <1>3
  <2>4. SubSeq(file.bytes, offset + 1, offset + m) \in Seq(0 .. 255)
        /\ Len(SubSeq(file.bytes, offset + 1, offset + m)) = m
    BY <1>1, <2>1, <2>3, Piece
  <2>5. QED
    BY <2>1, <2>2, <2>4
<1>4. QED
  BY <1>1, <1>2, <1>3

(* Bytes of the file from the offset on are read, all that were asked for  *)
(* or the rest of the file, if there is no fault.                          *)
IsRead(r, n) ==
  /\ r.fault \in BOOLEAN /\ r.error \in BOOLEAN
  /\ r.error => r.fault /\ r.bytes = << >>
  /\ r.bytes \in Seq(0 .. 255) /\ Len(r.bytes) \in 0 .. n
  /\ r.bytes = SubSeq(file.bytes, offset + 1, offset + Len(r.bytes))
  /\ Len(r.bytes) = 0 \/ offset + Len(r.bytes) <= Len(file.bytes)
  /\ ~r.fault => Len(r.bytes) = n \/ offset + Len(r.bytes) >= Len(file.bytes)
  /\ ~r.error /\ n = 1 => ~r.fault

LEMMA OutcomeIsRead ==
  ASSUME ParserTypes, NEW n \in Nat, NEW r \in ReadOutcomes(n)
  PROVE  IsRead(r, n)
<1>1. PICK m \in 0 .. n :
        /\ Available(n) = SubSeq(file.bytes, offset + 1, offset + m)
        /\ Available(n) \in Seq(0 .. 255) /\ Len(Available(n)) = m
        /\ m = 0 \/ offset + m <= Len(file.bytes)
        /\ m = n \/ offset + m >= Len(file.bytes)
  BY AvailableIs
<1>2. file.bytes \in Seq(0 .. 255) /\ Len(file.bytes) \in Nat /\ offset \in Nat
  BY SeqElements DEF ParserTypes, Parsers
<1>3. CASE r = [error |-> FALSE, bytes |-> Available(n), fault |-> FALSE]
  <2>1. r.error = FALSE /\ r.fault = FALSE /\ r.bytes = Available(n)
    BY <1>3
  <2>2. QED
    BY <1>1, <2>1 DEF IsRead
<1>4. CASE r = [error |-> TRUE, bytes |-> << >>, fault |-> TRUE]
  <2>1. r.error = TRUE /\ r.fault = TRUE /\ r.bytes = << >>
    BY <1>4
  <2>2. SubSeq(file.bytes, offset + 1, offset + 0) = << >>
    BY <1>2, SubSeqEmpty
  <2>3. << >> \in Seq(0 .. 255) /\ Len(<< >>) = 0 /\ 0 \in 0 .. n
    OBVIOUS
  <2>4. QED
    BY <2>1, <2>2, <2>3 DEF IsRead
<1>5. ASSUME NEW k \in 1 .. Len(Available(n)) - 1,
             r = [error |-> FALSE, bytes |-> SubSeq(Available(n), 1, k), fault |-> TRUE]
      PROVE  IsRead(r, n)
  <2>1. r.error = FALSE /\ r.fault = TRUE /\ r.bytes = SubSeq(Available(n), 1, k)
    BY <1>5
  <2>2. k \in 0 .. m /\ k \in 0 .. n /\ k < m /\ m # 0 /\ offset \in 0 .. Len(file.bytes)
        /\ offset + m \in offset .. Len(file.bytes) /\ offset + k \in offset .. Len(file.bytes)
        /\ n # 1 /\ offset + k <= Len(file.bytes)
    BY <1>1, <1>2
  <2> DEFINE a == SubSeq(Available(n), 1, k)
             b == SubSeq(file.bytes, offset + 1, offset + k)
  <2>3. a \in Seq(0 .. 255) /\ Len(a) = k /\ \A i \in 1 .. k : a[i] = Available(n)[i]
    <3>1. a = SubSeq(Available(n), 0 + 1, k) /\ k - 0 = k /\ \A i \in 1 .. k : 0 + i = i
      OBVIOUS
    <3>2. 0 \in 0 .. Len(Available(n)) /\ k \in 0 .. Len(Available(n))
      BY <1>1, <2>2
    <3>3. /\ SubSeq(Available(n), 0 + 1, k) \in Seq(0 .. 255) /\ Len(SubSeq(Available(n), 0 + 1, k)) = k - 0
          /\ \A i \in 1 .. k - 0 : SubSeq(Available(n), 0 + 1, k)[i] = Available(n)[0 + i]
      BY <1>1, <3>2, Piece
    <3> HIDE DEF a
    <3>4. QED
      BY <3>1, <3>3
  <2>4. b \in Seq(0 .. 255) /\ Len(b) = k /\ \A i \in 1 .. k : b[i] = file.bytes[offset + i]
    <3> DEFINE e == offset + k
    <3>1. e - offset = k /\ e \in offset .. Len(file.bytes)
      BY <1>2, <2>2
    <3>2. b = SubSeq(file.bytes, offset + 1, e)
      OBVIOUS
    <3> HIDE DEF e
    <3>3. /\ SubSeq(file.bytes, offset + 1, e) \in Seq(0 .. 255)
          /\ Len(SubSeq(file.bytes, offset + 1, e)) = e - offset
          /\ \A i \in 1 .. e - offset : SubSeq(file.bytes, offset + 1, e)[i] = file.bytes[offset + i]
      <4>1. file.bytes \in Seq(0 .. 255) /\ offset \in 0 .. Len(file.bytes)
            /\ e \in offset .. Len(file.bytes)
        BY <1>2, <2>2, <3>1
      <4>2. QED
        BY ONLY <4>1, BytePiece
    <3> HIDE DEF b
    <3>4. QED
      BY <3>1, <3>2, <3>3
  <2>5. \A i \in 1 .. k : Available(n)[i] = file.bytes[offset + i]
    <3>1. (offset + m) - offset = m
      BY <1>2
    <3>2. \A i \in 1 .. m : Available(n)[i] = file.bytes[offset + i]
      BY <1>1, <1>2, <2>2, <3>1, Piece
    <3>3. QED
      BY <2>2, <3>2
  <2>6. a = b
    <3> HIDE DEF a, b
    <3>1. QED
      BY <2>3, <2>4, <2>5
  <2>7. QED
    BY <2>1, <2>2, <2>3, <2>6 DEF IsRead
<1>6. QED
  BY <1>3, <1>4, <1>5 DEF ReadOutcomes, Faults
---------------------------------------------------------------------------
(* How a call goes on: it ends, takes its next step, or its next operation.*)
Kept(fault) ==
  call'.type = call.type /\ call'.body = call.body /\ call'.fault = (call.fault \/ fault)

Ended(result, fault) ==
  call'.todo = << >> /\ call'.at = "return" /\ call'.result = result /\ Kept(fault)

Went(at, fault) == call'.todo = call.todo /\ call'.at = at /\ Kept(fault)

Done(fault) ==
  IF Len(call.todo) > 1
    THEN call'.todo = Tail(call.todo) /\ call'.at = "begin" /\ Kept(fault)
    ELSE Ended("SUCCESS", fault)

LEMMA EndedSo ==
  ASSUME IsCall, NEW result, NEW f, call' = [Returned(result) EXCEPT !.fault = @ \/ f]
  PROVE  Ended(result, f)
<1> DEFINE c == Returned(result)
<1>1. /\ DOMAIN c = DOMAIN Idle /\ c.todo = << >> /\ c.at = "return" /\ c.result = result
      /\ c.type = call.type /\ c.body = call.body /\ c.fault = call.fault
  BY CallDomain DEF IsCall, Returned
<1> HIDE DEF c
<1>2. call' = [c EXCEPT !.fault = c.fault \/ f]
  BY DEF c
<1>3. QED
  BY <1>1, <1>2, CallDomain DEF Ended, Kept

LEMMA WentSo ==
  ASSUME IsCall, NEW at, NEW f, call' = [[call EXCEPT !.at = at] EXCEPT !.fault = @ \/ f]
  PROVE  Went(at, f)
<1> DEFINE c == [call EXCEPT !.at = at]
<1>1. /\ DOMAIN c = DOMAIN Idle /\ c.todo = call.todo /\ c.at = at
      /\ c.type = call.type /\ c.body = call.body /\ c.fault = call.fault
  BY CallDomain DEF IsCall
<1>2. call' = [c EXCEPT !.fault = c.fault \/ f]
  OBVIOUS
<1> HIDE DEF c
<1>3. QED
  BY <1>1, <1>2, CallDomain DEF Went, Kept

LEMMA SucceededIs ==
  ASSUME IsCall
  PROVE  /\ DOMAIN Succeeded = DOMAIN Idle
         /\ Succeeded.type = call.type /\ Succeeded.body = call.body /\ Succeeded.fault = call.fault
         /\ IF Len(call.todo) > 1
              THEN Succeeded.todo = Tail(call.todo) /\ Succeeded.at = "begin"
              ELSE Succeeded.todo = << >> /\ Succeeded.at = "return" /\ Succeeded.result = "SUCCESS"
<1>1. CASE Len(call.todo) > 1
  BY <1>1, CallDomain DEF IsCall, Succeeded
<1>2. CASE ~(Len(call.todo) > 1)
  BY <1>2, CallDomain DEF IsCall, Succeeded, Returned
<1>3. QED
  BY <1>1, <1>2

LEMMA DoneSo ==
  ASSUME IsCall, NEW f, call' = [Succeeded EXCEPT !.fault = @ \/ f]
  PROVE  Done(f)
<1> DEFINE c == Succeeded
<1>1. /\ DOMAIN c = DOMAIN Idle
      /\ c.type = call.type /\ c.body = call.body /\ c.fault = call.fault
      /\ IF Len(call.todo) > 1
           THEN c.todo = Tail(call.todo) /\ c.at = "begin"
           ELSE c.todo = << >> /\ c.at = "return" /\ c.result = "SUCCESS"
  BY SucceededIs
<1>2. call' = [c EXCEPT !.fault = c.fault \/ f]
  OBVIOUS
<1> HIDE DEF c
<1>3. QED
  BY <1>1, <1>2, CallDomain DEF Done, Ended, Kept

(* What is read goes on like this.                                         *)
GoesOnAs(n, fault) == call' = [n.call EXCEPT !.fault = @ \/ fault] /\ parser' = n.parser

LEMMA FailsSo ==
  ASSUME IsCall, NEW result, NEW f, GoesOnAs(Fail(result), f)
  PROVE  Ended(result, f) /\ parser' = parser
<1>1. Fail(result).call = Returned(result) /\ Fail(result).parser = parser
  BY DEF Fail, On
<1>2. QED
  BY <1>1, EndedSo DEF GoesOnAs

LEMMA ContinuesSo ==
  ASSUME IsCall, NEW at, NEW p, NEW f, GoesOnAs(Continue(at, p), f)
  PROVE  Went(at, f) /\ parser' = p
<1>1. Continue(at, p).call = [call EXCEPT !.at = at] /\ Continue(at, p).parser = p
  BY DEF Continue, On
<1> DEFINE n == Continue(at, p)
<1>2. n.call = [call EXCEPT !.at = at] /\ n.parser = p
  BY <1>1
<1>3. call' = [n.call EXCEPT !.fault = @ \/ f] /\ parser' = n.parser
  BY DEF GoesOnAs
<1> HIDE DEF n
<1>4. call' = [[call EXCEPT !.at = at] EXCEPT !.fault = @ \/ f]
  BY <1>2, <1>3
<1>5. parser' = p
  BY <1>2, <1>3
<1>6. Went(at, f)
  BY <1>4, WentSo
<1>7. QED
  BY <1>5, <1>6

LEMMA DoesSo ==
  ASSUME IsCall, NEW result, NEW p, NEW f
  PROVE  /\ GoesOnAs(On(Succeeded, p), f) => Done(f) /\ parser' = p
         /\ GoesOnAs(On(Returned(result), p), f) => Ended(result, f) /\ parser' = p
<1>1. /\ On(Succeeded, p).call = Succeeded /\ On(Succeeded, p).parser = p
      /\ On(Returned(result), p).call = Returned(result) /\ On(Returned(result), p).parser = p
  BY DEF On
<1>2. QED
  BY <1>1, DoneSo, EndedSo DEF GoesOnAs

(* What a seek does.                                                       *)
LEMMA SeeksSo ==
  ASSUME IsCall, call.fault \in BOOLEAN, NEW to, NEW at, SeekAndGo(to, at)
  PROVE  \/ offset' = to /\ Went(at, FALSE)
         \/ offset' = offset /\ Ended("EREAD", FALSE)
<1>1. CASE CanSeek(to)
  <2>1. call' = [call EXCEPT !.at = at] /\ offset' = to
    BY <1>1 DEF SeekAndGo
  <2>2. Went(at, FALSE)
    BY <2>1, CallDomain DEF IsCall, Went, Kept
  <2>3. QED
    BY <2>1, <2>2
<1>2. CASE ~CanSeek(to)
  <2>1. call' = Returned("EREAD") /\ offset' = offset
    BY <1>2 DEF SeekAndGo
  <2>2. Ended("EREAD", FALSE)
    BY <2>1, CallDomain DEF IsCall, Ended, Kept, Returned
  <2>3. QED
    BY <2>1, <2>2
<1>3. QED
  BY <1>1, <1>2
---------------------------------------------------------------------------
(* The steps of the parser.                                                *)

(* n bytes are read at this step of a call, and P says what comes of it.   *)
ReadAt(at, n, r) ==
  /\ call.at = at /\ IsRead(r, n) /\ file' = file
  /\ offset' = offset + Len(r.bytes) /\ offset' \in Nat

LEMMA ReadsSo ==
  ASSUME ParserTypes, NEW at, NEW n \in Nat, NEW r \in ReadOutcomes(n),
         call.at = at, file' = file, offset' = offset + Len(r.bytes)
  PROVE  ReadAt(at, n, r)
<1>1. IsRead(r, n) /\ offset \in Nat
  BY OutcomeIsRead DEF ParserTypes, Parsers
<1>2. QED
  BY <1>1 DEF ReadAt, IsRead

LEMMA ReadMagicSo ==
  ASSUME IsCall, ParserTypes, ReadMagic
  PROVE  \E r : /\ ReadAt("magic", 4, r) /\ parser' = parser
                /\ IF r.bytes # Magic THEN Ended("EPARSE", r.fault) ELSE Went("version", r.fault)
<1> DEFINE Then(r) == IF r.bytes # Magic THEN Fail("EPARSE") ELSE Continue("version", parser)
<1>1. PICK r \in ReadOutcomes(4) : offset' = offset + Len(r.bytes) /\ GoesOnAs(Then(r), r.fault)
  BY DEF ReadMagic, Reads, GoesOnAs
<1>2. ReadAt("magic", 4, r)
  BY <1>1, ReadsSo DEF ReadMagic, Reads
<1>3. QED
  BY <1>1, <1>2, FailsSo, ContinuesSo

LEMMA ReadVersionSo ==
  ASSUME IsCall, ParserTypes, ReadVersion
  PROVE  \E r : /\ ReadAt("version", 1, r)
                /\ IF r.bytes = << >> \/ r.bytes[1] \notin {1, 2}
                     THEN Ended("EPARSE", r.fault) /\ parser' = parser
                     ELSE /\ Went(IF r.bytes[1] = 2 THEN "features" ELSE "offset", r.fault)
                          /\ parser' = [parser EXCEPT !.version = r.bytes[1]]
<1> DEFINE Then(r) == IF r.bytes = << >> \/ r.bytes[1] \notin {1, 2} THEN Fail("EPARSE")
                      ELSE Continue(IF r.bytes[1] = 2 THEN "features" ELSE "offset",
                                    [parser EXCEPT !.version = r.bytes[1]])
<1>1. PICK r \in ReadOutcomes(1) : offset' = offset + Len(r.bytes) /\ GoesOnAs(Then(r), r.fault)
  BY DEF ReadVersion, Reads, GoesOnAs
<1>2. ReadAt("version", 1, r)
  BY <1>1, ReadsSo DEF ReadVersion, Reads
<1>3. QED
  BY <1>1, <1>2, FailsSo, ContinuesSo

LEMMA ReadFeaturesSo ==
  ASSUME IsCall, ParserTypes, ReadFeatures
  PROVE  \E r : /\ ReadAt("features", 1, r)
                /\ IF r.bytes = << >>
                     THEN Ended("EPARSE", r.fault) /\ parser' = parser
                     ELSE /\ parser' = [parser EXCEPT !.features = r.bytes[1]]
                          /\ Went(IF HasChecksum(parser') THEN "expected" ELSE "offset", r.fault)
<1> DEFINE p(r) == [parser EXCEPT !.features = r.bytes[1]]
           Then(r) == IF r.bytes = << >> THEN Fail("EPARSE")
                      ELSE Continue(IF HasChecksum(p(r)) THEN "expected" ELSE "offset", p(r))
<1>1. PICK r \in ReadOutcomes(1) : offset' = offset + Len(r.bytes) /\ GoesOnAs(Then(r), r.fault)
  BY DEF ReadFeatures, Reads, GoesOnAs
<1>2. ReadAt("features", 1, r)
  BY <1>1, ReadsSo DEF ReadFeatures, Reads
<1>3. QED
  BY <1>1, <1>2, FailsSo, ContinuesSo

LEMMA ReadExpectedSo ==
  ASSUME IsCall, ParserTypes, ReadExpected
  PROVE  \E r : /\ ReadAt("expected", 4, r)
                /\ IF Len(r.bytes) # 4
                     THEN Ended("EPARSE", r.fault) /\ parser' = parser
                     ELSE /\ parser' = [parser EXCEPT !.expected = LongWord(r.bytes)]
                          /\ Went("offset", r.fault)
<1> DEFINE Then(r) == IF Len(r.bytes) # 4 THEN Fail("EPARSE")
                      ELSE Continue("offset", [parser EXCEPT !.expected = LongWord(r.bytes)])
<1>1. PICK r \in ReadOutcomes(4) : offset' = offset + Len(r.bytes) /\ GoesOnAs(Then(r), r.fault)
  BY DEF ReadExpected, Reads, GoesOnAs
<1>2. ReadAt("expected", 4, r)
  BY <1>1, ReadsSo DEF ReadExpected, Reads
<1>3. QED
  BY <1>1, <1>2, FailsSo, ContinuesSo

(* A chunk is checked: the last one is not full.                           *)
ChunkSo(r, bytes) ==
  IF r.error THEN Ended("EREAD", r.fault) /\ parser' = parser
  ELSE /\ parser' = [parser EXCEPT !.observed = CrcUpdate(parser.observed, bytes)]
       /\ Went(IF Len(bytes) = ChunkSize THEN "chunk" ELSE "compare", r.fault)

LEMMA AfterChunkSo ==
  ASSUME IsCall, NEW r, NEW bytes, GoesOnAs(AfterChunk(r, bytes), r.fault)
  PROVE  ChunkSo(r, bytes)
<1> DEFINE p == [parser EXCEPT !.observed = CrcUpdate(parser.observed, bytes)]
<1>1. AfterChunk(r, bytes) = IF r.error THEN Fail("EREAD")
                             ELSE IF Len(bytes) = ChunkSize THEN Continue("chunk", p)
                             ELSE Continue("compare", p)
  BY DEF AfterChunk
<1>2. ChunkSo(r, bytes) = IF r.error THEN Ended("EREAD", r.fault) /\ parser' = parser
                          ELSE parser' = p /\ Went(IF Len(bytes) = ChunkSize THEN "chunk" ELSE "compare", r.fault)
  BY DEF ChunkSo
<1> HIDE DEF p
<1>3. QED
  BY <1>1, <1>2, FailsSo, ContinuesSo

LEMMA ReadFirstChunkSo ==
  ASSUME IsCall, ParserTypes, ReadFirstChunk
  PROVE  \E r : ReadAt("first chunk", ChunkSize, r) /\ ChunkSo(r, WithoutChecksum(r.bytes))
<1>1. PICK r \in ReadOutcomes(ChunkSize) :
        offset' = offset + Len(r.bytes) /\ GoesOnAs(AfterChunk(r, WithoutChecksum(r.bytes)), r.fault)
  BY DEF ReadFirstChunk, Reads, GoesOnAs
<1>2. ReadAt("first chunk", ChunkSize, r)
  BY <1>1, ReadsSo, BlockFileAssumption DEF ReadFirstChunk, Reads
<1>3. QED
  BY <1>1, <1>2, AfterChunkSo

LEMMA ReadChunkSo ==
  ASSUME IsCall, ParserTypes, ReadChunk
  PROVE  \E r : ReadAt("chunk", ChunkSize, r) /\ ChunkSo(r, r.bytes)
<1>1. PICK r \in ReadOutcomes(ChunkSize) :
        offset' = offset + Len(r.bytes) /\ GoesOnAs(AfterChunk(r, r.bytes), r.fault)
  BY DEF ReadChunk, Reads, GoesOnAs
<1>2. ReadAt("chunk", ChunkSize, r)
  BY <1>1, ReadsSo, BlockFileAssumption DEF ReadChunk, Reads
<1>3. QED
  BY <1>1, <1>2, AfterChunkSo

(* The parser is on this block now.                                        *)
PlacedSo(block, fault) ==
  /\ parser' = [parser EXCEPT !.block = block, !.placed = @ \/ ~Doing("next")]
  /\ IF ~Doing("find") \/ block.type = call.type THEN Done(fault)
     ELSE IF block.type = 0 THEN Ended("ENOENT", fault)
     ELSE Went("skip", fault)

LEMMA PlacesSo ==
  ASSUME IsCall, NEW block, NEW f, GoesOnAs(Placed(block), f)
  PROVE  PlacedSo(block, f)
<1> DEFINE p == [parser EXCEPT !.block = block, !.placed = @ \/ ~Doing("next")]
<1>1. Placed(block) = IF ~Doing("find") \/ block.type = call.type THEN On(Succeeded, p)
                      ELSE IF block.type = 0 THEN On(Returned("ENOENT"), p)
                      ELSE Continue("skip", p)
  BY DEF Placed
<1>2. PlacedSo(block, f) =
        /\ parser' = p
        /\ IF ~Doing("find") \/ block.type = call.type THEN Done(f)
           ELSE IF block.type = 0 THEN Ended("ENOENT", f)
           ELSE Went("skip", f)
  BY DEF PlacedSo
<1> HIDE DEF p
<1>3. QED
  BY <1>1, <1>2, DoesSo, ContinuesSo

LEMMA ReadTypeSo ==
  ASSUME IsCall, ParserTypes, ReadType
  PROVE  \E r : /\ ReadAt("type", 1, r)
                /\ IF r.error THEN Ended("EREAD", r.fault) /\ parser' = parser
                   ELSE IF r.bytes = << >> THEN PlacedSo(NoBlockHere, r.fault)
                   ELSE Went("length", r.fault) /\ parser' = [parser EXCEPT !.block.type = r.bytes[1]]
<1> DEFINE Then(r) == IF r.error THEN Fail("EREAD")
                      ELSE IF r.bytes = << >> THEN Placed(NoBlockHere)
                      ELSE Continue("length", [parser EXCEPT !.block.type = r.bytes[1]])
<1>1. PICK r \in ReadOutcomes(1) : offset' = offset + Len(r.bytes) /\ GoesOnAs(Then(r), r.fault)
  BY DEF ReadType, Reads, GoesOnAs
<1>2. ReadAt("type", 1, r)
  BY <1>1, ReadsSo DEF ReadType, Reads
<1>3. QED
  BY <1>1, <1>2, FailsSo, ContinuesSo, PlacesSo

LEMMA ReadLengthSo ==
  ASSUME IsCall, ParserTypes, ReadLength
  PROVE  \E r : /\ ReadAt("length", 2, r)
                /\ IF Len(r.bytes) # 2
                     THEN Ended("EREAD", r.fault) /\ parser' = [parser EXCEPT !.placed = FALSE]
                     ELSE PlacedSo([parser.block EXCEPT !.length = Word(r.bytes), !.start = offset + 2], r.fault)
<1> DEFINE p == [parser EXCEPT !.placed = FALSE]
           b(r) == [parser.block EXCEPT !.length = Word(r.bytes), !.start = offset + 2]
           Then(r) == IF Len(r.bytes) # 2 THEN On(Returned("EREAD"), p) ELSE Placed(b(r))
<1>1. PICK r \in ReadOutcomes(2) : offset' = offset + Len(r.bytes) /\ GoesOnAs(Then(r), r.fault)
  BY DEF ReadLength, Reads, GoesOnAs
<1>2. ReadAt("length", 2, r)
  BY <1>1, ReadsSo DEF ReadLength, Reads
<1> HIDE DEF p, b
<1>3. IF Len(r.bytes) # 2 THEN Ended("EREAD", r.fault) /\ parser' = p ELSE PlacedSo(b(r), r.fault)
  BY <1>1, DoesSo, PlacesSo
<1>4. QED
  BY <1>2, <1>3 DEF p, b

LEMMA ReadBodySo ==
  ASSUME IsCall, ParserTypes, ReadBody
  PROVE  \E r : /\ ReadAt("body", parser.block.length, r) /\ parser' = parser
                /\ IF r.error \/ Len(r.bytes) # parser.block.length THEN Ended("EREAD", r.fault)
                   ELSE /\ call'.type = call.type /\ call'.body = r.bytes
                        /\ call'.fault = (call.fault \/ r.fault)
                        /\ IF Len(call.todo) > 1
                             THEN call'.todo = Tail(call.todo) /\ call'.at = "begin"
                             ELSE call'.todo = << >> /\ call'.at = "return" /\ call'.result = "SUCCESS"
<1> DEFINE n == parser.block.length
           Then(r) == IF r.error \/ Len(r.bytes) # n THEN Fail("EREAD")
                      ELSE On([Succeeded EXCEPT !.body = r.bytes], parser)
<1>0. n \in Nat
  BY DEF ParserTypes, Parsers, BlockRecords
<1>1. PICK r \in ReadOutcomes(n) : offset' = offset + Len(r.bytes) /\ GoesOnAs(Then(r), r.fault)
  BY DEF ReadBody, Reads, GoesOnAs
<1>2. ReadAt("body", n, r)
  BY <1>0, <1>1, ReadsSo DEF ReadBody, Reads
<1>3. CASE r.error \/ Len(r.bytes) # n
  BY <1>1, <1>2, <1>3, FailsSo
<1>4. CASE ~(r.error \/ Len(r.bytes) # n)
  <2> DEFINE c == [Succeeded EXCEPT !.body = r.bytes]
  <2>1. /\ DOMAIN c = DOMAIN Idle /\ c.type = call.type /\ c.body = r.bytes /\ c.fault = call.fault
        /\ IF Len(call.todo) > 1
             THEN c.todo = Tail(call.todo) /\ c.at = "begin"
             ELSE c.todo = << >> /\ c.at = "return" /\ c.result = "SUCCESS"
    <3> DEFINE d == Succeeded
    <3>1. /\ DOMAIN d = DOMAIN Idle /\ d.type = call.type /\ d.fault = call.fault
          /\ IF Len(call.todo) > 1
               THEN d.todo = Tail(call.todo) /\ d.at = "begin"
               ELSE d.todo = << >> /\ d.at = "return" /\ d.result = "SUCCESS"
      BY SucceededIs
    <3>2. c = [d EXCEPT !.body = r.bytes]
      OBVIOUS
    <3> HIDE DEF c, d
    <3>3. QED
      BY <3>1, <3>2, CallDomain
  <2>2. Then(r) = On(c, parser)
    BY <1>4
  <2> HIDE DEF c, Then
  <2>3. On(c, parser).call = c /\ On(c, parser).parser = parser
    BY DEF On
  <2>4. call' = [c EXCEPT !.fault = c.fault \/ r.fault] /\ parser' = parser
    BY <1>1, <2>2, <2>3 DEF GoesOnAs
  <2>5. QED
    BY <1>2, <1>4, <2>1, <2>4, CallDomain
<1>5. QED
  BY <1>3, <1>4
---------------------------------------------------------------------------
(* What every step of the parser keeps.                                    *)
Known == MemoryInv /\ ParserInv

LEMMA KnownCall ==
  ASSUME Known
  PROVE  /\ IsCall /\ ParserTypes /\ call.fault \in BOOLEAN
         /\ call.todo = << >> <=> call.at \in {"idle", "return"}
  BY DEF Known, MemoryInv, ParserInv, ParserTypes, Parsers, IsCall, StagesMatch

(* In the middle of a call.                                                *)
Steps == HeaderSteps \cup {"begin", "type", "length", "skip", "body"}

SameBlock ==
  /\ file' = file /\ object' = object
  /\ parser'.block = parser.block /\ parser'.placed = parser.placed
  /\ parser'.from = parser.from /\ parser'.open = parser.open

LEMMA HeaderKeeps ==
  ASSUME Known, call.at \in HeaderSteps, NEW at \in HeaderSteps, NEW f, Went(at, f), SameBlock,
         ParserTypes', HeaderInv', ChecksumInv'
  PROVE  ParserInv'
<1>1. call'.todo = call.todo /\ call'.at = at /\ call'.type = call.type /\ call'.body = call.body
  BY DEF Went, Kept
<1>2. Doing("init") /\ ~parser.open
  BY DEF Known, ParserInv, OpsMatch, Doing
<1>3. at \notin {"idle", "begin", "return", "type", "length", "skip", "body"}
      /\ call.at \notin {"idle", "begin", "return", "type", "length", "skip", "body"}
  BY DEF HeaderSteps, ChecksumSteps
<1>4. OpsMatch'
  BY <1>1, <1>2, <1>3 DEF Known, ParserInv, OpsMatch, Doing, SameBlock
<1>5. LocatedInv'
  BY <1>1, <1>2, <1>3 DEF LocatedInv, PastHeader, SameBlock
<1>6. RejectedInv' /\ SearchInv'
  BY <1>1, <1>3 DEF RejectedInv, SearchInv
<1>7. PlacedInv'
  BY <1>1, <1>3 DEF Known, ParserInv, PlacedInv, SameBlock, AtStart, Ahead, IsCurrentBlockValid
<1>8. FoundInv'
  BY <1>1, <1>3 DEF FoundInv, HasFound
<1>9. BodyInv'
  BY <1>1, <1>3 DEF Known, ParserInv, BodyInv, Giving
<1>10. QED
  BY <1>4, <1>5, <1>6, <1>7, <1>8, <1>9 DEF ParserInv

LEMMA FailureKeeps ==
  ASSUME Known, call.at \in Steps \ {"length"}, NEW result, result \notin {"SUCCESS", "ENOENT"},
         NEW f \in BOOLEAN, Ended(result, f), file' = file, object' = object, parser' = parser,
         offset' \in Nat,
         result \in {"EPARSE", "ECORRUPTED"} /\ AtStart /\ ~call.fault /\ ~f => ~Sound(file.bytes)
  PROVE  ParserInv'
<1>1. /\ call'.todo = << >> /\ call'.at = "return" /\ call'.result = result
      /\ call'.type = call.type /\ call'.body = call.body /\ call'.fault = (call.fault \/ f)
  BY DEF Ended, Kept
<1>2. ParserTypes'
  BY <1>1 DEF Known, ParserInv, ParserTypes
<1>3. OpsMatch'
  BY <1>1 DEF OpsMatch, HeaderSteps, ChecksumSteps
<1>4. HeaderInv' /\ ChecksumInv'
  BY <1>1 DEF HeaderInv, ChecksumInv, ChecksumSteps
<1>5. LocatedInv'
  BY <1>1 DEF Known, ParserInv, LocatedInv, PastHeader, AtStart
<1>6. RejectedInv'
  BY <1>1 DEF RejectedInv, AtStart
<1>7. PlacedInv'
  BY <1>1 DEF Known, ParserInv, PlacedInv, AtStart, Ahead, IsCurrentBlockValid
<1>8. SearchInv' /\ FoundInv'
  BY <1>1 DEF SearchInv, FoundInv, HasFound
<1>9. BodyInv'
  BY <1>1 DEF Known, ParserInv, BodyInv, Giving, HasBody
<1>10. QED
  BY <1>2, <1>3, <1>4, <1>5, <1>6, <1>7, <1>8, <1>9 DEF ParserInv

(* The header of a block comes next.                                       *)
LEMMA TypeKeeps ==
  ASSUME Known, call.at \in Steps \ {"length"}, Went("type", FALSE), SameBlock, ParserTypes',
         Doing("init") \/ Doing("rewind") \/ Doing("next") \/ Doing("find"),
         AtStart => HasHeader(file.bytes) /\ parser'.start_of_first_block = HeaderSize(file.bytes),
         AtStart /\ Follows => Ahead(offset'),
         AtStart /\ Doing("find") => NonePassed(offset')
  PROVE  ParserInv'
<1>1. call'.todo = call.todo /\ call'.at = "type" /\ call'.type = call.type /\ call'.body = call.body
  BY DEF Went, Kept
<1>2. OpsMatch'
  BY <1>1 DEF Known, ParserInv, OpsMatch, Doing, SameBlock, HeaderSteps, ChecksumSteps
<1>3. HeaderInv' /\ ChecksumInv'
  BY <1>1 DEF HeaderInv, ChecksumInv, ChecksumSteps
<1>4. LocatedInv'
  BY <1>1 DEF LocatedInv, AtStart, SameBlock
<1>5. RejectedInv' /\ FoundInv'
  BY <1>1 DEF RejectedInv, FoundInv, HasFound
<1>6. PlacedInv'
  BY <1>1 DEF Known, ParserInv, PlacedInv, SameBlock, AtStart, Ahead, IsCurrentBlockValid, Follows, Doing
<1>7. SearchInv'
  BY <1>1 DEF SearchInv, SameBlock, AtStart, NonePassed, Doing
<1>8. call.body = << >>
  <2>1. ~Giving
    BY KindsAre DEF Giving, Doing
  <2>2. call.at # "return"
    BY DEF Steps, HeaderSteps, ChecksumSteps
  <2>3. QED
    BY <2>1, <2>2 DEF Known, ParserInv, BodyInv
<1>9. BodyInv'
  BY <1>1, <1>8 DEF BodyInv, Giving
<1>10. QED
  BY <1>2, <1>3, <1>4, <1>5, <1>6, <1>7, <1>9 DEF ParserInv
---------------------------------------------------------------------------
(* The header.                                                             *)

(* What was read in whole, or to an end that is not there.                 *)
LEMMA InWhole ==
  ASSUME NEW n \in Nat, NEW m \in 0 .. n, NEW o \in Nat, NEW l \in Nat,
         m = n \/ o + m >= l, l >= o + n
  PROVE  m = n
  OBVIOUS

LEMMA BeginInitKeeps ==
  ASSUME Known, BeginInit, object' = object
  PROVE  ParserInv'
<1>1. /\ call.at = "begin" /\ Doing("init") /\ file' = file
      /\ offset' = IF file.source = "memory" THEN 0 ELSE offset
      /\ call' = [call EXCEPT !.at = "magic"] /\ parser' = [Closed EXCEPT !.from = offset']
  BY DEF BeginInit
<1>2. IsCall /\ ParserTypes /\ ~parser.open
  BY <1>1, KnownCall DEF Known, ParserInv, OpsMatch, Doing
<1>3. /\ call'.todo = call.todo /\ call'.at = "magic" /\ call'.type = call.type
      /\ call'.body = call.body /\ call'.fault = call.fault
  BY <1>1, <1>2, CallDomain DEF IsCall
<1>4. /\ parser'.open = FALSE /\ parser'.features = 0 /\ parser'.placed = FALSE
      /\ parser'.from = offset'
  BY <1>1 DEF Closed
<1>5. ParserTypes'
  <2>1. offset' \in Nat
    BY <1>1, <1>2 DEF ParserTypes, Parsers
  <2>2. parser' = [Closed EXCEPT !.from = offset']
    BY <1>1
  <2>3. parser' \in Parsers
    BY <2>1, <2>2, ClosedIsParser, ParserUpdates
  <2>4. QED
    BY <1>1, <1>2, <1>3, <2>1, <2>3 DEF ParserTypes
<1>6. OpsMatch'
  BY <1>1, <1>2, <1>3, <1>4 DEF Known, ParserInv, OpsMatch, Doing, HeaderSteps, ChecksumSteps
<1>7. HeaderInv' /\ ChecksumInv'
  BY <1>3, <1>4 DEF HeaderInv, ChecksumInv, ChecksumSteps, AtStart
<1>8. LocatedInv' /\ RejectedInv' /\ PlacedInv' /\ SearchInv' /\ FoundInv'
  BY <1>3, <1>4 DEF LocatedInv, PastHeader, RejectedInv, PlacedInv, SearchInv, FoundInv, HasFound
<1>9. call.body = << >>
  BY <1>1, KindsAre DEF Known, ParserInv, BodyInv, Giving, Doing
<1>10. BodyInv'
  BY <1>3, <1>9 DEF BodyInv, Giving
<1>11. QED
  BY <1>5, <1>6, <1>7, <1>8, <1>10 DEF ParserInv

LEMMA WithinSum ==
  ASSUME NEW o \in Nat, NEW m \in Nat, NEW i \in 1 .. m, NEW l \in Nat, o + m <= l
  PROVE  o \in 0 .. l /\ o + m \in o .. l /\ (o + m) - o = m /\ o + i \in 1 .. l
  OBVIOUS

LEMMA ByteRead ==
  ASSUME ParserTypes, NEW n \in Nat, NEW r, IsRead(r, n), NEW i \in 1 .. Len(r.bytes)
  PROVE  r.bytes[i] = file.bytes[offset + i] /\ r.bytes[i] \in 0 .. 255
         /\ offset + i \in 1 .. Len(file.bytes)
<1> DEFINE m == Len(r.bytes)
           e == offset + m
<1>1. /\ m \in Nat /\ m # 0 /\ r.bytes = SubSeq(file.bytes, offset + 1, e) /\ e <= Len(file.bytes)
      /\ r.bytes \in Seq(0 .. 255) /\ offset \in Nat /\ file.bytes \in Seq(0 .. 255)
  BY DEF IsRead, ParserTypes, Parsers
<1>2. Len(file.bytes) \in Nat /\ r.bytes[i] \in 0 .. 255
  BY <1>1, SeqElements
<1>3. offset \in 0 .. Len(file.bytes) /\ e \in offset .. Len(file.bytes) /\ e - offset = m
      /\ offset + i \in 1 .. Len(file.bytes)
  <2>1. i \in 1 .. m
    OBVIOUS
  <2> HIDE DEF m
  <2>2. QED
    BY <1>1, <1>2, <2>1, WithinSum
<1> HIDE DEF e, m
<1>4. \A j \in 1 .. e - offset : SubSeq(file.bytes, offset + 1, e)[j] = file.bytes[offset + j]
  BY <1>1, <1>3, Piece
<1>5. QED
  BY <1>1, <1>2, <1>3, <1>4 DEF m

LEMMA ReadMagicKeeps ==
  ASSUME Known, ReadMagic, object' = object
  PROVE  ParserInv'
<1>0. IsCall /\ ParserTypes
  BY KnownCall
<1>1. PICK r : /\ ReadAt("magic", 4, r) /\ parser' = parser
               /\ IF r.bytes # Magic THEN Ended("EPARSE", r.fault) ELSE Went("version", r.fault)
  BY <1>0, ReadMagicSo
<1>2. /\ call.at = "magic" /\ IsRead(r, 4) /\ file' = file
      /\ offset' = offset + Len(r.bytes) /\ offset' \in Nat
  BY <1>1 DEF ReadAt
<1>3. call.at \in HeaderSteps /\ call.at \in Steps \ {"length"}
  BY <1>2 DEF HeaderSteps, Steps
<1>4. Len(file.bytes) \in Nat /\ offset \in Nat /\ (AtStart => offset = 0 /\ parser.features = 0)
  BY <1>0, <1>2, SeqElements DEF ParserTypes, Parsers, Known, ParserInv, HeaderInv
<1>5. Len(Magic) = 4
  BY DEF Magic
<1>6. AtStart => r.bytes = SubSeq(file.bytes, 1, Len(r.bytes))
  <2>1. r.bytes = SubSeq(file.bytes, offset + 1, offset + Len(r.bytes)) /\ Len(r.bytes) \in Nat
    BY <1>2 DEF IsRead
  <2>2. AtStart => offset + 1 = 1 /\ offset + Len(r.bytes) = Len(r.bytes)
    BY <1>4, <2>1
  <2>3. QED
    BY <2>1, <2>2
<1>7. CASE r.bytes = Magic
  <2>1. Went("version", r.fault) /\ r.fault \in BOOLEAN
    BY <1>1, <1>2, <1>7 DEF IsRead
  <2>2. AtStart => offset' = 4 /\ Len(file.bytes) >= 4 /\ SubSeq(file.bytes, 1, 4) = Magic
    BY <1>2, <1>4, <1>5, <1>6, <1>7 DEF IsRead
  <2>3. call'.at = "version" /\ call'.type = call.type /\ call'.fault = (call.fault \/ r.fault)
    BY <2>1 DEF Went, Kept
  <2>4. HeaderInv' /\ ChecksumInv'
    BY <1>1, <1>2, <1>4, <2>2, <2>3 DEF HeaderInv, ChecksumInv, ChecksumSteps, AtStart
  <2>5. ParserTypes'
    BY <1>0, <1>1, <1>2, <2>1, <2>3 DEF ParserTypes
  <2>6. SameBlock /\ "version" \in HeaderSteps
    BY <1>1, <1>2 DEF SameBlock, HeaderSteps
  <2>7. QED
    BY <1>3, <2>1, <2>4, <2>5, <2>6, HeaderKeeps
<1>8. CASE r.bytes # Magic
  <2>1. Ended("EPARSE", r.fault) /\ r.fault \in BOOLEAN
    BY <1>1, <1>2, <1>8 DEF IsRead
  <2>2. AtStart /\ ~r.fault => ~Sound(file.bytes)
    <3>1. SUFFICES ASSUME AtStart, ~r.fault, Sound(file.bytes) PROVE FALSE
      OBVIOUS
    <3>2. Len(file.bytes) > 4 /\ SubSeq(file.bytes, 1, 4) = Magic
      BY <3>1 DEF Sound, HasHeader, HasMagic
    <3>3. Len(r.bytes) \in 0 .. 4 /\ (Len(r.bytes) = 4 \/ offset + Len(r.bytes) >= Len(file.bytes))
      BY <1>2, <3>1 DEF IsRead
    <3>4. offset = 0 /\ Len(file.bytes) \in Nat
      BY <1>4, <3>1
    <3>5. Len(r.bytes) = 4
      <4>1. Len(file.bytes) >= offset + 4 /\ offset \in Nat
        BY <3>2, <3>4
      <4>2. QED
        BY <3>3, <3>4, <4>1, InWhole
    <3>6. QED
      BY <1>6, <1>8, <3>1, <3>2, <3>5
  <2>3. QED
    BY <1>1, <1>2, <1>3, <2>1, <2>2, FailureKeeps
<1>9. QED
  BY <1>7, <1>8

LEMMA ReadVersionKeeps ==
  ASSUME Known, ReadVersion, object' = object
  PROVE  ParserInv'
<1>0. IsCall /\ ParserTypes
  BY KnownCall
<1>1. PICK r : /\ ReadAt("version", 1, r)
               /\ IF r.bytes = << >> \/ r.bytes[1] \notin {1, 2}
                    THEN Ended("EPARSE", r.fault) /\ parser' = parser
                    ELSE /\ Went(IF r.bytes[1] = 2 THEN "features" ELSE "offset", r.fault)
                         /\ parser' = [parser EXCEPT !.version = r.bytes[1]]
  BY <1>0, ReadVersionSo
<1>2. /\ call.at = "version" /\ IsRead(r, 1) /\ file' = file
      /\ offset' = offset + Len(r.bytes) /\ offset' \in Nat
  BY <1>1 DEF ReadAt
<1>3. call.at \in HeaderSteps /\ call.at \in Steps \ {"length"}
  BY <1>2 DEF HeaderSteps, Steps
<1>4. /\ Len(file.bytes) \in Nat /\ offset \in Nat
      /\ AtStart => /\ offset = 4 /\ parser.features = 0
                    /\ Len(file.bytes) >= 4 /\ SubSeq(file.bytes, 1, 4) = Magic
  BY <1>0, <1>2, SeqElements DEF ParserTypes, Parsers, Known, ParserInv, HeaderInv
<1>5. Len(r.bytes) \in 0 .. 1 /\ (Len(r.bytes) = 0 <=> r.bytes = << >>) /\ r.fault \in BOOLEAN
  BY <1>2 DEF IsRead
<1>6. r.bytes # << >> =>
        /\ Len(r.bytes) = 1 /\ r.bytes[1] \in 0 .. 255
        /\ AtStart => r.bytes[1] = file.bytes[5] /\ Len(file.bytes) >= 5
  <2>1. SUFFICES ASSUME r.bytes # << >>
                 PROVE  /\ Len(r.bytes) = 1 /\ r.bytes[1] \in 0 .. 255
                        /\ AtStart => r.bytes[1] = file.bytes[5] /\ Len(file.bytes) >= 5
    OBVIOUS
  <2>2. Len(r.bytes) = 1 /\ 1 \in 1 .. Len(r.bytes)
    BY <1>5, <2>1
  <2>3. r.bytes[1] = file.bytes[offset + 1] /\ r.bytes[1] \in 0 .. 255 /\ offset + 1 \in 1 .. Len(file.bytes)
    BY <1>0, <1>2, <2>2, ByteRead
  <2>4. AtStart => offset + 1 = 5
    BY <1>4
  <2>5. QED
    BY <1>4, <2>2, <2>3, <2>4
<1>7. CASE r.bytes # << >> /\ r.bytes[1] \in {1, 2}
  <2> DEFINE at == IF r.bytes[1] = 2 THEN "features" ELSE "offset"
  <2>1. Went(at, r.fault) /\ parser' = [parser EXCEPT !.version = r.bytes[1]]
    BY <1>1, <1>7
  <2>2. call'.at = at /\ call'.type = call.type /\ call'.fault = (call.fault \/ r.fault)
    BY <2>1 DEF Went, Kept
  <2>3. /\ parser'.features = parser.features /\ parser'.from = parser.from
        /\ parser'.block = parser.block /\ parser'.placed = parser.placed /\ parser'.open = parser.open
    BY <1>0, <2>1 DEF ParserTypes, Parsers
  <2>4. ParserTypes'
    <3>1. r.bytes[1] \in 0 .. 255 /\ parser' = [parser EXCEPT !.version = r.bytes[1]]
      BY <1>6, <1>7, <2>1
    <3>2. parser' \in Parsers
      BY <1>0, <3>1, ParserUpdates DEF ParserTypes
    <3>3. QED
      BY <1>0, <1>2, <1>5, <1>6, <2>2, <3>2 DEF ParserTypes
  <2>5. AtStart => /\ offset' = 5 /\ HasMagic(file.bytes) /\ file.bytes[5] \in {1, 2}
                   /\ file.bytes[5] = r.bytes[1] /\ parser'.features = 0
    <3>1. SUFFICES ASSUME AtStart
                   PROVE  /\ offset' = 5 /\ HasMagic(file.bytes) /\ file.bytes[5] \in {1, 2}
                          /\ file.bytes[5] = r.bytes[1] /\ parser'.features = 0
      OBVIOUS
    <3>2. Len(r.bytes) = 1 /\ r.bytes[1] = file.bytes[5] /\ Len(file.bytes) >= 5
      BY <1>6, <1>7, <3>1
    <3>3. offset' = 5 /\ parser'.features = 0
      BY <1>2, <1>4, <2>3, <3>1, <3>2
    <3>4. HasMagic(file.bytes)
      BY <1>4, <3>1, <3>2 DEF HasMagic
    <3>5. QED
      BY <1>7, <3>2, <3>3, <3>4
  <2>6. HeaderInv'
    <3>1. CASE r.bytes[1] = 2
      BY <1>2, <2>2, <2>3, <2>5, <3>1 DEF HeaderInv, ChecksumSteps, AtStart
    <3>2. CASE r.bytes[1] = 1
      <4>1. AtStart => HeaderAsRead' /\ offset' = HeaderSize(file.bytes)
        BY <1>2, <1>4, <1>6, <1>7, <2>5, <3>2 DEF HeaderAsRead, HasHeader, HeaderSize, Checked, HasChecksum
      <4>2. QED
        BY <1>2, <2>2, <2>3, <3>2, <4>1 DEF HeaderInv, ChecksumSteps, AtStart
    <3>3. QED
      BY <1>7, <3>1, <3>2
  <2>7. ChecksumInv'
    BY <2>2 DEF ChecksumInv
  <2>8. SameBlock /\ at \in HeaderSteps
    BY <1>2, <2>3 DEF SameBlock, HeaderSteps
  <2>9. QED
    BY <1>3, <2>1, <2>4, <2>6, <2>7, <2>8, HeaderKeeps
<1>8. CASE r.bytes = << >> \/ r.bytes[1] \notin {1, 2}
  <2>1. Ended("EPARSE", r.fault) /\ parser' = parser
    BY <1>1, <1>8
  <2>2. AtStart /\ ~r.fault => ~Sound(file.bytes)
    <3>1. CASE r.bytes = << >>
      BY <1>2, <1>4, <1>5, <3>1 DEF IsRead, Sound, HasHeader, HasMagic
    <3>2. CASE r.bytes # << >>
      BY <1>6, <1>8, <3>2 DEF Sound, HasHeader
    <3>3. QED
      BY <3>1, <3>2
  <2>3. QED
    BY <1>2, <1>3, <1>5, <2>1, <2>2, FailureKeeps
<1>9. QED
  BY <1>7, <1>8

LEMMA ReadFeaturesKeeps ==
  ASSUME Known, ReadFeatures, object' = object
  PROVE  ParserInv'
<1>0. IsCall /\ ParserTypes
  BY KnownCall
<1>1. PICK r : /\ ReadAt("features", 1, r)
               /\ IF r.bytes = << >>
                    THEN Ended("EPARSE", r.fault) /\ parser' = parser
                    ELSE /\ parser' = [parser EXCEPT !.features = r.bytes[1]]
                         /\ Went(IF HasChecksum(parser') THEN "expected" ELSE "offset", r.fault)
  BY <1>0, ReadFeaturesSo
<1>2. /\ call.at = "features" /\ IsRead(r, 1) /\ file' = file
      /\ offset' = offset + Len(r.bytes) /\ offset' \in Nat
  BY <1>1 DEF ReadAt
<1>3. call.at \in HeaderSteps /\ call.at \in Steps \ {"length"}
  BY <1>2 DEF HeaderSteps, Steps
<1>4. /\ Len(file.bytes) \in Nat /\ offset \in Nat
      /\ AtStart => offset = 5 /\ HasMagic(file.bytes) /\ file.bytes[5] = 2
  BY <1>0, <1>2, SeqElements DEF ParserTypes, Parsers, Known, ParserInv, HeaderInv
<1>5. Len(r.bytes) \in 0 .. 1 /\ (Len(r.bytes) = 0 <=> r.bytes = << >>) /\ r.fault \in BOOLEAN
  BY <1>2 DEF IsRead
<1>6. r.bytes # << >> =>
        /\ Len(r.bytes) = 1 /\ r.bytes[1] \in 0 .. 255
        /\ AtStart => r.bytes[1] = file.bytes[6] /\ Len(file.bytes) >= 6
  <2>1. SUFFICES ASSUME r.bytes # << >>
                 PROVE  /\ Len(r.bytes) = 1 /\ r.bytes[1] \in 0 .. 255
                        /\ AtStart => r.bytes[1] = file.bytes[6] /\ Len(file.bytes) >= 6
    OBVIOUS
  <2>2. Len(r.bytes) = 1 /\ 1 \in 1 .. Len(r.bytes)
    BY <1>5, <2>1
  <2>3. r.bytes[1] = file.bytes[offset + 1] /\ r.bytes[1] \in 0 .. 255 /\ offset + 1 \in 1 .. Len(file.bytes)
    BY <1>0, <1>2, <2>2, ByteRead
  <2>4. AtStart => offset + 1 = 6
    BY <1>4
  <2>5. QED
    BY <1>4, <2>2, <2>3, <2>4
<1>7. CASE r.bytes # << >>
  <2> DEFINE at == IF HasChecksum(parser') THEN "expected" ELSE "offset"
  <2>1. Went(at, r.fault) /\ parser' = [parser EXCEPT !.features = r.bytes[1]]
    BY <1>1, <1>7
  <2>2. /\ parser'.features = r.bytes[1] /\ parser'.from = parser.from
        /\ parser'.block = parser.block /\ parser'.placed = parser.placed /\ parser'.open = parser.open
    BY <1>0, <2>1 DEF ParserTypes, Parsers
  <2>3. at \in {"expected", "offset"} /\ (at = "expected" <=> HasChecksum(parser'))
    OBVIOUS
  <2> HIDE DEF at
  <2>4. call'.at = at /\ call'.type = call.type /\ call'.fault = (call.fault \/ r.fault)
    BY <2>1 DEF Went, Kept
  <2>5. ParserTypes'
    <3>1. r.bytes[1] \in 0 .. 255 /\ parser' = [parser EXCEPT !.features = r.bytes[1]]
      BY <1>6, <1>7, <2>1
    <3>2. parser' \in Parsers
      BY <1>0, <3>1, ParserUpdates DEF ParserTypes
    <3>3. QED
      BY <1>0, <1>2, <1>5, <1>6, <2>4, <3>2 DEF ParserTypes
  <2>6. AtStart => /\ offset' = 6 /\ HasMagic(file.bytes) /\ file.bytes[5] = 2
                   /\ file.bytes[6] = parser'.features /\ Len(file.bytes) >= 6
    <3>1. Len(r.bytes) = 1 /\ (AtStart => r.bytes[1] = file.bytes[6] /\ Len(file.bytes) >= 6)
      BY <1>6, <1>7
    <3>2. AtStart => offset' = 6
      BY <1>2, <1>4, <3>1
    <3>3. QED
      BY <1>4, <2>2, <3>1, <3>2
  <2>7. HeaderInv'
    <3>1. CASE at = "expected"
      BY <1>2, <2>2, <2>3, <2>4, <2>6, <3>1 DEF HeaderInv, ChecksumSteps, AtStart
    <3>2. CASE at = "offset"
      <4>1. ~HasChecksum(parser') /\ (AtStart => ~Checked(file.bytes))
        BY <2>3, <2>6, <3>2 DEF Checked, HasChecksum
      <4>2. AtStart => HeaderAsRead' /\ offset' = HeaderSize(file.bytes)
        BY <1>2, <2>6, <4>1 DEF HeaderAsRead, HasHeader, HeaderSize
      <4>3. QED
        BY <1>2, <2>2, <2>4, <3>2, <4>2 DEF HeaderInv, ChecksumSteps, AtStart
    <3>3. QED
      BY <2>3, <3>1, <3>2
  <2>8. ChecksumInv'
    BY <2>3, <2>4 DEF ChecksumInv
  <2>9. SameBlock /\ at \in HeaderSteps
    BY <1>2, <2>2, <2>3 DEF SameBlock, HeaderSteps
  <2>10. QED
    BY <1>3, <2>1, <2>5, <2>7, <2>8, <2>9, HeaderKeeps
<1>8. CASE r.bytes = << >>
  <2>1. Ended("EPARSE", r.fault) /\ parser' = parser
    BY <1>1, <1>8
  <2>2. AtStart /\ ~r.fault => ~Sound(file.bytes)
    <3>1. ~r.fault => offset + 0 >= Len(file.bytes)
      BY <1>2, <1>5, <1>8 DEF IsRead
    <3>2. QED
      BY <1>4, <3>1 DEF Sound, HasHeader
  <2>3. QED
    BY <1>2, <1>3, <1>5, <2>1, <2>2, FailureKeeps
<1>9. QED
  BY <1>7, <1>8

LEMMA LongWordType ==
  ASSUME NEW s \in Seq(0 .. 255), Len(s) = 4
  PROVE  LongWord(s) \in Nat
<1> DEFINE t == SubSeq(s, 3, 4)
<1>1. 2 \in 0 .. Len(s) /\ 4 \in 2 .. Len(s)
  OBVIOUS
<1>2. SubSeq(s, 2 + 1, 4) \in Seq(0 .. 255) /\ Len(SubSeq(s, 2 + 1, 4)) = 4 - 2
  BY <1>1, Piece
<1>3. t \in Seq(0 .. 255) /\ Len(t) = 2
  BY <1>2
<1> HIDE DEF t
<1>4. Word(s) \in Nat
  <2>1. Len(s) >= 2
    OBVIOUS
  <2>2. QED
    BY <2>1, WordType
<1>5. Word(t) \in Nat
  <2>1. Len(t) >= 2
    BY <1>3
  <2>2. QED
    BY <1>3, <2>1, WordType
<1>6. LongWord(s) = Word(s) + 65536 * Word(t)
  BY DEF LongWord, t
<1>7. QED
  BY <1>4, <1>5, <1>6

LEMMA ReadExpectedKeeps ==
  ASSUME Known, ReadExpected, object' = object
  PROVE  ParserInv'
<1>0. IsCall /\ ParserTypes
  BY KnownCall
<1>1. PICK r : /\ ReadAt("expected", 4, r)
               /\ IF Len(r.bytes) # 4
                    THEN Ended("EPARSE", r.fault) /\ parser' = parser
                    ELSE /\ parser' = [parser EXCEPT !.expected = LongWord(r.bytes)]
                         /\ Went("offset", r.fault)
  BY <1>0, ReadExpectedSo
<1>2. /\ call.at = "expected" /\ IsRead(r, 4) /\ file' = file
      /\ offset' = offset + Len(r.bytes) /\ offset' \in Nat
  BY <1>1 DEF ReadAt
<1>3. call.at \in HeaderSteps /\ call.at \in Steps \ {"length"}
  BY <1>2 DEF HeaderSteps, Steps
<1>4. /\ Len(file.bytes) \in Nat /\ offset \in Nat
      /\ AtStart => /\ offset = 6 /\ HasMagic(file.bytes) /\ file.bytes[5] = 2 /\ Len(file.bytes) >= 6
                    /\ HasChecksum(parser) /\ parser.features = file.bytes[6]
  BY <1>0, <1>2, SeqElements DEF ParserTypes, Parsers, Known, ParserInv, HeaderInv
<1>5. AtStart => Checked(file.bytes) /\ HeaderSize(file.bytes) = 10
  BY <1>4 DEF Checked, HasChecksum, HeaderSize
<1>6. Len(r.bytes) \in 0 .. 4 /\ r.fault \in BOOLEAN
  BY <1>2 DEF IsRead
<1>7. CASE Len(r.bytes) = 4
  <2>1. Went("offset", r.fault) /\ parser' = [parser EXCEPT !.expected = LongWord(r.bytes)]
    BY <1>1, <1>7
  <2>2. LongWord(r.bytes) \in Nat
    BY <1>2, <1>7, LongWordType DEF IsRead
  <2>3. /\ parser'.features = parser.features /\ parser'.from = parser.from
        /\ parser'.block = parser.block /\ parser'.placed = parser.placed /\ parser'.open = parser.open
        /\ parser'.expected = LongWord(r.bytes)
    BY <1>0, <2>1 DEF ParserTypes, Parsers
  <2>4. call'.at = "offset" /\ call'.type = call.type /\ call'.fault = (call.fault \/ r.fault)
    BY <2>1 DEF Went, Kept
  <2>5. ParserTypes'
    <3>1. LongWord(r.bytes) \in Nat /\ parser' = [parser EXCEPT !.expected = LongWord(r.bytes)]
      BY <2>1, <2>2
    <3>2. parser' \in Parsers
      BY <1>0, <3>1, ParserUpdates DEF ParserTypes
    <3>3. QED
      BY <1>0, <1>2, <1>6, <2>4, <3>2 DEF ParserTypes
  <2>6. AtStart => /\ offset' = 10 /\ Len(file.bytes) >= 10
                   /\ parser'.expected = Expected(file.bytes)
    <3>1. r.bytes = SubSeq(file.bytes, offset + 1, offset + 4) /\ offset + 4 <= Len(file.bytes)
      BY <1>2, <1>7 DEF IsRead
    <3>2. AtStart => offset + 1 = 7 /\ offset + 4 = 10
      BY <1>4
    <3>3. QED
      BY <1>2, <1>4, <1>7, <2>3, <3>1, <3>2 DEF Expected
  <2>7. AtStart => HeaderAsRead' /\ offset' = HeaderSize(file.bytes)
    <3>1. AtStart => HasHeader(file.bytes) /\ HasChecksum(parser')
      BY <1>4, <1>5, <2>3, <2>6 DEF HasHeader, HasChecksum
    <3>2. QED
      BY <1>2, <1>5, <2>6, <3>1 DEF HeaderAsRead
  <2>8. HeaderInv'
    BY <1>2, <2>3, <2>4, <2>7 DEF HeaderInv, ChecksumSteps, AtStart
  <2>9. ChecksumInv'
    BY <2>4 DEF ChecksumInv
  <2>10. SameBlock /\ "offset" \in HeaderSteps
    BY <1>2, <2>3 DEF SameBlock, HeaderSteps
  <2>11. QED
    BY <1>3, <2>1, <2>5, <2>8, <2>9, <2>10, HeaderKeeps
<1>8. CASE Len(r.bytes) # 4
  <2>1. Ended("EPARSE", r.fault) /\ parser' = parser
    BY <1>1, <1>8
  <2>2. AtStart /\ ~r.fault => ~Sound(file.bytes)
    <3>1. ~r.fault => offset + Len(r.bytes) >= Len(file.bytes)
      BY <1>2, <1>8 DEF IsRead
    <3>2. SUFFICES ASSUME AtStart, ~r.fault, Sound(file.bytes) PROVE FALSE
      OBVIOUS
    <3>3. Len(file.bytes) >= 10
      BY <1>5, <3>2 DEF Sound, HasHeader
    <3>4. offset = 6 /\ Len(file.bytes) \in Nat
      BY <1>4, <3>2
    <3>5. Len(file.bytes) >= offset + 4 /\ offset \in Nat
      BY <3>3, <3>4
    <3>6. QED
      BY <1>2, <1>6, <1>8, <3>2, <3>4, <3>5, InWhole DEF IsRead
  <2>3. QED
    BY <1>2, <1>3, <1>6, <2>1, <2>2, FailureKeeps
<1>9. QED
  BY <1>7, <1>8
---------------------------------------------------------------------------
(* The checksum of the file.                                               *)
LEMMA ZeroedIs ==
  ASSUME NEW bytes \in Seq(0 .. 255)
  PROVE  /\ Zeroed(bytes) \in Seq(0 .. 255) /\ Len(Zeroed(bytes)) = Len(bytes)
         /\ \A i \in 1 .. Len(bytes) : Zeroed(bytes)[i] = IF i \in 7 .. 10 THEN 0 ELSE bytes[i]
<1>1. Len(bytes) \in Nat /\ \A i \in 1 .. Len(bytes) : bytes[i] \in 0 .. 255
  BY SeqElements
<1>2. \A i \in 1 .. Len(bytes) : (IF i \in 7 .. 10 THEN 0 ELSE bytes[i]) \in 0 .. 255
  BY <1>1
<1>3. QED
  BY <1>1, <1>2 DEF Zeroed

LEMMA WithoutChecksumIs ==
  ASSUME NEW bytes \in Seq(0 .. 255)
  PROVE  /\ WithoutChecksum(bytes) \in Seq(0 .. 255) /\ Len(WithoutChecksum(bytes)) = Len(bytes)
         /\ Len(bytes) >= 10 => \A i \in 1 .. Len(bytes) :
              WithoutChecksum(bytes)[i] = IF i \in 7 .. 10 THEN 0 ELSE bytes[i]
<1>1. WithoutChecksum(bytes) = IF Len(bytes) < 10 THEN bytes ELSE Zeroed(bytes)
  BY DEF WithoutChecksum, Zeroed
<1>2. Len(bytes) \in Nat
  BY SeqElements
<1>3. QED
  BY <1>1, <1>2, ZeroedIs

LEMMA SameElements ==
  ASSUME NEW S, NEW s \in Seq(S), NEW t \in Seq(S), Len(s) = Len(t),
         \A i \in 1 .. Len(s) : s[i] = t[i]
  PROVE  s = t
  OBVIOUS

LEMMA FileIs ==
  ASSUME ParserTypes
  PROVE  file.bytes \in Seq(0 .. 255) /\ Len(file.bytes) \in Nat /\ offset \in Nat
<1>1. file.bytes \in Seq(0 .. 255) /\ offset \in Nat
  BY DEF ParserTypes, Parsers
<1>2. QED
  BY <1>1, SeqElements

(* A chunk of the file is a part of the file with zeros in it.             *)
LEMMA ChunkIs ==
  ASSUME ParserTypes, NEW n \in Nat, NEW r, IsRead(r, n), NEW c \in Seq(0 .. 255),
         Len(c) = Len(r.bytes), offset + Len(r.bytes) <= Len(file.bytes),
         \A i \in 1 .. Len(c) : c[i] = IF offset + i \in 7 .. 10 THEN 0 ELSE r.bytes[i]
  PROVE  c = SubSeq(Zeroed(file.bytes), offset + 1, offset + Len(c))
<1> DEFINE z == Zeroed(file.bytes)
           m == Len(c)
           e == offset + m
<1>1. /\ offset \in Nat /\ file.bytes \in Seq(0 .. 255) /\ Len(file.bytes) \in Nat /\ m \in Nat
      /\ z \in Seq(0 .. 255) /\ Len(z) = Len(file.bytes)
      /\ \A i \in 1 .. Len(file.bytes) : z[i] = IF i \in 7 .. 10 THEN 0 ELSE file.bytes[i]
  <2>1. file.bytes \in Seq(0 .. 255) /\ Len(file.bytes) \in Nat /\ offset \in Nat
    BY FileIs
  <2>2. m \in Nat
    BY SeqElements
  <2>3. QED
    BY <2>1, <2>2, ZeroedIs
<1>2. \A i \in 1 .. m : r.bytes[i] = file.bytes[offset + i] /\ offset + i \in 1 .. Len(file.bytes)
  BY ByteRead
<1>3. e <= Len(file.bytes)
  OBVIOUS
<1> HIDE DEF z
<1>4. \A i \in 1 .. m : c[i] = z[offset + i]
  BY <1>1, <1>2
<1> HIDE DEF m
<1>5. offset \in 0 .. Len(z) /\ e \in offset .. Len(z) /\ e - offset = m
  BY <1>1, <1>3
<1> HIDE DEF e
<1>6. /\ SubSeq(z, offset + 1, e) \in Seq(0 .. 255) /\ Len(SubSeq(z, offset + 1, e)) = e - offset
      /\ \A i \in 1 .. e - offset : SubSeq(z, offset + 1, e)[i] = z[offset + i]
  <2>1. z \in Seq(0 .. 255)
    BY <1>1
  <2>2. QED
    BY <1>5, <2>1, Piece
<1> DEFINE s == SubSeq(z, offset + 1, e)
<1>7. s \in Seq(0 .. 255) /\ Len(s) = Len(c) /\ \A i \in 1 .. Len(c) : c[i] = s[i]
  BY <1>4, <1>5, <1>6 DEF m
<1> HIDE DEF s
<1>8. c = s
  BY <1>7, SameElements
<1>9. QED
  BY <1>8 DEF s, z, e, m

LEMMA AtEnd ==
  ASSUME NEW l \in Nat, NEW o \in 10 .. l, o >= l
  PROVE  o = l
  OBVIOUS

LEMMA ChunkKeeps ==
  ASSUME Known, NEW at \in {"first chunk", "chunk"}, NEW r, NEW c \in Seq(0 .. 255),
         ReadAt(at, ChunkSize, r), ChunkSo(r, c), Len(c) = Len(r.bytes), object' = object,
         AtStart /\ (~r.fault \/ Len(c) = ChunkSize) =>
           /\ offset + Len(c) \in 10 .. Len(file.bytes)
           /\ CrcUpdate(parser.observed, c) = CrcUpdate(0, SubSeq(Zeroed(file.bytes), 1, offset + Len(c)))
  PROVE  ParserInv'
<1>0. IsCall /\ ParserTypes
  BY KnownCall
<1>1. /\ call.at = at /\ IsRead(r, ChunkSize) /\ file' = file
      /\ offset' = offset + Len(c) /\ offset' \in Nat
  BY DEF ReadAt
<1>2. call.at \in HeaderSteps /\ call.at \in Steps \ {"length"} /\ call.at \in ChecksumSteps
  BY <1>1 DEF HeaderSteps, ChecksumSteps, Steps
<1>3. r.fault \in BOOLEAN /\ Len(c) \in Nat
  BY <1>1, SeqElements DEF IsRead
<1>4. CASE r.error
  <2>1. Ended("EREAD", r.fault) /\ parser' = parser
    BY <1>4 DEF ChunkSo
  <2>2. QED
    BY <1>1, <1>2, <1>3, <2>1, FailureKeeps
<1>5. CASE ~r.error
  <2> DEFINE sum == CrcUpdate(parser.observed, c)
             next == IF Len(c) = ChunkSize THEN "chunk" ELSE "compare"
  <2>1. parser' = [parser EXCEPT !.observed = sum] /\ Went(next, r.fault)
    BY <1>5 DEF ChunkSo
  <2>2. sum \in Crcs
    BY <1>0, CrcUpdateType DEF ParserTypes, Parsers
  <2>3. AtStart /\ (~r.fault \/ Len(c) = ChunkSize) =>
          /\ offset' \in 10 .. Len(file.bytes)
          /\ sum = CrcUpdate(0, SubSeq(Zeroed(file.bytes), 1, offset'))
    BY <1>1
  <2> HIDE DEF sum
  <2>4. /\ parser'.observed = sum /\ parser'.features = parser.features /\ parser'.from = parser.from
        /\ parser'.block = parser.block /\ parser'.placed = parser.placed /\ parser'.open = parser.open
        /\ parser'.expected = parser.expected /\ parser'.start_of_first_block = parser.start_of_first_block
    BY <1>0, <2>1 DEF ParserTypes, Parsers
  <2>5. next \in {"chunk", "compare"} /\ (next = "chunk" <=> Len(c) = ChunkSize)
    OBVIOUS
  <2> HIDE DEF next
  <2>6. call'.at = next /\ call'.type = call.type /\ call'.fault = (call.fault \/ r.fault)
    BY <2>1 DEF Went, Kept
  <2>7. ParserTypes'
    <3>1. parser' \in Parsers
      BY <1>0, <2>1, <2>2, ParserUpdates DEF ParserTypes
    <3>2. QED
      BY <1>0, <1>1, <1>3, <2>6, <3>1 DEF ParserTypes
  <2>8. HeaderInv'
    BY <1>1, <1>2, <2>4, <2>5, <2>6
       DEF Known, ParserInv, HeaderInv, ChecksumSteps, AtStart, HeaderAsRead, HasChecksum
  <2>9. AtStart /\ ~r.fault /\ next = "compare" => sum = Checksum(file.bytes)
    <3>1. SUFFICES ASSUME AtStart, ~r.fault, next = "compare" PROVE sum = Checksum(file.bytes)
      OBVIOUS
    <3>2. offset' \in 10 .. Len(file.bytes) /\ sum = CrcUpdate(0, SubSeq(Zeroed(file.bytes), 1, offset'))
      BY <2>3, <3>1
    <3>3. offset' >= Len(file.bytes)
      BY <1>1, <2>5, <3>1 DEF IsRead
    <3>4. file.bytes \in Seq(0 .. 255) /\ Len(file.bytes) \in Nat
      BY <1>0, FileIs
    <3>5. offset' = Len(Zeroed(file.bytes)) /\ Zeroed(file.bytes) \in Seq(0 .. 255)
      <4>1. Len(Zeroed(file.bytes)) = Len(file.bytes) /\ Zeroed(file.bytes) \in Seq(0 .. 255)
        BY <3>4, ZeroedIs
      <4>2. offset' \in 10 .. Len(file.bytes)
        BY <3>2
      <4>3. offset' = Len(file.bytes)
        BY <3>3, <3>4, <4>2, AtEnd
      <4>4. QED
        BY <4>1, <4>3
    <3>6. SubSeq(Zeroed(file.bytes), 1, offset') = Zeroed(file.bytes)
      BY <3>5, SubSeqFull
    <3>7. QED
      BY <3>2, <3>6 DEF Checksum
  <2>10. ChecksumInv'
    BY <1>0, <1>1, <1>3, <2>3, <2>4, <2>5, <2>6, <2>9 DEF ChecksumInv, AtStart, ParserTypes, Parsers
  <2>11. SameBlock /\ next \in HeaderSteps
    BY <1>1, <2>4, <2>5 DEF SameBlock, HeaderSteps, ChecksumSteps
  <2>12. QED
    BY <1>2, <2>1, <2>7, <2>8, <2>10, <2>11, HeaderKeeps
<1>6. QED
  BY <1>4, <1>5

LEMMA ReadFirstChunkKeeps ==
  ASSUME Known, ReadFirstChunk, object' = object
  PROVE  ParserInv'
<1>0. IsCall /\ ParserTypes
  BY KnownCall
<1>1. PICK r : ReadAt("first chunk", ChunkSize, r) /\ ChunkSo(r, WithoutChecksum(r.bytes))
  BY <1>0, ReadFirstChunkSo
<1> DEFINE c == WithoutChecksum(r.bytes)
<1>2. /\ call.at = "first chunk" /\ IsRead(r, ChunkSize) /\ r.bytes \in Seq(0 .. 255)
      /\ offset \in Nat /\ file.bytes \in Seq(0 .. 255) /\ Len(file.bytes) \in Nat
  BY <1>0, <1>1, FileIs DEF ReadAt, IsRead
<1>3. /\ c \in Seq(0 .. 255) /\ Len(c) = Len(r.bytes)
      /\ Len(r.bytes) >= 10 => \A i \in 1 .. Len(r.bytes) : c[i] = IF i \in 7 .. 10 THEN 0 ELSE r.bytes[i]
  BY <1>2, WithoutChecksumIs
<1> HIDE DEF c
<1>4. ASSUME AtStart, ~r.fault \/ Len(c) = ChunkSize
      PROVE  /\ offset + Len(c) \in 10 .. Len(file.bytes)
             /\ CrcUpdate(parser.observed, c) = CrcUpdate(0, SubSeq(Zeroed(file.bytes), 1, offset + Len(c)))
  <2>1. offset = 0 /\ parser.observed = 0
    BY <1>2, <1>4 DEF Known, ParserInv, ChecksumInv
  <2>2. Len(file.bytes) >= 10
    BY <1>2, <1>4 DEF Known, ParserInv, HeaderInv, ChecksumSteps, HeaderAsRead, HasHeader, HeaderSize, Checked
  <2> DEFINE m == Len(r.bytes)
             l == Len(file.bytes)
  <2>3. ChunkSize \in Nat /\ ChunkSize >= 10
    BY BlockFileAssumption
  <2>4. m \in 0 .. ChunkSize /\ (m = 0 \/ offset + m <= l) /\ (m = ChunkSize \/ offset + m >= l)
    BY <1>2, <1>3, <1>4 DEF IsRead
  <2>5. l \in Nat /\ l >= 10
    BY <1>2, <2>2
  <2> HIDE DEF m, l
  <2>6. m \in Nat /\ m >= 10 /\ offset + m <= l /\ offset + m \in 10 .. l /\ offset + m = m
    BY <2>1, <2>3, <2>4, <2>5
  <2>7. \A i \in 1 .. Len(c) : c[i] = IF offset + i \in 7 .. 10 THEN 0 ELSE r.bytes[i]
    BY <1>3, <2>1, <2>6 DEF m
  <2>8. c = SubSeq(Zeroed(file.bytes), offset + 1, offset + Len(c))
    BY <1>0, <1>2, <1>3, <2>3, <2>6, <2>7, ChunkIs DEF m, l
  <2>9. offset + 1 = 1
    BY <2>1
  <2>10. QED
    BY <1>3, <2>1, <2>6, <2>8, <2>9 DEF m, l
<1>5. QED
  BY <1>1, <1>3, <1>4, ChunkKeeps DEF c

LEMMA ReadChunkKeeps ==
  ASSUME Known, ReadChunk, object' = object
  PROVE  ParserInv'
<1>0. IsCall /\ ParserTypes
  BY KnownCall
<1>1. PICK r : ReadAt("chunk", ChunkSize, r) /\ ChunkSo(r, r.bytes)
  BY <1>0, ReadChunkSo
<1> DEFINE c == r.bytes
           m == Len(c)
           l == Len(file.bytes)
<1>2. /\ call.at = "chunk" /\ IsRead(r, ChunkSize) /\ c \in Seq(0 .. 255) /\ m \in Nat
      /\ offset \in Nat /\ file.bytes \in Seq(0 .. 255) /\ l \in Nat
      /\ m = 0 \/ offset + m <= l
  BY <1>0, <1>1, SeqElements DEF ReadAt, IsRead, ParserTypes, Parsers
<1>3. ASSUME AtStart
      PROVE  /\ offset + m \in 10 .. l
             /\ CrcUpdate(parser.observed, c) = CrcUpdate(0, SubSeq(Zeroed(file.bytes), 1, offset + m))
  <2>1. offset \in 10 .. l /\ parser.observed = CrcUpdate(0, SubSeq(Zeroed(file.bytes), 1, offset))
    BY <1>2, <1>3 DEF Known, ParserInv, ChecksumInv
  <2>2. offset + m <= l /\ offset + m \in 10 .. l
    <3> HIDE DEF m, l
    <3>1. QED
      BY <1>2, <2>1
  <2>3. \A i \in 1 .. Len(c) : c[i] = IF offset + i \in 7 .. 10 THEN 0 ELSE r.bytes[i]
    BY <1>2, <2>1
  <2>4. c = SubSeq(Zeroed(file.bytes), offset + 1, offset + m)
    BY <1>0, <1>2, <2>2, <2>3, BlockFileAssumption, ChunkIs
  <2> DEFINE e == offset + m
             z == Zeroed(file.bytes)
  <2>5. z \in Seq(0 .. 255) /\ Len(z) = l
    BY <1>2, ZeroedIs
  <2>6. offset \in 0 .. Len(z) /\ e \in offset .. Len(z) /\ 0 \in Crcs
    <3> HIDE DEF l, m, z
    <3>1. QED
      BY <1>2, <2>1, <2>2, <2>5, BlockFileAssumption
  <2> HIDE DEF z, e
  <2>7. CrcUpdate(CrcUpdate(0, SubSeq(z, 1, offset)), SubSeq(z, offset + 1, e)) = CrcUpdate(0, SubSeq(z, 1, e))
    BY <2>5, <2>6, CrcContinues
  <2>8. QED
    BY <2>1, <2>2, <2>4, <2>7 DEF z, e
<1>4. QED
  BY <1>1, <1>2, <1>3, ChunkKeeps
---------------------------------------------------------------------------
(* The steps that only seek.                                               *)

LEMMA HeaderSizeIs ==
  ASSUME NEW bytes
  PROVE  HeaderSize(bytes) \in {5, 6, 10}
  BY DEF HeaderSize

(* At the first block all blocks are ahead.                                *)
LEMMA AllAhead ==
  Ahead(HeaderSize(file.bytes)) /\ NonePassed(HeaderSize(file.bytes))
  BY DEF Ahead, NonePassed, BlocksOf, BlocksOfType

LEMMA KeepOffsetKeeps ==
  ASSUME Known, KeepOffset, object' = object
  PROVE  ParserInv'
<1>0. IsCall /\ ParserTypes /\ call.fault \in BOOLEAN /\ offset \in Nat
  BY KnownCall DEF ParserTypes, Parsers
<1>1. call.at = "offset" /\ file' = file
  BY DEF KeepOffset
<1>2. call.at \in HeaderSteps /\ call.at \in Steps \ {"length"}
  BY <1>1 DEF HeaderSteps, Steps
<1>3. AtStart => offset = HeaderSize(file.bytes) /\ HeaderAsRead
  BY <1>1 DEF Known, ParserInv, HeaderInv
<1>4. CASE file.source = "pipe"
  <2>1. call' = Returned("EREAD") /\ parser' = parser /\ offset' = offset
    BY <1>4 DEF KeepOffset
  <2>2. Ended("EREAD", FALSE)
    BY <1>0, <2>1, CallDomain DEF IsCall, Ended, Kept, Returned
  <2>3. QED
    BY <1>0, <1>1, <1>2, <2>1, <2>2, FailureKeeps
<1>5. CASE file.source # "pipe"
  <2>1. /\ parser' = [parser EXCEPT !.start_of_first_block = offset, !.observed = 0]
        /\ IF HasChecksum(parser)
             THEN offset' = 0 /\ call' = [call EXCEPT !.at = "first chunk"]
             ELSE offset' = parser'.start_of_first_block /\ call' = [call EXCEPT !.at = "type"]
    BY <1>5 DEF KeepOffset
  <2>2. /\ parser'.observed = 0 /\ parser'.features = parser.features /\ parser'.from = parser.from
        /\ parser'.block = parser.block /\ parser'.placed = parser.placed /\ parser'.open = parser.open
        /\ parser'.expected = parser.expected /\ parser'.start_of_first_block = offset
    BY <1>0, <2>1 DEF ParserTypes, Parsers
  <2>3. SameBlock
    BY <1>1, <2>2 DEF SameBlock
  <2>4. /\ offset' \in Nat
        /\ parser' \in Parsers
    <3>1. offset' \in Nat
      <4>1. offset' = 0 \/ offset' = parser'.start_of_first_block
        BY <2>1
      <4>2. QED
        BY <1>0, <2>2, <4>1
    <3>2. parser' = [parser EXCEPT !.start_of_first_block = offset, !.observed = 0] /\ 0 \in Crcs
      BY <2>1, BlockFileAssumption
    <3> DEFINE p == [parser EXCEPT !.start_of_first_block = offset]
    <3>3. p \in Parsers
      BY <1>0, ParserUpdates DEF ParserTypes
    <3>4. parser' = [p EXCEPT !.observed = 0]
      BY <3>2
    <3> HIDE DEF p
    <3>5. parser' \in Parsers
      BY <3>2, <3>3, <3>4, ParserUpdates
    <3>6. QED
      BY <3>1, <3>5
  <2>5. CASE HasChecksum(parser)
    <3>1. offset' = 0 /\ call' = [call EXCEPT !.at = "first chunk"]
      BY <2>1, <2>5
    <3>2. Went("first chunk", FALSE)
      BY <1>0, <3>1, CallDomain DEF IsCall, Went, Kept
    <3>3. call'.at = "first chunk" /\ call'.type = call.type /\ call'.fault = call.fault
      BY <1>0, <3>1, CallDomain DEF IsCall
    <3>4. ParserTypes'
      BY <1>0, <1>1, <2>4, <3>3 DEF ParserTypes
    <3>5. HeaderInv'
      BY <1>1, <1>3, <2>2, <2>5, <3>3 DEF HeaderInv, ChecksumSteps, AtStart, HeaderAsRead, HasChecksum
    <3>6. ChecksumInv'
      BY <2>2, <3>1, <3>3 DEF ChecksumInv
    <3>7. "first chunk" \in HeaderSteps
      BY DEF HeaderSteps, ChecksumSteps
    <3>8. QED
      BY <1>2, <2>3, <3>2, <3>4, <3>5, <3>6, <3>7, HeaderKeeps
  <2>6. CASE ~HasChecksum(parser)
    <3>1. offset' = offset /\ call' = [call EXCEPT !.at = "type"]
      BY <2>1, <2>2, <2>6
    <3>2. Went("type", FALSE)
      BY <1>0, <3>1, CallDomain DEF IsCall, Went, Kept
    <3>3. call'.type = call.type /\ call'.fault = call.fault
      BY <1>0, <3>1, CallDomain DEF IsCall
    <3>4. ParserTypes'
      BY <1>0, <1>1, <2>4, <3>3 DEF ParserTypes
    <3>5. AtStart => HasHeader(file.bytes) /\ parser'.start_of_first_block = HeaderSize(file.bytes)
      BY <1>3, <2>2 DEF HeaderAsRead
    <3>6. AtStart => Ahead(offset') /\ NonePassed(offset')
      BY <1>3, <3>1, AllAhead
    <3>7. Doing("init")
      BY <1>2 DEF Known, ParserInv, OpsMatch
    <3>8. QED
      BY <1>2, <2>3, <3>2, <3>4, <3>5, <3>6, <3>7, TypeKeeps
  <2>7. QED
    BY <2>5, <2>6
<1>6. QED
  BY <1>4, <1>5

LEMMA CompareKeeps ==
  ASSUME Known, CompareChecksum, object' = object
  PROVE  ParserInv'
<1>0. IsCall /\ ParserTypes /\ call.fault \in BOOLEAN /\ offset \in Nat
  BY KnownCall DEF ParserTypes, Parsers
<1>1. call.at = "compare" /\ file' = file /\ parser' = parser
  BY DEF CompareChecksum
<1>2. call.at \in ChecksumSteps /\ call.at \in HeaderSteps /\ call.at \in Steps \ {"length"}
  BY <1>1 DEF ChecksumSteps, HeaderSteps, Steps
<1>3. AtStart => /\ parser.start_of_first_block = HeaderSize(file.bytes)
                 /\ HeaderAsRead /\ HasChecksum(parser)
  BY <1>2 DEF Known, ParserInv, HeaderInv
<1>4. CASE parser.expected = parser.observed
  <2>1. offset' = parser.start_of_first_block /\ call' = [call EXCEPT !.at = "type"]
    BY <1>4 DEF CompareChecksum
  <2>2. Went("type", FALSE)
    BY <1>0, <2>1, CallDomain DEF IsCall, Went, Kept
  <2>3. call'.type = call.type /\ call'.fault = call.fault
    BY <1>0, <2>1, CallDomain DEF IsCall
  <2>4. ParserTypes'
    <3>1. parser.start_of_first_block \in Nat
      BY <1>0 DEF ParserTypes, Parsers
    <3>2. QED
      BY <1>0, <1>1, <2>1, <2>3, <3>1 DEF ParserTypes
  <2>5. AtStart => HasHeader(file.bytes) /\ parser'.start_of_first_block = HeaderSize(file.bytes)
    BY <1>1, <1>3 DEF HeaderAsRead
  <2>6. AtStart => Ahead(offset') /\ NonePassed(offset')
    BY <1>3, <2>1, AllAhead
  <2>7. Doing("init") /\ SameBlock
    BY <1>1, <1>2 DEF Known, ParserInv, OpsMatch, SameBlock
  <2>8. QED
    BY <1>2, <2>2, <2>4, <2>5, <2>6, <2>7, TypeKeeps
<1>5. CASE parser.expected # parser.observed
  <2>1. call' = Returned("ECORRUPTED") /\ offset' \in Nat
    BY <1>0, <1>5 DEF CompareChecksum, ParserTypes, Parsers
  <2>2. Ended("ECORRUPTED", FALSE)
    BY <1>0, <2>1, CallDomain DEF IsCall, Ended, Kept, Returned
  <2>3. AtStart /\ ~call.fault => ~Sound(file.bytes)
    <3>1. AtStart /\ ~call.fault => parser.observed = Checksum(file.bytes)
      BY <1>1 DEF Known, ParserInv, ChecksumInv
    <3>2. QED
      BY <1>3, <1>5, <3>1 DEF HeaderAsRead, Sound
  <2>4. QED
    BY <1>0, <1>1, <1>2, <2>1, <2>2, <2>3, FailureKeeps
<1>6. QED
  BY <1>4, <1>5

(* A seek to where the header of a block comes next.                       *)
LEMMA SeekKeeps ==
  ASSUME Known, NEW to \in Nat, SeekAndGo(to, "type"), call.at \in {"begin", "skip"},
         UNCHANGED <<file, parser, object>>,
         Doing("rewind") \/ Doing("next") \/ Doing("find"),
         AtStart /\ Follows => Ahead(to),
         AtStart /\ Doing("find") => NonePassed(to)
  PROVE  ParserInv'
<1>0. IsCall /\ ParserTypes /\ call.fault \in BOOLEAN /\ offset \in Nat
  BY KnownCall DEF ParserTypes, Parsers
<1>1. call.at \in Steps \ {"length"}
  BY DEF Steps
<1>2. CASE offset' = to /\ Went("type", FALSE)
  <2>1. call'.type = call.type /\ call'.fault = call.fault
    BY <1>0, <1>2 DEF Went, Kept
  <2>2. ParserTypes'
    BY <1>0, <1>2, <2>1 DEF ParserTypes
  <2>3. PastHeader
    BY DEF PastHeader, Doing
  <2>4. AtStart => HasHeader(file.bytes) /\ parser'.start_of_first_block = HeaderSize(file.bytes)
    BY <2>3 DEF Known, ParserInv, LocatedInv
  <2>5. SameBlock
    BY DEF SameBlock
  <2>6. QED
    BY <1>1, <1>2, <2>2, <2>4, <2>5, TypeKeeps
<1>3. CASE offset' = offset /\ Ended("EREAD", FALSE)
  BY <1>0, <1>1, <1>3, FailureKeeps
<1>4. QED
  BY <1>0, <1>2, <1>3, SeeksSo

LEMMA BeginRewindKeeps ==
  ASSUME Known, BeginRewind, object' = object
  PROVE  ParserInv'
<1>1. /\ call.at = "begin" /\ (Doing("rewind") \/ Doing("find"))
      /\ SeekAndGo(parser.start_of_first_block, "type") /\ UNCHANGED <<file, parser>>
  BY DEF BeginRewind
<1>2. parser.start_of_first_block \in Nat
  BY KnownCall DEF ParserTypes, Parsers
<1>3. AtStart => parser.start_of_first_block = HeaderSize(file.bytes)
  BY <1>1 DEF Known, ParserInv, LocatedInv, PastHeader, Doing
<1>4. QED
  BY <1>1, <1>2, <1>3, AllAhead, SeekKeeps

LEMMA BlockTypes ==
  ASSUME Known
  PROVE  /\ parser.block \in BlockRecords /\ parser.block.type \in 0 .. 255
         /\ parser.block.start \in Nat /\ parser.block.length \in Nat /\ End(parser.block) \in Nat
<1>1. parser.block \in BlockRecords
  BY KnownCall DEF ParserTypes, Parsers, BlockRecords
<1>2. QED
  BY <1>1 DEF BlockRecords, End

LEMMA BeginNextKeeps ==
  ASSUME Known, BeginNext, object' = object
  PROVE  ParserInv'
<1>1. call.at = "begin" /\ Doing("next") /\ UNCHANGED <<file, parser>>
  BY DEF BeginNext
<1>2. CASE IsCurrentBlockValid
  <2>1. SeekAndGo(End(parser.block), "type")
    BY <1>2 DEF BeginNext, End
  <2>2. AtStart /\ Follows => Ahead(End(parser.block))
    BY <1>1, <1>2 DEF Known, ParserInv, PlacedInv, Follows
  <2>3. ~Doing("find")
    BY <1>1 DEF Doing
  <2>4. QED
    BY <1>1, <2>1, <2>2, <2>3, BlockTypes, SeekKeeps
<1>3. CASE ~IsCurrentBlockValid
  <2>0. IsCall /\ call.fault \in BOOLEAN /\ offset \in Nat
    BY KnownCall DEF ParserTypes, Parsers
  <2>1. call' = Returned("EREAD") /\ offset' = offset
    BY <1>3 DEF BeginNext
  <2>2. Ended("EREAD", FALSE)
    BY <2>0, <2>1, CallDomain DEF IsCall, Ended, Kept, Returned
  <2>3. QED
    BY <1>1, <2>0, <2>1, <2>2, FailureKeeps DEF Steps
<1>4. QED
  BY <1>2, <1>3

LEMMA SkipBlockKeeps ==
  ASSUME Known, SkipBlock, object' = object
  PROVE  ParserInv'
<1>1. call.at = "skip" /\ SeekAndGo(End(parser.block), "type") /\ UNCHANGED <<file, parser>>
  BY DEF SkipBlock, End
<1>2. Doing("find")
  BY <1>1 DEF Known, ParserInv, OpsMatch
<1>3. AtStart => Ahead(End(parser.block)) /\ NonePassed(End(parser.block))
  BY <1>1 DEF Known, ParserInv, PlacedInv, SearchInv
<1>4. QED
  BY <1>1, <1>2, <1>3, BlockTypes, SeekKeeps

(* The body of the block is to be read.                                    *)
LEMMA BeginReadKeeps ==
  ASSUME Known, BeginRead, object' = object
  PROVE  ParserInv'
<1>0. IsCall /\ ParserTypes /\ call.fault \in BOOLEAN /\ offset \in Nat
  BY KnownCall DEF ParserTypes, Parsers
<1>1. call.at = "begin" /\ Doing("read") /\ UNCHANGED <<file, parser>>
  BY DEF BeginRead
<1>2. ASSUME offset' = offset, Ended("EREAD", FALSE) PROVE ParserInv'
  BY <1>0, <1>1, <1>2, FailureKeeps DEF Steps
<1>3. ASSUME offset' = parser.block.start, Went("body", FALSE) PROVE ParserInv'
  <2>1. /\ call'.todo = call.todo /\ call'.at = "body" /\ call'.type = call.type
        /\ call'.body = call.body /\ call'.fault = call.fault
    BY <1>0, <1>3 DEF Went, Kept
  <2>2. ParserTypes'
    BY <1>0, <1>1, <1>3, <2>1, BlockTypes DEF ParserTypes
  <2>3. OpsMatch'
    BY <1>1, <2>1 DEF Known, ParserInv, OpsMatch, Doing, HeaderSteps, ChecksumSteps
  <2>4. HeaderInv' /\ ChecksumInv' /\ RejectedInv' /\ SearchInv'
    BY <2>1 DEF HeaderInv, ChecksumInv, ChecksumSteps, RejectedInv, SearchInv
  <2>5. PastHeader /\ ~Doing("init") /\ ~Doing("find")
    BY <1>1 DEF PastHeader, Doing
  <2>6. LocatedInv'
    BY <1>1, <2>5 DEF Known, ParserInv, LocatedInv, AtStart
  <2>7. PlacedInv'
    BY <1>1, <2>1 DEF Known, ParserInv, PlacedInv, AtStart, Ahead, IsCurrentBlockValid
  <2>8. FoundInv'
    BY <1>1, <2>1, <2>5 DEF Known, ParserInv, FoundInv, HasFound, AtStart
  <2>9. call.body = << >>
    BY <1>1, KindsAre DEF Known, ParserInv, BodyInv, Giving, Doing
  <2>10. BodyInv'
    BY <1>1, <1>3, <2>1, <2>9 DEF BodyInv, Giving
  <2>11. QED
    BY <2>2, <2>3, <2>4, <2>6, <2>7, <2>8, <2>10 DEF ParserInv
<1>4. CASE IsCurrentBlockValid
  <2>1. SeekAndGo(parser.block.start, "body")
    BY <1>4 DEF BeginRead
  <2>2. QED
    BY <1>0, <1>2, <1>3, <2>1, SeeksSo
<1>5. CASE ~IsCurrentBlockValid
  <2>1. call' = Returned("EREAD") /\ offset' = offset
    BY <1>5 DEF BeginRead
  <2>2. Ended("EREAD", FALSE)
    BY <1>0, <2>1, CallDomain DEF IsCall, Ended, Kept, Returned
  <2>3. QED
    BY <1>2, <2>1, <2>2
<1>6. QED
  BY <1>4, <1>5
---------------------------------------------------------------------------
(* What is still to do in a call of the parser, or in a load.              *)
LEMMA OpsAre ==
  ASSUME Known, call.todo # << >>
  PROVE  \/ \E op \in ParserOps :
              call.todo = <<op>> /\ (call.type # 0 <=> op = "find") /\ (parser.open <=> op # "init")
         \/ ~parser.open /\ call.type # 0 /\ call.todo \in BeforeMemory \cup WithMemory
<1>1. OpsMatch /\ parser.open \in BOOLEAN
  BY DEF Known, ParserInv, ParserTypes, Parsers
<1>2. QED
  BY <1>1 DEF OpsMatch, ParserOps

(* The lists of a load, by what comes first.                               *)
LEMMA LoadIs ==
  ASSUME NEW t \in BeforeMemory \cup WithMemory
  PROVE  \E kind \in Kinds :
           \/ t = <<"init", "find", "allocate", "read", kind>> /\ Head(t) = "init" /\ Len(t) > 1
                /\ Tail(t) = <<"find", "allocate", "read", kind>> /\ Head(Tail(t)) = "find"
           \/ t = <<"find", "allocate", "read", kind>> /\ Head(t) = "find" /\ Len(t) > 1
                /\ Tail(t) = <<"allocate", "read", kind>> /\ Head(Tail(t)) = "allocate"
           \/ t = <<"allocate", "read", kind>> /\ Head(t) = "allocate" /\ Len(t) > 1
                /\ Tail(t) = <<"read", kind>> /\ Head(Tail(t)) = "read"
           \/ t = <<"read", kind>> /\ Head(t) = "read" /\ Len(t) > 1
                /\ Tail(t) = <<kind>> /\ Head(Tail(t)) = kind
           \/ t = <<kind>> /\ Head(t) = kind /\ ~(Len(t) > 1)
<1>1. PICK kind \in Kinds :
        \/ t = <<"init", "find", "allocate", "read", kind>> \/ t = <<"find", "allocate", "read", kind>>
        \/ t = <<"allocate", "read", kind>> \/ t = <<"read", kind>> \/ t = <<kind>>
  BY DEF BeforeMemory, WithMemory
<1>2. CASE t = <<"init", "find", "allocate", "read", kind>>
  BY <1>2
<1>3. CASE t = <<"find", "allocate", "read", kind>>
  BY <1>3
<1>4. CASE t = <<"allocate", "read", kind>>
  BY <1>4
<1>5. CASE t = <<"read", kind>>
  BY <1>5
<1>6. CASE t = <<kind>>
  BY <1>6
<1>7. QED
  BY <1>1, <1>2, <1>3, <1>4, <1>5, <1>6

(* In the order of the header steps, all that may come first.              *)
LEMMA LoadTail ==
  ASSUME NEW t \in BeforeMemory \cup WithMemory, Len(t) > 1
  PROVE  /\ Tail(t) \in BeforeMemory \cup WithMemory /\ Tail(t) # << >>
         /\ Head(t) = "init" => Head(Tail(t)) = "find"
         /\ Head(t) = "find" => Head(Tail(t)) = "allocate"
         /\ Head(t) = "allocate" => Head(Tail(t)) = "read"
         /\ Head(t) = "read" => Head(Tail(t)) \in Kinds
         /\ Head(t) \notin Kinds
<1>1. PICK kind \in Kinds :
           \/ t = <<"init", "find", "allocate", "read", kind>> /\ Head(t) = "init" /\ Len(t) > 1
                /\ Tail(t) = <<"find", "allocate", "read", kind>> /\ Head(Tail(t)) = "find"
           \/ t = <<"find", "allocate", "read", kind>> /\ Head(t) = "find" /\ Len(t) > 1
                /\ Tail(t) = <<"allocate", "read", kind>> /\ Head(Tail(t)) = "allocate"
           \/ t = <<"allocate", "read", kind>> /\ Head(t) = "allocate" /\ Len(t) > 1
                /\ Tail(t) = <<"read", kind>> /\ Head(Tail(t)) = "read"
           \/ t = <<"read", kind>> /\ Head(t) = "read" /\ Len(t) > 1
                /\ Tail(t) = <<kind>> /\ Head(Tail(t)) = kind
           \/ t = <<kind>> /\ Head(t) = kind /\ ~(Len(t) > 1)
  BY LoadIs
<1>2. Tail(t) \in BeforeMemory \cup WithMemory
  BY <1>1 DEF BeforeMemory, WithMemory
<1>3. Tail(t) # << >>
  BY <1>2, StagesDiffer
<1>4. QED
  BY <1>1, <1>2, <1>3, KindsAre

(* The block that a search has come to is the first of its type, if it is  *)
(* of the type and none was passed.                                        *)
LEMMA FirstOfType ==
  ASSUME NEW bytes \in Seq(0 .. 255), NEW b \in BlocksOf(bytes), NEW type, b.type = type,
         b \in BlockRecords, BlocksOfType(bytes, type) \subseteq {b} \cup Rest(bytes, End(b))
  PROVE  IsFirst(b, bytes, type)
<1>1. b.start \in Nat /\ End(b) \in Nat /\ End(b) >= b.start
  BY DEF BlockRecords, End
<1>2. b \in BlocksOfType(bytes, type)
  BY DEF BlocksOfType
<1>3. ASSUME NEW c \in BlocksOfType(bytes, type) PROVE b.start <= c.start
  <2>1. CASE c = b
    BY <1>1, <2>1
  <2>2. CASE c \in Rest(bytes, End(b))
    <3>1. c \in BlockRecords /\ c.start >= End(b) + 3
      BY <1>1, <2>2, RestIsLater
    <3>2. c.start \in Nat
      BY <3>1 DEF BlockRecords
    <3>3. QED
      BY <1>1, <3>1, <3>2
  <2>3. QED
    BY <2>1, <2>2
<1>4. QED
  BY <1>2, <1>3 DEF IsFirst

(* The parser comes to a block, or to the end of the blocks.               *)
LEMMA PlacedKeeps ==
  ASSUME Known, call.at \in {"type", "length"}, NEW block \in BlockRecords, NEW f \in BOOLEAN,
         PlacedSo(block, f), file' = file, object' = object, offset' \in Nat,
         AtStart /\ block.type = 0 /\ Doing("find") => BlocksOfType(file.bytes, call.type) = {},
         AtStart /\ block.type # 0 /\ Follows => block \in BlocksOf(file.bytes) /\ Ahead(End(block)),
         AtStart /\ block.type # 0 /\ Doing("find") =>
           BlocksOfType(file.bytes, call.type) \subseteq {block} \cup Rest(file.bytes, End(block))
  PROVE  ParserInv'
<1>0. /\ IsCall /\ ParserTypes /\ call.fault \in BOOLEAN /\ file.bytes \in Seq(0 .. 255)
      /\ call.type \in 0 .. 255 /\ call.todo # << >>
  BY KnownCall DEF ParserTypes, Parsers
<1>1. parser' = [parser EXCEPT !.block = block, !.placed = @ \/ ~Doing("next")]
  BY DEF PlacedSo
<1>2. /\ parser'.open = parser.open /\ parser'.block = block /\ parser'.placed = Follows
      /\ parser'.from = parser.from /\ parser'.start_of_first_block = parser.start_of_first_block
  BY <1>0, <1>1 DEF ParserTypes, Parsers, Follows
<1>3. parser' \in Parsers
  <2> DEFINE p == [parser EXCEPT !.block = block]
  <2>1. p \in Parsers
    BY <1>0, ParserUpdates DEF ParserTypes
  <2>2. p.placed = parser.placed /\ Follows \in BOOLEAN
    BY <1>0 DEF ParserTypes, Parsers, Follows
  <2>3. parser' = [p EXCEPT !.placed = Follows]
    BY <1>1, <2>2 DEF Follows
  <2> HIDE DEF p
  <2>4. QED
    BY <2>1, <2>2, <2>3, ParserUpdates
<1>4. call'.type = call.type /\ call'.body = call.body /\ call'.fault = (call.fault \/ f)
  BY DEF PlacedSo, Done, Ended, Went, Kept
<1>5. ParserTypes'
  BY <1>0, <1>3, <1>4 DEF ParserTypes
<1>6. call.body = << >>
  BY KindsAre DEF Known, ParserInv, BodyInv, Giving
<1>7. PastHeader /\ (AtStart => HasHeader(file.bytes) /\ parser.start_of_first_block = HeaderSize(file.bytes))
  BY DEF Known, ParserInv, LocatedInv, PastHeader
<1>8. LocatedInv'
  BY <1>2, <1>7 DEF LocatedInv, AtStart
<1>9. \E op \in {"init", "rewind", "next", "find"} : Doing(op)
  BY DEF Known, ParserInv, OpsMatch
<1>10. Doing("find") => call.type # 0
  <2>1. \A op : Head(<<op>>) = op
    OBVIOUS
  <2>2. QED
    BY <1>0, <2>1, OpsAre DEF Doing
<1>11. Doing("find") => Follows
  BY DEF Doing, Follows
<1>12. CASE Went("skip", f) /\ Doing("find") /\ block.type # call.type /\ block.type # 0
  <2>1. call'.todo = call.todo /\ call'.at = "skip"
    BY <1>12 DEF Went
  <2>2. OpsMatch'
    BY <1>2, <1>4, <1>12, <2>1 DEF Known, ParserInv, OpsMatch, Doing, HeaderSteps, ChecksumSteps
  <2>3. HeaderInv' /\ ChecksumInv' /\ RejectedInv' /\ FoundInv'
    BY <2>1 DEF HeaderInv, ChecksumInv, ChecksumSteps, RejectedInv, FoundInv, HasFound
  <2>4. PlacedInv'
    BY <1>2, <1>11, <1>12, <2>1 DEF PlacedInv, AtStart, Ahead, IsCurrentBlockValid
  <2>5. SearchInv'
    <3>1. AtStart => BlocksOfType(file.bytes, call.type) \subseteq Rest(file.bytes, End(block))
      BY <1>12 DEF BlocksOfType
    <3>2. QED
      BY <1>2, <1>4, <2>1, <3>1 DEF SearchInv, AtStart, NonePassed
  <2>6. BodyInv'
    BY <1>4, <1>6, <2>1 DEF BodyInv, Giving
  <2>7. QED
    BY <1>5, <1>8, <2>2, <2>3, <2>4, <2>5, <2>6 DEF ParserInv
<1>13. CASE Ended("ENOENT", f) /\ Doing("find") /\ block.type = 0
  <2>1. call'.todo = << >> /\ call'.at = "return" /\ call'.result = "ENOENT"
    BY <1>13 DEF Ended
  <2>2. OpsMatch'
    BY <2>1 DEF OpsMatch, HeaderSteps, ChecksumSteps
  <2>3. HeaderInv' /\ ChecksumInv' /\ RejectedInv' /\ SearchInv'
    BY <2>1 DEF HeaderInv, ChecksumInv, ChecksumSteps, RejectedInv, SearchInv
  <2>4. PlacedInv'
    BY <1>2, <1>13, <2>1 DEF PlacedInv, AtStart, Ahead, IsCurrentBlockValid
  <2>5. FoundInv'
    BY <1>2, <1>4, <1>13, <2>1 DEF FoundInv, HasFound, AtStart
  <2>6. BodyInv'
    BY <1>4, <1>6, <2>1 DEF BodyInv, Giving
  <2>7. QED
    BY <1>5, <1>8, <2>2, <2>3, <2>4, <2>5, <2>6 DEF ParserInv
<1>14. ASSUME Doing("find"), block.type = call.type, AtStart PROVE IsFirst(block, file.bytes, call.type)
  BY <1>0, <1>10, <1>11, <1>14, FirstOfType
<1>15. CASE Done(f) /\ (~Doing("find") \/ block.type = call.type)
  <2>1. PlacedInv' /\ SearchInv' /\ HeaderInv' /\ ChecksumInv' /\ RejectedInv'
    <3>1. call'.at = "begin" \/ (call'.at = "return" /\ call'.result = "SUCCESS")
      BY <1>15 DEF Done, Ended
    <3>2. HeaderInv' /\ ChecksumInv' /\ RejectedInv' /\ SearchInv'
      BY <3>1 DEF HeaderInv, ChecksumInv, ChecksumSteps, RejectedInv, SearchInv
    <3>3. PlacedInv'
      BY <1>2, <3>1 DEF PlacedInv, AtStart, Ahead, IsCurrentBlockValid
    <3>4. QED
      BY <3>2, <3>3
  <2>2. CASE Len(call.todo) > 1
    <3>1. call'.todo = Tail(call.todo) /\ call'.at = "begin"
      BY <1>15, <2>2 DEF Done
    <3>2. ~parser.open /\ call.type # 0 /\ call.todo \in BeforeMemory \cup WithMemory
      <4>1. \A op : ~(Len(<<op>>) > 1)
        OBVIOUS
      <4>2. QED
        BY <1>0, <2>2, <4>1, OpsAre
    <3>3. /\ Tail(call.todo) \in BeforeMemory \cup WithMemory /\ Tail(call.todo) # << >>
          /\ Head(call.todo) = "init" => Head(Tail(call.todo)) = "find"
          /\ Head(call.todo) = "find" => Head(Tail(call.todo)) = "allocate"
          /\ Head(call.todo) \notin {"rewind", "next"}
      <4>1. \A t \in BeforeMemory \cup WithMemory : Head(t) \notin {"rewind", "next"}
        BY LoadIs, KindsAre
      <4>2. QED
        BY <2>2, <3>2, <4>1, LoadTail
    <3>4. OpsMatch'
      BY <1>2, <1>4, <3>1, <3>2, <3>3 DEF OpsMatch, HeaderSteps, ChecksumSteps
    <3>5. \/ Doing("init") /\ Head(call'.todo) = "find"
          \/ Doing("find") /\ Head(call'.todo) = "allocate"
      BY <1>9, <3>1, <3>3 DEF Doing
    <3>6. ~Giving'
      BY <3>1, <3>5, KindsAre DEF Giving, Doing
    <3>7. BodyInv'
      BY <1>4, <1>6, <3>1, <3>6 DEF BodyInv
    <3>8. FoundInv'
      <4>1. Doing("init") => Doing("find")'
        BY <3>1, <3>3, <3>5 DEF Doing
      <4>2. AtStart /\ Doing("find") => IsFirst(block, file.bytes, call.type)
        BY <1>14, <1>15
      <4>3. QED
        BY <1>2, <1>4, <3>1, <3>5, <4>1, <4>2 DEF FoundInv, HasFound, AtStart
    <3>9. QED
      BY <1>5, <1>8, <2>1, <3>4, <3>7, <3>8 DEF ParserInv
  <2>3. CASE ~(Len(call.todo) > 1)
    <3>1. call'.todo = << >> /\ call'.at = "return" /\ call'.result = "SUCCESS"
      BY <1>15, <2>3 DEF Done, Ended
    <3>2. call.type # 0 => Doing("find") /\ parser.open
      <4>1. CASE call.todo \in BeforeMemory \cup WithMemory
        BY <1>9, <2>3, <4>1, LoadIs, KindsAre DEF Doing
      <4>2. CASE \E op \in ParserOps :
                   call.todo = <<op>> /\ (call.type # 0 <=> op = "find") /\ (parser.open <=> op # "init")
        <5>1. \A op : <<op>> # << >> /\ Head(<<op>>) = op
          OBVIOUS
        <5>2. QED
          BY <4>2, <5>1 DEF Doing
      <4>3. QED
        BY <1>0, <4>1, <4>2, OpsAre
    <3>3. OpsMatch'
      BY <3>1 DEF OpsMatch, HeaderSteps, ChecksumSteps
    <3>4. BodyInv'
      BY <1>2, <1>4, <1>6, <3>1, <3>2 DEF BodyInv, Giving
    <3>5. FoundInv'
      <4>1. AtStart /\ call.type # 0 => IsFirst(block, file.bytes, call.type)
        BY <1>14, <1>15, <3>2
      <4>2. QED
        BY <1>2, <1>4, <3>1, <4>1 DEF FoundInv, HasFound, AtStart
    <3>6. QED
      BY <1>5, <1>8, <2>1, <3>3, <3>4, <3>5 DEF ParserInv
  <2>4. QED
    BY <2>2, <2>3
<1>16. QED
  BY <1>12, <1>13, <1>15 DEF PlacedSo
---------------------------------------------------------------------------
(* The header of a block is read.                                          *)

LEMMA AtType ==
  ASSUME Known, call.at \in {"type", "length"}
  PROVE  /\ call.body = << >> /\ PastHeader
         /\ AtStart => HasHeader(file.bytes) /\ parser.start_of_first_block = HeaderSize(file.bytes)
<1>1. call.body = << >>
  BY KindsAre DEF Known, ParserInv, BodyInv, Giving
<1>2. QED
  BY <1>1 DEF Known, ParserInv, LocatedInv, PastHeader

LEMMA ReadTypeKeeps ==
  ASSUME Known, ReadType, object' = object
  PROVE  ParserInv'
<1>0. IsCall /\ ParserTypes
  BY KnownCall
<1>1. PICK r : /\ ReadAt("type", 1, r)
               /\ IF r.error THEN Ended("EREAD", r.fault) /\ parser' = parser
                  ELSE IF r.bytes = << >> THEN PlacedSo(NoBlockHere, r.fault)
                  ELSE Went("length", r.fault) /\ parser' = [parser EXCEPT !.block.type = r.bytes[1]]
  BY <1>0, ReadTypeSo
<1>2. /\ call.at = "type" /\ IsRead(r, 1) /\ file' = file
      /\ offset' = offset + Len(r.bytes) /\ offset' \in Nat
      /\ r.fault \in BOOLEAN /\ r.error \in BOOLEAN /\ r.bytes \in Seq(0 .. 255)
      /\ Len(r.bytes) \in 0 .. 1
  BY <1>1 DEF ReadAt, IsRead
<1>3. file.bytes \in Seq(0 .. 255) /\ Len(file.bytes) \in Nat /\ offset \in Nat
  BY <1>0, FileIs
<1>4. CASE r.error
  BY <1>1, <1>2, <1>4, FailureKeeps DEF Steps
<1>5. CASE ~r.error /\ r.bytes = << >>
  <2>1. PlacedSo(NoBlockHere, r.fault)
    BY <1>1, <1>5
  <2>2. offset >= Len(file.bytes)
    <3>1. ~r.fault
      BY <1>2, <1>5 DEF IsRead
    <3>2. Len(r.bytes) = 1 \/ offset + Len(r.bytes) >= Len(file.bytes)
      BY <1>2, <3>1 DEF IsRead
    <3>3. Len(r.bytes) = 0
      BY <1>5
    <3> HIDE <1>5
    <3>4. QED
      BY <1>3, <3>2, <3>3
  <2>3. ~IsBlockAt(file.bytes, offset)
    BY <1>3, <2>2 DEF IsBlockAt
  <2>4. Rest(file.bytes, offset) = {}
    BY <1>3, <2>3, RestUnfolds
  <2>5. AtStart /\ Doing("find") => BlocksOfType(file.bytes, call.type) = {}
    BY <1>2, <2>4 DEF Known, ParserInv, SearchInv, NonePassed
  <2>6. NoBlockHere \in BlockRecords /\ NoBlockHere.type = 0
    BY DEF NoBlockHere, BlockRecords
  <2>7. QED
    BY <1>2, <2>1, <2>5, <2>6, PlacedKeeps
<1>6. CASE ~r.error /\ r.bytes # << >>
  <2> DEFINE t == r.bytes[1]
             block == [parser.block EXCEPT !.type = t]
  <2>1. Went("length", r.fault) /\ parser' = [parser EXCEPT !.block.type = t]
    BY <1>1, <1>6
  <2>2. Len(r.bytes) = 1
    BY <1>2, <1>6
  <2>3. /\ t = file.bytes[offset + 1] /\ t \in 0 .. 255 /\ offset' = offset + 1
        /\ offset + 1 \in 1 .. Len(file.bytes)
    <3>1. 1 \in 1 .. Len(r.bytes) /\ 1 \in Nat
      BY <2>2
    <3>2. r.bytes[1] = file.bytes[offset + 1] /\ r.bytes[1] \in 0 .. 255 /\ offset + 1 \in 1 .. Len(file.bytes)
      BY <1>0, <1>2, <3>1, ByteRead
    <3>3. QED
      BY <1>2, <2>2, <3>2
  <2> HIDE DEF t
  <2>4. block \in BlockRecords /\ block.type = t
    BY <1>0, <2>3 DEF ParserTypes, Parsers, BlockRecords
  <2>5. parser' = [parser EXCEPT !.block = block]
    BY <2>1
  <2> HIDE DEF block
  <2>6. /\ parser'.open = parser.open /\ parser'.block = block /\ parser'.placed = parser.placed
        /\ parser'.from = parser.from /\ parser'.start_of_first_block = parser.start_of_first_block
    BY <1>0, <2>5 DEF ParserTypes, Parsers
  <2>7. /\ call'.todo = call.todo /\ call'.at = "length" /\ call'.type = call.type
        /\ call'.body = call.body /\ call'.fault = (call.fault \/ r.fault)
    BY <2>1 DEF Went, Kept
  <2>8. ParserTypes'
    <3>1. parser' \in Parsers
      BY <1>0, <2>4, <2>5, ParserUpdates DEF ParserTypes
    <3>2. QED
      BY <1>0, <1>2, <2>7, <3>1 DEF ParserTypes
  <2>9. OpsMatch'
    BY <1>2, <2>6, <2>7 DEF Known, ParserInv, OpsMatch, Doing, HeaderSteps, ChecksumSteps
  <2>10. HeaderInv' /\ ChecksumInv' /\ RejectedInv' /\ FoundInv'
    BY <2>7 DEF HeaderInv, ChecksumInv, ChecksumSteps, RejectedInv, FoundInv, HasFound
  <2>11. LocatedInv'
    BY <1>2, <2>6, AtType DEF LocatedInv, AtStart
  <2>12. offset' - 1 = offset /\ offset' \in 1 .. Len(file.bytes) /\ block.type = file.bytes[offset']
    BY <1>3, <2>3, <2>4
  <2>13. AtStart => /\ Follows => Ahead(offset)
                    /\ Doing("find") => NonePassed(offset)
    BY <1>2 DEF Known, ParserInv, PlacedInv, SearchInv
  <2>14. PlacedInv'
    BY <1>2, <2>6, <2>7, <2>12, <2>13 DEF PlacedInv, AtStart, Ahead, Follows, Doing
  <2>15. SearchInv'
    BY <1>2, <2>6, <2>7, <2>12, <2>13 DEF SearchInv, AtStart, NonePassed, Doing
  <2>16. BodyInv'
    BY <1>2, <2>7, AtType DEF BodyInv, Giving
  <2>17. QED
    BY <2>8, <2>9, <2>10, <2>11, <2>14, <2>15, <2>16 DEF ParserInv
<1>7. QED
  BY <1>2, <1>4, <1>5, <1>6

LEMMA ReadLengthKeeps ==
  ASSUME Known, ReadLength, object' = object
  PROVE  ParserInv'
<1>0. IsCall /\ ParserTypes /\ call.fault \in BOOLEAN
  BY KnownCall
<1> DEFINE newBlock(r) == [parser.block EXCEPT !.length = Word(r.bytes), !.start = offset + 2]
<1>1. PICK r : /\ ReadAt("length", 2, r)
               /\ IF Len(r.bytes) # 2
                    THEN Ended("EREAD", r.fault) /\ parser' = [parser EXCEPT !.placed = FALSE]
                    ELSE PlacedSo(newBlock(r), r.fault)
  BY <1>0, ReadLengthSo
<1>2. /\ call.at = "length" /\ IsRead(r, 2) /\ file' = file
      /\ offset' = offset + Len(r.bytes) /\ offset' \in Nat
      /\ r.fault \in BOOLEAN /\ r.bytes \in Seq(0 .. 255)
  BY <1>1 DEF ReadAt, IsRead
<1>3. file.bytes \in Seq(0 .. 255) /\ Len(file.bytes) \in Nat /\ offset \in Nat
  BY <1>0, FileIs
<1>4. CASE Len(r.bytes) # 2
  <2>1. Ended("EREAD", r.fault) /\ parser' = [parser EXCEPT !.placed = FALSE]
    BY <1>1, <1>4
  <2>2. /\ call'.todo = << >> /\ call'.at = "return" /\ call'.result = "EREAD"
        /\ call'.type = call.type /\ call'.body = call.body /\ call'.fault = (call.fault \/ r.fault)
    BY <2>1 DEF Ended, Kept
  <2>3. /\ parser'.open = parser.open /\ parser'.placed = FALSE /\ parser'.from = parser.from
        /\ parser'.start_of_first_block = parser.start_of_first_block
    BY <1>0, <2>1 DEF ParserTypes, Parsers
  <2>4. ParserTypes'
    <3> DEFINE no == FALSE
    <3>1. no \in BOOLEAN
      BY Zenon
    <3>2. parser' = [parser EXCEPT !.placed = no]
      BY <2>1
    <3> HIDE DEF no
    <3>3. parser' \in Parsers
      BY <1>0, <3>1, <3>2, ParserUpdates DEF ParserTypes
    <3>4. call'.fault \in BOOLEAN /\ call'.type \in 0 .. 255
      BY <1>0, <1>2, <2>2 DEF ParserTypes, Parsers
    <3>5. QED
      BY <1>2, <1>3, <3>3, <3>4 DEF ParserTypes
  <2>5. OpsMatch' /\ HeaderInv' /\ ChecksumInv' /\ RejectedInv' /\ SearchInv' /\ FoundInv'
    BY <2>2 DEF OpsMatch, HeaderSteps, ChecksumSteps, HeaderInv, ChecksumInv, RejectedInv, SearchInv,
                FoundInv, HasFound
  <2>6. LocatedInv'
    BY <1>2, <2>3, AtType DEF LocatedInv, AtStart
  <2>7. PlacedInv'
    BY <2>2, <2>3 DEF PlacedInv
  <2>8. BodyInv'
    BY <1>2, <2>2, AtType DEF BodyInv, Giving
  <2>9. QED
    BY <2>4, <2>5, <2>6, <2>7, <2>8 DEF ParserInv
<1>5. CASE Len(r.bytes) = 2
  <2> DEFINE w == Word(r.bytes)
             block == newBlock(r)
             at == offset - 1
             F == file.bytes
  <2>1. PlacedSo(block, r.fault)
    BY <1>1, <1>5
  <2>2. w \in Nat
    <3>1. Len(r.bytes) >= 2
      BY <1>5
    <3>2. QED
      BY <1>2, <3>1, WordType
  <2>3. r.bytes = SubSeq(F, offset + 1, offset + 2) /\ offset + 2 <= Len(F)
    <3>1. r.bytes = SubSeq(F, offset + 1, offset + Len(r.bytes))
          /\ (Len(r.bytes) = 0 \/ offset + Len(r.bytes) <= Len(F))
      BY <1>2 DEF IsRead
    <3>2. QED
      BY <1>5, <3>1
  <2>4. w = Word(SubSeq(F, offset + 1, offset + 2))
    BY <2>3
  <2> HIDE DEF w
  <2>5. /\ block \in BlockRecords
        /\ block = [type |-> parser.block.type, length |-> w, start |-> offset + 2]
    <3> DEFINE old == parser.block
               mid == [old EXCEPT !.length = w]
               new == [mid EXCEPT !.start = offset + 2]
    <3>1. old \in BlockRecords /\ offset + 2 \in Nat
      BY <1>3, BlockTypes
    <3>2. block = new
      BY DEF w
    <3> HIDE DEF old, block
    <3>3. mid \in BlockRecords /\ mid.type = old.type /\ mid.length = w
      BY <2>2, <3>1 DEF BlockRecords
    <3> HIDE DEF mid
    <3>4. new \in BlockRecords /\ new.type = old.type /\ new.length = w /\ new.start = offset + 2
      BY <3>1, <3>3 DEF BlockRecords
    <3> HIDE DEF new
    <3>5. new = [type |-> old.type, length |-> w, start |-> offset + 2]
      BY <3>4 DEF BlockRecords
    <3>6. QED
      BY <3>2, <3>4, <3>5 DEF old
  <2>6. block.type = parser.block.type
    BY <2>5
  <2> HIDE DEF block, newBlock
  <2>7. ASSUME AtStart
        PROVE  /\ at \in Nat /\ offset \in 1 .. Len(F)
               /\ block.type = 0 => Rest(F, at) = {}
               /\ block.type # 0 => Rest(F, at) = {block} \cup Rest(F, End(block))
    <3>1. offset \in 1 .. Len(F) /\ block.type = F[offset]
      BY <1>2, <2>6, <2>7 DEF Known, ParserInv, PlacedInv
    <3>2. at \in Nat /\ at + 1 = offset /\ at + 2 = offset + 1 /\ at + 3 = offset + 2
      BY <1>3, <3>1
    <3> HIDE DEF at
    <3>3. IsBlockAt(F, at) <=> block.type # 0
      BY <2>3, <3>1, <3>2 DEF IsBlockAt
    <3>4. BlockAt(F, at) = block
      BY <2>4, <2>5, <2>6, <3>1, <3>2 DEF BlockAt
    <3>5. QED
      BY <1>3, <3>1, <3>2, <3>3, <3>4, RestUnfolds
  <2>8. AtStart => /\ Follows => Ahead(at)
                   /\ Doing("find") => NonePassed(at)
    BY <1>2 DEF Known, ParserInv, PlacedInv, SearchInv
  <2> HIDE DEF at
  <2>9. AtStart /\ block.type = 0 /\ Doing("find") => BlocksOfType(F, call.type) = {}
    BY <2>7, <2>8 DEF NonePassed
  <2>10. AtStart /\ block.type # 0 /\ Follows => block \in BlocksOf(F) /\ Ahead(End(block))
    BY <2>7, <2>8 DEF Ahead
  <2>11. AtStart /\ block.type # 0 /\ Doing("find") =>
           BlocksOfType(F, call.type) \subseteq {block} \cup Rest(F, End(block))
    BY <2>7, <2>8 DEF NonePassed
  <2>12. QED
    BY <1>2, <2>1, <2>5, <2>9, <2>10, <2>11, PlacedKeeps
<1>6. QED
  BY <1>4, <1>5
---------------------------------------------------------------------------
(* The body of a block is read, and given to the object.                   *)

LEMMA ReadBodyKeeps ==
  ASSUME Known, ReadBody, object' = object
  PROVE  ParserInv'
<1>0. IsCall /\ ParserTypes /\ call.fault \in BOOLEAN
  BY KnownCall
<1> DEFINE n == parser.block.length
<1>1. PICK r : /\ ReadAt("body", n, r) /\ parser' = parser
               /\ IF r.error \/ Len(r.bytes) # n THEN Ended("EREAD", r.fault)
                  ELSE /\ call'.type = call.type /\ call'.body = r.bytes
                       /\ call'.fault = (call.fault \/ r.fault)
                       /\ IF Len(call.todo) > 1
                            THEN call'.todo = Tail(call.todo) /\ call'.at = "begin"
                            ELSE call'.todo = << >> /\ call'.at = "return" /\ call'.result = "SUCCESS"
  BY <1>0, ReadBodySo
<1>2. /\ call.at = "body" /\ IsRead(r, n) /\ file' = file /\ parser' = parser
      /\ offset' = offset + Len(r.bytes) /\ offset' \in Nat
      /\ r.fault \in BOOLEAN /\ r.bytes \in Seq(0 .. 255)
  BY <1>1 DEF ReadAt, IsRead
<1>3. CASE r.error \/ Len(r.bytes) # n
  BY <1>1, <1>2, <1>3, FailureKeeps DEF Steps
<1>4. CASE ~(r.error \/ Len(r.bytes) # n)
  <2>1. /\ call'.type = call.type /\ call'.body = r.bytes
        /\ call'.fault = (call.fault \/ r.fault)
        /\ IF Len(call.todo) > 1
             THEN call'.todo = Tail(call.todo) /\ call'.at = "begin"
             ELSE call'.todo = << >> /\ call'.at = "return" /\ call'.result = "SUCCESS"
    BY <1>1, <1>4
  <2>2. HasBody(r.bytes)
    <3>1. r.bytes = SubSeq(file.bytes, offset + 1, offset + Len(r.bytes)) /\ Len(r.bytes) = n
      BY <1>2, <1>4 DEF IsRead
    <3>2. offset = parser.block.start
      BY <1>2 DEF Known, ParserInv, BodyInv
    <3>3. QED
      BY <3>1, <3>2 DEF HasBody, Body, End
  <2>3. Doing("read") /\ PastHeader /\ (call.type # 0 => HasFound)
    BY <1>2 DEF Known, ParserInv, OpsMatch, PastHeader, HasFound
  <2>4. ParserTypes'
    BY <1>0, <1>2, <2>1 DEF ParserTypes
  <2>5. call'.at = "begin" \/ (call'.at = "return" /\ call'.result = "SUCCESS")
    BY <2>1
  <2>6. HeaderInv' /\ ChecksumInv' /\ RejectedInv' /\ SearchInv'
    BY <2>5 DEF HeaderInv, ChecksumInv, ChecksumSteps, RejectedInv, SearchInv
  <2>7. LocatedInv'
    BY <1>2, <2>3 DEF Known, ParserInv, LocatedInv, AtStart
  <2>8. PlacedInv'
    BY <1>2, <2>5 DEF Known, ParserInv, PlacedInv, AtStart, Ahead, IsCurrentBlockValid
  <2>9. FoundInv'
    <3>1. AtStart /\ call.type # 0 => IsFirst(parser.block, file.bytes, call.type)
      BY <2>3 DEF Known, ParserInv, FoundInv
    <3>2. QED
      BY <1>2, <2>1, <2>5, <3>1 DEF FoundInv, HasFound, AtStart
  <2>10. call'.body = Body(parser'.block, file'.bytes) /\ Len(call'.body) = parser'.block.length
    BY <1>2, <2>1, <2>2 DEF HasBody
  <2>11. CASE Len(call.todo) > 1
    <3>1. call'.todo = Tail(call.todo) /\ call'.at = "begin"
      BY <2>1, <2>11
    <3>2. ~parser.open /\ call.type # 0 /\ call.todo \in BeforeMemory \cup WithMemory
      <4>1. \A op : ~(Len(<<op>>) > 1)
        OBVIOUS
      <4>2. QED
        BY <2>3, <2>11, <4>1, OpsAre DEF Doing
    <3>3. /\ Tail(call.todo) \in BeforeMemory \cup WithMemory /\ Tail(call.todo) # << >>
          /\ Head(Tail(call.todo)) \in Kinds
      BY <2>3, <2>11, <3>2, LoadTail DEF Doing
    <3>4. Giving'
      BY <3>1, <3>3 DEF Giving, Doing
    <3>5. OpsMatch'
      BY <1>2, <2>1, <3>1, <3>2, <3>3 DEF OpsMatch, HeaderSteps, ChecksumSteps
    <3>6. BodyInv'
      BY <2>10, <3>1, <3>4 DEF BodyInv, HasBody
    <3>7. QED
      BY <2>4, <2>6, <2>7, <2>8, <2>9, <3>5, <3>6 DEF ParserInv
  <2>12. CASE ~(Len(call.todo) > 1)
    <3>1. call'.todo = << >> /\ call'.at = "return" /\ call'.result = "SUCCESS"
      BY <2>1, <2>12
    <3>2. parser.open
      <4>1. call.todo \notin BeforeMemory \cup WithMemory
        BY <2>3, <2>12, LoadIs, KindsAre DEF Doing
      <4>2. PICK op \in ParserOps : call.todo = <<op>> /\ (parser.open <=> op # "init")
        BY <2>3, <4>1, OpsAre DEF Doing
      <4>3. op = "read"
        <5>1. Head(<<op>>) = op
          OBVIOUS
        <5>2. QED
          BY <2>3, <4>2, <5>1 DEF Doing
      <4>4. QED
        BY <4>2, <4>3
    <3>3. OpsMatch'
      BY <3>1 DEF OpsMatch, HeaderSteps, ChecksumSteps
    <3>4. BodyInv'
      BY <1>2, <2>10, <3>1, <3>2 DEF BodyInv, Giving, HasBody
    <3>5. QED
      BY <2>4, <2>6, <2>7, <2>8, <2>9, <3>3, <3>4 DEF ParserInv
  <2>13. QED
    BY <2>11, <2>12
<1>5. QED
  BY <1>3, <1>4

(* In a load, after the search: what is still to do, and the block found.  *)
LEMMA LoadHasFound ==
  ASSUME Known, call.at = "begin", NEW op \in {"allocate"} \cup Kinds, Doing(op)
  PROVE  /\ ~parser.open /\ call.type # 0 /\ call.todo \in BeforeMemory \cup WithMemory
         /\ Head(call.todo) = op /\ call.todo # << >>
         /\ PastHeader /\ HasFound
<1>1. Head(call.todo) = op /\ call.todo # << >>
  BY DEF Doing
<1>2. \A o \in ParserOps : call.todo # <<o>>
  <2>1. ASSUME NEW o \in ParserOps, call.todo = <<o>> PROVE FALSE
    <3>1. Head(<<o>>) = o
      OBVIOUS
    <3>2. QED
      BY <1>1, <2>1, <3>1, KindsAre DEF ParserOps
  <2>2. QED
    BY <2>1
<1>3. ~parser.open /\ call.type # 0 /\ call.todo \in BeforeMemory \cup WithMemory
  BY <1>1, <1>2, OpsAre
<1>4. ~Doing("init") /\ ~Doing("find")
  BY <1>1, KindsAre DEF Doing
<1>5. QED
  BY <1>1, <1>3, <1>4 DEF PastHeader, HasFound

LEMMA AllocateKeeps ==
  ASSUME Known, Allocate
  PROVE  ParserInv'
<1>0. IsCall /\ ParserTypes /\ call.fault \in BOOLEAN /\ offset \in Nat
  BY KnownCall DEF ParserTypes, Parsers
<1>1. call.at = "begin" /\ Doing("allocate") /\ UNCHANGED <<file, offset, parser, object>>
  BY DEF Allocate
<1>2. /\ ~parser.open /\ call.type # 0 /\ call.todo \in BeforeMemory \cup WithMemory
      /\ Head(call.todo) = "allocate" /\ call.todo # << >> /\ PastHeader /\ HasFound
  BY <1>1, LoadHasFound
<1>3. /\ Len(call.todo) > 1 /\ Tail(call.todo) \in BeforeMemory \cup WithMemory
      /\ Tail(call.todo) # << >> /\ Head(Tail(call.todo)) = "read"
  <2>1. Len(call.todo) > 1
    BY <1>2, LoadIs, KindsAre
  <2>2. QED
    BY <1>2, <2>1, LoadTail
<1>4. PICK block \in {NoBlock} \cup (Blocks \ heap) :
        IF block = NoBlock
          THEN call' = Returned("ENOMEM") /\ UNCHANGED heap
          ELSE heap' = heap \cup {block} /\ call' = [Succeeded EXCEPT !.held = {block}]
  BY DEF Allocate
<1>5. CASE block = NoBlock
  <2>1. Ended("ENOMEM", FALSE)
    BY <1>0, <1>4, <1>5, CallDomain DEF IsCall, Ended, Kept, Returned
  <2>2. QED
    BY <1>0, <1>1, <2>1, FailureKeeps DEF Steps
<1>6. CASE block # NoBlock
  <2>1. /\ call'.todo = Tail(call.todo) /\ call'.at = "begin"
        /\ call'.type = call.type /\ call'.body = call.body /\ call'.fault = call.fault
    BY <1>0, <1>3, <1>4, <1>6, CallDomain DEF IsCall, Succeeded
  <2>2. ParserTypes'
    BY <1>0, <1>1, <2>1 DEF ParserTypes
  <2>3. OpsMatch'
    BY <1>1, <1>2, <1>3, <2>1 DEF OpsMatch, HeaderSteps, ChecksumSteps
  <2>4. HeaderInv' /\ ChecksumInv' /\ RejectedInv' /\ SearchInv'
    BY <2>1 DEF HeaderInv, ChecksumInv, ChecksumSteps, RejectedInv, SearchInv
  <2>5. LocatedInv'
    BY <1>1, <1>2 DEF Known, ParserInv, LocatedInv, AtStart
  <2>6. PlacedInv'
    BY <1>1, <2>1 DEF Known, ParserInv, PlacedInv, AtStart, Ahead, IsCurrentBlockValid
  <2>7. FoundInv'
    BY <1>1, <1>2, <2>1 DEF Known, ParserInv, FoundInv, AtStart
  <2>8. call.body = << >>
    BY <1>1, KindsAre DEF Known, ParserInv, BodyInv, Giving, Doing
  <2>9. ~Giving'
    BY <1>3, <2>1, KindsAre DEF Giving, Doing
  <2>10. BodyInv'
    BY <2>1, <2>8, <2>9 DEF BodyInv
  <2>11. QED
    BY <2>2, <2>3, <2>4, <2>5, <2>6, <2>7, <2>10 DEF ParserInv
<1>7. QED
  BY <1>5, <1>6

LEMMA TakeOwnershipKeeps ==
  ASSUME Known, TakeOwnership
  PROVE  ParserInv'
<1>0. IsCall /\ ParserTypes /\ call.fault \in BOOLEAN /\ offset \in Nat
  BY KnownCall DEF ParserTypes, Parsers
<1>1. call.at = "begin" /\ UNCHANGED <<file, offset, parser>>
  BY DEF TakeOwnership
<1>2. PICK kind \in Kinds : Doing(kind)
  BY DEF TakeOwnership
<1>3. /\ ~parser.open /\ call.type # 0 /\ call.todo \in BeforeMemory \cup WithMemory
      /\ Head(call.todo) = kind /\ PastHeader /\ HasFound
  BY <1>1, <1>2, LoadHasFound
<1>4. ~(Len(call.todo) > 1)
  BY <1>3, LoadTail
<1>5. CASE Doing("trajectory") /\ call.body = << >>
  <2>1. call' = Returned("EINVAL") /\ object' = object
    BY <1>5 DEF TakeOwnership
  <2>2. Ended("EINVAL", FALSE)
    BY <1>0, <2>1, CallDomain DEF IsCall, Ended, Kept, Returned
  <2>3. QED
    BY <1>0, <1>1, <2>1, <2>2, FailureKeeps DEF Steps
<1>6. CASE ~(Doing("trajectory") /\ call.body = << >>)
  <2>1. object'.bytes = call.body /\ call' = [Returned("SUCCESS") EXCEPT !.held = {}]
    BY <1>4, <1>6 DEF TakeOwnership, Succeeded
  <2>2. /\ call'.todo = << >> /\ call'.at = "return" /\ call'.result = "SUCCESS"
        /\ call'.type = call.type /\ call'.body = call.body /\ call'.fault = call.fault
    BY <1>0, <2>1, CallDomain DEF IsCall, Returned
  <2>3. ParserTypes'
    BY <1>0, <1>1, <2>2 DEF ParserTypes
  <2>4. OpsMatch' /\ HeaderInv' /\ ChecksumInv' /\ RejectedInv' /\ SearchInv'
    BY <2>2 DEF OpsMatch, HeaderSteps, ChecksumSteps, HeaderInv, ChecksumInv, RejectedInv, SearchInv
  <2>5. LocatedInv'
    BY <1>1, <1>3 DEF Known, ParserInv, LocatedInv, AtStart
  <2>6. PlacedInv'
    BY <1>1, <2>2 DEF Known, ParserInv, PlacedInv, AtStart, Ahead, IsCurrentBlockValid
  <2>7. FoundInv'
    BY <1>1, <1>3, <2>2 DEF Known, ParserInv, FoundInv, AtStart
  <2>8. HasBody(call.body)
    BY <1>1, <1>2 DEF Known, ParserInv, BodyInv, Giving
  <2>9. BodyInv'
    BY <1>1, <2>1, <2>2, <2>8 DEF BodyInv, Giving, HasBody
  <2>10. QED
    BY <2>3, <2>4, <2>5, <2>6, <2>7, <2>9 DEF ParserInv
<1>7. QED
  BY <1>5, <1>6
---------------------------------------------------------------------------
(* A call begins, and returns.                                             *)

LEMMA AskKeeps ==
  ASSUME Known, NEW todo, NEW type \in 0 .. 255, Ask(todo, type), todo # << >>,
         Head(todo) \in ParserOps,
         IF parser.open
           THEN todo \in (IF type = 0 THEN {<<"rewind">>, <<"next">>, <<"read">>} ELSE {<<"find">>})
           ELSE todo \in (IF type = 0 THEN {<<"init">>} ELSE BeforeMemory \cup WithMemory) /\ Head(todo) = "init"
  PROVE  ParserInv'
<1>1. Quiet /\ UNCHANGED <<file, offset, parser, object>>
  BY DEF Ask
<1>2. /\ call'.todo = todo /\ call'.at = "begin" /\ call'.type = type
      /\ call'.body = << >> /\ call'.fault = FALSE
  <2>1. call' = [Idle EXCEPT !.todo = todo, !.at = "begin", !.type = type]
    BY DEF Ask
  <2>2. QED
    BY <2>1, CallDomain DEF Idle
<1>3. ParserTypes'
  BY <1>1, <1>2, KnownCall DEF ParserTypes
<1>4. OpsMatch'
  BY <1>1, <1>2 DEF OpsMatch, HeaderSteps, ChecksumSteps
<1>5. HeaderInv' /\ ChecksumInv' /\ RejectedInv' /\ SearchInv'
  BY <1>2 DEF HeaderInv, ChecksumInv, ChecksumSteps, RejectedInv, SearchInv
<1>6. PastHeader' => PastHeader
  BY <1>1, <1>2 DEF PastHeader, Doing
<1>7. LocatedInv'
  BY <1>1, <1>6 DEF Known, ParserInv, LocatedInv, AtStart
<1>8. PlacedInv'
  BY <1>1, <1>2 DEF Known, ParserInv, PlacedInv, AtStart, Ahead, IsCurrentBlockValid, Quiet
<1>9. ~HasFound'
  <2>1. type # 0 => Head(todo) \in {"init", "find"}
    <3>1. Head(<<"find">>) = "find"
      OBVIOUS
    <3>2. QED
      BY <3>1
  <2>2. QED
    BY <1>2, <2>1 DEF HasFound, Doing
<1>10. FoundInv'
  BY <1>2, <1>9 DEF FoundInv
<1>11. BodyInv'
  BY <1>2, KindsAre DEF BodyInv, Giving, Doing, ParserOps
<1>12. QED
  BY <1>3, <1>4, <1>5, <1>7, <1>8, <1>10, <1>11 DEF ParserInv

LEMMA BeginsKeep ==
  ASSUME Known, Open \/ AskParser \/ Find \/ (\E kind \in Kinds : Load(kind))
  PROVE  ParserInv'
<1>0. \A op : Head(<<op>>) = op /\ <<op>> # << >>
  OBVIOUS
<1>1. CASE Open
  <2>1. Ask(<<"init">>, 0) /\ ~parser.open
    BY <1>1 DEF Open
  <2>2. Head(<<"init">>) \in ParserOps /\ <<"init">> # << >> /\ Head(<<"init">>) = "init" /\ 0 \in 0 .. 255
    BY <1>0 DEF ParserOps
  <2>3. IF parser.open
          THEN <<"init">> \in (IF 0 = 0 THEN {<<"rewind">>, <<"next">>, <<"read">>} ELSE {<<"find">>})
          ELSE /\ <<"init">> \in (IF 0 = 0 THEN {<<"init">>} ELSE BeforeMemory \cup WithMemory)
               /\ Head(<<"init">>) = "init"
    BY <2>1, <2>2
  <2>4. QED
    BY <2>1, <2>2, <2>3, AskKeeps
<1>2. CASE AskParser
  <2>1. PICK op \in {"rewind", "next", "read"} : Ask(<<op>>, 0) /\ parser.open
    BY <1>2 DEF AskParser
  <2>2. Head(<<op>>) \in ParserOps /\ <<op>> # << >> /\ 0 \in 0 .. 255
    BY <1>0 DEF ParserOps
  <2>3. IF parser.open
          THEN <<op>> \in (IF 0 = 0 THEN {<<"rewind">>, <<"next">>, <<"read">>} ELSE {<<"find">>})
          ELSE /\ <<op>> \in (IF 0 = 0 THEN {<<"init">>} ELSE BeforeMemory \cup WithMemory)
               /\ Head(<<op>>) = "init"
    BY <2>1
  <2>4. QED
    BY <2>1, <2>2, <2>3, AskKeeps
<1>3. CASE Find
  <2>1. PICK type \in TypesAsked : Ask(<<"find">>, type) /\ parser.open
    BY <1>3 DEF Find
  <2>2. type \in 0 .. 255 /\ type # 0
    BY LoadingAssumption
  <2>3. Head(<<"find">>) \in ParserOps /\ <<"find">> # << >>
    BY <1>0 DEF ParserOps
  <2>4. IF parser.open
          THEN <<"find">> \in (IF type = 0 THEN {<<"rewind">>, <<"next">>, <<"read">>} ELSE {<<"find">>})
          ELSE /\ <<"find">> \in (IF type = 0 THEN {<<"init">>} ELSE BeforeMemory \cup WithMemory)
               /\ Head(<<"find">>) = "init"
    BY <2>1, <2>2
  <2>5. QED
    BY <2>1, <2>2, <2>3, <2>4, AskKeeps
<1>4. ASSUME NEW kind \in Kinds, Load(kind) PROVE ParserInv'
  <2> DEFINE todo == <<"init", "find", "allocate", "read", kind>>
  <2>1. Ask(todo, BlockType[kind]) /\ ~parser.open
    BY <1>4 DEF Load
  <2>2. BlockType[kind] \in 0 .. 255 /\ BlockType[kind] # 0
    BY DEF Kinds, BlockType
  <2>3. todo \in BeforeMemory /\ Head(todo) = "init" /\ todo # << >>
    BY DEF BeforeMemory
  <2> DEFINE type == BlockType[kind]
  <2> HIDE DEF todo, type
  <2>4. IF parser.open
          THEN todo \in (IF type = 0 THEN {<<"rewind">>, <<"next">>, <<"read">>} ELSE {<<"find">>})
          ELSE todo \in (IF type = 0 THEN {<<"init">>} ELSE BeforeMemory \cup WithMemory) /\ Head(todo) = "init"
    BY <2>1, <2>2, <2>3 DEF type
  <2>5. Head(todo) \in ParserOps
    BY <2>3 DEF ParserOps
  <2>6. Ask(todo, type) /\ type \in 0 .. 255
    BY <2>1, <2>2 DEF type
  <2>7. QED
    BY <2>3, <2>4, <2>5, <2>6, AskKeeps
<1>5. QED
  BY <1>1, <1>2, <1>3, <1>4

LEMMA ReturnKeeps ==
  ASSUME Known, Return
  PROVE  ParserInv'
<1>0. ParserTypes
  BY KnownCall
<1> DEFINE open == parser.open \/ (call.type = 0 /\ call.result = "SUCCESS")
<1>1. /\ call.at = "return" /\ call' = Idle /\ UNCHANGED <<file, offset, object>>
      /\ parser' = [parser EXCEPT !.open = open]
  BY <1>0 DEF Return, ParserTypes, Parsers
<1>2. /\ call'.todo = << >> /\ call'.at = "idle" /\ call'.type = 0
      /\ call'.body = << >> /\ call'.fault = FALSE
  BY <1>1 DEF Idle
<1>3. open \in BOOLEAN
  BY <1>0 DEF ParserTypes, Parsers
<1> HIDE DEF open
<1>4. /\ parser'.open = open /\ parser'.block = parser.block /\ parser'.placed = parser.placed
      /\ parser'.from = parser.from /\ parser'.start_of_first_block = parser.start_of_first_block
  BY <1>0, <1>1 DEF ParserTypes, Parsers
<1>5. ParserTypes'
  <2>1. parser' = [parser EXCEPT !.open = open]
    BY <1>1
  <2>2. parser' \in Parsers
    BY <1>0, <1>3, <2>1, ParserUpdates DEF ParserTypes
  <2>3. QED
    <3>1. call'.type \in 0 .. 255 /\ call'.fault \in BOOLEAN
      <4>1. call'.type \in 0 .. 255
        BY <1>2
      <4>2. call'.fault \in BOOLEAN
        BY <1>2, Zenon
      <4>3. QED
        BY <4>1, <4>2
    <3>2. file'.bytes \in Seq(0 .. 255) /\ offset' \in Nat
      BY <1>0, <1>1 DEF ParserTypes, Parsers
    <3>3. QED
      BY <2>2, <3>1, <3>2 DEF ParserTypes
<1>6. OpsMatch' /\ HeaderInv' /\ ChecksumInv' /\ RejectedInv' /\ SearchInv' /\ FoundInv'
  BY <1>2 DEF OpsMatch, HeaderSteps, ChecksumSteps, HeaderInv, ChecksumInv, RejectedInv, SearchInv,
              FoundInv, HasFound
<1>7. PastHeader' => PastHeader
  BY <1>1, <1>2, <1>4 DEF PastHeader, open
<1>8. LocatedInv'
  BY <1>1, <1>4, <1>7 DEF Known, ParserInv, LocatedInv, AtStart
<1>9. PlacedInv'
  BY <1>1, <1>2, <1>4 DEF Known, ParserInv, PlacedInv, AtStart, Ahead, IsCurrentBlockValid
<1>10. BodyInv'
  BY <1>2 DEF BodyInv, Giving
<1>11. QED
  BY <1>5, <1>6, <1>8, <1>9, <1>10 DEF ParserInv

(* Between calls.                                                          *)
LEMMA BetweenCallsKeeps ==
  ASSUME Known, Quiet, call' = call, file' = file, offset' \in Nat,
         parser' = parser \/ parser' = Closed
  PROVE  ParserInv'
<1>0. ParserTypes /\ call.at = "idle" /\ call.todo = << >>
  BY KnownCall DEF Quiet
<1>1. ParserTypes'
  BY <1>0, ClosedIsParser DEF ParserTypes
<1>2. OpsMatch' /\ HeaderInv' /\ ChecksumInv' /\ RejectedInv' /\ SearchInv' /\ FoundInv'
  BY <1>0 DEF OpsMatch, HeaderSteps, ChecksumSteps, HeaderInv, ChecksumInv, RejectedInv, SearchInv,
              FoundInv, HasFound
<1>3. parser' = Closed => ~PastHeader' /\ parser'.placed = FALSE
  BY <1>0 DEF PastHeader, Closed
<1>4. LocatedInv'
  BY <1>0, <1>3 DEF Known, ParserInv, LocatedInv, AtStart, PastHeader
<1>5. PlacedInv'
  BY <1>0, <1>3 DEF Known, ParserInv, PlacedInv, AtStart, Ahead, IsCurrentBlockValid
<1>6. BodyInv'
  BY <1>0 DEF Known, ParserInv, BodyInv, Giving
<1>7. QED
  BY <1>1, <1>2, <1>4, <1>5, <1>6 DEF ParserInv

LEMMA QuietKeeps ==
  ASSUME Known,
         \/ Close \/ LSeek \/ ClearTrajectory \/ Destroy
         \/ \E kind \in Kinds : InitFromBuffer(kind) \/ InitEmpty(kind)
  PROVE  ParserInv'
<1>0. offset \in Nat
  BY KnownCall DEF ParserTypes, Parsers
<1>1. CASE Close
  BY <1>0, <1>1, BetweenCallsKeeps DEF Close
<1>2. CASE LSeek
  BY <1>2, BetweenCallsKeeps DEF LSeek
<1>3. CASE ClearTrajectory
  BY <1>0, <1>3, BetweenCallsKeeps DEF ClearTrajectory
<1>4. CASE Destroy
  BY <1>0, <1>4, BetweenCallsKeeps DEF Destroy
<1>5. ASSUME NEW kind \in Kinds, InitFromBuffer(kind) \/ InitEmpty(kind) PROVE ParserInv'
  <2>1. \E o : Makes(o)
    BY <1>5 DEF InitFromBuffer, InitEmpty
  <2>2. QED
    BY <1>0, <2>1, BetweenCallsKeeps DEF Makes
<1>6. QED
  BY <1>1, <1>2, <1>3, <1>4, <1>5

LEMMA ParserStepKeeps ==
  ASSUME Known, ParserStep, object' = object
  PROVE  ParserInv'
  BY BeginInitKeeps, ReadMagicKeeps, ReadVersionKeeps, ReadFeaturesKeeps, ReadExpectedKeeps,
     KeepOffsetKeeps, ReadFirstChunkKeeps, ReadChunkKeeps, CompareKeeps, BeginRewindKeeps,
     BeginNextKeeps, ReadTypeKeeps, ReadLengthKeeps, SkipBlockKeeps, BeginReadKeeps, ReadBodyKeeps
     DEF ParserStep

LEMMA ParserInvKept ==
  ASSUME Known, [Next]_loadVars
  PROVE  Known'
<1>0. MemoryInv'
  BY NextKeepsInv DEF Known
<1>1. CASE UNCHANGED loadVars
  <2>1. UNCHANGED <<file, offset, parser, call, object>>
    BY <1>1 DEF loadVars, fileVars
  <2>2. ParserInv'
    <3>1. ParserTypes' /\ OpsMatch'
      BY <2>1 DEF Known, ParserInv, ParserTypes, OpsMatch, Doing
    <3>2. HeaderInv'
      BY <2>1 DEF Known, ParserInv, HeaderInv, AtStart, HeaderAsRead, HasChecksum
    <3>3. ChecksumInv' /\ RejectedInv'
      BY <2>1 DEF Known, ParserInv, ChecksumInv, RejectedInv, AtStart
    <3>4. LocatedInv'
      BY <2>1 DEF Known, ParserInv, LocatedInv, PastHeader, Doing, AtStart
    <3>5. PlacedInv'
      BY <2>1 DEF Known, ParserInv, PlacedInv, IsCurrentBlockValid, Ahead, Follows, Doing, AtStart
    <3>6. SearchInv'
      BY <2>1 DEF Known, ParserInv, SearchInv, NonePassed, Doing, AtStart
    <3>7. FoundInv'
      BY <2>1 DEF Known, ParserInv, FoundInv, HasFound, Doing, AtStart
    <3>8. BodyInv'
      BY <2>1 DEF Known, ParserInv, BodyInv, Giving, Doing, HasBody
    <3>9. QED
      BY <3>1, <3>2, <3>3, <3>4, <3>5, <3>6, <3>7, <3>8 DEF ParserInv
  <2>3. QED
    BY <1>0, <2>2 DEF Known
<1>2. CASE Turn
  BY <1>0, <1>2, ParserStepKeeps, AllocateKeeps, TakeOwnershipKeeps, ReturnKeeps DEF Turn, Parse, Known
<1>3. CASE Open \/ AskParser \/ Find \/ (\E kind \in Kinds : Load(kind))
  BY <1>0, <1>3, BeginsKeep DEF Known
<1>4. CASE \/ Close \/ LSeek \/ ClearTrajectory \/ Destroy
           \/ (\E kind \in Kinds : InitFromBuffer(kind)) \/ (\E kind \in Kinds : InitEmpty(kind))
  BY <1>0, <1>4, QuietKeeps DEF Known
<1>5. QED
  BY <1>1, <1>2, <1>3, <1>4 DEF Next

LEMMA InitKnown == Init => Known
<1> SUFFICES ASSUME Init PROVE Known
  OBVIOUS
<1>1. offset = 0 /\ parser = Closed /\ call = Idle /\ file.bytes \in Files
  BY DEF Init
<1>2. /\ call.todo = << >> /\ call.at = "idle" /\ call.type = 0 /\ call.body = << >> /\ call.fault = FALSE
      /\ parser.open = FALSE /\ parser.placed = FALSE
  BY <1>1 DEF Idle, Closed
<1>3. ParserTypes
  <2>1. parser \in Parsers
    BY <1>1, ClosedIsParser
  <2>2. call.type \in 0 .. 255 /\ call.fault \in BOOLEAN
    <3>1. call.type \in 0 .. 255
      BY <1>2
    <3>2. call.fault \in BOOLEAN
      BY <1>2, Zenon
    <3>3. QED
      BY <3>1, <3>2
  <2>3. file.bytes \in Seq(0 .. 255) /\ offset \in Nat
    BY <1>1, BlockFileAssumption
  <2>4. QED
    BY <2>1, <2>2, <2>3 DEF ParserTypes, Parsers
<1>4. OpsMatch /\ HeaderInv /\ ChecksumInv /\ RejectedInv /\ SearchInv /\ FoundInv
  BY <1>2 DEF OpsMatch, HeaderSteps, ChecksumSteps, HeaderInv, ChecksumInv, RejectedInv, SearchInv,
              FoundInv, HasFound
<1>5. LocatedInv /\ PlacedInv /\ BodyInv
  BY <1>2 DEF LocatedInv, PastHeader, PlacedInv, BodyInv, Giving
<1>6. QED
  BY <1>3, <1>4, <1>5, InitInv DEF Known, ParserInv
---------------------------------------------------------------------------
(* The answers.                                                            *)

LEMMA ReturnAnswersTruly ==
  ASSUME Known, Return
  PROVE  AnswersAreTrue'
<1>1. /\ call.at = "return" /\ file' = file /\ object' = object
      /\ parser' = [parser EXCEPT !.open = parser.open \/ (call.type = 0 /\ call.result = "SUCCESS")]
      /\ answer' = Answered
  BY KnownCall DEF Return, ParserTypes, Parsers
<1>2. /\ answer'.result = call.result /\ answer'.type = call.type /\ answer'.body = call.body
      /\ answer'.from = parser.from
      /\ answer'.of = IF call.type = 0 THEN "parser" ELSE IF parser.open THEN "find" ELSE "load"
  BY <1>1 DEF Answered
<1>3. parser'.block = parser.block /\ parser'.placed = parser.placed
  BY <1>1, KnownCall DEF ParserTypes, Parsers
<1>4. SUFFICES ASSUME parser.from = 0
      PROVE  /\ parser.placed /\ parser.block.type # 0 =>
                  /\ parser.block \in BlocksOf(file.bytes)
                  /\ call.body # << >> => call.body = Body(parser.block, file.bytes)
             /\ call.type # 0 /\ call.result = "SUCCESS" => IsFirst(parser.block, file.bytes, call.type)
             /\ call.result = "ENOENT" => BlocksOfType(file.bytes, call.type) = {}
             /\ call.type # 0 /\ ~parser.open /\ call.result = "SUCCESS" =>
                  object.bytes = Body(parser.block, file.bytes) /\ Len(object.bytes) = parser.block.length
  <2> DEFINE b == parser.block
  <2>1. ASSUME parser.from = 0,
               /\ parser.placed /\ b.type # 0 =>
                  /\ b \in BlocksOf(file.bytes)
                  /\ call.body # << >> => call.body = Body(b, file.bytes)
               /\ call.type # 0 /\ call.result = "SUCCESS" => IsFirst(b, file.bytes, call.type)
               /\ call.result = "ENOENT" => BlocksOfType(file.bytes, call.type) = {}
               /\ call.type # 0 /\ ~parser.open /\ call.result = "SUCCESS" =>
                    object.bytes = Body(b, file.bytes) /\ Len(object.bytes) = b.length
        PROVE  AnswersAreTrue'
    <3> HIDE DEF b
    <3>1. parser'.block = b
      BY <1>3 DEF b
    <3>2. IsFirst(b, file.bytes, call.type) => b \in BlocksOf(file.bytes)
      BY DEF IsFirst, BlocksOfType
    <3>3. QED
      BY <1>1, <1>2, <1>3, <2>1, <3>1, <3>2 DEF AnswersAreTrue, IsCurrentBlockValid
  <2>2. CASE parser.from = 0
    BY <2>1, <2>2
  <2>3. CASE parser.from # 0
    BY <1>2, <2>3 DEF AnswersAreTrue
  <2>4. QED
    BY <2>2, <2>3
<1>5. /\ parser.placed /\ parser.block.type # 0 => parser.block \in BlocksOf(file.bytes)
  BY <1>1, <1>4 DEF Known, ParserInv, PlacedInv, AtStart, IsCurrentBlockValid
<1>6. call.type # 0 /\ call.result = "SUCCESS" => IsFirst(parser.block, file.bytes, call.type)
  BY <1>1, <1>4 DEF Known, ParserInv, FoundInv, HasFound, AtStart
<1>7. call.result = "ENOENT" => BlocksOfType(file.bytes, call.type) = {}
  BY <1>1, <1>4 DEF Known, ParserInv, FoundInv, AtStart
<1>8. /\ call.body # << >> => call.body = Body(parser.block, file.bytes)
      /\ call.type # 0 /\ ~parser.open /\ call.result = "SUCCESS" =>
           object.bytes = Body(parser.block, file.bytes) /\ Len(object.bytes) = parser.block.length
  BY <1>1 DEF Known, ParserInv, BodyInv, HasBody
<1>9. QED
  BY <1>5, <1>6, <1>7, <1>8

(* The steps within a call do not end it, and between calls the program    *)
(* forgets the answer.                                                     *)
LEMMA OnlyReturnAnswers ==
  ASSUME Known, Next, ~Return
  PROVE  ~Quiet' \/ answer' = Silence
<1>0. IsCall /\ MemoryInv /\ ParserTypes
  BY KnownCall DEF Known
<1>1. CASE Parse
  <2>1. Turned(call')
    BY <1>0, <1>1, ParserTurns DEF Parse, BeginTurned, ReadTurned
  <2>2. QED
    BY <2>1 DEF Turned, Stops, Quiet
<1>2. CASE Allocate \/ TakeOwnership
  <2>1. /\ Succeeded.at # "idle" /\ DOMAIN Succeeded = DOMAIN Idle
    BY <1>0, SucceededIs
  <2>2. \A result : Returned(result).at = "return"
    BY <1>0, CallDomain DEF IsCall, Returned
  <2>3. \A h : [Succeeded EXCEPT !.held = h].at # "idle"
    <3> DEFINE c == Succeeded
    <3>1. c.at # "idle" /\ DOMAIN c = DOMAIN Idle
      BY <2>1
    <3> HIDE DEF c
    <3>2. \A h : [c EXCEPT !.held = h].at # "idle"
      BY <3>1, CallDomain
    <3>3. QED
      BY <3>2 DEF c
  <2>4. (\E result : call' = Returned(result)) \/ (\E h : call' = [Succeeded EXCEPT !.held = h])
    BY <1>2 DEF Allocate, TakeOwnership
  <2>5. call'.at # "idle"
    BY <2>2, <2>3, <2>4
  <2>6. QED
    BY <2>5 DEF Quiet
<1>3. CASE Open \/ AskParser \/ Find \/ (\E kind \in Kinds : Load(kind))
  BY <1>3 DEF Open, AskParser, Find, Load, Ask
<1>4. CASE Close \/ LSeek \/ ClearTrajectory \/ Destroy
  BY <1>4 DEF Close, LSeek, ClearTrajectory, Destroy
<1>5. CASE (\E kind \in Kinds : InitFromBuffer(kind)) \/ (\E kind \in Kinds : InitEmpty(kind))
  BY <1>5 DEF InitFromBuffer, InitEmpty, Makes
<1>6. QED
  BY <1>1, <1>2, <1>3, <1>4, <1>5 DEF Next, Turn

(* What the calls say of a file is true, for every file, every source that *)
(* may fail or read short, and every sequence of calls: a search returns   *)
(* the first block of its type, ENOENT means that there is none, and the   *)
(* body that is read or loaded is that of the block.                       *)
THEOREM AnswersAlwaysTrue == Spec => []AnswersAreTrue
<1>1. Init => AnswersAreTrue
  BY DEF Init, AnswersAreTrue, Silence
<1>2. ASSUME Known, AnswersAreTrue, [Next]_loadVars PROVE AnswersAreTrue'
  <2>1. CASE UNCHANGED loadVars
    BY <1>2, <2>1 DEF loadVars, fileVars, AnswersAreTrue, Quiet, IsCurrentBlockValid
  <2>2. CASE Return
    BY <1>2, <2>2, ReturnAnswersTruly
  <2>3. CASE Next /\ ~Return
    BY <1>2, <2>3, OnlyReturnAnswers DEF AnswersAreTrue, Silence
  <2>4. QED
    BY <1>2, <2>1, <2>2, <2>3
<1>3. Known /\ AnswersAreTrue /\ [Next]_loadVars => Known' /\ AnswersAreTrue'
  BY <1>2, ParserInvKept
<1>4. QED
  BY <1>1, <1>3, InitKnown, PTL DEF Spec
---------------------------------------------------------------------------
(* The files that are accepted.                                            *)

(* A step from within a header goes on in it, ends the call with an error, *)
(* or accepts a sound file.                                                *)
LEMMA NotPast ==
  ASSUME call.at \in HeaderSteps, Known, parser'.open = parser.open, NEW f,
         (\E at \in HeaderSteps : Went(at, f)) \/ (\E result : result # "SUCCESS" /\ Ended(result, f))
  PROVE  ~PastHeader'
<1>1. ~parser.open
  BY DEF Known, ParserInv, OpsMatch, Doing
<1>2. QED
  BY <1>1 DEF PastHeader, Went, Ended, HeaderSteps, ChecksumSteps

LEMMA HeaderReadsStay ==
  ASSUME Known, ReadMagic \/ ReadVersion \/ ReadFeatures \/ ReadExpected \/ ReadFirstChunk \/ ReadChunk
  PROVE  ~PastHeader'
<1>0. IsCall /\ ParserTypes
  BY KnownCall
<1>1. \A at \in {"magic", "version", "features", "expected", "first chunk", "chunk", "compare", "offset"} :
        at \in HeaderSteps
  BY DEF HeaderSteps, ChecksumSteps
<1>2. CASE ReadMagic
  <2>1. PICK r : /\ ReadAt("magic", 4, r) /\ parser' = parser
                 /\ IF r.bytes # Magic THEN Ended("EPARSE", r.fault) ELSE Went("version", r.fault)
    BY <1>0, <1>2, ReadMagicSo
  <2>2. QED
    BY <1>1, <2>1, NotPast DEF ReadAt
<1>3. CASE ReadVersion
  <2>1. PICK r : /\ ReadAt("version", 1, r)
                 /\ IF r.bytes = << >> \/ r.bytes[1] \notin {1, 2}
                      THEN Ended("EPARSE", r.fault) /\ parser' = parser
                      ELSE /\ Went(IF r.bytes[1] = 2 THEN "features" ELSE "offset", r.fault)
                           /\ parser' = [parser EXCEPT !.version = r.bytes[1]]
    BY <1>0, <1>3, ReadVersionSo
  <2>2. parser'.open = parser.open
    BY <1>0, <2>1 DEF ParserTypes, Parsers
  <2>3. Ended("EPARSE", r.fault) \/ Went("features", r.fault) \/ Went("offset", r.fault)
    BY <2>1
  <2>4. QED
    BY <1>1, <2>1, <2>2, <2>3, NotPast DEF ReadAt
<1>4. CASE ReadFeatures
  <2>1. PICK r : /\ ReadAt("features", 1, r)
                 /\ IF r.bytes = << >>
                      THEN Ended("EPARSE", r.fault) /\ parser' = parser
                      ELSE /\ parser' = [parser EXCEPT !.features = r.bytes[1]]
                           /\ Went(IF HasChecksum(parser') THEN "expected" ELSE "offset", r.fault)
    BY <1>0, <1>4, ReadFeaturesSo
  <2>2. parser'.open = parser.open
    BY <1>0, <2>1 DEF ParserTypes, Parsers
  <2>3. Ended("EPARSE", r.fault) \/ Went("expected", r.fault) \/ Went("offset", r.fault)
    BY <2>1
  <2>4. QED
    BY <1>1, <2>1, <2>2, <2>3, NotPast DEF ReadAt
<1>5. CASE ReadExpected
  <2>1. PICK r : /\ ReadAt("expected", 4, r)
                 /\ IF Len(r.bytes) # 4
                      THEN Ended("EPARSE", r.fault) /\ parser' = parser
                      ELSE /\ parser' = [parser EXCEPT !.expected = LongWord(r.bytes)]
                           /\ Went("offset", r.fault)
    BY <1>0, <1>5, ReadExpectedSo
  <2>2. parser'.open = parser.open
    BY <1>0, <2>1 DEF ParserTypes, Parsers
  <2>3. Ended("EPARSE", r.fault) \/ Went("offset", r.fault)
    BY <2>1
  <2>4. QED
    BY <1>1, <2>1, <2>2, <2>3, NotPast DEF ReadAt
<1>6. CASE ReadFirstChunk \/ ReadChunk
  <2>1. PICK at, r, c : at \in {"first chunk", "chunk"} /\ ReadAt(at, ChunkSize, r) /\ ChunkSo(r, c)
    BY <1>0, <1>6, ReadFirstChunkSo, ReadChunkSo
  <2>2. parser'.open = parser.open
    <3> DEFINE sum == CrcUpdate(parser.observed, c)
    <3>1. parser' = parser \/ parser' = [parser EXCEPT !.observed = sum]
      BY <2>1 DEF ChunkSo
    <3> HIDE DEF sum
    <3>2. QED
      BY <1>0, <3>1 DEF ParserTypes, Parsers
  <2>3. Ended("EREAD", r.fault) \/ Went("chunk", r.fault) \/ Went("compare", r.fault)
    BY <2>1 DEF ChunkSo
  <2>4. QED
    BY <1>1, <2>1, <2>2, <2>3, NotPast DEF ReadAt
<1>7. QED
  BY <1>2, <1>3, <1>4, <1>5, <1>6
---------------------------------------------------------------------------
LEMMA StaysSound ==
  ASSUME SoundInv, PastHeader' => PastHeader, file' = file, parser'.from = parser.from
  PROVE  SoundInv'
  BY DEF SoundInv, AtStart

LEMMA AcceptedIsSound ==
  ASSUME Known, ShortReadsAreNoticed, KeepOffset \/ CompareChecksum
  PROVE  SoundInv'
<1>0. IsCall /\ ParserTypes
  BY KnownCall
<1>1. CASE KeepOffset
  <2>1. call.at = "offset" /\ file' = file /\ ~parser.open
    <3>1. call.at = "offset" /\ file' = file
      BY <1>1 DEF KeepOffset
    <3>2. QED
      BY <3>1 DEF Known, ParserInv, OpsMatch, Doing, HeaderSteps
  <2>2. parser'.open = parser.open /\ parser'.from = parser.from
    BY <1>0, <1>1 DEF KeepOffset, ParserTypes, Parsers
  <2>3. CASE file.source = "pipe" \/ HasChecksum(parser)
    <3>1. call' = Returned("EREAD") \/ call' = [call EXCEPT !.at = "first chunk"]
      BY <1>1, <2>3 DEF KeepOffset
    <3>2. (call'.at = "return" /\ call'.result = "EREAD") \/ call'.at = "first chunk"
      BY <1>0, <3>1, CallDomain DEF IsCall, Returned
    <3>3. ~PastHeader'
      BY <2>1, <2>2, <3>2 DEF PastHeader
    <3>4. QED
      BY <3>3 DEF SoundInv
  <2>4. CASE ~HasChecksum(parser)
    <3>1. AtStart => Sound(file.bytes)
      BY <2>1, <2>4 DEF Known, ParserInv, HeaderInv, HeaderAsRead, Sound
    <3>2. QED
      BY <2>1, <2>2, <3>1 DEF SoundInv, AtStart
  <2>5. QED
    BY <2>3, <2>4
<1>2. CASE CompareChecksum
  <2>1. call.at = "compare" /\ file' = file /\ parser' = parser /\ ~parser.open
    BY <1>2 DEF CompareChecksum, Known, ParserInv, OpsMatch, Doing, HeaderSteps, ChecksumSteps
  <2>2. CASE parser.expected = parser.observed
    <3>1. ~call.fault
      BY <2>1, <2>2 DEF ShortReadsAreNoticed
    <3>2. AtStart => parser.observed = Checksum(file.bytes) /\ HeaderAsRead /\ HasChecksum(parser)
      BY <2>1, <3>1 DEF Known, ParserInv, ChecksumInv, HeaderInv, ChecksumSteps
    <3>3. AtStart => Sound(file.bytes)
      BY <2>2, <3>2 DEF HeaderAsRead, Sound
    <3>4. QED
      BY <2>1, <3>3 DEF SoundInv, AtStart
  <2>3. CASE parser.expected # parser.observed
    <3>1. call' = Returned("ECORRUPTED")
      BY <1>2, <2>3 DEF CompareChecksum
    <3>2. call'.at = "return" /\ call'.result = "ECORRUPTED"
      BY <1>0, <3>1, CallDomain DEF IsCall, Returned
    <3>3. ~PastHeader'
      BY <2>1, <3>2 DEF PastHeader
    <3>4. QED
      BY <3>3 DEF SoundInv
  <2>4. QED
    BY <2>2, <2>3
<1>3. QED
  BY <1>1, <1>2

LEMMA ParserStaysSound ==
  ASSUME Known, SoundInv, ShortReadsAreNoticed, ParserStep
  PROVE  SoundInv'
<1>0. IsCall /\ ParserTypes
  BY KnownCall
<1>1. CASE ReadMagic \/ ReadVersion \/ ReadFeatures \/ ReadExpected \/ ReadFirstChunk \/ ReadChunk
  BY <1>1, HeaderReadsStay DEF SoundInv
<1>2. CASE KeepOffset \/ CompareChecksum
  BY <1>2, AcceptedIsSound
<1>3. CASE BeginInit
  <2>1. parser' = [Closed EXCEPT !.from = offset'] /\ call' = [call EXCEPT !.at = "magic"]
    BY <1>3 DEF BeginInit
  <2>2. parser'.open = FALSE
    BY <2>1 DEF Closed
  <2>3. call'.at = "magic"
    BY <1>0, <2>1, CallDomain DEF IsCall
  <2>4. QED
    BY <2>2, <2>3 DEF SoundInv, PastHeader
<1>4. CASE BeginRewind \/ BeginNext \/ SkipBlock \/ BeginRead
  <2>1. file' = file /\ parser' = parser /\ PastHeader
    BY <1>4 DEF BeginRewind, BeginNext, SkipBlock, BeginRead, PastHeader, Doing
  <2>2. QED
    BY <2>1, StaysSound
<1>5. CASE ReadType \/ ReadLength \/ ReadBody
  <2>1. file' = file /\ PastHeader
    BY <1>5 DEF ReadType, ReadLength, ReadBody, Reads, PastHeader
  <2>2. parser'.from = parser.from
    <3>1. CASE ReadType
      <4>1. PICK r : /\ ReadAt("type", 1, r)
                     /\ IF r.error THEN Ended("EREAD", r.fault) /\ parser' = parser
                        ELSE IF r.bytes = << >> THEN PlacedSo(NoBlockHere, r.fault)
                        ELSE Went("length", r.fault) /\ parser' = [parser EXCEPT !.block.type = r.bytes[1]]
        BY <1>0, <3>1, ReadTypeSo
      <4>2. PlacedSo(NoBlockHere, r.fault) => parser'.from = parser.from
        BY <1>0 DEF PlacedSo, ParserTypes, Parsers
      <4>3. parser' = [parser EXCEPT !.block.type = r.bytes[1]] => parser'.from = parser.from
        BY <1>0 DEF ParserTypes, Parsers
      <4>4. QED
        BY <4>1, <4>2, <4>3
    <3>2. CASE ReadLength
      <4> DEFINE b(r) == [parser.block EXCEPT !.length = Word(r.bytes), !.start = offset + 2]
      <4>1. PICK r : /\ ReadAt("length", 2, r)
                     /\ IF Len(r.bytes) # 2
                          THEN Ended("EREAD", r.fault) /\ parser' = [parser EXCEPT !.placed = FALSE]
                          ELSE PlacedSo(b(r), r.fault)
        BY <1>0, <3>2, ReadLengthSo
      <4> HIDE DEF b
      <4>2. PlacedSo(b(r), r.fault) => parser'.from = parser.from
        BY <1>0 DEF PlacedSo, ParserTypes, Parsers
      <4>3. parser' = [parser EXCEPT !.placed = FALSE] => parser'.from = parser.from
        BY <1>0 DEF ParserTypes, Parsers
      <4>4. QED
        BY <4>1, <4>2, <4>3
    <3>3. CASE ReadBody
      BY <1>0, <3>3, ReadBodySo
    <3>4. QED
      BY <1>5, <3>1, <3>2, <3>3
  <2>3. QED
    BY <2>1, <2>2, StaysSound
<1>6. QED
  BY <1>1, <1>2, <1>3, <1>4, <1>5 DEF ParserStep

LEMMA SoundInvKept ==
  ASSUME Known, SoundInv, ShortReadsAreNoticed, [Next]_loadVars
  PROVE  SoundInv'
<1>0. IsCall /\ ParserTypes
  BY KnownCall
<1>1. CASE UNCHANGED loadVars
  BY <1>1, StaysSound DEF loadVars, fileVars, PastHeader, Doing
<1>2. CASE Parse
  BY <1>2, ParserStaysSound DEF Parse
<1>3. CASE Allocate \/ TakeOwnership
  <2>1. PastHeader
    BY <1>3, LoadHasFound DEF Allocate, TakeOwnership
  <2>2. QED
    BY <1>3, <2>1, StaysSound DEF Allocate, TakeOwnership
<1>4. CASE Return
  <2>1. /\ call.at = "return" /\ call' = Idle /\ file' = file
        /\ parser' = [parser EXCEPT !.open = parser.open \/ (call.type = 0 /\ call.result = "SUCCESS")]
    BY <1>0, <1>4 DEF Return, ParserTypes, Parsers
  <2>2. parser'.from = parser.from /\ (parser'.open => parser.open \/ call.result = "SUCCESS")
    BY <1>0, <2>1 DEF ParserTypes, Parsers
  <2>3. call'.at = "idle"
    BY <2>1 DEF Idle
  <2>4. PastHeader' => PastHeader
    BY <2>1, <2>2, <2>3 DEF PastHeader
  <2>5. QED
    BY <2>1, <2>2, <2>4, StaysSound
<1>5. ASSUME NEW todo, NEW type, Ask(todo, type), parser.open \/ (todo # << >> /\ Head(todo) = "init")
      PROVE  SoundInv'
  <2>1. call' = [Idle EXCEPT !.todo = todo, !.at = "begin", !.type = type] /\ UNCHANGED <<file, parser>>
    BY <1>5 DEF Ask
  <2>2. call'.todo = todo /\ call'.at = "begin"
    BY <2>1, CallDomain DEF Idle
  <2>3. PastHeader' => PastHeader
    BY <1>5, <2>1, <2>2 DEF PastHeader, Doing
  <2>4. QED
    BY <2>1, <2>3, StaysSound
<1>6. CASE Open \/ AskParser \/ Find \/ (\E kind \in Kinds : Load(kind))
  <2>1. CASE Open
    <3>1. <<"init">> # << >> /\ Head(<<"init">>) = "init"
      OBVIOUS
    <3>2. QED
      BY <1>5, <2>1, <3>1 DEF Open
  <2>2. CASE AskParser \/ Find
    BY <1>5, <2>2 DEF AskParser, Find
  <2>3. ASSUME NEW kind \in Kinds, Load(kind) PROVE SoundInv'
    <3> DEFINE todo == <<"init", "find", "allocate", "read", kind>>
    <3>1. todo # << >> /\ Head(todo) = "init"
      OBVIOUS
    <3>2. Ask(todo, BlockType[kind])
      BY <2>3 DEF Load
    <3> HIDE DEF todo
    <3>3. QED
      BY <1>5, <3>1, <3>2
  <2>4. QED
    BY <1>6, <2>1, <2>2, <2>3
<1>7. CASE Close
  BY <1>7 DEF Close, Quiet, SoundInv, PastHeader, Closed
<1>8. CASE \/ LSeek \/ ClearTrajectory \/ Destroy
           \/ (\E kind \in Kinds : InitFromBuffer(kind)) \/ (\E kind \in Kinds : InitEmpty(kind))
  <2>1. UNCHANGED <<file, parser, call>>
    BY <1>8 DEF LSeek, ClearTrajectory, Destroy, InitFromBuffer, InitEmpty, Makes
  <2>2. QED
    BY <2>1, StaysSound DEF PastHeader, Doing
<1>9. QED
  BY <1>1, <1>2, <1>3, <1>4, <1>6, <1>7, <1>8 DEF Next, Turn

LEMMA ReturnAnswersSoundness ==
  ASSUME Known, SoundInv, Return
  PROVE  OpensSoundFiles'
<1>0. ParserTypes
  BY KnownCall
<1>1. /\ call.at = "return" /\ file' = file
      /\ parser' = [parser EXCEPT !.open = parser.open \/ (call.type = 0 /\ call.result = "SUCCESS")]
      /\ answer' = Answered
  BY <1>0 DEF Return, ParserTypes, Parsers
<1>2. /\ answer'.result = call.result /\ answer'.from = parser.from /\ answer'.fault = call.fault
  BY <1>1 DEF Answered
<1>3. parser'.open => parser.open \/ call.result = "SUCCESS"
  BY <1>0, <1>1 DEF ParserTypes, Parsers
<1>4. AtStart /\ (parser.open \/ call.result = "SUCCESS") => Sound(file.bytes)
  BY <1>1 DEF SoundInv, PastHeader
<1>5. AtStart /\ Sound(file.bytes) /\ ~call.fault => call.result \notin {"EPARSE", "ECORRUPTED"}
  BY <1>1 DEF Known, ParserInv, RejectedInv
<1>6. QED
  BY <1>1, <1>2, <1>3, <1>4, <1>5 DEF OpensSoundFiles, AtStart

(* A parser is opened on sound files only, and rejects a sound one only    *)
(* when a read fails: whatever the size of the file and of the chunks of   *)
(* its checksum.  The checksum of a file that could only be read in part   *)
(* may be the expected one by chance: that it is not is the condition, and *)
(* nothing but a short read puts it in question.                           *)
THEOREM SoundFilesAreOpened == Spec /\ []ShortReadsAreNoticed => []OpensSoundFiles
<1>1. Init => SoundInv /\ OpensSoundFiles
  BY DEF Init, SoundInv, PastHeader, OpensSoundFiles, Silence, Closed, Idle
<1>2. ASSUME Known, SoundInv, OpensSoundFiles, [Next]_loadVars PROVE OpensSoundFiles'
  <2>1. CASE UNCHANGED loadVars
    BY <1>2, <2>1 DEF loadVars, fileVars, OpensSoundFiles, Quiet
  <2>2. CASE Return
    BY <1>2, <2>2, ReturnAnswersSoundness
  <2>3. CASE Next /\ ~Return
    BY <1>2, <2>3, OnlyReturnAnswers DEF OpensSoundFiles, Silence
  <2>4. QED
    BY <1>2, <2>1, <2>2, <2>3
<1>3. Known /\ SoundInv /\ OpensSoundFiles /\ ShortReadsAreNoticed /\ [Next]_loadVars
        => Known' /\ SoundInv' /\ OpensSoundFiles'
  BY <1>2, ParserInvKept, SoundInvKept
<1>4. QED
  BY <1>1, <1>3, InitKnown, PTL DEF Spec
============================================================================
