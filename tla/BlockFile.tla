----------------------------- MODULE BlockFile ----------------------------
(***************************************************************************)
(* The parser of Skybrush binary files.  A file has a header and then      *)
(* blocks, each with a type, a length and a body; it is an array in memory *)
(* or a descriptor, of a file or of a pipe.  The steps of a call are its   *)
(* reads, because a read of a descriptor may fail or give less than asked. *)
(*                                                                         *)
(* A call is a list of operations, the later ones skipped after an error.  *)
(***************************************************************************)
EXTENDS Integers, Sequences

CONSTANTS
  Files,        \* the contents of files, as sequences of bytes
  Sources,      \* some of "memory", "file" and "pipe"
  ChunkSize,    \* of the reads when a checksum is computed
  Crcs,         \* the values of a checksum that is computed
  CrcStep(_, _) \* byte by byte

ASSUME BlockFileAssumption ==
  /\ Files \subseteq Seq(0 .. 255)
  /\ Sources \subseteq {"memory", "file", "pipe"}
  /\ ChunkSize \in Nat /\ ChunkSize >= 10
  /\ 0 \in Crcs /\ \A crc \in Crcs, byte \in 0 .. 255 : CrcStep(crc, byte) \in Crcs

VARIABLES
  file,         \* the bytes, and where they are
  offset,       \* buf_ptr in memory, else the offset of the descriptor
  parser,       \* sb_binary_file_parser_t
  call          \* the call in progress

fileVars == <<file, offset, parser, call>>

---------------------------------------------------------------------------
Magic == <<115, 107, 121, 98>>     \* "skyb"
NoBlockHere == [type |-> 0, length |-> 0, start |-> 0]

(* `from' and `placed' are not the code's: where the descriptor was when   *)
(* the parser was set up, and that since the parser last went to the first *)
(* block, it could read every header in whole.                             *)
Closed == [open |-> FALSE, version |-> 0, features |-> 0, expected |-> 0, observed |-> 0,
           start_of_first_block |-> 0, block |-> NoBlockHere, from |-> 0, placed |-> FALSE]

(* `fault' is not the code's: a read of the file failed or was short.      *)
Idle == [todo |-> << >>, at |-> "idle", type |-> 0, body |-> << >>, held |-> {},
         result |-> "SUCCESS", fault |-> FALSE]

Returned(result) == [call EXCEPT !.todo = << >>, !.at = "return", !.result = result]

(* After an operation that succeeded comes the next of the call.           *)
Succeeded ==
  IF Len(call.todo) > 1 THEN [call EXCEPT !.todo = Tail(@), !.at = "begin"]
  ELSE Returned("SUCCESS")

Doing(op) == call.todo # << >> /\ Head(call.todo) = op

(* Read and seek.                                                          *)
Available(n) == SubSeq(file.bytes, offset + 1, IF offset + n < Len(file.bytes)
                                                 THEN offset + n ELSE Len(file.bytes))

(* From a descriptor, -1 is returned for an error, or less than there is.  *)
Faults(n) ==
  IF file.source # "file" THEN {}
  ELSE {[error |-> TRUE, bytes |-> << >>, fault |-> TRUE]}
         \cup {[error |-> FALSE, bytes |-> SubSeq(Available(n), 1, k), fault |-> TRUE]
               : k \in 1 .. Len(Available(n)) - 1}

ReadOutcomes(n) == {[error |-> FALSE, bytes |-> Available(n), fault |-> FALSE]} \cup Faults(n)

(* In the middle of a call, n bytes are read, and Then says how it goes on.*)
Reads(at, n, Then(_)) ==
  /\ call.at = at
  /\ \E r \in ReadOutcomes(n) :
       /\ offset' = offset + Len(r.bytes)
       /\ LET next == Then(r)
          IN  /\ call' = [next.call EXCEPT !.fault = @ \/ r.fault]
              /\ parser' = next.parser
  /\ UNCHANGED file

CanSeek(to) ==
  CASE file.source = "memory" -> to <= Len(file.bytes)
    [] file.source = "file" -> TRUE
    [] file.source = "pipe" -> FALSE

On(c, p) == [call |-> c, parser |-> p]
Fail(result) == On(Returned(result), parser)
Continue(at, p) == On([call EXCEPT !.at = at], p)

Word(bytes) == bytes[1] + 256 * bytes[2]
LongWord(bytes) == Word(bytes) + 65536 * Word(SubSeq(bytes, 3, 4))

---------------------------------------------------------------------------
(* sb_i_binary_file_parser_init_common()                                   *)

(* The parser of a descriptor begins wherever the descriptor is.           *)
BeginInit ==
  /\ call.at = "begin" /\ Doing("init")
  /\ offset' = IF file.source = "memory" THEN 0 ELSE offset
  /\ call' = [call EXCEPT !.at = "magic"]
  /\ parser' = [Closed EXCEPT !.from = offset']
  /\ UNCHANGED file

ReadMagic ==
  LET Then(r) == IF r.bytes # Magic THEN Fail("EPARSE") ELSE Continue("version", parser)
  IN  Reads("magic", 4, Then)

ReadVersion ==
  LET Then(r) ==
        IF r.bytes = << >> \/ r.bytes[1] \notin {1, 2} THEN Fail("EPARSE")
        ELSE Continue(IF r.bytes[1] = 2 THEN "features" ELSE "offset",
                      [parser EXCEPT !.version = r.bytes[1]])
  IN  Reads("version", 1, Then)

HasChecksum(p) == p.features % 2 = 1

ReadFeatures ==
  LET Then(r) ==
        IF r.bytes = << >> THEN Fail("EPARSE")
        ELSE LET p == [parser EXCEPT !.features = r.bytes[1]]
             IN  Continue(IF HasChecksum(p) THEN "expected" ELSE "offset", p)
  IN  Reads("features", 1, Then)

ReadExpected ==
  LET Then(r) ==
        IF Len(r.bytes) # 4 THEN Fail("EPARSE")
        ELSE Continue("offset", [parser EXCEPT !.expected = LongWord(r.bytes)])
  IN  Reads("expected", 4, Then)

(* The offset of a pipe cannot be asked for.                               *)
KeepOffset ==
  /\ call.at = "offset"
  /\ IF file.source = "pipe"
       THEN call' = Returned("EREAD") /\ UNCHANGED <<parser, offset>>
       ELSE /\ parser' = [parser EXCEPT !.start_of_first_block = offset, !.observed = 0]
            /\ IF HasChecksum(parser)
                 THEN offset' = 0 /\ call' = [call EXCEPT !.at = "first chunk"]
                 ELSE offset' = parser'.start_of_first_block /\ call' = [call EXCEPT !.at = "type"]
  /\ UNCHANGED file

(* The checksum after each of the bytes, continued from crc.               *)
CrcSums(crc, bytes) ==
  LET sum[i \in 0 .. Len(bytes)] == IF i = 0 THEN crc ELSE CrcStep(sum[i - 1], bytes[i]) IN sum

CrcUpdate(crc, bytes) == CrcSums(crc, bytes)[Len(bytes)]

(* The checksum counts as zero, if the first chunk is long enough.         *)
WithoutChecksum(bytes) ==
  IF Len(bytes) < 10 THEN bytes ELSE [i \in 1 .. Len(bytes) |-> IF i \in 7 .. 10 THEN 0 ELSE bytes[i]]

(* Mutant: the end of the file does not end the checksum.                  *)
AfterChunkUntilError(r, bytes) ==
  IF r.error THEN Fail("EREAD")
  ELSE Continue("chunk", [parser EXCEPT !.observed = CrcUpdate(@, bytes)])

(* A chunk that is not full is the last one.                               *)
AfterChunk(r, bytes) ==
  LET p == [parser EXCEPT !.observed = CrcUpdate(@, bytes)]
  IN  IF r.error THEN Fail("EREAD")
      ELSE IF Len(bytes) = ChunkSize THEN Continue("chunk", p)
      ELSE Continue("compare", p)

(* Mutant: the checksum in the file counts.                                *)
ReadFirstChunkWithChecksum ==
  LET Then(r) == AfterChunk(r, r.bytes) IN Reads("first chunk", ChunkSize, Then)

ReadFirstChunk ==
  LET Then(r) == AfterChunk(r, WithoutChecksum(r.bytes)) IN Reads("first chunk", ChunkSize, Then)

ReadChunk == LET Then(r) == AfterChunk(r, r.bytes) IN Reads("chunk", ChunkSize, Then)

CompareChecksum ==
  /\ call.at = "compare"
  /\ offset' = parser.start_of_first_block
  /\ call' = IF parser.expected = parser.observed THEN [call EXCEPT !.at = "type"]
             ELSE Returned("ECORRUPTED")
  /\ UNCHANGED <<file, parser>>

---------------------------------------------------------------------------
(* Seek, then do the next step of the operation.                           *)
SeekAndGo(to, at) ==
  IF CanSeek(to)
    THEN offset' = to /\ call' = [call EXCEPT !.at = at]
    ELSE call' = Returned("EREAD") /\ UNCHANGED offset

IsCurrentBlockValid == parser.block.type # 0

BeginRewind ==
  /\ call.at = "begin" /\ (Doing("rewind") \/ Doing("find"))
  /\ SeekAndGo(parser.start_of_first_block, "type")
  /\ UNCHANGED <<file, parser>>

BeginNext ==
  /\ call.at = "begin" /\ Doing("next")
  /\ IF IsCurrentBlockValid THEN SeekAndGo(parser.block.start + parser.block.length, "type")
     ELSE call' = Returned("EREAD") /\ UNCHANGED offset
  /\ UNCHANGED <<file, parser>>

(* The header of a block has been read: the search goes on, or is over.    *)
Placed(block) ==
  LET p == [parser EXCEPT !.block = block, !.placed = @ \/ ~Doing("next")]
  IN  IF ~Doing("find") \/ block.type = call.type THEN On(Succeeded, p)
      ELSE IF block.type = 0 THEN On(Returned("ENOENT"), p)
      ELSE Continue("skip", p)

(* A block of type zero is taken for the end of the file.                  *)
ReadType ==
  LET Then(r) ==
        IF r.error THEN Fail("EREAD")
        ELSE IF r.bytes = << >> THEN Placed(NoBlockHere)
        ELSE Continue("length", [parser EXCEPT !.block.type = r.bytes[1]])
  IN  Reads("type", 1, Then)

(* The length and the body of the block are known only now: until then     *)
(* they are those of the block before.                                     *)
ReadLength ==
  LET Then(r) ==
        IF Len(r.bytes) # 2 THEN On(Returned("EREAD"), [parser EXCEPT !.placed = FALSE])
        ELSE Placed([parser.block EXCEPT !.length = Word(r.bytes), !.start = offset + 2])
  IN  Reads("length", 2, Then)

(* Mutant: the body of the block is not skipped.                           *)
SkipHeader ==
  /\ call.at = "skip"
  /\ SeekAndGo(parser.block.start, "type")
  /\ UNCHANGED <<file, parser>>

SkipBlock ==
  /\ call.at = "skip"
  /\ SeekAndGo(parser.block.start + parser.block.length, "type")
  /\ UNCHANGED <<file, parser>>

BeginRead ==
  /\ call.at = "begin" /\ Doing("read")
  /\ IF IsCurrentBlockValid THEN SeekAndGo(parser.block.start, "body")
     ELSE call' = Returned("EREAD") /\ UNCHANGED offset
  /\ UNCHANGED <<file, parser>>

ReadBody ==
  LET Then(r) ==
        IF r.error \/ Len(r.bytes) # parser.block.length THEN Fail("EREAD")
        ELSE On([Succeeded EXCEPT !.body = r.bytes], parser)
  IN  Reads("body", parser.block.length, Then)

ParserStep ==
  \/ BeginInit \/ ReadMagic \/ ReadVersion \/ ReadFeatures \/ ReadExpected \/ KeepOffset
  \/ ReadFirstChunk \/ ReadChunk \/ CompareChecksum
  \/ BeginRewind \/ BeginNext \/ ReadType \/ ReadLength \/ SkipBlock
  \/ BeginRead \/ ReadBody
===========================================================================
