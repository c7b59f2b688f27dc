# A TLA+ model of libskybrush

libskybrush reads the files of a drone show (trajectory, lights, yaw, return to
home) and answers questions such as "which colour is the light at 12.3 s". The
library is sequential: it starts no threads, and every function runs on the
caller's. What is hard in it is time. Its players keep a cursor on a schedule
and may be asked for any time, in any order; the light executor can also be
driven by the main loop of a device that calls it late.

This directory holds TLA+ modules translated from the code, TLC configurations
that check them on small instances, and proofs checked by TLAPS.

## Inventory

| Part | State | Operations | What makes it correct |
|---|---|---|---|
| Light player (`program.cpp`, `bytecode_player.h`) | current and next timestamp, an executor, a store | init, seek and queries, rewind | the executor is called at every wakeup on the way; answers do not depend on the route |
| Command executor (`executor.*`, `commands.*`) | program counter, clock origin, cumulative duration, wakeup time, fade, colour, pyro outputs, ended flag, error | `step`, `rewind`, `stop`, `setSignalSource`, the commands | commands run when due, late calls cause no drift, fatal errors stop |
| Bytecode store (`bytecode_store.h`, `bytecode_array.hpp`) | next index, suspend counter | next, tell, seek, suspend, resume | reading past the end is the end of the program |
| Loop stack (`loop_stack.*`) | items, top pointer, count | begin, end, clear | loops unroll, overflow is refused |
| Triggers, signal source (`trigger.*`, `signal_source.h`) | slots, edge, one-shot flag, source pointer | watch, disable, check and fire | one trigger per channel, a firing trigger jumps |
| Edge detector (`edge_detector.h`) | level, last transition | feed, reset | edges alternate and are debounced |
| Transition (`transition.*`) | start, duration, active | start, step, cancel | a fade ends when the next command starts |
| Error handler (`error_handler.*`) | last error, global | set, clear | an error belongs to the executor that met it |
| Colours (`colors.c`) | the set-up of a conversion to RGBW | set up in four ways, convert, mix, pack | a conversion depends on the last set-up alone |
| Buffer (`buffer.c`) | bytes, capacity, owner or view | resize, append, concatenate, prune | contents survive growth and failed allocation |
| Trajectory builder (`builder.c`) | a buffer, last position | start position, lines, hold, hand-over | all or nothing per operation, bytes have one owner |
| Binary file parser (`binary.c`) | memory or descriptor, current block | first, next, find, read, checksum | both sources give the same blocks |
| Trajectory and yaw players (`trajectory.c`, `yaw_control.c`) | current segment | seek, position, velocity, duration, takeoff and landing times, bounding box | the answer is on the curve, whatever was asked before |
| RTH plan (`rth_plan.c`) | none besides its bytes | evaluate at a time, convert to trajectory | the first entry that is not before the time asked for, else the last, with what it inherits; the trajectory flies it |
| Polynomials, parsing, CRC, utilities, errors | none | pure functions | |

How they interact. A query of the light player calls `seek`, which calls
`step` of the executor at every wakeup time up to the target and once at the
target; `step` reads commands from the store, pushes and pops the loop stack,
sets up triggers on the host's signal source, and gives colours to the
transition. The source calls nothing; triggers poll it in `step`, and the edge
detector calls the trigger back, which fires an action on the store. The
builder writes into a buffer and hands it to a trajectory; the RTH plan is
converted by way of a builder; all files are read through the block parser.

What is hard: replay after a rewind, calls that are late, zero-length and
overtaken fades, the reuse of trigger slots, unsigned wraps, a full loop stack,
fixed-size and narrowed integers, and half-done operations after a failed
allocation or read. There are no threads, and nothing is stored across a crash.
`PROJECT.json` lists each hazard at its line.

## The modules

| Module | Code | What it holds |
|---|---|---|
| `Bytecode` | `commands.*`, the argument readers of `executor.cpp`, the reading half of the store | `Decode`: a program as a function from *every* location to an instruction, because a jump can land anywhere |
| `LoopStack` | `loop_stack.*` | the stack with its overflow into the count |
| `EdgeDetector` | `edge_detector.h` | the detector as operators on a record |
| `Triggers` | `trigger.*`, `findTriggerForChannelIndex` | slots, channels, source pointer (absent, bound, or wild) |
| `Executor` | `executor.*`, `transition.h` | `step()` and all the commands; no specification of its own |
| `LightPlayer` | `bytecode_player.h`, `program.cpp` | an executor driven by `seek()` |
| `Playhead` | the promise of `seek()` | the abstract specification |
| `LightPlayerAnswers` | the queries of `program.cpp` | the player with a record of its answers, and of whether a fade of no length gave the colour shown |
| `MainLoop` | the host of an executor | an executor driven by a host that may be late |
| `SignalEdges` | a detector fed by a noisy channel | |
| `LoopUnrolling` | loops by their structure | the reference for loops (recursive, for TLC only) |
| `Buffer` | `buffer.c` | every operation as the set of its outcomes, because an allocation may fail |
| `Buffers` | a program with several buffers | the state machine on top of `Buffer` |
| `ByteString` | the promise of a buffer | the abstract specification: a string, without capacity |
| `Builder` | `builder.c` | the builder on top of `Buffer`, with a stack of the calls it still makes |
| `BuilderUse` | a program that builds trajectories | |
| `Trajectory`, `YawControl` | the reading halves of `trajectory.c` and `yaw_control.c` | headers and segments from bytes |
| `SegmentCursor` | the players of both and the trajectory statistics | one machine, which plays either kind |
| `Polynomials`, `Rationals` | `poly.c`, and the floats of all | operators on exact fractions |
| `RTHPlan`, `RTHUse` | `rth_plan.c` | decoding of entries; the search, then the conversion of an entry call by call on `Builder` |
| `Parsing`, `Scaling` | `parsing.c`, `utils.c` | integers, varints; scales and durations |
| `BlockFile` | `binary.c` | the block parser over memory, a file and a pipe |
| `BlockLoading` | the `init_from_*` functions of the four kinds of objects | a program that reads a file block by block or loads an object |
| `Colors` | `colors.c` | |
| `LightPrograms`, `MC*` | | alphabets of commands and the instances |
| `*_proofs` | | the theorems |

`Executor` EXTENDS the modules of its parts and is composed twice: with the
player, where time comes from `seek()`, and with the host's main loop. `Buffer`
is composed with its users `Buffers` and `Builder`, and `Builder` with its users
`BuilderUse` and `RTHUse`. `SegmentCursor` extends both formats it plays.

Correspondence. A call of `step()` is split at its own parts: `BeginStep`
(clock reset), then `StepWhenEnded` or `CheckAndFireTriggers`, `AdvanceFade`
and one command. `phase` is the place in the call. The environment acts only
when `phase` is `"idle"`, because the library is sequential. `seek()` is split
at each call of `step()`; `seekState` is the place in it. The variables have
the names of the members without `m_`. Variables that only exist in the model:
`target` (the argument of `seek`), `phase`, `seekState`, and the records
`answers`, `probe`, `atOnce`, `edges` and `time` that properties compare.

What is abstracted. The program is decoded once instead of byte by byte, so
a command that runs into the end of the store is decoded with zeros, as
`nextByte()` delivers them. The clock skew factor is its default of 1.
Progress of a fade is an exact fraction. `m_currentCommandStartTime` is always
`now` and has no variable. Filtered channel values are those of a signal that
is either of `SignalValues`. Detector time starts from zero when reset.
Some definitions are external (the host, its source, its channels): their
behaviour is whatever the library's use of them allows.

The other machines are split in the same way where the code can stop or go on
differently: a turn of the loop of `seek_to_time()` in `SegmentCursor` (`call`
is the query and the place in it), an entry of the plan in `RTHUse` (`scan`), a
segment in `Builder` (`calls`, what is still to be called), a read or a seek in
`BlockFile` (`call.at`). `SB_CHECK` is the early return in each: the rest of the
stack is dropped. `meant`, `route`, `wanted`, `torn`, and `placed`, `from` and
`fault` of the parser are history that only properties read.

Further abstractions. Floats are exact fractions, and rounding to the grid of a
trajectory is exact. A buffer is its contents and the length of its storage: what
lies beyond the end is not read. `SB_FREE` of memory is taking its address out of
`heap`. The CRC is any function that goes on byte by byte from zero (`CrcStep` on the
values `Crcs`): the parser only compares it. In the run it is a small polynomial
remainder, and its chunks are 12 bytes instead of 256. The table of black-body
colours is a constant. All objects are loaded by the same steps in the code, so
`BlockLoading` has one set of actions with the kind as a parameter.

Undefined behaviour is a choice. The loop that overflows the stack stores
its start over the count, and the byte they share holds what was written last,
so `BeginLoop` allows both orders of the two writes. A call through the
uninitialised source pointer ends the behaviour (`UseWildSource`); this is the
reason for `CHECK_DEADLOCK FALSE` in `MCMainLoop.cfg`. The other one is in
`MCRTH.cfg`: a conversion is done once, and then the program stops. What an
uninitialised bounding box holds is one of `Garbage`; a read that fails or is
short is one of `Faults`.

## The runs

| Run | Shows |
|---|---|
| `player` | `IInv`, the inductive invariant; `ExecutesOnTime`: with `seek()` as the caller nothing is ever late; `FadeTracksWakeup`: no fade outlives its command; `NextNotBeforeTarget`; `SettledAnswersAgree`: two answers for one timestamp agree, whatever was asked in between, if no command is still due at it; `StepTimesGoForward`; `FadesAreContinuous`: a fade starts from the colour shown, unless that is the colour of a fade of no length; `SeekTerminates`; `ImplementsPlayhead` |
| `loops` | `LoopsUnroll`: a program that has ended took the time of its unrolled form; `LoopsAreCounted` |
| `main_loop` | `LateCallsDoNotDrift`, `NeverEarly`, `FatalErrorsStop`, with a host that is late, detaches its source, stops and rewinds; `OneTriggerPerNonzeroChannel`; types, with counters that wrap |
| `edges` | `EdgesAlternate` |
| `buffer` | `WritesStayInside`, `OneOwner`, `LeaksOnlyWithoutMemory`, for two buffers and failing allocations; `ImplementsByteString`: the capacity is invisible, also in failures |
| `builder` | `BuiltAsAsked`: reading a trajectory back gives the route that was asked for; `BytesHaveOneOwner`, `HandsOver`, about the bytes and the scale; `SegmentsAreKept`, also by calls that are refused; `LeaksOnlyWithoutMemory` |
| `rth` | `EvaluatesToMeant`: plans are encoded from what they mean, and evaluation gives it back; `ScaleIsEnough`; `FliesTheEntry` |
| `cursor` | `KnowsWhereItIs`: segment, time and place agree with a walk from the start, also when times wrap; `AnswersAreOnCurve`: positions, velocities and accelerations; `SearchesFind`: a takeoff at the proposed time arrives in time, and arguments that make no sense have their answers; `BoxIsTight`; `QueriesReturn` |
| `blocks` | `AnswersAreTrue`, `OpensSoundFiles`, `MemoryIsOwned`, `CallsReturn`, for memory, files and pipes whose reads fail |
| `colours` | `ConvertsAsSetUp`, `ColorsSurvive` |
| `loop_overflow`, `debounce` | a disagreement each between the code and a comment in it, see Findings |

`AnswersAreOnCurve`, `SearchesFind` and `BoxIsTight` are compared with a reference
of their own in `SegmentCursor`: all segments laid end to end from the header, and
the values of the curves by Bernstein's formula, where the code evaluates
coefficients that it has computed another way.

Each property of a passing run has a mutant, a plausible bug in one mapped
definition, that breaks it under the same configuration. The mutated
definitions stand before the original, marked as mutants.

### Bounds

| Bound | Value | Why it is enough |
|---|---|---|
| `Units`, `MaxUnits` | all programs of up to 3 units of an alphabet in `LightPrograms` for the player, 2 for the main loop, 6 in `loops`, 10 in `loop_overflow` | one command sets up, one interferes, one observes; the alphabets have every command and both valid and invalid arguments |
| durations in `TimedUnits` | 0, 20 and 40 ms | fades that take time and one that takes none |
| `Targets`, `Probes` | 0, 10, 20, 50; 20 is compared | before, in the middle of, at the end of, and beyond the 20 ms commands |
| `HostTimes` | 0 and 30 | on time, and late by more than a command |
| `HalfFrame` | 20 | the code's value |
| `MaxLoopDepth` | 4 in the code; 1 in `player`, 2 in `loops` | a small stack is filled by short programs, so that refusals happen |
| `MaxTriggers`, `NumChannels` | 2 in `main_loop` | with two slots one can be free in front of the other; the code has 4 |
| `SignalValues`, `Samples` | low and high, and 128 in the middle range for the detector | the detector tells only the three ranges apart |
| `SuspendLimit` | 2 instead of 2^15 | the counter wraps in reach |
| `IntMax` | 127 or 1000 instead of 2^31 - 1 | an invalid address fits in a varint of one byte |
| `TimeModulus` | 1000000 instead of 2^64 | larger than every time of a run, so that only the subtraction wraps |
| `IdleDelay` | 60000 | the code's value |
| `MaxNesting` | 2; 5 in `loop_overflow` | equal to the depth of the stack; one more |
| `LastTime` | 8; 6 in `debounce` | several edges, and longer than the interval |
| `Names`, `Blocks` in `buffer` | 2 and 3 | both buffers can have storage and one can move; symmetric, which is sound because that run has safety properties only |
| `SizeMax`, `MaxObject`, `SizeBits` | 9, 4, 4; 255, 127, 8 for the builder; 1023, 511, 10 for plans | sizes are refused, doubled past the largest object, and clipped, within a few calls |
| `Lengths`, `Strings` | 0, 1, 3; up to two bytes | nothing, one, and more than doubling gives |
| `MaxDuration` | 10 with durations 7 and 25 in `builder`; the code's 60000 in `rth` | 25 is split twice |
| `MaxParts` | 2 | a part that was written, and one that fails after it |
| `Scales`, `Positions` in `builder` | 0, 2; on the grid, off it and negative, out of range | an invalid scale, and every outcome of an encoded coordinate |
| `WordBits`, `PlanMaxDuration`, `MaxMsec` | 16 bits, 1000 s, 205 s | durations that are refused and times that wrap are varints of at most three bytes |
| `Plans`, `Times`, `Positions` in `rth` | seven plans, eight times, three places | all actions, inheriting from one and from two entries before, before the first and after the last; a point that is not there; scales of 1, more, and out of reach, and one that only the neck asks for |
| `Shows`, `Queries` | five trajectories, four yaw curves, thirty-three queries | empty, scale zero, all degrees, segments without duration, one longer than a word; heights that are negative, zero, reached and never reached, climbed to before and after the start of the show, and not at all |
| `TimeLimit` | 30 instead of 2^32 - 1 | one show is longer, and wraps |
| `Infinity`, `Resolution` | 1000; 2 ms | beyond all times; several steps of a search in each segment |
| `Files`, `ChunkSize` | thirteen files of up to 24 bytes, chunks of 12 | every header, a wrong checksum, files that end with a chunk and within one, that are cut in a header and in a body, and a file in a block; the stored checksum is in the first chunk |
| `TypesAsked` | 1, 2, 5 | found first, found twice, absent |
| `Palette`, `Whites`, `Temperatures`, `Ratios` | five colours, the extremes of the others | light in all channels, some, none; ratios outside of 0..1 |

The programs for the player contain no loop that takes no time: `seek()` does
not return from such a program, in the code as in the model.

### Fairness

The library is sequential, so a call that runs keeps running until it returns;
nothing forces the caller to make one. The three liveness runs assume just that:

* `player`: weak fairness of `ContinueSeek`, the rest of a call of `seek()`.
* `cursor`: weak fairness of `Turn`, a turn of the loop of a query, written out
  as `Fairness` instead of `WF_cursorVars(Turn)`, because the enabledness
  of so large an action is slow to evaluate. A turn is enabled during a call
  unless it would leave the cursor as it is (`TurnsOnTheSpot`), which a loop may
  do for ever. So `QueriesReturn` fails if the cursor is ever stuck.
* `blocks`: weak fairness of `Turn`, a step of a call. Reads may fail, but they
  answer.

The other specifications have no fairness.

## What is proved

The proofs hold for all programs, times, files, and numbers of triggers and
channels that satisfy the named assumptions. `ProgramsAssumption`: programs are
functions from naturals to instructions. `ExecutorAssumption`,
`TriggersAssumption`, `MaxLoopDepthAssumption`, `LightPlayerAssumption`,
`MainLoopAssumption`, `SignalEdgesAssumption`: constants are numbers of the proper
kind. `BufferAssumption`: SIZE_MAX is at least twice the largest object.
`BuffersAssumption`: arrays and lengths are of a size that an allocator grants, and
the mark of a buffer without storage is not a string. `BuilderAssumption`: a
byte holds 0 to 255, and the largest object holds a segment, whose duration has
16 bits. `BuilderUseAssumption`: places are integers, durations
naturals, and the program either gives the builder a start again or does not.
`ParsingAssumption`, `RTHPlanAssumption`, `ScalingAssumption`: a word has at least
eight bits, and limits of times are naturals. `RTHAssumption`: plans can be encoded at
all (`Encodable`: numbers fit a word, altitudes are on the scale of the plan, counts have
16 bits), and times and places are integers. `LoadingAssumption`: the null pointer is no block, and a program
lends memory that is not empty. `BlockFileAssumption`: files are sequences of bytes, a
checksum goes on byte by byte from zero, and a chunk has room for the stored one.
`CursorAssumption`, `QueriesAssumption`: infinity is beyond the clock and one step of a
search after it, and no argument, an integer like the speeds, is beyond infinity. `ShowsAssumption`: shows are
sequences of bytes in which no part is cut off (`IsWhole`), because the code reads on
after the end of one that is.

* `Executor_proofs`: every handler keeps the types of the executor. One lemma
  for each part of `step()`, one for all the handlers, used by both compositions.
* `LightPlayer_proofs`: `TypeCorrect`; `Invariance`; `CommandsExecuteOnTime`;
  `FadesEndAtWakeup`; `NextIsNotBefore`; `TimeGoesForward`; and
  `PlayerImplementsPlayhead`, the safety part of the refinement.
  `ExecutesOnTime` is not inductive: that a command is due exactly now follows
  from the wakeup time having been handed over to the player (`HandOverInv`),
  from the loop not passing it (`SeekInv`), and from the executor never being
  behind its schedule (`ScheduleInv`), which in turn needs that commands
  execute on time. `IInv` is the conjunction, with the fade and its end.
  `FadesContinue` is `FadesAreContinuous`, from `ColorInv`: between two fades the colour
  to start from is the one that is shown, unless that is the colour of a fade of no length,
  which shows it without making it the one to start from (finding 3). `atOnce` says when
  that is; all other commands, the end of a fade, and a restart keep the two together.
* `MainLoop_proofs`: `TypeCorrect`; `ScheduleInvariance`, with `NoDrift`,
  `NothingIsEarly` and `FatalErrorsAreFinal` from it; `OneTriggerEach`. With a
  late host the wakeup time may be past, and the invariant is weaker than the
  player's: the wakeup time is the origin plus the durations, or a late reset
  of the clock has passed it. For triggers the invariant adds that a free slot
  has the index of channel 0 (`FreeSlotsOnZero`), which is what makes the
  lookup right for every other channel, and wrong for channel 0.
* `Buffer_proofs`: what the operations of `Buffer` do, on any heap: the lemmas
  that the proofs of both users of a buffer cite. `Keeps` says what an operation may
  do to its buffer and to the blocks of others, `Promises` what it may do to the
  contents and which results it may give, and one lemma for each operation shows that
  all its outcomes do no more.
* `Builder_proofs`: `BuilderSafe`, with `OneOwner`, `NothingElseLeaks` and
  `WrittenStays` from it. The inductive invariant needs that a living builder
  holds its header at all times: a hand-over initialises the trajectory from the
  bytes and lets the builder forget them, and a trajectory does not take an
  empty array, so that without the header the bytes would belong to nobody. It also
  needs the types of what is still to be called (`CallRecord`), because a line is
  split into parts whose durations are computed.
  `RouteBuilt` and `RouteHandedOver` are `BuiltAsAsked` and `HandsOver`, for all
  scales, routes and lengths of segments up to the 16 bits a duration has
  (`BuilderAssumption`), for a builder that was new or given a start; the program may
  also draw without one after a hand-over, and then they say nothing (finding 4). Both relate what was asked to a walk over bytes, and the
  bytes that make a segment are written by several steps. The invariant, `Built`, says of each
  moment what the two halves of the route are: the header gives the builder's scale, and
  where the points read from the bytes end (`Drawn`), the calls still to be made lead on
  along the rest of the route, and a hold is the last of them (`Leads`, `Timed`). Below it
  are the round trips of flags, coordinates and durations through their bytes, that segments already
  there read the same when more follow, and that `Waypoints` is the only way along the bytes
  (`IsWay`), by induction over a set of naturals. A line cut short by a failed allocation
  leaves half a segment (finding 9), which is why the properties are said of
  builders that are not `torn`.
* `RTH_proofs`: `PlanEvaluated` is `EvaluatesToMeant`, for all plans, times and widths of words.
  Like those of a route, what is read from bytes is compared with what they were made of, and the entries have
  different lengths, so that the search knows where it is only from what it has read. The
  invariant, `PlanInv`, says where that is: while the search goes on (`Searching`), the
  reader is behind as many encoded entries as it has read, the entry it has is the meant
  one after those (`BeforeEntry`), the sum of their times still fits a word, and none of
  them was due. Below it are the round trip of numbers of variable length, whose
  last group may be cut off by the end of a word (`VaruintDecodes`), of an entry, field by
  field, over the one it inherits from (`EntryDecodes`), and that the reader finds each
  entry behind the points and the entries before it (`PlanIsLaidOut`). An entry that is
  the same as before has the fields of the last one that is not (`MeantSteps`), as far as
  its action has them, by induction over the entries.
  `ScaleSuffices` and `EntryFlown` are `ScaleIsEnough` and `FliesTheEntry`, for all plans,
  times and places. They follow a conversion from the entry to the bytes of its
  trajectory. The invariant, `FlightInv`, says that nothing is built before the entry was
  found, and that there is a flight `f` from then on: its scale, how long it waits, its
  moves, and where and when it ends are what the entry asks for (`IsTask`), its moves lead
  there and are in reach of its scale (`Fit`), and the conversion is somewhere on it
  (`Converting`): before the builder, at its start, at the wait, between calls or in
  one (`Moving`), or at its end. While it is moving, the bytes and the calls that are
  left lead along a route (`Drawn`, as for `RouteBuilt`), the moves that are left lead on
  from the end of it (`Course`), and the vehicle either has not left its start
  (`Waits`) or did so when the wait was over (`HasWaited`). Before that stands `TaskIsFit`,
  that every entry with a scale is such a flight, for which the four raises of the scale
  must cover every coordinate of the moves (`ScaleForSuits`): only an entry with an
  altitude has a neck, so that the neck and the target together need no scale of their own.
  A line that is split goes by way of a midpoint that was not looked at when
  the scale was chosen; it is in reach because the ends are (`MidpointReach`), which is
  why the builder's last position is part of the invariant. The calls
  of the builder are `BuilderUse`'s, and the lemmas about them (`LineGives`, `SplitGives`,
  `HoldGives`, `HandOverGives`) are shared by both proofs. `FlightInv` says that there is
  such a flight among all there could be, which TLC cannot look for; what it implies is
  what the run checks.
* `BlockLoading_proofs`: `LoadingSafe`, with `MemoryIsAlwaysOwned` from it, for all
  files, faults and block types. `MemoryIsOwned` says who owns a block but not
  at which stage a call is; `StagesMatch` adds that a call has a block exactly from
  its allocation to its end, has one at the most, and that there is no object
  meanwhile. Without that the error path, which frees what the call holds, could
  free what an object owns.
  `AnswersAlwaysTrue` and `SoundFilesAreOpened` are about the parser, for all files,
  sources, chunk sizes and orders of calls. Both compare it with a reference that
  knows nothing of the parser: the header, the checksum and the blocks as functions of
  the file's bytes (`Sound`, `BlocksOf`). Their inductive invariant, `ParserInv`, says
  what the parser knows at each step of a call: how much of the header it has read
  (`HeaderInv`), of which part of the file the checksum is so far (`ChecksumInv`), that
  all blocks from here on are blocks of the file (`PlacedInv`), that none of those it
  looks for has been passed (`SearchInv`), and that the body it has read is the
  current block's (`BodyInv`). All of it holds for a parser that was set up at the
  start of the file (`AtStart`); one that was set up elsewhere reads a file of its own.
  `placed` is needed in `PlacedInv`: after a header that could not be read in
  whole the parser may be on a block that is not there (finding 11). `OpensSoundFiles` is
  proved for behaviours with `ShortReadsAreNoticed`: a read that is short while the
  checksum is computed ends it early, and that of a part of the file may be the expected one
  by chance. In the instance of the run it never is: TLC finds `ShortReadsAreNoticed`,
  like `ParserInv`, to be an invariant there. Nothing but a short read can violate it.
  The recursive functions of the reference, `BlocksFrom` and `CrcSums`, are shown to be what
  their definitions say by induction over a set of naturals, with `WFMin` of
  `WellFoundedInduction`, which takes no operator as a parameter.
* `Leaves_proofs`, about the components that use no other: the edge detector, the
  colours, the cursor of the players and the program with several buffers. `EdgesDoAlternate` is
  inductive as it stands. `ConversionDependsOnLastSetUp` needs what is known of a
  temperature between set-ups (`ConversionInv`): as long as the method is one of
  reference, a temperature other than zero is that of the multipliers, so that
  skipping it is right; with another method it is stale. `PackedColorsComeBack` is
  about all colours.
  `CursorSafe`, with `CursorKnows`, `CursorArrives` and `DurationsAreTotals` from it, is
  about the players of trajectories and of yaw control, for all shows and all orders of
  queries. What they are compared with is the walk through a show, a recursive function
  of its bytes (`Places`): it gets to the end, offsets and times do not fall along it
  (`OffsetsGrow`, `WalkIs`), again by induction over a set of naturals. `KnowsWhereItIs`
  is not inductive: it says where a segment begins and not which, and the next one is
  built from its length, its end and its last points. `SegmentInv` adds that all these are
  those of the part at that place of the walk, or of the rest at the end, whose end is
  infinite. `CallInv` adds that a time asked for is never beyond infinity, so that no seek
  runs on from the last segment, and that the sum of the durations is the time at which
  the current segment starts. A search takes one step more than the clock has: it goes on
  only from a segment that is not the last. `SeeksArrive` and `DurationIsTotal` are said of
  shows no longer than the clock; the places and positions of `KnowsWhereItIs` hold
  when times wrap, too. Where in the walk the cursor is does not depend on the queries
  before, and that is what a route to an answer could spoil.
  `BuffersSafe`, with `WritesAlwaysStayInside`,
  `AlwaysOneOwner` and `LeaksAreForMemory` from it, is proved for any number of buffers, any
  width of `size_t`, and all arrays and lengths of which an allocator grants
  objects. Two lemmas show that an outcome that `Keeps` keeps the invariant,
  whether the buffer is still there (`PlacedKeepsInv`) or not (`GoneKeepsInv`). The
  invariant adds to the two properties that no capacity is more than an
  allocator grants (`CapacitiesAreObjects`): without it, the sum in
  `sb_buffer_extend_with_zeros()`, whose wrap is not looked at, could make less
  room than is then filled with zeros. `BuffersAreByteStrings` is the refinement:
  under the map from a buffer to its contents every step is the step of
  `ByteString` for the same call, or a stutter, also when an allocation fails half
  way and when a view becomes an owner.

Only model-checked: `SeekTerminates`, `QueriesReturn`, `CallsReturn` and the
fairness half of `ImplementsPlayhead` (liveness is out of TLAPS's reach here);
`LoopsUnroll` and `LoopsAreCounted` (their reference is recursive; the second
does not hold when the stack overflows); `SettledAnswersAgree` (it relates two runs
of a program);
`ColorsSurvive` (the fractions of `Rationals` are in
lowest terms by a recursive function); `AnswersAreOnCurve`, `BoxIsTight` and the part of
`SearchesFind` about takeoff and landing (that the coefficients of a polynomial have the
values of Bernstein's formula is an induction over the degree, in fractions in lowest
terms).

## Findings

Two runs show a disagreement with a comment of the code, quoted with its line in
`PROJECT.json`:

1. `loop_overflow`: `LoopStack::begin()` accepts one loop more than fits, and
   overwrites the number of loops.
2. `debounce`: the debouncing condition is the wrong way round.

Observed while modelling, and in the models unless said otherwise:

3. A fade of duration 0 is over in the step that starts it (`executor.cpp:220`), where its
   end colour is not made the one to start from, although `step()` is to "make sure that
   the next transition starts from the current end color" (`executor.cpp:353-354`): the
   next fade starts from the colour before it. Without `~atOnce` TLC finds
   `FadesAreContinuous` violated by a fade of duration 0 and one of 20 ms.
4. After the hand-over to a trajectory, where "The builder will be reset to an
   uninitialized state" (`builder.c:194-195`), the builder has an empty trajectory but
   remembers its last position: a program that goes on without giving it a start gets
   lines without the coordinates that they share with that position. Without `started`,
   and with a route that begins at the origin, TLC finds `BuiltAsAsked` violated by the
   first line after a hand-over.
5. A fade executed after its end, in a late main loop, has a duration that wraps to
   almost 2^64 and keeps its start colour under the commands that follow.
6. Channel 0 can get a second trigger, because free slots have its index. The
   address of a triggered jump is read and forgotten. Triggers survive `rewind()`.
7. `seek()` does not return from a loop without delays.
8. Growing a view of nothing never returns (`buffer.c:309`): its capacity of zero
   is doubled. Appending a buffer to itself reads from the old storage after a
   growth has moved it (`buffer.c:257`). Both are left out of `Buffers`.
9. `append_line()` that fails leaves its half-written segment in the buffer.
10. The conversion of an RTH plan entry returns on an error without destroying its
    builder, whose memory is lost.
11. A failing read of a block header leaves the type of the new block with the place
    of the old one. A read that is short while the checksum is computed ends it
    early, so that a sound file is refused. After a body that is cut off a search
    fails with EREAD in memory, where the seek fails, and with ENOENT on a descriptor,
    where the read finds the end. The offset of a descriptor is not reset between
    two loads from it.
12. Clearing or destroying a trajectory that is a view fills the caller's bytes
    with zeros.
13. `sb_rgbw_conversion_use_color_temperature()` with temperature 0 is skipped after
    a reference colour was set, which is kept with that temperature.
14. The bounding box of a trajectory with a polynomial of a degree above three
    reads what was never written.

## Not modelled

* Rounding of floats, and what follows from it: the conversions between the clock of the
  program and that of the host (`executor.cpp:52` and `258`) lose milliseconds above
  2^24 ms, and are exact in the model. The cubic solver: nothing calls it.
* `suspend()` of the store and JUMP actions of triggers: no code calls them.
* Easing modes other than linear: the executor never selects one.
* Two executors with the one global error handler: no document says whose error a
  caller reads.
* The polynomial of the CRC, the table of black-body colours, and the table of error
  names: constants.
* Build files, vendored code, tests.

## Plan

What is left: `SettledAnswersAgree`. The executor's state after each command would be
a function of the program and the number of commands since the last rewind, and an
answer that is settled the outputs of the last of these states that its time has reached,
whatever was asked in between.
