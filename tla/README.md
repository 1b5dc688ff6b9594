# A TLA+ model of CMock

CMock reads a C header and generates a *mock module*: C code with the functions
of the header, which a test tells what calls to expect and what to answer.  The
generator is Ruby (`lib/`), what the mocks need at run time is C (`src/cmock.c`).
The repository also holds a complete embedded program whose tests use CMock
(`examples/temp_sensor`).  This directory models the parts of all three that keep
state: the arena the mocks keep their expectations in, the mock functions and
what each plugin adds to them, the comparison of pointer arguments, the passes of
the header parser, the loading of plugins, the way files are written, and the
example program with the controllers it talks to.

Line numbers are those of the repository beside this directory; its root is
`src/` in `PROJECT.json`, so `src/src/cmock.c` there is `src/cmock.c` here.

## Inventory

| Component | State | Operations | What makes it correct |
|---|---|---|---|
| memory manager, `src/cmock.c` | one buffer, its size and free pointer; a link word in front of every block | `MemNew`, `MemChain`, `MemNext`, `MemEndOfChain`, `GetAddressFor`, `MemFreeAll`, `MemFreeFinal`, the byte counters | blocks lie in the buffer and do not overlap; a chain is the queue of what was added and not yet taken; loops over a chain end |
| generated mocks, `cmock_generator.rb` and the plugins `expect`, `expect_any_args`, `cexception`, `ignore`, `ignore_stateless`, `ignore_arg`, `return_thru_ptr`, `callback` | `struct Mock`: root of a chain, ignore flag, last value, callback and its count, per function; `GlobalExpectCount`, `GlobalVerifyOrder` | `_Expect…`, `_Ignore…`, `_StopIgnore`, `_ReturnThruPtr`, `_IgnoreArg`, `_AddCallback`, `_Stub`, the mock itself, `_Init`, `_Verify`, `_Destroy` | a test passes if and only if the calls it expects are made; answers are those asked for |
| argument checks, `cmock_generator_utils.rb`, plugin `array`, `get_helper` of `cmock_unityhelper_parser.rb` | expected pointer, size, depth and ignore flag in the call instance | `_Expect`, `_ExpectWithArray[Extended]`, the checks of the mock | what was asked for is compared, at the time of the call |
| header parser, `cmock_header_parser.rb` | text; a stack in `remove_disabled_code_from_source`, another and a flag in `parse_cpp_functions`; attributes of arguments in `parse_args` | `parse` and its passes | disabled code is dropped and nothing else; public static functions are mocked under their scopes; a size is paired with its pointer |
| file writer and skeletons, `cmock_file_writer.rb`, `create_skeleton` of the generator | the file system | `create_subdir`, `create_file`, `append_file`, `update_file` | nobody reads half a mock, nobody loses the code written into a skeleton |
| plugin manager, `cmock_plugin_manager.rb` | loaded classes, a lazily made mutex | `initialize`, `run` | plugins are loaded once and run by priority |
| configuration, `cmock_config.rb` | a map of options | merging | – |
| driver, `cmock.rb` | – | parser and generator, for each file in turn | – |
| example: scheduler, `TaskScheduler.c`, `TimerModel.c`, `TimerConductor.c` | two tasks: a flag and the start of a period | `Init`, `Update`, `DoUsart`, `DoAdc` | tasks are periodic, also where the clock wraps |
| example: sensor and filter, `AdcTemperatureSensor.c`, `TemperatureCalculator.c`, `TemperatureFilter.c`, `AdcModel.c` | the filter and whether it has begun | a count to millivolts, to a temperature, to an average | readings are right to the millivolt; failures are reported and recovered from |
| example: main loop, conductors and interrupt, `Main.c`, `Executor.c`, `*Conductor.c`, `UsartModel.c`, `UsartPutChar.c`, `TimerInterruptHandler.c` | the system time; what is being sent | `Executor_Init`, `Executor_Run`, `Timer_InterruptHandler` | the clock is exact; the program goes on reporting |
| example: chip configuration, `AT91SAM7X256.h`, `*Configurator.c`, `*Hardware.c`, `UsartBaudRateRegisterCalculator.c`, `IntrinsicsWrapper.c` | the registers of the chip | writes and reads of registers, in order | the controllers are set up as intended, in an order they accept |

The parts meet like this.  The driver has the parser turn a header into a
description of its functions; the generator asks each plugin for its share of
each function, in the order of priorities, and hands the text to the file writer.
The generated mocks call the memory manager and Unity; a test calls the mocks,
directly through the interface the plugins provide and indirectly through the
code it tests; mocks call back into the test, which may call mocks again.  In the
example a main loop asks three conductors in turn; an interrupt advances the
clock that the scheduler reads; the scheduler says when the sensor is read and
when the filter's temperature is sent.

What is hard in CMock is not parallelism – a test is one thread – but the
sequences of calls.  All of `_Expect`, `_IgnoreAndReturn` and `_ReturnThruPtr` put
instances on one chain, and what one leaves another reads as its own.  A mock
takes its instance off the chain *before* it checks it, and then callbacks,
exceptions (`longjmp`) and failed assertions leave it in the middle.  Memory is
never cleared between tests.  The arena may move under a pointer.  Two runs of
CMock may be killed or run at the same time, and several threads of a build may
load plugins.  In the example the hard things are the interrupt, a clock that
wraps, and a chip that may not have been reset.  The `hazards` of `PROJECT.json`
list each of these at its line, with the properties that cover it.

## Modules

| Module | Models | Runs |
|---|---|---|
| `CallQueue` | abstract: every function owns a FIFO of instances, an instance is in at most one | (as a property of `guts`) |
| `Guts` | `src/cmock.c` and `src/cmock_internals.h` | `MCGuts`: `guts` |
| `GutsProofs` | proofs about `Guts` | – |
| `MockContract` | abstract: what the author of a test is promised | (as a property of `mock_*`) |
| `MockRuntime` | one mock module run by a test runner | `MCMock`: `mock_ordered`, `mock_mixed`, `mock_stateless`, `stub_verify`, `moved` |
| `MockProofs` | proofs about `MockRuntime` | – |
| `ContractProofs` | proof that `MockRuntime` implements `MockContract` | – |
| `ArgChecks` | comparison of a pointer argument | `MCArgs`: `args` |
| `DisabledCode`, `CppScopes`, `ArgPairing` | three passes of the parser | (in `parser`) |
| `HeaderParser` | composes them: `parse`, one header after the other | `MCParser`: `parser`, `pairing` |
| `ArgCheckProofs`, `ParserProofs` | proofs about them | – |
| `PluginLoading` | `CMockPluginManager#initialize` by several threads | `MCPlugins`: `plugins` |
| `PluginProofs` | proof about it | – |
| `FileWriter` | `create_file`, `update_file` by several runs of CMock | `MCFiles`: `files` |
| `FileProofs` | proofs about it | – |
| `PeriodicTask` | abstract: a task that is due once a period | (as a property of `temp_sensor`) |
| `TaskScheduler`, `SensorMath` | the pure part of the example: scheduler, conversions, filter | (in `temp_sensor`) |
| `Registers` | the memory map of the chip, as structs and as addresses | (in `temp_sensor`) |
| `TempSensor` | composes them: boot, main loop, interrupt, controllers | `MCTempSensor`: `temp_sensor` |
| `TempSensorProofs` | proofs about it | – |

An operator introduced by a comment `Mutant:` is never used by a specification:
it is a plausible mistake in the definition that follows it, and the `mutants`
of `PROJECT.json` say which property notices it.

### Guts

Addresses are byte offsets; `mem[a]` is the word at `a`.  `freePtr`,
`bufferSize` and `root[f]` are the variables of the code; `pc`, `client`, `obj`
and `cur` say where a call of `CMock_Guts_*` stands.  Arithmetic is that of the
unsigned `CMOCK_MEM_INDEX_TYPE`: it wraps at `IndexRange`.  `MemNew` is
`NewFits`, `NewGrows` (with `realloc`, which may move the arena and whose new
bytes hold anything) or `NewRefused`; the caller's `memset` and its filling in
of the instance are part of them.  `MemChain` is `ChainFirst`, or `ChainEnter`,
any number of `WalkOn` and `WalkEnd`, one step per iteration; `MemEndOfChain` is
`EndEnter`, `EndOn`, and `EndFound` or `EndMissing`.  `Pop` and `Forget` are the
two ways a mock gives an instance up.  `FreeAll` leaves all bytes as they are.

`owner` and `queue` are history.  `ImplementsQueues` maps them and `obj` to the
variables of `CallQueue`; `ChainsAreQueues` ties `queue` to the links in memory.
Without the second the first would say nothing about the code.

### MockRuntime and MockContract

`mock[f]` is the part of `struct Mock` about `f`, with the chain as a sequence of
instances: that a chain *is* a sequence is what `Guts` shows.  Of the arena only
how many instances it holds (`room`) and how many are taken (`used`) is left.
`stack` is the callbacks in progress.  The phases of a test are those of the
runner: a failed assertion leaves the body for the teardown, `Verify` fails or
not, `NextTest` is `_Destroy` and `_Init`.

| Code | Actions |
|---|---|
| `_Expect[AndReturn]`, `_ExpectAnyArgs[AndReturn]`, `_ExpectAndThrow` | `Expect` |
| `_IgnoreArg_<arg>`, `_ReturnThruPtr_<arg>` | `IgnoreArg`, `ReturnThruPtr` |
| `_Ignore`, `_IgnoreAndReturn` | `Ignore`, `IgnoreAndReturn` (`:ignore`), `IgnoreStateless` (`:ignore_stateless`) |
| `_StopIgnore` | `StopIgnore` |
| `_AddCallback`, `_Stub`, also with `NULL` | `Install` |
| the mock function | `CallIgnored`, `CallStubbed`, `CallsBack`, `CallFails`, `CallReturns`, `CallThrows`, and, when a callback has been entered, `StubReturns`, `CallbackReturns`, `CallbackThrows` |
| the runner: end of the body, `<mock>_Verify`, `_Destroy`, `_Init` | `EndBody`, `Verify`, `NextTest` |

What is abstracted: a function has one argument, a pointer compared by value
(how pointers are compared is `ArgChecks`).  `_ExpectAnyArgs` and `_IgnoreArg`
both come down to "the argument is not checked" when there is one.  A callback
that is running may do whatever a test may do.  An exception is caught by any of
the callers above.  The text of messages is left out, what failed is kept.

`MockContract` is the promise without mechanism: expectations are a list, a call
is accepted if and only if it meets the next one, the test passes if and only if
all are met.  It speaks of the functions that a test only expects (`Strict`);
the others run beside them in the same arena and with the same counters, and
must not disturb them.

### ArgChecks

`setup` is a kind of argument and a configuration.  All the ways to set an
expectation and the three variants of `code_verify_an_arg_expectation` are
modelled, with Unity's comparisons as `SameArray`, `SameElements`, `SameString`.
Memory changes at any time, since an expectation keeps a pointer and no copy.

### HeaderParser: DisabledCode, CppScopes, ArgPairing

Each pass is a module and goes through its input one step at a time: a line of
the header, a brace or label or declaration, a comparison of a size with a
pointer.  `HeaderParser` runs the passes in their order over one header after the
other; what reaches a pass is text that it may find anything in, so inputs are
chosen freely, and every header, well formed or not, is a behaviour.

In `DisabledCode`, `open` is what a preprocessor would know.  In `CppScopes`,
`scopes` and `wanted` are what C++ says of the place of a declaration; the parser
cuts the text at semicolons and looks at the braces of a piece before its labels,
hence `labels`, which collects them until the piece ends.  `exotic` becomes true
for what the parser does not handle (see *Findings*): what it does then is
modelled, `FunctionsInScope` does not speak of it.  In `ArgPairing` how alike two
names are is an input.

### PluginLoading

`mutex` is the class variable, read and written in two steps by `||=`.  The three
states of a class are Ruby's: requiring a file first defines the class, then its
methods, and a second `require` of the file waits.  That is external, and all of
it that matters: a thread that finds the constant defined does not require the
file, and calls `new` on whatever is there.

### FileWriter

Names stand for files (inodes), so that a run goes on writing to the file it has
opened when another run renames it.  A run is `Begin` (read the skeleton),
`Open` (truncate or create `<name>.new`), `Write` once per piece, `Remove`,
`Move`, for each of its files.  `Kill` may come between any two of them.

### TempSensor: TaskScheduler, SensorMath, Registers

`Executor_Init` is the sequence of register accesses and assignments of the boot,
put together from one definition per function of the code; `BootWrite`,
`BootStatus` and so on take them one by one, so that the interrupt and the
controllers come in between.  A write goes through `Target`: the struct member
the program names, at the offset the struct gives it, is the register the list of
addresses has at that place.  A struct is a sequence of chunks, each some named
words and a number of reserved ones; `AT91S_SYS` is a sequence of such structs.
A register is the set of its bits that are one.

The main loop is `UsartConductor_Run`, `TimerConductor_Run`, `AdcConductor_Run`
and, while a message is sent, `PutChar`.  `Match`, `Converted` and `Sent` are the
controllers, modelled from how the program uses them, `Interrupt` the handler.
`Init` is a chip after a reset, or one that the program has run on before and
that was not reset: the timer counts, its flag may be set, the converter may be
busy or hold a sample.  `systemTime` is a `uint32` that wraps at `TimeRange`.

Two assumptions about real time are in guards: an interrupt is served before the
next match (10 ms; `~cpcs` in `Match`), and at most `MaxStall` matches pass
between two updates of the scheduler.  Temperatures are kept by their order and
whether they are numbers; counts and millivolts are exact.

## Runs

| Run | Instance | What it shows |
|---|---|---|
| `guts` | two functions with blocks of 4 and 6 bytes, heap of 16 bytes that starts at none and grows, index type of 64 values | `WithinBuffer`, `NoOverlap`, `ChainsAreQueues`, `ImplementsQueues`, `LoopsEnd` |
| `mock_ordered` | two functions in strict order, expectations with and without arguments, exceptions and values through pointers, added callbacks two deep, arena of 3, six calls | `KeepsContract`, `AnswersAsSpecified`, `CountsCallbacks`, `EarlyMeansSkipped`, `TypeOK` |
| `mock_mixed` | a function that is expected, a void one that is ignored and copies values, and one that is expected, ignored, stubbed and ignored no longer, `:ignore`, arena of 3, six calls | `KeepsContract`, `AnswersBetweenIgnores`, `CopiesInOrder`, `StubIsCalled` |
| `mock_stateless` | one function with `:ignore_stateless`, seven calls | `AnswersAsSpecified`, `IgnoreClearsExpects` |
| `args` | all 90 combinations of argument and configuration, three bytes of memory and a terminator, depths 0 to 2 | `AcceptsAsPromised` |
| `parser` | conditionals and scopes nested up to three, all functions of four arguments with three scores | `KeepsWhatMayCompile`, `FunctionsInScope`, `PairsBest` |
| `plugins` | three threads, three plugins of two priorities, with and without a mutex made before | `NeverHalfLoaded`, `AllEnd` |
| `files` | two runs that share a mock, one with a skeleton, and a third that is killed once; files of two pieces | `NeverHalfWritten`, `KeepsUserCode`, `SuccessMeansComplete`, `AllGenerated`, `TypeOK` |
| `temp_sensor` | the whole boot; a clock of 21 values, periods of 8 and 4, ticks of 2, up to 3 matches between updates; counts 0, 400 and 1023; messages of two characters | `OnSchedule`, `TasksArePeriodic`, `ClockIsExact`, `PeripheralsAsIntended`, `BootInOrder`, `OwnSamplesOnly`, `WritesLandAsNamed`, `ReadingsInRange`, `FailureIsReported`, `KeepsReporting`, `TypeOK` |
| `stub_verify`, `moved`, `pairing` | the least that shows it | a divergence each, see *Findings* |

Why the bounds are enough.  *guts*: the two block sizes make a block of one test
start in the middle of a block of the test before it, so a word that was data is
read as a link unless it is cleared; `Data` holds 0 and 4, the smallest index of
a block, so that stale data looks like a link.  Three blocks fit, enough for a
chain with a first, a middle and a last and for two chains that interleave.  The
heap is full after two or three reallocations.
*mock_**: every operation changes one function by one instance; a violation
needs an instance left from one operation, one in front of or behind it, and a
call.  Six calls leave room for two of each and for the call that sees it; the
arena of 3 is exhausted within a test, and `NextTest` starts the next one.
Two callbacks deep, a callback of a function interrupts another of the same one.
*files*: two pieces tell a half from a whole file; one kill can hit any step of
any file, and the run starts again from what it left.
*parser*: an entry of either stack depends on the one below it; a class in a
namespace in a namespace, and what follows it, need three.  Two sizes and two
pointers in every order, with ties, need four arguments.
*plugins*: two threads make a mutex each, a third gets one of them; of two plugins
of one priority either may come first.
*args*: two elements tell a first from a later one; pointers overlap.
*temp_sensor*: 21 is a multiple of neither period nor of the tick, as 2^32 is of
neither 1000 nor 10, so the clock wraps in the middle of a period and between two
ticks, at another offset each time round; three matches are more than one period
of the sensor.  The count 0 is the failure the code knows, 1023 the largest.  The
registers, the divisor of the baud rate and the conversion of counts are not
scaled: their values are the program's.

Where a program ends, deadlock is not an error: runs of CMock (`files`), threads
(`plugins`), the run of a parser that raises (`parser`), the program that owns the
arena after its last test (`guts`).  All other runs check for deadlock.

### Fairness

`Guts` assumes weak fairness of `Loop`: a call of a `CMock_Guts` function in
progress is sequential C code that goes on by itself, and nothing else runs while
it does.  Nobody must call anything.  `FileWriter` and `PluginLoading` assume it of
each run and each thread: the operating system and Ruby schedule them; that a run
is killed is never required.  `TempSensor` assumes it of the program, which runs
for ever on a processor of its own, of the interrupt, which is pending until it is
served, and of each controller: a timer that counts matches, a conversion and a
character in progress come to an end.  The other specifications state safety only,
since nothing in the code obliges a test to make its next call.

## Proofs

`tlapm` checks the eight `*Proofs` modules to the last step.

**Guts**, for any functions, instance sizes, alignment, buffers static or
dynamic, under `GutsAssumption` (sizes are positive, the link word is a multiple
of the alignment, a buffer fits in the heap) and `WideIndex`: the index type
counts past the largest size that is asked of `realloc`.  The theorems are
`TypeCorrect`, `BlocksWithinBuffer`, `BlocksDisjoint`, `LinksAreQueues` and
`Refinement`; all rest on `Invariance`.

None of the properties is inductive.  That a link leads to the next instance
survives an allocation only if the allocated bytes are no link of a live block,
which needs `NoOverlap`; that survives only if blocks end below `freePtr`, which
needs `WithinBuffer` and, for the alignment of the next block, `ArenaInv`.  That
the walk of `MemChain` ends at the last instance needs `CursorInv`: the loop
stands on an instance of the client's queue.  That appending ties no loop needs
`HeldInv` (the block held is newer than every queued one, and links to nothing)
and `OrderInv`: links lead to higher addresses.  That is also why `MemNext`,
which takes only links greater than 1 and below `freePtr` for links, never cuts a
chain short.  `CarveInv` proves this once for the two ways to allocate,
`EnqueueInv` for the two ways to append, `ShortenInv` for the two ways to remove,
`ArenaFrame` and `ChainsFrame` say what steps leave alone that touch neither;
`SpanFacts` is the arithmetic of rounding up.

**MockRuntime**, for any functions, values, arena, depth of callbacks and length of
a test, under `MockAssumption` (values are numbers, plugins offer what they do).
`TypeCorrect` rests on `Typed`, which also types the stack of callbacks and the
history; it has one lemma per action.  The others take it for granted and add what
they need:

- `CallbacksAreCounted`, if `IncludeCount`: the count is kept by every action but
  `Install` and `Enter` (`CountsKept`).
- `EarlyIsEarly`, if `Ordered` and no function is both expected and ignored or
  stubbed (`OnlyStrictExpected`).  `OrderInv` has what makes it true: orders in
  chains are at most `expectCount` (`OrdersAreGiven`), and none is lost: while the
  test runs, every order above `verifyOrder` up to `expectCount` is in some chain
  (`NoneIsLost`).  A call that is early has an order greater than the next one,
  which therefore still waits elsewhere.
- `IgnoringClears`, for the plugin `:ignore_stateless` or none, functions with a
  return value, and copies only to functions that are never ignored
  (`StatelessSetting`).
- `AnswersRight`, under `AnswerSetting` and `NoneStopped`: the arena is static
  (`moved` shows why), functions that return a value do not combine an ignore
  plugin with `ReturnThruPtr`, or `:ignore` with `StopIgnore` (see *Findings*).
  `Matches` says that the chain is what the plan of the test has
  left; `Prepared` that it is so for a function whose last value is the one kept in
  `final`.
- `AnswersRightBetweenIgnores`, under `AnswerSetting` alone: with `StopIgnore`,
  `IgnoreAndReturn` and `Expect` on one chain answers are right as long as
  `NothingLeft` holds: no value is left after `StopIgnore`.  `LastIgnored` says that
  what is queued last for a function that is ignored was queued by ignoring it; so a
  `StopIgnore` that leaves nothing but expectations leaves an empty chain
  (`CleanStops`), and the plan starts anew.
- `StubsAreCalled`, if the plugin is not `:ignore_stateless`: while a function is
  ignored, what was last asked of it is not that it be stubbed (`StubInv`), because
  installing a stub ends the ignoring.
- `CopiesRight`, under `CopySetting`: with `:ignore_stateless`, whose
  `_IgnoreAndReturn` drops the chain, a function that returns a value is not both
  ignored and given values to copy.  `Copies` says that a chain holds what is still
  to be copied: from what has been written on, each instance with a value has the
  next one of those that were given, and the others have none.  That `_ReturnThruPtr`
  may put its value into the newest instance only if that one is empty keeps it so.

`MocksKeepContract` (in `ContractProofs`), if under strict order no function is
both expected and ignored or stubbed: every step of the mocks is a step of
`MockContract` or none.  The contract has two sequences, promises and accepted
calls; the mocks have chains, flags and a stack.  `ContractInv` relates them.  The
n-th instance in the chain of a function stands for the n-th of its promises that
no call has met yet, with the same argument, values and place in the order
(`Waiting`); so the oldest is the one the contract wants next and the newest the one
it may amend (`NextIs`, `NewestIs`).  Every accepted call that is not answered has a
callback of its own in progress, which runs with what its promise says (`Framed`,
`Pending`); so a callback that returns, or that an exception leaves, ends the calls
the contract says it does (`FramedEnds`).  Functions that are never ignored or
stubbed stay checked (`StrictIsChecked`), and with `OrderInv` other functions pass
no check under strict order (`PassFacts`).  Promises and calls are counted by the
size of sets of places; `RankAppend` and `RanksGrow` are the facts about them that
the rest needs.  There is one lemma per action (`ExpectSteps`, `CallsBackSteps`, ...).

**ArgChecks**, for any values in memory, depths and configuration: `ComparesRight`.
`KeepsAsked` ties what the instance remembers to what the test asked for: pointer and
size, and the depth, where 0 stands for a whole string and which is not kept at all
without the plugin `:array`.

**HeaderParser**, for any depth of nesting, any number of arguments and any scores:
`KeepsRightLines`, `MocksRightFunctions` and `PairsRightSizes`, all of `ParserSpec`,
one header after the other.  The invariant of the first says of each entry of the stack what it
remembers – whether the lines in front of its group were kept and whether those of
its `#else` are – in terms of the groups around it (`AllTaken`).  That of the second (`ScopesInv`) holds of headers with nothing that the parser does
not handle: its stack `ns` has the kind of each scope but the outermost ones it
never saw (`Follows`), the scopes are nested as it can take them apart (`Handled`),
inside of a class `pub` is what C++ has, and outside of one it is set unless a class
has ended private in every scope around (`Judges`), where functions are not handled.
`Picked`, in `CppScopes`, picks out elements of a stack by their places, since
nothing can be proved about `SelectSeq` and other recursive operators.  The third
(`PairingInv`) says that `bestPtr` leads the pointers compared so far and that the
sizes before the current one are paired as they should be.

**PluginLoading**, for any threads and plugins: `OneMutexSuffices`.  While one mutex
only was made, every thread in the critical section holds it (`HoldsOwn`), so the
class that is begun is that of the one thread that is loading (`BegunIsLoading`).

**FileWriter**, for any finite set of runs, any work, any number of pieces and
kills: `TypeCorrect` (a run has a file open exactly while it writes),
`SuccessIsComplete`, `WholeOrAbsent`, `UserCodeKept`.  No
inode has two names (`OneName`).  For files of several runs (`SharedInv`): a
temporary file with pieces missing is being written, or was left by a run that has
to generate it again, and a file that is missing or incomplete is one that some run
has yet to finish.  For files of one run (`OwnInv`): nobody else touches its
temporary file, and the user's code is at each step where the next one needs it.

**TempSensor**, for any range of the clock, tick, periods, stall and samples under
`ClockAssumption`:

- `Schedule` (the start of a period is a multiple of it and less than a period
  before the last update) and `Refinement` (`TasksArePeriodic`: each task
  implements `PeriodicTask`, also where the clock wraps);
- `ReadingsRight` (`ReadingsInRange`: a count is read as the nearest millivolt,
  whichever it is);
- `TypeCorrect` (`TypeOK`: the boot ends after its last step, and a value is there to
  be filtered, be it a temperature or the code of an infinity or of NaN);
- `WritesRight` (`WritesLandAsNamed`): every write of the boot goes through a struct
  member whose offset is the address that the list of registers gives the name;
- `ClockRight` (`ClockIsExact`), `OwnSamplesRight` (`OwnSamplesOnly`),
  `PeripheralsRight` (`PeripheralsAsIntended`) and `BootOrderRight`
  (`BootInOrder`), from any chip the boot may find: one after a reset or one the
  program has run on before.

Three of these properties speak of the program after its boot, so the invariants
say what each step of the boot has achieved: `ClockStages` (the timer is off from
step 19, its flag read away from 21, armed from 25, the time 0 from 27, no
interrupt before 34, and the clock exact once the timer runs), `AdcStages` (idle from 14, started by the program from 17) and `RegStages` (what
each mode, period, mask and pin register holds from the step on that follows its
write; and what the interrupt masks and channels can hold at most before, which is
what makes the registers right that the boot only adds to).  The proof has these parts:

1. *Memory map.*  `LayoutHolds`: for each of the seven controllers, every register
   of its list is a member of its struct, and at its address the list has no other.
   `ChunksStart` sums up the words of a struct chunk by chunk; a chunk agrees with
   the list if each of its names has the address of its place (`ChunkAgrees`); and
   distinct places have distinct addresses.  `SystemControllers` does the same for
   the struct of all system controllers.
2. *Numbers.*  `NumbersOfBoot` turns the numbers the boot writes into sets of bits,
   place by place (`BitsAre`).  `FieldOf` and its cases
   `Fields` read a field of a register as such a sum; `TC_CMRMeans`, `US_MRMeans`,
   `ADC_MRMeans` and `AIC_SMRMeans` decode each mode, field by field, against the
   tables of the chip's header: a field whose bits are all zero has its first value
   (`ClearIsFirst`).
3. *Boot.*  `BootSequence` computes which step is which, and `BootWrites` what each
   write is, by 1 and 2.
4. *Registers.*  `Puts` says that one register changes and which; `SetsBits`,
   `ClearsBits`, `StoresValue`, `StoresNothing` and `AdcReset` are the ways a write
   is stored, and `StoresOfBoot` says for each of the 27 writes what it does to the
   registers that matter.  `StagesAdvance` takes `RegStages` over such a step.

The sums in `Registers` (`Sums`) are recursive functions on an interval that is
known: `SumsOf` needs no induction, only 16 steps, one after the other.

Only model-checked: liveness (`LoopsEnd`, `AllGenerated`, `AllEnd`, `KeepsReporting`,
`FailureIsReported`), which is out of reach of the prover.  Every invariant and
every action property of the passing runs is a theorem.  What recursive definitions
compute for every input would need induction over data, which the installed provers
cannot instantiate; modules with proofs have no RECURSIVE operators.

## Findings

Three divergences have a run of their own, which TLC finds to violate what the
documentation promises:

- `moved` (`cmock_generator_plugin_callback.rb:53`): `cmock_call_instance->ReturnVal
  = callback(...)` uses an address taken before the callback ran.  With
  `CMOCK_MEM_DYNAMIC` a callback that sets an expectation may make the arena move.
- `stub_verify` (`cmock_generator_plugin_callback.rb:92`): `_Verify` fails for a
  stubbed function with an expectation left, since the callback plugin clears
  what the expect plugin has looked at already.
- `pairing` (`cmock_header_parser.rb:554`): of two sizes that have one best pointer
  the later one is paired with it, also if it scores less, and the other is lost;
  `docs/CMock_Summary.md:838` has the highest score win.  The comment at `:529` means
  to exclude pointers that are paired, but nothing sets the attribute that `:541`
  looks at.  `PairsBest` says what holds: the pointer gets one of these sizes.

The properties of the passing runs are stated where they hold, and the following,
met while they were being stated, are why some have a condition.  None of these has
a run.

- `cmock_generator_plugin_ignore.rb:81`: `StopIgnore` takes the oldest instance off
  the chain, whatever it stands for.  After an expectation and `IgnoreAndReturn` it
  drops the expectation; the value left is taken for an expectation by the next call,
  although `docs/CMock_Summary.md:192-195` has `StopIgnore` cancel what was ignored.
  `NothingLeft` keeps such tests out of `AnswersBetweenIgnores`.  In the same way
  values that were never used stand in front of a later `Expect`
  (`cmock_generator_utils.rb:81`, `docs/CMock_Summary.md:181`): the answers are those
  queued, but to calls that the test meant for the `Expect`.
- `cmock_generator_plugin_return_thru_ptr.rb:121`: on an ignored function whose
  values are used up, `ReturnThruPtr` queues an instance with the return value 0,
  which the next call returns instead of the last value
  (`docs/CMock_Summary.md:178-181`).  With `:ignore_stateless` it replaces the value
  specified in the same way (`:225-226`).  `:122`: the last value is copied from an
  address taken before `CMock_Guts_MemNew`, where the arena may have moved.
  `AnswerSetting` excludes both.
- `src/cmock.c:64`: the sum `BufferSize + CMOCK_MEM_SIZE + size` may wrap when the
  index type indexes the whole heap and no more, which is what
  `docs/CMock_Summary.md:932-934` asks of it; the buffer then shrinks and a block is
  carved behind its end.  In `Guts` with `IndexRange = 16`, `HeapLimit = 15`,
  `MemSize = 4`, TLC finds `WithinBuffer` violated.  This is what `WideIndex`
  excludes.
- `examples/temp_sensor/src/TemperatureFilter.c:28`: the first value after a start
  is not checked; if the sensor fails then, the filter keeps `-INF` and the failure
  is reported although the sensor has recovered, as long as only good readings
  follow; a second invalid one resets the filter (`:35-41`), and the next good one is
  taken.  `FailureIsReported` speaks of a sensor that fails from some time on, not of
  its recovery.
- `cmock_generator_plugin_ignore_stateless.rb:69`: `_Ignore` of a void function
  keeps what was expected of it; `docs/CMock_Summary.md:229-231` says that it
  clears it.  `mock_stateless` and `StatelessSetting` are about functions that
  return a value.
- `cmock_header_parser.rb:400`: of a piece of text the parser sees whether it has
  `public:` and `private:`, not in which order; a class in a class, a class with a
  base class, an anonymous namespace and `extern "C"` inside of a scope push
  another entry than they pop; members after a class that ended private are
  private; a public static function outside of all scopes after a scope makes the
  parser raise (`:414`).  In the documentation's example (`docs/CMock_Summary.md:
  1001-1009`) the member of a class without `public:` is skipped, as C++ has it.
  These are `exotic` in `CppScopes`.
- `cmock_plugin_manager.rb:35`: `@mutex ||= Mutex.new` may make two mutexes in two
  threads; a third finds a class that is being loaded and CMock raises "unable to
  load plugin".  `NeverHalfLoaded` is about builds in which one mutex was made.
- `cmock_file_writer.rb:80`: two runs that update one skeleton each read it before
  they write, and the user's code is lost if one reads between the other's `rm` and
  `mv`.  `:82`: so it is when a run is killed between them: the next run makes an
  empty skeleton over the copy in `<name>.new`.  `KeepsUserCode` is about skeletons
  of one run that is not killed.
- `cmock_generator_plugin_ignore.rb:45`: under strict order an expected call that
  is consumed while its function is ignored does not advance `GlobalVerifyOrder`,
  so every later one comes "earlier than expected".  `EarlyMeansSkipped` and
  `KeepsContract` are about functions that are not ignored.
- `cmock_generator_plugin_callback.rb:73`: with `:ignore_stateless` a stub leaves
  the function ignored and is not called (`docs/CMock_Summary.md:295-297`).
- `cmock_generator_plugin_callback.rb:43`: without `:callback_include_count`,
  `_CallCount()` stays zero (`docs/CMock_Summary.md:320`).
- `cmock_generator_plugin_ignore_arg.rb:43`: `_IgnoreArg` holds for one
  expectation, not "for the rest of this test" (`docs/CMock_Summary.md:245-246`).
- `cmock_header_parser.rb:102`: `#elif` is not looked at; its code after `#if 0` is
  dropped.  `KeepsWhatMayCompile` leaves it out.
- `cmock_unityhelper_parser.rb:28`: a helper for single elements compares one
  element whatever depth was given, and reads behind `NULL`
  (`docs/CMock_Summary.md:139-140`).  `AcceptsAsPromised` leaves it out.
- `docs/CMock_Summary.md:844-848` has `_ExpectWithArray` take a depth for every
  pointer; the plugin omits that of a pointer whose size follows it
  (`cmock_generator_plugin_array.rb:40-57`).  `:141-143` makes a comparison of
  addresses for zero elements depend on `UNITY_COMPARE_PTRS_ON_ZERO_ARRAY`; with
  `:smart` it does not.

## Not modelled

- Layout of generated text (includes, typedefs, namespaces, weak symbols): no
  state.
- The parser's regular expressions, and the helper header's: text in, text out.
- Configuration and driver: options are constants of the modules, a driver's run
  is one run of `FileWriter`.
- `create_subdir` (directories are there) and `append_file` (no caller).
- Several mock modules that share the order counters: the generated runner inits,
  verifies and destroys all mock modules of a test together, so for strict order
  they are one module with more functions.  A test that destroys one of them by
  hand is not modelled.  Functions with more than one argument, beyond a pointer
  and its size.
- `MemFreeFinal` followed by more tests: `Guts` ends there, as the documentation
  has it called last.
- `int` counters that overflow: a test does not make that many calls.
- Of the example: the startup code, the watchdog and the chip itself, whose
  controllers are modelled from how the program uses them; the digits of a
  message; the floating-point logarithm.  `Interrupt_Enable` is empty in builds
  without the IAR compiler (`IntrinsicsWrapper.c`); the module is the build with
  it.  The functions of `AdcConductor.c` and `AdcModel.c` that exist to show mocks
  are called by nothing.
- `scripts/`: prints a makefile.
