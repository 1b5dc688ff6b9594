---------------------------- MODULE MockRuntime ----------------------------
(***************************************************************************)
(* The C code CMock generates for one mock module, run by a test runner:   *)
(* the test sets expectations, the code under test calls the mocks, mocks  *)
(* call back into the test, and the runner verifies and destroys the mocks *)
(* after every test.  What the plugins contribute to a mock function is    *)
(* put together in the order of their priorities.                          *)
(*                                                                         *)
(* A mock function has at most one argument, a pointer compared by value   *)
(* (:when_ptr is :compare_ptr) that a value may be copied through.  The    *)
(* chain of call instances is a queue: Guts shows that it is one.          *)
(***************************************************************************)
EXTENDS Naturals, Sequences, FiniteSets

CONSTANTS
    Funcs,              \* the functions of the mocked header
    Void,               \* those that return nothing
    Args,               \* values of the pointer argument, NULL is one
    Rets,               \* return values
    Outs,               \* values to copy through the pointer
    Offers,             \* the calls the test makes, per function
    Ordered,            \* :enforce_strict_ordering
    Ignoring,           \* the plugin in use: "none", "ignore" or "stateless"
    IncludeCount,       \* :callback_include_count
    FailOnUnexpected,   \* :fail_on_unexpected_calls
    Room,               \* the arena holds this many instances ...
    Dynamic,            \* ... and grows when CMOCK_MEM_DYNAMIC is defined
    MaxSteps,           \* bound: interface and mock calls of one test
    MaxDepth            \* bound: callbacks running inside callbacks

NULL == 0
NoOut == 0

ASSUME MockAssumption ==
    /\ Void \subseteq Funcs
    /\ NULL \in Args /\ 0 \in Rets /\ NoOut \notin Outs
    /\ Args \cup Rets \cup Outs \subseteq Nat
    /\ Offers \in [Funcs -> SUBSET {"Expect", "ExpectAnyArgs", "ExpectAndThrow",
                      "IgnoreArg", "ReturnThruPtr", "Ignore", "StopIgnore",
                      "AddCallback", "Stub"}]
    /\ Ignoring \in {"none", "ignore", "stateless"}
    /\ {Ordered, IncludeCount, FailOnUnexpected, Dynamic} \subseteq BOOLEAN
    /\ Ignoring = "none" => \A f \in Funcs : {"Ignore", "StopIgnore"} \cap Offers[f] = {}
    /\ {Room, MaxSteps, MaxDepth} \subseteq Nat

VARIABLES
    mock,           \* struct Mock, one record per function
    used,           \* instances taken from the arena
    room,           \* instances the arena holds: it moves when this grows
    expectCount,    \* GlobalExpectCount
    verifyOrder,    \* GlobalVerifyOrder
    stack,          \* the callbacks in progress, innermost last
    phase,          \* of the runner: "body", "teardown" or "over"
    verdict,        \* of the test: "running", "passed" or "failed"
    steps,          \* interface and mock calls made in this test
    promised, log, offender,    \* history: see MockContract
    tale            \* history: what was asked of each function

memory == <<used, room>>
order == <<expectCount, verifyOrder>>
runner == <<phase, verdict, offender>>
vars == <<mock, used, room, expectCount, verifyOrder, stack, phase, verdict,
          steps, promised, log, offender, tale>>

RetsOf(f) == IF f \in Void THEN {0} ELSE Rets

\* The functions that are never ignored or stubbed in a test.
Strict ==
    {f \in Funcs : /\ {"Ignore", "Stub"} \cap Offers[f] = {}
                   /\ Ignoring # "none" => FailOnUnexpected}

-----------------------------------------------------------------------------
(* State.                                                                  *)

\* CMOCK_<f>_CALL_INSTANCE after memset.  asked is history: an expectation set
\* it up.
Blank == [arg |-> NULL, ret |-> 0, order |-> 0, unchecked |-> FALSE,
          out |-> NoOut, throws |-> FALSE, asked |-> FALSE]

Instances == [arg : Args, ret : Rets, order : Nat, unchecked : BOOLEAN,
              out : Outs \cup {NoOut}, throws : BOOLEAN, asked : BOOLEAN]

\* One function of struct Mock after <mock>_Destroy.
Cleared == [queue |-> <<>>,
            ignore |-> Ignoring # "none" /\ ~FailOnUnexpected,
            final |-> 0, fixed |-> FALSE, callback |-> FALSE, calls |-> 0]

Untold == [plan |-> <<>>, taken |-> 0, meant |-> <<>>, wrote |-> <<>>,
           invoked |-> 0, latest |-> "nothing",
           value |-> 0, wanted |-> 0, how |-> "nothing"]

AllCleared == [f \in Funcs |-> Cleared]
AllUntold == [f \in Funcs |-> Untold]
Nothing == [why |-> "nothing"]

Init ==
    /\ mock = AllCleared
    /\ used = 0 /\ room = Room
    /\ expectCount = 0 /\ verifyOrder = 0
    /\ stack = <<>>
    /\ phase = "body"
    /\ verdict = "running" /\ offender = Nothing
    /\ steps = 0
    /\ promised = <<>> /\ log = <<>>
    /\ tale = AllUntold

HasOne(f) == mock[f].queue # <<>>
\* Mutant: the newest instance is taken.
OldestIsNewest(f) == mock[f].queue[Len(mock[f].queue)]

Oldest(f) == Head(mock[f].queue)
Newest(f) == mock[f].queue[Len(mock[f].queue)]

-----------------------------------------------------------------------------
(* The runner and the failure of a test.                                   *)

\* The test or the code under test calls CMock.
Active ==
    /\ phase \in {"body", "teardown"}
    /\ steps < MaxSteps
    /\ steps' = steps + 1

Failed(f, a, why) == [why |-> why, fn |-> f, arg |-> a]

\* UNITY_TEST_FAIL leaves everything in progress.  After the body of a test the
\* runner still runs its teardown, after the teardown nothing more.
Fail(f, a, why) ==
    /\ verdict' = "failed"
    /\ offender' = IF verdict = "failed" THEN offender ELSE Failed(f, a, why)
    /\ stack' = <<>>
    /\ phase' = IF phase = "body" THEN "teardown" ELSE "over"
    /\ UNCHANGED <<promised, log>>

EndBody ==
    /\ phase = "body"
    /\ stack = <<>>
    /\ phase' = "teardown"
    /\ UNCHANGED <<mock, memory, order, stack, verdict, steps, promised, log,
                   offender, tale>>

\* Mutant: one ignored function silences all.
MissingUnlessIgnored == {f \in Funcs : HasOne(f) /\ \A g \in Funcs : ~mock[g].ignore}

\* <mock>_Verify: the first function with an instance left that is not ignored
\* fails the test.  That a callback is installed is looked at too late.
Missing == {f \in Funcs : HasOne(f) /\ ~mock[f].ignore}
Verify ==
    /\ phase = "teardown"
    /\ stack = <<>>
    /\ IF Missing = {}
       THEN /\ verdict' = IF verdict = "failed" THEN "failed" ELSE "passed"
            /\ phase' = "over"
            /\ UNCHANGED <<offender, stack, promised, log>>
       ELSE \E f \in Missing : Fail(f, NULL, "less")
    /\ UNCHANGED <<mock, memory, order, steps, tale>>

\* <mock>_Destroy after one test, <mock>_Init before the next.  A buffer that
\* has grown stays as large.
NextTest ==
    /\ phase = "over"
    /\ phase' = "body"
    /\ mock' = AllCleared
    /\ used' = 0
    /\ expectCount' = 0 /\ verifyOrder' = 0
    /\ verdict' = "running" /\ offender' = Nothing
    /\ steps' = 0
    /\ promised' = <<>> /\ log' = <<>>
    /\ tale' = AllUntold
    /\ UNCHANGED <<room, stack>>

-----------------------------------------------------------------------------
(* What the test asks of a mock.                                           *)

Told(f, new) == tale' = [tale EXCEPT ![f] = new]
Planned(f) == SubSeq(tale[f].plan, 1, tale[f].taken)
Promised(p) ==
    promised' = IF verdict = "running" /\ p.fn \in Strict
                THEN Append(promised, p) ELSE promised

\* Mutant: one instance too many.
HasRoomForOneMore == used <= room \/ Dynamic

\* CMock_Guts_MemNew, seen from here.
HasRoom == used < room \/ Dynamic
Take == used' = used + 1 /\ room' = IF used < room THEN room ELSE room + 1

OutOfMemory(f) ==
    /\ ~HasRoom
    /\ Fail(f, NULL, "memory")
    /\ UNCHANGED <<mock, memory, order, tale>>

\* A new instance becomes the last of the chain.
Chain(f, inst, ignore) ==
    mock' = [mock EXCEPT ![f].queue = Append(@, inst), ![f].ignore = ignore]

\* code_add_base_expectation.  What is planned for f is history.
AddExpectation(f, inst) ==
    /\ HasRoom
    /\ Take
    /\ expectCount' = IF Ordered THEN expectCount + 1 ELSE expectCount
    /\ Chain(f, [inst EXCEPT !.order = IF Ordered THEN expectCount + 1 ELSE 0,
                             !.asked = TRUE], FALSE)
    /\ Promised([fn |-> f, arg |-> inst.arg, unchecked |-> inst.unchecked,
                 ret |-> inst.ret, out |-> NoOut, throws |-> inst.throws])
    /\ Told(f, [tale[f] EXCEPT !.latest = "expect",
                   !.plan = Append(IF mock[f].ignore /\ Ignoring = "stateless"
                                   THEN Planned(f) ELSE @, inst.ret)])
    /\ UNCHANGED <<stack, runner, log, verifyOrder>>

\* The expectations the test can set: <f>_Expect[AndReturn],
\* <f>_ExpectAnyArgs[AndReturn] and <f>_ExpectAndThrow.
Requests(f) ==
    {i \in [arg : Args, ret : RetsOf(f), unchecked : BOOLEAN, throws : BOOLEAN] :
        \/ "Expect" \in Offers[f] /\ ~i.unchecked /\ ~i.throws
        \/ "ExpectAnyArgs" \in Offers[f] /\ i.unchecked /\ ~i.throws /\ i.arg = NULL
        \/ "ExpectAndThrow" \in Offers[f] /\ ~i.unchecked /\ i.throws /\ i.ret = 0}

Expect(f) ==
    /\ Active
    /\ \/ \E i \in Requests(f) :
            AddExpectation(f, [Blank EXCEPT !.arg = i.arg, !.ret = i.ret,
                                  !.unchecked = i.unchecked, !.throws = i.throws])
       \/ Requests(f) # {} /\ OutOfMemory(f)

\* The promise the newest instance of f stands for, if it stands for one.
Amended(f, p) ==
    IF verdict = "running" /\ f \in Strict
    THEN LET i == CHOOSE i \in DOMAIN promised :
                    /\ promised[i].fn = f
                    /\ \A j \in DOMAIN promised : promised[j].fn = f => j <= i
         IN promised' = [promised EXCEPT ![i] =
                            [promised[i] EXCEPT !.unchecked = @ \/ p.unchecked, !.out = p.out]]
    ELSE UNCHANGED promised

SetNewest(f, inst) ==
    /\ mock' = [mock EXCEPT ![f].queue[Len(mock[f].queue)] = inst]
    /\ Amended(f, inst)
    /\ UNCHANGED <<memory, order, stack, runner, log>>

\* <f>_IgnoreArg.
IgnoreArg(f) ==
    /\ Active
    /\ "IgnoreArg" \in Offers[f]
    /\ IF HasOne(f)
       THEN /\ SetNewest(f, [Newest(f) EXCEPT !.unchecked = TRUE])
            /\ UNCHANGED tale
       ELSE /\ Fail(f, NULL, "misuse")
            /\ UNCHANGED <<mock, memory, order, tale>>

\* <f>_ReturnThruPtr.  While f is ignored, a new instance holds the value when
\* the newest one already has one.  The newest one was looked up before MemNew:
\* if the arena moves, what is copied from it is whatever is there now.
NewestReturns(f) ==
    IF ~HasOne(f) THEN {0}
    ELSE {Newest(f).ret} \cup (IF used < room THEN {} ELSE RetsOf(f))

\* Mutant: the newest instance is used again although it holds a value.
QueuesFirst(f) == mock[f].ignore /\ ~HasOne(f)

Queues(f) == mock[f].ignore /\ (HasOne(f) => Newest(f).out # NoOut)

PlannedLast(f) ==
    IF tale[f].plan = <<>> THEN 0 ELSE tale[f].plan[Len(tale[f].plan)]

ReturnThruPtr(f) ==
    /\ Active
    /\ "ReturnThruPtr" \in Offers[f]
    /\ \/ /\ Queues(f)
          /\ HasRoom
          /\ Take
          /\ \E v \in Outs, r \in NewestReturns(f) :
               /\ Chain(f, [Blank EXCEPT !.ret = r, !.out = v], TRUE)
               /\ Told(f, [tale[f] EXCEPT !.plan = Append(@, PlannedLast(f)),
                                          !.meant = Append(@, v)])
          /\ UNCHANGED <<stack, runner, promised, log, order>>
       \/ Queues(f) /\ OutOfMemory(f)
       \/ /\ ~Queues(f) /\ HasOne(f)
          /\ \E v \in Outs :
               /\ SetNewest(f, [Newest(f) EXCEPT !.out = v])
               /\ Told(f, [tale[f] EXCEPT !.meant = Append(@, v)])
       \/ /\ ~Queues(f) /\ ~HasOne(f)
          /\ Fail(f, NULL, "misuse")
          /\ UNCHANGED <<mock, memory, order, tale>>

\* <f>_Ignore, the same in both plugins.
Ignore(f) ==
    /\ Active
    /\ "Ignore" \in Offers[f]
    /\ f \in Void
    /\ mock' = [mock EXCEPT ![f].ignore = TRUE]
    /\ Told(f, [tale[f] EXCEPT !.latest = "ignore"])
    /\ UNCHANGED <<memory, order, stack, runner, promised, log>>

\* <f>_IgnoreAndReturn of the plugin :ignore queues the value.
IgnoreAndReturn(f) ==
    /\ Active
    /\ "Ignore" \in Offers[f]
    /\ f \notin Void /\ Ignoring = "ignore"
    /\ \/ /\ HasRoom
          /\ Take
          /\ \E r \in Rets :
               /\ Chain(f, [Blank EXCEPT !.ret = r], TRUE)
               /\ Told(f, [tale[f] EXCEPT !.plan = Append(@, r), !.latest = "ignore"])
          /\ UNCHANGED <<stack, runner, promised, log, order>>
       \/ OutOfMemory(f)

\* Mutant: the chain stays.
KeptWithChain(f, r) == [mock EXCEPT ![f].final = r, ![f].ignore = TRUE]

\* <f>_IgnoreAndReturn of the plugin :ignore_stateless keeps the value only.
Kept(f, r) ==
    [mock EXCEPT ![f].queue = <<>>, ![f].final = r, ![f].ignore = TRUE]

IgnoreStateless(f) ==
    /\ Active
    /\ "Ignore" \in Offers[f]
    /\ f \notin Void /\ Ignoring = "stateless"
    /\ \E r \in Rets :
         /\ mock' = Kept(f, r)
         /\ Told(f, [tale[f] EXCEPT !.plan = Append(Planned(f), r),
                                    !.latest = "ignore"])
    /\ UNCHANGED <<memory, order, stack, runner, promised, log>>

Rest(s) == IF s = <<>> THEN s ELSE Tail(s)

\* Mutant: an instance is dropped even if the function is not ignored.
StoppedAnyway(f) == f \notin Void /\ Ignoring = "ignore"

\* StopIgnore of the plugin :ignore also drops one instance.
StopDrops(f) == f \notin Void /\ Ignoring = "ignore" /\ mock[f].ignore

\* <f>_StopIgnore.
StopIgnore(f) ==
    /\ Active
    /\ "StopIgnore" \in Offers[f]
    /\ mock' = [mock EXCEPT ![f].queue = IF StopDrops(f) THEN Rest(@) ELSE @,
                            ![f].ignore = FALSE]
    /\ Told(f, [tale[f] EXCEPT !.plan = IF mock[f].ignore THEN Planned(f) ELSE @,
                               !.latest = "stop"])
    /\ UNCHANGED <<memory, order, stack, runner, promised, log>>

\* Mutants: the call count is not reset; a stub leaves a function ignored.
InstalledCounting(f, fixed, there) ==
    [mock[f] EXCEPT !.ignore = @ /\ Ignoring # "ignore",
                    !.fixed = fixed, !.callback = there]
InstalledIgnored(f, fixed, there) ==
    [mock[f] EXCEPT !.fixed = fixed, !.callback = there, !.calls = 0]

\* <f>_AddCallback and <f>_Stub; a NULL pointer removes the callback.
Installed(f, fixed, there) ==
    [mock[f] EXCEPT !.ignore = @ /\ Ignoring # "ignore",
                    !.fixed = fixed, !.callback = there, !.calls = 0]

Install(f) ==
    /\ Active
    /\ \E fixed \in BOOLEAN, there \in BOOLEAN :
         /\ (IF fixed THEN "AddCallback" ELSE "Stub") \in Offers[f]
         /\ mock' = [mock EXCEPT ![f] = Installed(f, fixed, there)]
         /\ Told(f, [tale[f] EXCEPT !.invoked = 0,
                       !.latest = IF there /\ ~fixed THEN "stub" ELSE "callback"])
    /\ UNCHANGED <<memory, order, stack, runner, promised, log>>

-----------------------------------------------------------------------------
(* A mock is called.  The oldest instance is taken off the chain first,    *)
(* whatever happens next.                                                  *)

Popped(f) == [mock EXCEPT ![f].queue = Rest(@)]

\* What the plan of f says about this call is history.
Wanted(f) ==
    LET t == tale[f] IN
    IF t.taken < Len(t.plan) THEN t.plan[t.taken + 1] ELSE PlannedLast(f)
Took(f) ==
    [tale[f] EXCEPT !.taken = IF @ < Len(tale[f].plan) THEN @ + 1 ELSE @]
Answered(f, how, ret, wanted, out) ==
    Told(f, [Took(f) EXCEPT !.how = how, !.value = ret, !.wanted = wanted,
                !.wrote = IF out = NoOut THEN @ ELSE Append(@, out)])

Stubbed(f) == mock[f].callback /\ ~mock[f].fixed
Checked(f) == ~mock[f].ignore /\ ~Stubbed(f)
NullPointer(f, a) == HasOne(f) /\ Oldest(f).out # NoOut /\ a = NULL

\* The checks of a call that is neither ignored nor stubbed, in order.
Early(f) == Ordered /\ Oldest(f).order > verifyOrder + 1
Late(f) == Ordered /\ Oldest(f).order < verifyOrder + 1
\* Mutant: the argument is not compared.
MismatchNever(f, a) == FALSE

Mismatch(f, a) == ~Oldest(f).unchecked /\ Oldest(f).arg # a
Passes(f, a) == HasOne(f) /\ ~Early(f) /\ ~Late(f) /\ ~Mismatch(f, a)

\* Mutant: the count stops at one.
VerifiedOnce(f) ==
    /\ verifyOrder' = IF Ordered /\ HasOne(f) /\ verifyOrder = 0 THEN 1 ELSE verifyOrder
    /\ UNCHANGED expectCount

Verified(f) ==
    /\ verifyOrder' = IF Ordered /\ HasOne(f) THEN verifyOrder + 1 ELSE verifyOrder
    /\ UNCHANGED expectCount

Logged(f, entry) ==
    log' = IF verdict = "running" /\ f \in Strict THEN Append(log, entry) ELSE log

Entry(f, a, state, ret, out) ==
    [fn |-> f, arg |-> a, state |-> state, ret |-> ret, out |-> out]

\* Mutant: when the values have run out, 0 is returned.
IgnoredReturnZero(f) ==
    IF f \in Void \/ ~HasOne(f) THEN 0 ELSE Oldest(f).ret

\* The prechecks of the ignore plugins.
IgnoredReturn(f) ==
    IF f \in Void THEN 0
    ELSE IF HasOne(f) THEN Oldest(f).ret ELSE mock[f].final

CallIgnored(f, a) ==
    LET ret == IgnoredReturn(f) IN
    /\ Active
    /\ mock[f].ignore
    /\ ~NullPointer(f, a)
    /\ mock' = [Popped(f) EXCEPT ![f].final = ret]
    /\ Answered(f, "ignored", ret, IF f \in Void THEN 0 ELSE Wanted(f),
                IF HasOne(f) THEN Oldest(f).out ELSE NoOut)
    /\ UNCHANGED <<memory, order, stack, runner, promised, log>>

\* The callback of f starts; its call count is incremented first.
Enter(f, inst, at) ==
    /\ Len(stack) < MaxDepth
    /\ mock' = [Popped(f) EXCEPT ![f].calls = IF IncludeCount THEN @ + 1 ELSE @]
    /\ stack' = Append(stack, [fn |-> f, inst |-> inst, at |-> at, room |-> room,
                               stub |-> Stubbed(f), wanted |-> Wanted(f)])
    /\ Told(f, [Took(f) EXCEPT !.invoked = @ + 1, !.how = "nothing"])
    /\ UNCHANGED <<memory, runner, promised>>

CallStubbed(f, a) ==
    /\ Active
    /\ ~mock[f].ignore /\ Stubbed(f)
    /\ Enter(f, [Blank EXCEPT !.arg = a], 0)
    /\ UNCHANGED <<order, log>>

\* AddCallback: the callback runs after the checks.
CallsBack(f, a) ==
    /\ Active
    /\ Checked(f) /\ mock[f].callback
    /\ Passes(f, a)
    /\ Enter(f, [Oldest(f) EXCEPT !.arg = a],
             IF verdict = "running" /\ f \in Strict THEN Len(log) + 1 ELSE 0)
    /\ Verified(f)
    /\ Logged(f, Entry(f, a, "open", 0, NoOut))

\* The calls that fail the test.
Fault(f, a) ==
    IF mock[f].ignore THEN IF NullPointer(f, a) THEN "null" ELSE "nothing"
    ELSE IF Stubbed(f) THEN "nothing"
    ELSE IF ~HasOne(f) THEN "more"
    ELSE IF Early(f) THEN "early"
    ELSE IF Late(f) THEN "late"
    ELSE IF Mismatch(f, a) THEN "mismatch"
    ELSE IF ~mock[f].callback /\ ~Oldest(f).throws /\ NullPointer(f, a) THEN "null"
    ELSE "nothing"

CallFails(f, a) ==
    /\ Active
    /\ Fault(f, a) # "nothing"
    /\ mock' = Popped(f)
    /\ IF mock[f].ignore THEN UNCHANGED order ELSE Verified(f)
    /\ Fail(f, a, Fault(f, a))
    /\ Told(f, Took(f))
    /\ UNCHANGED memory

\* A call meets its expectation and returns.
CallReturns(f, a) ==
    LET inst == Oldest(f) IN
    /\ Active
    /\ Checked(f) /\ ~mock[f].callback
    /\ Passes(f, a) /\ ~inst.throws /\ ~NullPointer(f, a)
    /\ mock' = Popped(f)
    /\ Verified(f)
    /\ Logged(f, Entry(f, a, "returned", inst.ret, inst.out))
    /\ Answered(f, "served", inst.ret, Wanted(f), inst.out)
    /\ UNCHANGED <<memory, stack, runner, promised>>

\* An exception is caught by the test, the code under test or a callback: it
\* abandons the callbacks above its catcher.
Unwound(l, k) ==
    LET gone == {stack[i].at : i \in k + 1 .. Len(stack)} IN
    [i \in DOMAIN l |->
        IF i \in gone /\ l[i].state = "open" THEN [l[i] EXCEPT !.state = "lost"]
        ELSE l[i]]

CallThrows(f, a) ==
    /\ Active
    /\ Checked(f) /\ ~mock[f].callback
    /\ Passes(f, a) /\ Oldest(f).throws
    /\ mock' = Popped(f)
    /\ Verified(f)
    /\ \E k \in 0 .. Len(stack) :
         /\ stack' = SubSeq(stack, 1, k)
         /\ log' = IF verdict = "running" /\ f \in Strict
                   THEN Append(Unwound(log, k), Entry(f, a, "thrown", 0, NoOut))
                   ELSE Unwound(log, k)
    /\ Told(f, Took(f))
    /\ UNCHANGED <<memory, runner, promised>>

-----------------------------------------------------------------------------
(* A callback ends.                                                        *)

Frame == stack[Len(stack)]
Below == SubSeq(stack, 1, Len(stack) - 1)
Closed(entry) == IF Frame.at = 0 THEN log ELSE [log EXCEPT ![Frame.at] = entry]

\* A stub returns: its result is the result of the mock.
StubReturns ==
    /\ stack # <<>> /\ Frame.stub
    /\ stack' = Below
    /\ UNCHANGED <<mock, memory, order, runner, steps, promised, log, tale>>

\* A callback that was added returns.  Its result is stored into the instance
\* the mock has kept a pointer to: if the arena moved in the meantime, what is
\* read back is whatever is there now.
CallbackReturns ==
    LET f == Frame.fn
        inst == Frame.inst IN
    /\ stack # <<>> /\ ~Frame.stub /\ ~inst.throws
    /\ \/ /\ inst.out # NoOut /\ inst.arg = NULL
          /\ Fail(f, inst.arg, "null")
          /\ UNCHANGED tale
       \/ /\ inst.out # NoOut => inst.arg # NULL
          /\ \E r \in RetsOf(f), junk \in RetsOf(f) :
               LET ret == IF Frame.room = room THEN r ELSE junk IN
               /\ Told(f, [tale[f] EXCEPT !.how = "called back", !.value = ret,
                             !.wanted = r,
                             !.wrote = IF inst.out = NoOut THEN @ ELSE Append(@, inst.out)])
               /\ log' = Closed(Entry(f, inst.arg, "returned", ret, inst.out))
          /\ stack' = Below
          /\ UNCHANGED <<runner, promised>>
    /\ UNCHANGED <<mock, memory, order, steps>>

\* ... or the expectation it was called for throws.
CallbackThrows ==
    LET f == Frame.fn
        inst == Frame.inst IN
    /\ stack # <<>> /\ ~Frame.stub /\ inst.throws
    /\ \E k \in 0 .. Len(stack) - 1 :
         /\ stack' = SubSeq(stack, 1, k)
         /\ log' = LET l == Closed(Entry(f, inst.arg, "thrown", 0, NoOut))
                   IN Unwound(l, k)
    /\ UNCHANGED <<mock, memory, order, runner, steps, promised, tale>>

Next ==
    \/ EndBody \/ Verify \/ NextTest
    \/ StubReturns \/ CallbackReturns \/ CallbackThrows
    \/ \E f \in Funcs :
         \/ Expect(f) \/ IgnoreArg(f) \/ ReturnThruPtr(f)
         \/ Ignore(f) \/ IgnoreAndReturn(f) \/ IgnoreStateless(f)
         \/ StopIgnore(f) \/ Install(f)
         \/ \E a \in Args :
              \/ CallIgnored(f, a) \/ CallStubbed(f, a) \/ CallsBack(f, a)
              \/ CallFails(f, a) \/ CallReturns(f, a) \/ CallThrows(f, a)

Spec == Init /\ [][Next]_vars

-----------------------------------------------------------------------------
(* Properties.                                                             *)

TypeOK ==
    /\ mock \in [Funcs -> [queue : Seq(Instances), ignore : BOOLEAN, final : Rets,
                           fixed : BOOLEAN, callback : BOOLEAN, calls : Nat]]
    /\ used \in Nat /\ room \in Nat /\ used <= room /\ (Dynamic \/ room = Room)
    /\ expectCount \in Nat /\ verifyOrder \in Nat
    /\ phase \in {"body", "teardown", "over"}
    /\ verdict \in {"running", "passed", "failed"}
    /\ steps \in 0 .. MaxSteps
    /\ Len(stack) <= MaxDepth

\* A test passes if and only if the functions it only expects calls of are
\* called as it expects, and they answer as it asks, whatever the callbacks
\* they run do and whatever happens to the other functions.
Contract == INSTANCE MockContract
KeepsContract == Contract!MCSpec

\* A mock answers a call with the value its queue of values says is next; when
\* the values have run out an ignored call gets the last one again.
AnswersAsSpecified == \A f \in Funcs : tale[f].value = tale[f].wanted

\* Values to copy are copied in the order they were queued, none twice.
CopiesInOrder ==
    \A f \in Funcs :
        verdict # "failed" /\ Offers[f] \subseteq {"Ignore", "ReturnThruPtr"} =>
            /\ Len(tale[f].wrote) <= Len(tale[f].meant)
            /\ tale[f].wrote = SubSeq(tale[f].meant, 1, Len(tale[f].wrote))

\* The call count is the number of calls since the callback was installed,
\* calls in progress included.
CountsCallbacks == \A f \in Funcs : mock[f].calls = tale[f].invoked

\* Of what was given to IgnoreAndReturn nothing is left after StopIgnore.
NothingLeft ==
    \A f \in Funcs : tale[f].latest = "stop" =>
        \A i \in DOMAIN mock[f].queue : mock[f].queue[i].asked

\* Ignore, Expect and StopIgnore on one function: a test that uses up what it
\* gave to IgnoreAndReturn, but for one value that StopIgnore drops, is given the
\* answers it asked for before, while and after it ignores the function.
AnswersBetweenIgnores == []NothingLeft => []AnswersAsSpecified

\* Ignoring a function clears what was expected of it (:ignore_stateless).
IgnoreClearsExpects ==
    \A f \in Funcs : tale[f].latest = "ignore" =>
        \A i \in DOMAIN mock[f].queue : ~mock[f].queue[i].asked

\* A call that comes too early comes before a call that is still expected.
EarlyMeansSkipped ==
    [][\A f \in Funcs, a \in Args :
         verdict = "running" /\ offender' = Failed(f, a, "early") =>
           \E g \in Funcs : \E i \in DOMAIN mock[g].queue :
              mock[g].queue[i].order \in 1 .. Oldest(f).order - 1]_vars

\* A stub replaces the checks of the function it stubs.
StubReplacesChecks ==
    verdict = "failed" /\ offender.why = "less" => ~Stubbed(offender.fn)

\* A stub is called whenever its function is, unless the function is ignored
\* later on.
StubIsCalled ==
    [][\A f \in Funcs, a \in Args :
         CallIgnored(f, a) => tale[f].latest # "stub"]_vars
=============================================================================
