----------------------------- MODULE MockProofs -----------------------------
(***************************************************************************)
(* Proofs about MockRuntime for any functions, values, arena and number of *)
(* calls: its types, the count of callbacks, the strict order, the answers *)
(* and copies of mocks, and stubs.                                         *)
(***************************************************************************)
EXTENDS MockRuntime, SequenceTheorems, TLAPS

-----------------------------------------------------------------------------
(* Types.                                                                  *)

Mocks == [queue : Seq(Instances), ignore : BOOLEAN, final : Rets,
          fixed : BOOLEAN, callback : BOOLEAN, calls : Nat]
Frames == [fn : Funcs, inst : Instances, at : Nat, room : Nat, stub : BOOLEAN, wanted : Rets]
Entries == [fn : Funcs, arg : Args, state : {"open", "returned", "thrown", "lost"},
            ret : Rets, out : Outs \cup {NoOut}]
Latests == {"nothing", "expect", "ignore", "stop", "stub", "callback"}
Hows == {"nothing", "served", "ignored", "called back"}
Tales == [plan : Seq(Rets), taken : Nat, meant : Seq(Outs), wrote : Seq(Outs),
          invoked : Nat, value : Rets, wanted : Rets,
          latest : Latests, how : Hows]

MemoryType == used \in Nat /\ room \in Nat /\ used <= room /\ (Dynamic \/ room = Room)
OrderType == expectCount \in Nat /\ verifyOrder \in Nat
RunnerType ==
    /\ phase \in {"body", "teardown", "over"}
    /\ verdict \in {"running", "passed", "failed"}
    /\ steps \in 0 .. MaxSteps
MockType == mock \in [Funcs -> Mocks]
StackType == stack \in Seq(Frames) /\ Len(stack) <= MaxDepth
LogType == log \in Seq(Entries)
TaleType ==
    /\ tale \in [Funcs -> Tales]
    /\ \A f \in Funcs : tale[f].taken <= Len(tale[f].plan)

Typed ==
    /\ MemoryType /\ OrderType /\ RunnerType /\ MockType
    /\ StackType /\ LogType /\ TaleType

LEMMA TypedImpliesTypeOK == Typed => TypeOK
  BY DEF Typed, TypeOK, MemoryType, OrderType, RunnerType, MockType, StackType, Mocks

\* The values everything starts from.
LEMMA StartTypes ==
    /\ Blank \in Instances /\ Cleared \in Mocks /\ Untold \in Tales
    /\ Untold.taken = 0 /\ Untold.plan = <<>>
<1>1. NULL \in Args /\ 0 \in Rets /\ NoOut \in Outs \cup {NoOut}
  BY MockAssumption DEF NoOut
<1>2. Blank \in Instances
  BY <1>1 DEF Blank, Instances
<1>3. Cleared \in Mocks
  BY <1>1, MockAssumption DEF Cleared, Mocks
<1>4. Untold \in Tales
  BY <1>1 DEF Untold, Tales, Latests, Hows
<1>5. Untold.taken = 0 /\ Untold.plan = <<>>
  BY DEF Untold
<1> QED BY <1>2, <1>3, <1>4, <1>5

LEMMA InitTyped == Init => Typed
<1> SUFFICES ASSUME Init PROVE Typed
  OBVIOUS
<1>1. MockType
  BY StartTypes DEF Init, MockType, AllCleared
<1>2. TaleType
  <2>1. tale = [f \in Funcs |-> Untold]
    BY DEF Init, AllUntold
  <2>2. \A f \in Funcs : tale[f].taken <= Len(tale[f].plan)
    BY <2>1, StartTypes
  <2> QED BY <2>1, <2>2, StartTypes DEF TaleType
<1>3. MemoryType /\ OrderType /\ RunnerType /\ StackType /\ LogType
  BY MockAssumption DEF Init, MemoryType, OrderType, RunnerType, StackType, LogType
<1> QED BY <1>1, <1>2, <1>3 DEF Typed

\* A chain that is not empty has a first, a last and a rest.
LEMMA QueueFacts ==
    ASSUME Typed, NEW f \in Funcs
    PROVE  /\ mock[f] \in Mocks /\ mock[f].queue \in Seq(Instances)
           /\ Rest(mock[f].queue) \in Seq(Instances)
           /\ HasOne(f) => /\ Oldest(f) \in Instances /\ Newest(f) \in Instances
                           /\ Len(mock[f].queue) \in 1 .. Len(mock[f].queue)
                           /\ Oldest(f) = mock[f].queue[1]
<1>1. mock[f] \in Mocks /\ mock[f].queue \in Seq(Instances)
  BY DEF Typed, MockType, Mocks
<1>2. Rest(mock[f].queue) \in Seq(Instances)
  BY <1>1 DEF Rest
<1>3. ASSUME HasOne(f)
      PROVE  /\ Oldest(f) \in Instances /\ Newest(f) \in Instances
             /\ Len(mock[f].queue) \in 1 .. Len(mock[f].queue)
             /\ Oldest(f) = mock[f].queue[1]
  BY <1>1, <1>3 DEF HasOne, Oldest, Newest
<1> QED BY <1>1, <1>2, <1>3

LEMMA QueueSetTyped ==
    ASSUME NEW m \in Mocks, NEW q \in Seq(Instances), NEW ignore \in BOOLEAN
    PROVE  /\ [m EXCEPT !.queue = q] \in Mocks
           /\ [m EXCEPT !.queue = q, !.ignore = ignore] \in Mocks
<1> DEFINE Queues1 == Seq(Instances)
<1>1. q \in Queues1
  OBVIOUS
<1>2. Mocks = [queue : Queues1, ignore : BOOLEAN, final : Rets,
               fixed : BOOLEAN, callback : BOOLEAN, calls : Nat]
  BY DEF Mocks
<1> HIDE DEF Queues1
<1> QED BY <1>1, <1>2

LEMMA PoppedType ==
    ASSUME Typed, NEW f \in Funcs
    PROVE  /\ Popped(f) \in [Funcs -> Mocks]
           /\ Popped(f) = [mock EXCEPT ![f] = [mock[f] EXCEPT !.queue = Rest(mock[f].queue)]]
<1>1. [mock[f] EXCEPT !.queue = Rest(mock[f].queue)] \in Mocks
  BY QueueFacts, QueueSetTyped
<1>2. mock \in [Funcs -> Mocks]
  BY DEF Typed, MockType
<1> QED BY <1>1, <1>2 DEF Popped

\* What is said of a function that is called.
LEMMA TookType ==
    ASSUME Typed, NEW f \in Funcs
    PROVE  /\ tale[f] \in Tales /\ Took(f) \in Tales
           /\ Took(f).taken <= Len(Took(f).plan)
           /\ Wanted(f) \in Rets /\ PlannedLast(f) \in Rets
           /\ Planned(f) \in Seq(Rets) /\ tale[f].taken = Len(Planned(f))
           /\ tale[f].plan \in Seq(Rets) /\ tale[f].taken \in Nat
           /\ tale[f].taken <= Len(tale[f].plan)
<1>1. /\ tale[f] \in Tales /\ tale[f].taken <= Len(tale[f].plan)
      /\ tale[f].plan \in Seq(Rets) /\ tale[f].taken \in Nat
  BY DEF Typed, TaleType, Tales
<1> DEFINE n == IF tale[f].taken < Len(tale[f].plan) THEN tale[f].taken + 1 ELSE tale[f].taken
<1>6. Took(f) = [tale[f] EXCEPT !.taken = n]
  BY DEF Took
<1>7. n \in Nat /\ n <= Len(tale[f].plan)
  BY <1>1
<1>2. Took(f) \in Tales /\ Took(f).taken <= Len(Took(f).plan)
  <2> HIDE DEF n
  <2> QED BY <1>1, <1>6, <1>7 DEF Tales
<1>3. PlannedLast(f) \in Rets
  BY <1>1, MockAssumption DEF PlannedLast
<1>4. Wanted(f) \in Rets
  BY <1>1, <1>3 DEF Wanted
<1>5. Planned(f) \in Seq(Rets) /\ tale[f].taken = Len(Planned(f))
  BY <1>1 DEF Planned
<1> QED BY <1>1, <1>2, <1>3, <1>4, <1>5

\* What may be told of a function.
WithPlan(t, p, l) == [t EXCEPT !.plan = p, !.latest = l]
WithCopy(t, p, m) == [t EXCEPT !.plan = p, !.meant = m]
WithMeant(t, m) == [t EXCEPT !.meant = m]
WithLatest(t, l) == [t EXCEPT !.latest = l]
WithCallback(t, n, l) == [t EXCEPT !.invoked = n, !.latest = l]
WithCall(t, n, h) == [t EXCEPT !.invoked = n, !.how = h]
WithAnswer(t, h, v, r, w) == [t EXCEPT !.how = h, !.value = v, !.wanted = r, !.wrote = w]

LEMMA TellingType ==
    ASSUME NEW t \in Tales
    PROVE  /\ \A p \in Seq(Rets), l \in Latests : WithPlan(t, p, l) \in Tales
           /\ \A p \in Seq(Rets), m \in Seq(Outs) : WithCopy(t, p, m) \in Tales
           /\ \A m \in Seq(Outs) : WithMeant(t, m) \in Tales
           /\ \A l \in Latests : WithLatest(t, l) \in Tales
           /\ \A n \in Nat, l \in Latests : WithCallback(t, n, l) \in Tales
           /\ \A n \in Nat, h \in Hows : WithCall(t, n, h) \in Tales
           /\ \A h \in Hows, v \in Rets, r \in Rets, w \in Seq(Outs) :
                WithAnswer(t, h, v, r, w) \in Tales
<1> DEFINE Plans == Seq(Rets)
           Copies == Seq(Outs)
<1>1. Tales = [plan : Plans, taken : Nat, meant : Copies, wrote : Copies,
               invoked : Nat, value : Rets, wanted : Rets,
               latest : Latests, how : Hows]
  BY DEF Tales
<1> HIDE DEF Plans, Copies
<1>2. ASSUME NEW p \in Plans, NEW l \in Latests
      PROVE  WithPlan(t, p, l) \in Tales
  BY <1>1 DEF WithPlan
<1>3. ASSUME NEW p \in Plans, NEW m \in Copies
      PROVE  WithCopy(t, p, m) \in Tales
  BY <1>1 DEF WithCopy
<1>4. ASSUME NEW m \in Copies
      PROVE  WithMeant(t, m) \in Tales
  BY <1>1 DEF WithMeant
<1>5. ASSUME NEW l \in Latests
      PROVE  WithLatest(t, l) \in Tales
  BY <1>1 DEF WithLatest
<1>6. ASSUME NEW n \in Nat, NEW l \in Latests
      PROVE  WithCallback(t, n, l) \in Tales
  BY <1>1 DEF WithCallback
<1>7. ASSUME NEW n \in Nat, NEW h \in Hows
      PROVE  WithCall(t, n, h) \in Tales
  BY <1>1 DEF WithCall
<1>8. ASSUME NEW h \in Hows, NEW v \in Rets, NEW r \in Rets, NEW w \in Copies
      PROVE  WithAnswer(t, h, v, r, w) \in Tales
  BY <1>1 DEF WithAnswer
<1> QED BY <1>2, <1>3, <1>4, <1>5, <1>6, <1>7, <1>8 DEF Plans, Copies

\* None of this changes how many values are used up, and few the plan.
LEMMA TellingKeeps ==
    ASSUME NEW t \in Tales
    PROVE  /\ \A p, l : WithPlan(t, p, l).taken = t.taken /\ WithPlan(t, p, l).plan = p
           /\ \A p, m : WithCopy(t, p, m).taken = t.taken /\ WithCopy(t, p, m).plan = p
           /\ \A m : WithMeant(t, m).taken = t.taken /\ WithMeant(t, m).plan = t.plan
           /\ \A l : WithLatest(t, l).taken = t.taken /\ WithLatest(t, l).plan = t.plan
           /\ \A n, l : WithCallback(t, n, l).taken = t.taken /\ WithCallback(t, n, l).plan = t.plan
           /\ \A n, h : WithCall(t, n, h).taken = t.taken /\ WithCall(t, n, h).plan = t.plan
           /\ \A h, v, r, w : WithAnswer(t, h, v, r, w).taken = t.taken /\ WithAnswer(t, h, v, r, w).plan = t.plan
<1>1. \A p, l : WithPlan(t, p, l).taken = t.taken /\ WithPlan(t, p, l).plan = p
  BY DEF WithPlan, Tales
<1>2. \A p, m : WithCopy(t, p, m).taken = t.taken /\ WithCopy(t, p, m).plan = p
  BY DEF WithCopy, Tales
<1>3. \A m : WithMeant(t, m).taken = t.taken /\ WithMeant(t, m).plan = t.plan
  BY DEF WithMeant, Tales
<1>4. \A l : WithLatest(t, l).taken = t.taken /\ WithLatest(t, l).plan = t.plan
  BY DEF WithLatest, Tales
<1>5. \A n, l : WithCallback(t, n, l).taken = t.taken /\ WithCallback(t, n, l).plan = t.plan
  BY DEF WithCallback, Tales
<1>6. \A n, h : WithCall(t, n, h).taken = t.taken /\ WithCall(t, n, h).plan = t.plan
  BY DEF WithCall, Tales
<1>7. \A h, v, r, w : WithAnswer(t, h, v, r, w).taken = t.taken /\ WithAnswer(t, h, v, r, w).plan = t.plan
  BY DEF WithAnswer, Tales
<1> QED BY <1>1, <1>2, <1>3, <1>4, <1>5, <1>6, <1>7

LEMMA ToldType ==
    ASSUME Typed, NEW f \in Funcs, NEW t \in Tales, t.taken <= Len(t.plan),
           tale' = [tale EXCEPT ![f] = t]
    PROVE  TaleType'
  BY DEF Typed, TaleType

\* What a step leaves alone keeps its type, and a call of CMock counts.
LEMMA StaysTyped ==
    ASSUME Typed
    PROVE  /\ UNCHANGED memory => MemoryType'
           /\ UNCHANGED order => OrderType'
           /\ UNCHANGED mock => MockType'
           /\ UNCHANGED stack => StackType'
           /\ UNCHANGED log => LogType'
           /\ UNCHANGED tale => TaleType'
           /\ UNCHANGED runner /\ (Active \/ UNCHANGED steps) => RunnerType'
<1>1. /\ UNCHANGED memory => MemoryType'
      /\ UNCHANGED order => OrderType'
  BY DEF Typed, MemoryType, OrderType, memory, order
<1>2. UNCHANGED mock => MockType'
  BY DEF Typed, MockType
<1>3. /\ UNCHANGED stack => StackType'
      /\ UNCHANGED log => LogType'
      /\ UNCHANGED tale => TaleType'
  BY DEF Typed, StackType, LogType, TaleType
<1>4. UNCHANGED runner /\ (Active \/ UNCHANGED steps) => RunnerType'
  BY MockAssumption DEF Typed, RunnerType, runner, Active
<1> QED BY <1>1, <1>2, <1>3, <1>4

LEMMA FailTyped ==
    ASSUME Typed, NEW f, NEW a, NEW why, Fail(f, a, why), Active \/ UNCHANGED steps
    PROVE  RunnerType' /\ StackType' /\ LogType'
<1>1. RunnerType'
  BY MockAssumption DEF Typed, RunnerType, Fail, Active
<1>2. StackType' /\ LogType'
  BY MockAssumption DEF Typed, StackType, LogType, Fail
<1> QED BY <1>1, <1>2

LEMMA TakeTyped == ASSUME Typed, HasRoom, Take PROVE MemoryType'
  BY DEF Typed, MemoryType, HasRoom, Take

LEMMA MockSetTyped ==
    ASSUME Typed, NEW f \in Funcs, NEW m \in Mocks, mock' = [mock EXCEPT ![f] = m]
    PROVE  MockType'
  BY DEF Typed, MockType

LEMMA ChainTyped ==
    ASSUME Typed, NEW f \in Funcs, NEW inst \in Instances, NEW ignore \in BOOLEAN,
           Chain(f, inst, ignore)
    PROVE  MockType'
<1> DEFINE m == [mock[f] EXCEPT !.queue = Append(mock[f].queue, inst), !.ignore = ignore]
<1>1. mock' = [mock EXCEPT ![f] = m]
  BY DEF Chain, Typed, MockType
<1>2. m \in Mocks
  <2>1. Append(mock[f].queue, inst) \in Seq(Instances)
    BY QueueFacts
  <2> QED BY <2>1, QueueFacts, QueueSetTyped
<1> QED
  <2> HIDE DEF m
  <2> QED BY <1>1, <1>2, MockSetTyped

LEMMA SetNewestTyped ==
    ASSUME Typed, NEW f \in Funcs, NEW inst \in Instances, HasOne(f), SetNewest(f, inst)
    PROVE  MockType'
<1> DEFINE q == [mock[f].queue EXCEPT ![Len(mock[f].queue)] = inst]
           m == [mock[f] EXCEPT !.queue = q]
<1>1. mock' = [mock EXCEPT ![f] = m]
  BY DEF SetNewest, Typed, MockType
<1>2. q \in Seq(Instances)
  BY QueueFacts
<1>3. m \in Mocks
  <2> HIDE DEF q
  <2> QED BY <1>2, QueueFacts, QueueSetTyped
<1> QED
  <2> HIDE DEF m
  <2> QED BY <1>1, <1>3, MockSetTyped

-----------------------------------------------------------------------------
(* Steps of the runner and calls of the interface keep the types.          *)

LEMMA RunnerStepTyped ==
    ASSUME Typed, EndBody \/ Verify \/ NextTest
    PROVE  Typed'
<1>1. CASE EndBody
  <2>1. RunnerType'
    BY <1>1 DEF EndBody, Typed, RunnerType
  <2> QED BY <1>1, <2>1, StaysTyped DEF EndBody, Typed
<1>2. CASE Verify
  <2>1. MemoryType' /\ OrderType' /\ MockType' /\ TaleType'
    BY <1>2, StaysTyped DEF Verify
  <2>2. UNCHANGED steps
    BY <1>2 DEF Verify
  <2>3. CASE Missing = {}
    <3>1. RunnerType'
      BY <1>2, <2>3 DEF Verify, Typed, RunnerType
    <3> QED BY <1>2, <2>1, <2>3, <3>1, StaysTyped DEF Verify, Typed
  <2>4. CASE Missing # {}
    <3>1. PICK f \in Missing : Fail(f, NULL, "less")
      BY <1>2, <2>4 DEF Verify
    <3> QED BY <2>1, <2>2, <3>1, FailTyped DEF Typed
  <2> QED BY <2>3, <2>4
<1>3. CASE NextTest
  <2>1. MockType'
    BY <1>3, StartTypes DEF NextTest, MockType, AllCleared
  <2>2. TaleType'
    <3>1. tale' = [f \in Funcs |-> Untold]
      BY <1>3 DEF NextTest, AllUntold
    <3>2. \A f \in Funcs : tale'[f].taken <= Len(tale'[f].plan)
      BY <3>1, StartTypes
    <3> QED BY <3>1, <3>2, StartTypes DEF TaleType
  <2>3. MemoryType' /\ OrderType' /\ RunnerType' /\ LogType'
    BY <1>3, MockAssumption
    DEF NextTest, Typed, MemoryType, OrderType, RunnerType, LogType
  <2> QED BY <1>3, <2>1, <2>2, <2>3, StaysTyped DEF NextTest, Typed
<1> QED BY <1>1, <1>2, <1>3

\* Running out of memory fails the test and changes nothing.
LEMMA OutOfMemoryTyped ==
    ASSUME Typed, NEW f \in Funcs, Active, OutOfMemory(f)
    PROVE  Typed'
<1>1. RunnerType' /\ StackType' /\ LogType'
  BY FailTyped DEF OutOfMemory
<1> QED BY <1>1, StaysTyped DEF OutOfMemory, Typed

\* An instance as an expectation sets it up.
LEMMA RequestType ==
    ASSUME NEW f \in Funcs, NEW i \in Requests(f)
    PROVE  [Blank EXCEPT !.arg = i.arg, !.ret = i.ret,
                         !.unchecked = i.unchecked, !.throws = i.throws] \in Instances
<1>1. /\ i.arg \in Args /\ i.ret \in RetsOf(f)
      /\ i.unchecked \in BOOLEAN /\ i.throws \in BOOLEAN
  BY DEF Requests
<1>2. RetsOf(f) \subseteq Rets
  BY MockAssumption DEF RetsOf
<1> QED BY <1>1, <1>2, StartTypes DEF Instances

LEMMA AddExpectationTyped ==
    ASSUME Typed, NEW f \in Funcs, NEW inst \in Instances, Active, AddExpectation(f, inst)
    PROVE  Typed'
<1> DEFINE queued == [inst EXCEPT !.order = IF Ordered THEN expectCount + 1 ELSE 0,
                                  !.asked = TRUE]
           base == IF mock[f].ignore /\ Ignoring = "stateless"
                   THEN Planned(f) ELSE tale[f].plan
           t == WithPlan(tale[f], Append(base, inst.ret), "expect")
<1>1. MemoryType'
  BY TakeTyped DEF AddExpectation
<1>2. OrderType'
  BY DEF AddExpectation, Typed, OrderType
<1>3. queued \in Instances
  <2> DEFINE n == IF Ordered THEN expectCount + 1 ELSE 0
  <2>1. n \in Nat
    BY DEF Typed, OrderType
  <2> HIDE DEF n
  <2>2. queued = [inst EXCEPT !.order = n, !.asked = TRUE]
    BY Zenon DEF n
  <2> QED BY <2>1, <2>2 DEF Instances
<1>4. MockType'
  <2>1. Chain(f, queued, FALSE)
    BY Zenon DEF AddExpectation
  <2> HIDE DEF queued
  <2> QED BY <1>3, <2>1, ChainTyped
<1>5. TaleType'
  <2>1. base \in Seq(Rets) /\ tale[f].taken <= Len(base)
    BY TookType
  <2>2. tale' = [tale EXCEPT ![f] = t]
    BY DEF AddExpectation, Told, WithPlan
  <2>3. t \in Tales /\ t.taken <= Len(t.plan)
    <3>1. inst.ret \in Rets /\ "expect" \in Latests /\ tale[f] \in Tales
      BY TookType DEF Instances, Latests
    <3> DEFINE new == Append(base, inst.ret)
    <3>2. new \in Seq(Rets) /\ tale[f].taken <= Len(new)
      <4> HIDE DEF base
      <4> QED BY <2>1, <3>1, TookType
    <3>3. t = WithPlan(tale[f], new, "expect")
      OBVIOUS
    <3> HIDE DEF new, t
    <3> QED BY <3>1, <3>2, <3>3, TellingType, TellingKeeps
  <2> HIDE DEF t
  <2> QED BY <2>2, <2>3, ToldType
<1> QED BY <1>1, <1>2, <1>4, <1>5, StaysTyped DEF AddExpectation, Typed

LEMMA ExpectTyped == ASSUME Typed, NEW f \in Funcs, Expect(f) PROVE Typed'
<1>1. Active
  BY DEF Expect
<1>2. ASSUME NEW i \in Requests(f),
             AddExpectation(f, [Blank EXCEPT !.arg = i.arg, !.ret = i.ret,
                                  !.unchecked = i.unchecked, !.throws = i.throws])
      PROVE  Typed'
  BY <1>1, <1>2, RequestType, AddExpectationTyped
<1>3. CASE OutOfMemory(f)
  BY <1>1, <1>3, OutOfMemoryTyped
<1> QED BY <1>2, <1>3 DEF Expect

LEMMA IgnoreArgTyped == ASSUME Typed, NEW f \in Funcs, IgnoreArg(f) PROVE Typed'
<1>1. CASE HasOne(f)
  <2> DEFINE inst == [Newest(f) EXCEPT !.unchecked = TRUE]
  <2>1. inst \in Instances
    BY <1>1, QueueFacts DEF Instances
  <2>2. SetNewest(f, inst) /\ UNCHANGED tale
    BY <1>1 DEF IgnoreArg
  <2> HIDE DEF inst
  <2>3. MockType'
    BY <1>1, <2>1, <2>2, SetNewestTyped
  <2> QED BY <2>2, <2>3, StaysTyped DEF IgnoreArg, SetNewest, Typed
<1>2. CASE ~HasOne(f)
  <2>1. RunnerType' /\ StackType' /\ LogType'
    BY <1>2, FailTyped DEF IgnoreArg
  <2> QED BY <1>2, <2>1, StaysTyped DEF IgnoreArg, Typed
<1> QED BY <1>1, <1>2

LEMMA ReturnThruPtrTyped ==
    ASSUME Typed, NEW f \in Funcs, ReturnThruPtr(f)
    PROVE  Typed'
<1>1. Active
  BY DEF ReturnThruPtr
<1>2. ASSUME Queues(f), HasRoom, Take, NEW v \in Outs, NEW r \in NewestReturns(f),
             Chain(f, [Blank EXCEPT !.ret = r, !.out = v], TRUE),
             Told(f, [tale[f] EXCEPT !.plan = Append(@, PlannedLast(f)),
                                     !.meant = Append(@, v)]),
             UNCHANGED <<stack, runner, promised, log, order>>
      PROVE  Typed'
  <2> DEFINE inst == [Blank EXCEPT !.ret = r, !.out = v]
             p == Append(tale[f].plan, PlannedLast(f))
             m == Append(tale[f].meant, v)
             t == WithCopy(tale[f], p, m)
  <2>1. r \in Rets
    <3>1. RetsOf(f) \subseteq Rets /\ 0 \in Rets
      BY MockAssumption DEF RetsOf
    <3>2. HasOne(f) => Newest(f).ret \in Rets
      BY QueueFacts DEF Instances
    <3> QED BY <3>1, <3>2 DEF NewestReturns
  <2>2. inst \in Instances
    BY <2>1, StartTypes DEF Instances
  <2>3. MockType'
    <3>1. Chain(f, inst, TRUE)
      BY <1>2
    <3> HIDE DEF inst
    <3> QED BY <2>2, <3>1, ChainTyped
  <2>4. TaleType'
    <3>1. tale' = [tale EXCEPT ![f] = t]
      BY <1>2 DEF Told, WithCopy, WithPlan
    <3>2. p \in Seq(Rets) /\ m \in Seq(Outs) /\ tale[f].taken <= Len(p)
      BY TookType DEF Tales
    <3>3. t \in Tales /\ t.taken = tale[f].taken /\ t.plan = p
      <4> HIDE DEF p, m
      <4>9. tale[f] \in Tales
        BY TookType
      <4>10. t \in Tales
        BY <3>2, <4>9, TellingType
      <4> QED BY <4>9, <4>10, TellingKeeps
    <3> HIDE DEF t, p
    <3> QED BY <3>1, <3>2, <3>3, ToldType
  <2> QED BY <1>2, <2>3, <2>4, TakeTyped, StaysTyped, <1>1 DEF Typed
<1>3. ASSUME ~Queues(f), HasOne(f), NEW v \in Outs,
             SetNewest(f, [Newest(f) EXCEPT !.out = v]),
             Told(f, [tale[f] EXCEPT !.meant = Append(@, v)])
      PROVE  Typed'
  <2> DEFINE inst == [Newest(f) EXCEPT !.out = v]
             m == Append(tale[f].meant, v)
             t == WithMeant(tale[f], m)
  <2>1. inst \in Instances
    BY <1>3, QueueFacts DEF Instances
  <2>2. MockType'
    <3>1. SetNewest(f, inst)
      BY <1>3
    <3> HIDE DEF inst
    <3> QED BY <1>3, <2>1, <3>1, SetNewestTyped
  <2>3. TaleType'
    <3>1. tale' = [tale EXCEPT ![f] = t]
      BY <1>3 DEF Told, WithMeant
    <3>2. m \in Seq(Outs)
      BY TookType DEF Tales
    <3>3. t \in Tales /\ t.taken = tale[f].taken /\ t.plan = tale[f].plan
      <4> HIDE DEF m
      <4>9. tale[f] \in Tales
        BY TookType
      <4>10. t \in Tales
        BY <3>2, <4>9, TellingType
      <4> QED BY <4>9, <4>10, TellingKeeps
    <3> HIDE DEF t
    <3> QED BY <3>1, <3>3, TookType, ToldType
  <2> QED BY <1>1, <1>3, <2>2, <2>3, StaysTyped DEF SetNewest, Typed
<1>4. ASSUME Fail(f, NULL, "misuse"), UNCHANGED <<mock, memory, order, tale>>
      PROVE  Typed'
  <2>1. RunnerType' /\ StackType' /\ LogType'
    BY <1>1, <1>4, FailTyped
  <2> QED BY <1>4, <2>1, StaysTyped DEF Typed
<1> QED BY <1>1, <1>2, <1>3, <1>4, OutOfMemoryTyped DEF ReturnThruPtr

\* A step that changes a function and what is told of it, and no more.
LEMMA SettingTyped ==
    ASSUME Typed, NEW f \in Funcs, Active,
           NEW m \in Mocks, mock' = [mock EXCEPT ![f] = m],
           NEW t \in Tales, t.taken <= Len(t.plan), Told(f, t),
           UNCHANGED <<memory, order, stack, runner, promised, log>>
    PROVE  Typed'
<1>1. MockType' /\ TaleType'
  BY MockSetTyped, ToldType DEF Told
<1> QED BY <1>1, StaysTyped DEF Typed

LEMMA IgnoreTyped == ASSUME Typed, NEW f \in Funcs, Ignore(f) PROVE Typed'
<1> DEFINE m == [mock[f] EXCEPT !.ignore = TRUE]
           t == WithLatest(tale[f], "ignore")
<1>1. m \in Mocks /\ mock' = [mock EXCEPT ![f] = m]
  BY QueueFacts DEF Ignore, Typed, MockType, Mocks
<1>2. t \in Tales /\ t.taken = tale[f].taken /\ t.plan = tale[f].plan
  <2>1. "ignore" \in Latests
    BY DEF Latests
  <2>9. tale[f] \in Tales
    BY TookType
  <2>10. t \in Tales
    BY <2>1, <2>9, TellingType
  <2> QED BY <2>9, <2>10, TellingKeeps
<1>3. Active /\ Told(f, t) /\ UNCHANGED <<memory, order, stack, runner, promised, log>>
  BY DEF Ignore, WithLatest
<1> HIDE DEF m, t
<1> QED BY <1>1, <1>2, <1>3, TookType, SettingTyped

LEMMA IgnoreAndReturnTyped ==
    ASSUME Typed, NEW f \in Funcs, IgnoreAndReturn(f)
    PROVE  Typed'
<1>1. Active
  BY DEF IgnoreAndReturn
<1>2. ASSUME HasRoom, Take, NEW r \in Rets,
             Chain(f, [Blank EXCEPT !.ret = r], TRUE),
             Told(f, [tale[f] EXCEPT !.plan = Append(@, r), !.latest = "ignore"]),
             UNCHANGED <<stack, runner, promised, log, order>>
      PROVE  Typed'
  <2> DEFINE inst == [Blank EXCEPT !.ret = r]
             p == Append(tale[f].plan, r)
             t == WithPlan(tale[f], p, "ignore")
  <2>1. inst \in Instances
    BY StartTypes DEF Instances
  <2>2. MockType'
    <3>1. Chain(f, inst, TRUE)
      BY <1>2
    <3> HIDE DEF inst
    <3> QED BY <2>1, <3>1, ChainTyped
  <2>3. TaleType'
    <3>1. tale' = [tale EXCEPT ![f] = t]
      BY <1>2 DEF Told, WithCopy, WithPlan
    <3>2. p \in Seq(Rets) /\ tale[f].taken <= Len(p)
      BY TookType
    <3>3. t \in Tales /\ t.taken = tale[f].taken /\ t.plan = p
      <4>1. "ignore" \in Latests
        BY DEF Latests
      <4> HIDE DEF p
      <4>9. tale[f] \in Tales
        BY TookType
      <4>10. t \in Tales
        BY <3>2, <4>1, <4>9, TellingType
      <4> QED BY <4>9, <4>10, TellingKeeps
    <3> HIDE DEF t, p
    <3> QED BY <3>1, <3>2, <3>3, ToldType
  <2> QED BY <1>1, <1>2, <2>2, <2>3, TakeTyped, StaysTyped DEF Typed
<1> QED BY <1>1, <1>2, OutOfMemoryTyped DEF IgnoreAndReturn

LEMMA StatelessType ==
    ASSUME NEW m \in Mocks, NEW r \in Rets
    PROVE  [m EXCEPT !.queue = <<>>, !.final = r, !.ignore = TRUE] \in Mocks
<1> DEFINE Chains == Seq(Instances)
<1>1. <<>> \in Chains
  OBVIOUS
<1>2. Mocks = [queue : Chains, ignore : BOOLEAN, final : Rets,
               fixed : BOOLEAN, callback : BOOLEAN, calls : Nat]
  BY DEF Mocks
<1> HIDE DEF Chains
<1> QED BY <1>1, <1>2

LEMMA IgnoreStatelessTyped ==
    ASSUME Typed, NEW f \in Funcs, IgnoreStateless(f)
    PROVE  Typed'
<1>1. PICK r \in Rets :
        /\ mock' = Kept(f, r)
        /\ Told(f, [tale[f] EXCEPT !.plan = Append(Planned(f), r), !.latest = "ignore"])
  BY DEF IgnoreStateless
<1> DEFINE m == [mock[f] EXCEPT !.queue = <<>>, !.final = r, !.ignore = TRUE]
           p == Append(Planned(f), r)
           t == WithPlan(tale[f], p, "ignore")
<1>2. m \in Mocks /\ mock' = [mock EXCEPT ![f] = m]
  <2>1. mock' = [mock EXCEPT ![f] = m]
    BY <1>1 DEF Kept, Typed, MockType
  <2>2. m \in Mocks
    <3>1. mock[f] \in Mocks /\ <<>> \in Seq(Instances)
      BY QueueFacts
    <3> QED BY <3>1, StatelessType, Zenon
  <2> QED BY <2>1, <2>2
<1>3. p \in Seq(Rets) /\ tale[f].taken <= Len(p)
  BY TookType
<1>4. t \in Tales /\ t.taken = tale[f].taken /\ t.plan = p
  <2>1. "ignore" \in Latests
    BY DEF Latests
  <2> HIDE DEF p
  <2>9. tale[f] \in Tales
    BY TookType
  <2>10. t \in Tales
    BY <1>3, <2>1, <2>9, TellingType
  <2> QED BY <2>9, <2>10, TellingKeeps
<1>5. Active /\ Told(f, t) /\ UNCHANGED <<memory, order, stack, runner, promised, log>>
  BY <1>1 DEF IgnoreStateless, WithPlan
<1> HIDE DEF m, p, t
<1> QED BY <1>2, <1>3, <1>4, <1>5, SettingTyped

LEMMA StopIgnoreTyped == ASSUME Typed, NEW f \in Funcs, StopIgnore(f) PROVE Typed'
<1> DEFINE q == IF StopDrops(f) THEN Rest(mock[f].queue) ELSE mock[f].queue
           m == [mock[f] EXCEPT !.queue = q, !.ignore = FALSE]
           p == IF mock[f].ignore THEN Planned(f) ELSE tale[f].plan
           t == WithPlan(tale[f], p, "stop")
<1>1. mock' = [mock EXCEPT ![f] = m]
  BY DEF StopIgnore, Typed, MockType
<1>2. m \in Mocks
  <2>1. q \in Seq(Instances)
    BY QueueFacts
  <2> HIDE DEF q
  <2> QED BY <2>1, QueueFacts, QueueSetTyped
<1>3. p \in Seq(Rets) /\ tale[f].taken <= Len(p)
  BY TookType
<1>4. Active /\ Told(f, t) /\ UNCHANGED <<memory, order, stack, runner, promised, log>>
  BY DEF StopIgnore, WithPlan
<1>5. t \in Tales /\ t.taken = tale[f].taken /\ t.plan = p
  <2>1. "stop" \in Latests
    BY DEF Latests
  <2> HIDE DEF p
  <2>9. tale[f] \in Tales
    BY TookType
  <2>10. t \in Tales
    BY <1>3, <2>1, <2>9, TellingType
  <2> QED BY <2>9, <2>10, TellingKeeps
<1> HIDE DEF m, p, t
<1> QED BY <1>1, <1>2, <1>3, <1>4, <1>5, SettingTyped

LEMMA InstallTyped == ASSUME Typed, NEW f \in Funcs, Install(f) PROVE Typed'
<1>1. PICK fixed \in BOOLEAN, there \in BOOLEAN :
        /\ mock' = [mock EXCEPT ![f] = Installed(f, fixed, there)]
        /\ Told(f, [tale[f] EXCEPT !.invoked = 0,
                      !.latest = IF there /\ ~fixed THEN "stub" ELSE "callback"])
  BY DEF Install
<1> DEFINE m == Installed(f, fixed, there)
           l == IF there /\ ~fixed THEN "stub" ELSE "callback"
           t == WithCallback(tale[f], 0, l)
<1>2. m \in Mocks
  BY QueueFacts DEF Installed, Mocks
<1>3. t \in Tales /\ t.taken = tale[f].taken /\ t.plan = tale[f].plan
  <2>1. l \in Latests /\ 0 \in Nat
    BY DEF Latests
  <2> HIDE DEF l
  <2>9. tale[f] \in Tales
    BY TookType
  <2>10. t \in Tales
    BY <2>1, <2>9, TellingType
  <2> QED BY <2>9, <2>10, TellingKeeps
<1>4. mock' = [mock EXCEPT ![f] = m] /\ Told(f, t)
  BY <1>1 DEF WithCallback
<1>5. Active /\ UNCHANGED <<memory, order, stack, runner, promised, log>>
  BY DEF Install
<1> HIDE DEF m, t
<1> QED BY <1>2, <1>3, <1>4, <1>5, TookType, SettingTyped

-----------------------------------------------------------------------------
(* Calls of mocks keep the types.                                          *)

LEMMA VerifiedTyped ==
    ASSUME Typed, NEW f \in Funcs, Verified(f)
    PROVE  OrderType'
  BY DEF Verified, Typed, OrderType

\* An answer is told of a function.
LEMMA AnsweredTyped ==
    ASSUME Typed, NEW f \in Funcs, NEW how \in Hows, NEW ret \in Rets, NEW wanted \in Rets,
           NEW out \in Outs \cup {NoOut}, Answered(f, how, ret, wanted, out)
    PROVE  TaleType'
<1> DEFINE w == IF out = NoOut THEN Took(f).wrote ELSE Append(Took(f).wrote, out)
           t == WithAnswer(Took(f), how, ret, wanted, w)
<1>1. Took(f) \in Tales /\ Took(f).taken <= Len(Took(f).plan)
  BY TookType
<1>2. w \in Seq(Outs)
  BY <1>1 DEF Tales
<1>3. tale' = [tale EXCEPT ![f] = t]
  BY DEF Answered, Told, WithAnswer
<1>4. t \in Tales /\ t.taken <= Len(t.plan)
  <2> HIDE DEF w
  <2>1. t \in Tales /\ t.taken = Took(f).taken /\ t.plan = Took(f).plan
    BY <1>1, <1>2, TellingType, TellingKeeps
  <2> QED BY <1>1, <2>1
<1> HIDE DEF t
<1> QED BY <1>3, <1>4, ToldType

LEMMA TookTyped ==
    ASSUME Typed, NEW f \in Funcs, Told(f, Took(f))
    PROVE  TaleType'
  BY TookType, ToldType DEF Told

LEMMA PopTyped ==
    ASSUME Typed, NEW f \in Funcs, mock' = Popped(f)
    PROVE  MockType'
  BY PoppedType DEF MockType

\* What the oldest instance holds.
LEMMA OldestType ==
    ASSUME Typed, NEW f \in Funcs, HasOne(f)
    PROVE  Oldest(f).ret \in Rets /\ Oldest(f).out \in Outs \cup {NoOut}
  BY QueueFacts DEF Instances

LEMMA CallIgnoredTyped ==
    ASSUME Typed, NEW f \in Funcs, NEW a \in Args, CallIgnored(f, a)
    PROVE  Typed'
<1> DEFINE ret == IgnoredReturn(f)
           out == IF HasOne(f) THEN Oldest(f).out ELSE NoOut
           wanted == IF f \in Void THEN 0 ELSE Wanted(f)
           m == [mock[f] EXCEPT !.queue = Rest(mock[f].queue), !.final = ret]
<1>1. ret \in Rets
  BY OldestType, QueueFacts, MockAssumption DEF IgnoredReturn, Mocks
<1>2. out \in Outs \cup {NoOut} /\ wanted \in Rets
  BY OldestType, TookType, MockAssumption
<1>3. TaleType'
  <2>1. Answered(f, "ignored", ret, wanted, out)
    BY DEF CallIgnored
  <2>2. "ignored" \in Hows
    BY DEF Hows
  <2> HIDE DEF ret, out, wanted
  <2> QED BY <1>1, <1>2, <2>1, <2>2, AnsweredTyped
<1>4. MockType'
  <2> DEFINE q == Rest(mock[f].queue)
  <2>1. [mock[f] EXCEPT !.queue = q] \in Mocks
    BY QueueFacts, QueueSetTyped
  <2>2. mock' = [mock EXCEPT ![f] = [[mock[f] EXCEPT !.queue = q] EXCEPT !.final = ret]]
    BY PoppedType DEF CallIgnored, Typed, MockType
  <2>3. [[mock[f] EXCEPT !.queue = q] EXCEPT !.final = ret] \in Mocks
    <3> DEFINE n == [mock[f] EXCEPT !.queue = q]
    <3> HIDE DEF n, ret
    <3>1. n \in Mocks
      BY <2>1 DEF n
    <3>2. [n EXCEPT !.final = ret] \in Mocks
      BY <1>1, <3>1 DEF Mocks
    <3> QED BY <3>2 DEF n
  <2> HIDE DEF q, ret
  <2> QED BY <2>2, <2>3, MockSetTyped
<1>5. Active /\ UNCHANGED <<memory, order, stack, runner, promised, log>>
  BY DEF CallIgnored
<1> QED BY <1>3, <1>4, <1>5, StaysTyped DEF Typed

\* A callback starts.
LEMMA EnterTyped ==
    ASSUME Typed, NEW f \in Funcs, NEW inst \in Instances, NEW at \in Nat,
           Enter(f, inst, at), Active
    PROVE  MemoryType' /\ RunnerType' /\ MockType' /\ StackType' /\ TaleType'
<1>1. MemoryType' /\ RunnerType'
  BY StaysTyped DEF Enter
<1>2. MockType'
  <2> DEFINE q == Rest(mock[f].queue)
             c == IF IncludeCount THEN mock[f].calls + 1 ELSE mock[f].calls
  <2>1. [mock[f] EXCEPT !.queue = q] \in Mocks /\ c \in Nat
    <3>1. c \in Nat
      BY QueueFacts DEF Mocks
    <3> QED BY <3>1, QueueFacts, QueueSetTyped, Zenon
  <2>2. mock' = [mock EXCEPT ![f] = [[mock[f] EXCEPT !.queue = q] EXCEPT !.calls = c]]
    <3> DEFINE m == [mock[f] EXCEPT !.queue = q]
    <3>1. Popped(f) = [mock EXCEPT ![f] = m] /\ m \in Mocks
      BY PoppedType, <2>1, Zenon
    <3>2. mock' = [Popped(f) EXCEPT ![f].calls = IF IncludeCount THEN Popped(f)[f].calls + 1 ELSE Popped(f)[f].calls]
      BY Zenon DEF Enter
    <3>3. Popped(f)[f] = m /\ m.calls = mock[f].calls
      BY <3>1, QueueFacts DEF Typed, MockType, Mocks
    <3>4. mock' = [mock EXCEPT ![f] = [m EXCEPT !.calls = c]]
      <4> HIDE DEF m
      <4> QED BY <3>1, <3>2, <3>3 DEF Typed, MockType
    <3> QED BY <3>4, Zenon
  <2>3. [[mock[f] EXCEPT !.queue = q] EXCEPT !.calls = c] \in Mocks
    <3> DEFINE n == [mock[f] EXCEPT !.queue = q]
    <3> HIDE DEF n, c
    <3>1. n \in Mocks
      BY <2>1 DEF n
    <3>2. [n EXCEPT !.calls = c] \in Mocks
      BY <2>1, <3>1 DEF Mocks
    <3> QED BY <3>2 DEF n
  <2> HIDE DEF q, c
  <2> QED BY <2>2, <2>3, MockSetTyped
<1>3. StackType'
  <2> DEFINE frame == [fn |-> f, inst |-> inst, at |-> at, room |-> room,
                       stub |-> Stubbed(f), wanted |-> Wanted(f)]
  <2>1. Stubbed(f) \in BOOLEAN /\ room \in Nat /\ Wanted(f) \in Rets
    BY TookType DEF Stubbed, Typed, MemoryType
  <2>2. frame \in Frames
    BY <2>1 DEF Frames
  <2>3. stack' = Append(stack, frame) /\ Len(stack) < MaxDepth
    BY DEF Enter
  <2>4. stack \in Seq(Frames) /\ MaxDepth \in Nat
    BY MockAssumption DEF Typed, StackType
  <2> HIDE DEF frame
  <2> QED BY <2>2, <2>3, <2>4 DEF StackType
<1>4. TaleType'
  <2> DEFINE n == Took(f).invoked + 1
             t == WithCall(Took(f), n, "nothing")
  <2>1. /\ Took(f) \in Tales /\ Took(f).taken <= Len(Took(f).plan)
        /\ "nothing" \in Hows /\ "nothing" \in Latests
    BY TookType DEF Hows, Latests
  <2>4. n \in Nat
    BY <2>1 DEF Tales
  <2>2. t \in Tales /\ t.taken <= Len(t.plan)
    <3> HIDE DEF n
    <3>1. t \in Tales
      BY <2>1, <2>4, TellingType
    <3>2. t.taken = Took(f).taken /\ t.plan = Took(f).plan
      BY <2>1, TellingKeeps
    <3> HIDE DEF t
    <3> QED BY <2>1, <3>1, <3>2
  <2>3. tale' = [tale EXCEPT ![f] = t]
    BY DEF Enter, Told, WithCall
  <2> HIDE DEF t
  <2> QED BY <2>2, <2>3, ToldType
<1> QED BY <1>1, <1>2, <1>3, <1>4

LEMMA CallStubbedTyped ==
    ASSUME Typed, NEW f \in Funcs, NEW a \in Args, CallStubbed(f, a)
    PROVE  Typed'
<1>1. [Blank EXCEPT !.arg = a] \in Instances /\ 0 \in Nat
  BY StartTypes DEF Instances
<1>2. Active /\ Enter(f, [Blank EXCEPT !.arg = a], 0) /\ UNCHANGED <<order, log>>
  BY DEF CallStubbed
<1> QED BY <1>1, <1>2, EnterTyped, StaysTyped DEF Typed

\* A call is logged.
LEMMA EntryType ==
    ASSUME NEW f \in Funcs, NEW a \in Args, NEW ret \in Rets, NEW out \in Outs \cup {NoOut},
           NEW state \in {"open", "returned", "thrown", "lost"}
    PROVE  Entry(f, a, state, ret, out) \in Entries
  BY DEF Entry, Entries

LEMMA LoggedTyped ==
    ASSUME Typed, NEW f, NEW e \in Entries, Logged(f, e)
    PROVE  LogType'
  BY DEF Logged, Typed, LogType

LEMMA CallsBackTyped ==
    ASSUME Typed, NEW f \in Funcs, NEW a \in Args, CallsBack(f, a)
    PROVE  Typed'
<1> DEFINE inst == [Oldest(f) EXCEPT !.arg = a]
           at == IF verdict = "running" /\ f \in Strict THEN Len(log) + 1 ELSE 0
<1>1. HasOne(f) /\ Active
  BY DEF CallsBack, Passes
<1>2. inst \in Instances
  BY <1>1, QueueFacts DEF Instances
<1>3. at \in Nat
  BY DEF Typed, LogType
<1>4. Enter(f, inst, at) /\ Verified(f) /\ Logged(f, Entry(f, a, "open", 0, NoOut))
  BY DEF CallsBack
<1>5. LogType'
  BY <1>4, EntryType, LoggedTyped, MockAssumption
<1> HIDE DEF inst, at
<1> QED BY <1>1, <1>2, <1>3, <1>4, <1>5, EnterTyped, VerifiedTyped DEF Typed

LEMMA CallFailsTyped ==
    ASSUME Typed, NEW f \in Funcs, NEW a \in Args, CallFails(f, a)
    PROVE  Typed'
<1>1. /\ Active /\ mock' = Popped(f) /\ Fail(f, a, Fault(f, a)) /\ Told(f, Took(f))
      /\ UNCHANGED memory
  BY DEF CallFails
<1>2. OrderType'
  BY StaysTyped, VerifiedTyped DEF CallFails
<1> QED BY <1>1, <1>2, PopTyped, FailTyped, TookTyped, StaysTyped DEF Typed

LEMMA CallReturnsTyped ==
    ASSUME Typed, NEW f \in Funcs, NEW a \in Args, CallReturns(f, a)
    PROVE  Typed'
<1>1. HasOne(f)
  BY DEF CallReturns, Passes
<1>2. /\ Active /\ mock' = Popped(f) /\ Verified(f)
      /\ Logged(f, Entry(f, a, "returned", Oldest(f).ret, Oldest(f).out))
      /\ Answered(f, "served", Oldest(f).ret, Wanted(f), Oldest(f).out)
      /\ UNCHANGED <<memory, stack, runner, promised>>
  BY DEF CallReturns
<1>3. Oldest(f).ret \in Rets /\ Oldest(f).out \in Outs \cup {NoOut}
  BY <1>1, OldestType
<1>4. LogType'
  BY <1>2, <1>3, EntryType, LoggedTyped
<1>5. TaleType'
  <2>1. Wanted(f) \in Rets /\ "served" \in Hows
    BY TookType DEF Hows
  <2> QED BY <1>2, <1>3, <2>1, AnsweredTyped
<1> QED BY <1>2, <1>4, <1>5, PopTyped, VerifiedTyped, StaysTyped DEF Typed

\* The callbacks above a catcher are abandoned.
LEMMA UnwoundType ==
    ASSUME NEW l \in Seq(Entries), NEW k
    PROVE  /\ Unwound(l, k) \in Seq(Entries) /\ Len(Unwound(l, k)) = Len(l)
           /\ DOMAIN Unwound(l, k) = DOMAIN l
<1>1. ASSUME NEW e \in Entries PROVE [e EXCEPT !.state = "lost"] \in Entries
  BY DEF Entries
<1> DEFINE gone == {stack[i].at : i \in k + 1 .. Len(stack)}
<1>2. Unwound(l, k) = [i \in 1 .. Len(l) |->
         IF i \in gone /\ l[i].state = "open" THEN [l[i] EXCEPT !.state = "lost"] ELSE l[i]]
  BY DEF Unwound
<1>3. \A i \in 1 .. Len(l) :
         (IF i \in gone /\ l[i].state = "open" THEN [l[i] EXCEPT !.state = "lost"]
          ELSE l[i]) \in Entries
  <2> HIDE DEF gone
  <2> QED BY <1>1
<1> HIDE DEF gone
<1> QED BY <1>2, <1>3

LEMMA StackPart ==
    ASSUME Typed, NEW k \in 0 .. Len(stack), stack' = SubSeq(stack, 1, k)
    PROVE  StackType' /\ Len(stack') = k
  BY MockAssumption DEF Typed, StackType

LEMMA CallThrowsTyped ==
    ASSUME Typed, NEW f \in Funcs, NEW a \in Args, CallThrows(f, a)
    PROVE  Typed'
<1>1. /\ Active /\ mock' = Popped(f) /\ Verified(f) /\ Told(f, Took(f))
      /\ UNCHANGED <<memory, runner, promised>>
  BY DEF CallThrows
<1>2. PICK k \in 0 .. Len(stack) :
         /\ stack' = SubSeq(stack, 1, k)
         /\ log' = IF verdict = "running" /\ f \in Strict
                   THEN Append(Unwound(log, k), Entry(f, a, "thrown", 0, NoOut))
                   ELSE Unwound(log, k)
  BY DEF CallThrows
<1>3. LogType'
  <2>1. Entry(f, a, "thrown", 0, NoOut) \in Entries
    BY EntryType, MockAssumption
  <2>2. Unwound(log, k) \in Seq(Entries)
    BY UnwoundType DEF Typed, LogType
  <2> QED BY <1>2, <2>1, <2>2 DEF LogType
<1> QED BY <1>1, <1>2, <1>3, PopTyped, VerifiedTyped, TookTyped, StackPart, StaysTyped DEF Typed

-----------------------------------------------------------------------------
(* Ends of callbacks keep the types.                                       *)

LEMMA FrameType ==
    ASSUME Typed, stack # <<>>
    PROVE  /\ Frame \in Frames /\ Frame.fn \in Funcs /\ Frame.inst \in Instances
           /\ Frame.wanted \in Rets /\ Len(stack) - 1 \in 0 .. Len(stack)
           /\ Frame.inst.arg \in Args /\ Frame.inst.out \in Outs \cup {NoOut}
<1>1. Frame \in Frames /\ Len(stack) - 1 \in 0 .. Len(stack)
  BY DEF Typed, StackType, Frame
<1>2. Frame.fn \in Funcs /\ Frame.inst \in Instances /\ Frame.wanted \in Rets
  BY <1>1 DEF Frames
<1>3. Frame.inst.arg \in Args /\ Frame.inst.out \in Outs \cup {NoOut}
  BY <1>2 DEF Instances
<1> QED BY <1>1, <1>2, <1>3

LEMMA ClosedType ==
    ASSUME Typed, NEW e \in Entries
    PROVE  /\ Closed(e) \in Seq(Entries) /\ DOMAIN Closed(e) = DOMAIN log
<1>1. log \in Seq(Entries)
  BY DEF Typed, LogType
<1>2. [log EXCEPT ![Frame.at] = e] \in Seq(Entries)
  <2> DEFINE at == Frame.at
  <2> HIDE DEF at
  <2>1. [log EXCEPT ![at] = e] = [i \in 1 .. Len(log) |-> IF i = at THEN e ELSE log[i]]
    BY <1>1
  <2>2. [i \in 1 .. Len(log) |-> IF i = at THEN e ELSE log[i]] \in Seq(Entries)
    BY <1>1
  <2>3. [log EXCEPT ![at] = e] \in Seq(Entries)
    BY <2>1, <2>2
  <2> QED BY <2>3 DEF at
<1> QED BY <1>1, <1>2 DEF Closed

LEMMA StubReturnsTyped == ASSUME Typed, StubReturns PROVE Typed'
<1>1. StackType'
  BY FrameType, StackPart DEF StubReturns, Below
<1> QED BY <1>1, StaysTyped DEF StubReturns, Typed

LEMMA WroteType ==
    ASSUME NEW old \in Seq(Outs), NEW out \in Outs \cup {NoOut}
    PROVE  (IF out = NoOut THEN old ELSE Append(old, out)) \in Seq(Outs)
<1>1. CASE out = NoOut
  BY <1>1
<1>2. CASE out # NoOut
  <2>1. out \in Outs
    BY <1>2
  <2> QED BY <1>2, <2>1
<1> QED BY <1>1, <1>2

LEMMA BackType ==
    ASSUME NEW old \in Tales
    PROVE  \A ret \in Rets, wanted \in Rets, w \in Seq(Outs) :
             /\ WithAnswer(old, "called back", ret, wanted, w) \in Tales
             /\ WithAnswer(old, "called back", ret, wanted, w).taken = old.taken
             /\ WithAnswer(old, "called back", ret, wanted, w).plan = old.plan
<1>1. "called back" \in Hows
  BY DEF Hows
<1> DEFINE Copies == Seq(Outs)
<1>2. \A h \in Hows, v \in Rets, r \in Rets, w \in Copies :
        WithAnswer(old, h, v, r, w) \in Tales
  BY TellingType
<1>3. \A h, v, r, w : /\ WithAnswer(old, h, v, r, w).taken = old.taken
                      /\ WithAnswer(old, h, v, r, w).plan = old.plan
  BY TellingKeeps
<1> HIDE DEF Copies
<1>4. \A ret \in Rets, wanted \in Rets, w \in Copies :
        /\ WithAnswer(old, "called back", ret, wanted, w) \in Tales
        /\ WithAnswer(old, "called back", ret, wanted, w).taken = old.taken
        /\ WithAnswer(old, "called back", ret, wanted, w).plan = old.plan
  BY <1>1, <1>2, <1>3
<1> QED BY <1>4 DEF Copies

LEMMA CallbackReturnsTyped == ASSUME Typed, CallbackReturns PROVE Typed'
<1>1. stack # <<>> /\ UNCHANGED <<mock, memory, order, steps>>
  BY DEF CallbackReturns
<1>0. PICK f \in Funcs, inst \in Instances : f = Frame.fn /\ inst = Frame.inst
  BY <1>1, FrameType
<1>2. inst.arg \in Args /\ inst.out \in Outs \cup {NoOut}
  BY DEF Instances
<1>3. ASSUME Fail(f, inst.arg, "null"), UNCHANGED tale
      PROVE  Typed'
  <2>1. RunnerType' /\ StackType' /\ LogType'
    BY <1>1, <1>3, FailTyped
  <2> QED BY <1>1, <1>3, <2>1, StaysTyped DEF Typed
<1>4. ASSUME NEW r \in RetsOf(f), NEW junk \in RetsOf(f),
             Told(f, [tale[f] EXCEPT !.how = "called back",
                        !.value = IF Frame.room = room THEN r ELSE junk, !.wanted = r,
                        !.wrote = IF inst.out = NoOut THEN @ ELSE Append(@, inst.out)]),
             log' = Closed(Entry(f, inst.arg, "returned",
                                 IF Frame.room = room THEN r ELSE junk, inst.out)),
             stack' = Below, UNCHANGED <<runner, promised>>
      PROVE  Typed'
  <2> DEFINE ret == IF Frame.room = room THEN r ELSE junk
             w == IF inst.out = NoOut THEN tale[f].wrote ELSE Append(tale[f].wrote, inst.out)
             t == WithAnswer(tale[f], "called back", ret, r, w)
  <2>1. ret \in Rets /\ r \in Rets
    BY MockAssumption DEF RetsOf
  <2>2. LogType'
    <3>1. Entry(f, inst.arg, "returned", ret, inst.out) \in Entries
      BY <1>2, <2>1, EntryType
    <3> QED BY <1>4, <3>1, ClosedType DEF LogType
  <2>3. StackType'
    BY <1>1, <1>4, FrameType, StackPart DEF Below
  <2>4. TaleType'
    <3>1. tale' = [tale EXCEPT ![f] = t]
      BY <1>4 DEF Told, WithAnswer
    <3>0. tale[f] \in Tales
      BY TookType
    <3>2. tale[f].wrote \in Seq(Outs)
      BY <3>0 DEF Tales
    <3>3. w \in Seq(Outs)
      BY <1>2, <3>2, WroteType
    <3>4. t \in Tales /\ t.taken = tale[f].taken /\ t.plan = tale[f].plan
      <4> DEFINE Copies == Seq(Outs)
                 old == tale[f]
      <4>1. \A v \in Rets, l \in Rets, u \in Copies :
              /\ WithAnswer(old, "called back", v, l, u) \in Tales
              /\ WithAnswer(old, "called back", v, l, u).taken = old.taken
              /\ WithAnswer(old, "called back", v, l, u).plan = old.plan
        BY <3>0, BackType
      <4>2. w \in Copies
        BY <3>3
      <4> HIDE DEF w, ret, Copies, old
      <4>3. /\ t \in Tales /\ t.taken = old.taken /\ t.plan = old.plan
        BY <2>1, <4>1, <4>2 DEF t, old
      <4> QED BY <4>3 DEF old
    <3> HIDE DEF t
    <3> QED BY <1>2, <3>1, <3>4, TookType, ToldType
  <2> QED BY <1>1, <1>4, <2>2, <2>3, <2>4, StaysTyped DEF Typed
<1> QED BY <1>0, <1>3, <1>4 DEF CallbackReturns

LEMMA CallbackThrowsTyped == ASSUME Typed, CallbackThrows PROVE Typed'
<1> DEFINE e == Entry(Frame.fn, Frame.inst.arg, "thrown", 0, NoOut)
<1>1. /\ stack # <<>>
      /\ UNCHANGED <<mock, memory, order, runner, steps, promised, tale>>
  BY DEF CallbackThrows
<1>2. PICK k \in 0 .. Len(stack) - 1 :
        stack' = SubSeq(stack, 1, k) /\ log' = Unwound(Closed(e), k)
  BY DEF CallbackThrows
<1>3. e \in Entries
  BY <1>1, FrameType, EntryType, MockAssumption
<1>4. LogType'
  <2> HIDE DEF e
  <2> QED BY <1>2, <1>3, ClosedType, UnwoundType DEF LogType
<1>5. StackType'
  <2>1. k \in 0 .. Len(stack)
    BY DEF Typed, StackType
  <2> QED BY <1>2, <2>1, StackPart
<1> QED BY <1>1, <1>4, <1>5, StaysTyped DEF Typed

-----------------------------------------------------------------------------
LEMMA NextTyped == ASSUME Typed, [Next]_vars PROVE Typed'
<1>1. CASE UNCHANGED vars
  BY <1>1, StaysTyped DEF vars, memory, order, runner, Typed
<1>2. CASE Next
  BY <1>2, RunnerStepTyped, StubReturnsTyped, CallbackReturnsTyped, CallbackThrowsTyped,
     ExpectTyped, IgnoreArgTyped, ReturnThruPtrTyped, IgnoreTyped, IgnoreAndReturnTyped,
     IgnoreStatelessTyped, StopIgnoreTyped, InstallTyped, CallIgnoredTyped,
     CallStubbedTyped, CallsBackTyped, CallFailsTyped, CallReturnsTyped, CallThrowsTyped
  DEF Next
<1> QED BY <1>1, <1>2

\* The variables keep their types, and no call takes what the arena does not hold.
THEOREM TypeCorrect == Spec => []TypeOK
<1>1. Init => Typed
  BY InitTyped
<1>2. Typed /\ [Next]_vars => Typed'
  BY NextTyped
<1>3. Typed => TypeOK
  BY TypedImpliesTypeOK
<1> QED BY <1>1, <1>2, <1>3, PTL DEF Spec


-----------------------------------------------------------------------------
(* The call count of a callback.                                           *)

CountInv == Typed /\ CountsCallbacks

\* A step that leaves the counts alone keeps them right.
CountsKept ==
    \A f \in Funcs : mock'[f].calls = mock[f].calls /\ tale'[f].invoked = tale[f].invoked

LEMMA SettingsKeepCounts ==
    ASSUME Typed, NEW f \in Funcs,
           \/ Expect(f) \/ IgnoreArg(f) \/ ReturnThruPtr(f)
    PROVE  CountsKept
<1>1. /\ mock \in [Funcs -> Mocks] /\ tale \in [Funcs -> Tales]
      /\ \A g \in Funcs : mock[g] \in Mocks /\ tale[g] \in Tales
  BY DEF Typed, MockType, TaleType
<1>2. CASE UNCHANGED <<mock, tale>>
  BY <1>2 DEF CountsKept
<1>3. ASSUME NEW inst, SetNewest(f, inst) PROVE \A g \in Funcs : mock'[g].calls = mock[g].calls
  BY <1>1, <1>3 DEF SetNewest, Mocks
<1>4. ASSUME NEW inst, NEW i, Chain(f, inst, i) PROVE \A g \in Funcs : mock'[g].calls = mock[g].calls
  BY <1>1, <1>4 DEF Chain, Mocks
<1>5. ASSUME NEW inst, AddExpectation(f, inst) PROVE CountsKept
  <2>1. \A g \in Funcs : tale'[g].invoked = tale[g].invoked
    BY <1>1, <1>5 DEF AddExpectation, Told, Tales
  <2> QED BY <1>4, <1>5, <2>1 DEF AddExpectation, CountsKept
<1>6. CASE Expect(f)
  BY <1>2, <1>5, <1>6 DEF Expect, OutOfMemory
<1>7. CASE IgnoreArg(f)
  BY <1>2, <1>3, <1>7 DEF IgnoreArg, CountsKept
<1>8. CASE ReturnThruPtr(f)
  <2>1. CASE UNCHANGED <<mock, tale>>
    BY <2>1, <1>2
  <2>2. ASSUME NEW x, tale' = [tale EXCEPT ![f] = [tale[f] EXCEPT !.meant = x]]
        PROVE \A g \in Funcs : tale'[g].invoked = tale[g].invoked
    BY <1>1, <2>2 DEF Tales
  <2>3. ASSUME NEW x, NEW y, tale' = [tale EXCEPT ![f] = [tale[f] EXCEPT !.plan = y, !.meant = x]]
        PROVE \A g \in Funcs : tale'[g].invoked = tale[g].invoked
    BY <1>1, <2>3 DEF Tales
  <2>4. CASE \E v \in Outs : 
               /\ SetNewest(f, [Newest(f) EXCEPT !.out = v])
               /\ Told(f, [tale[f] EXCEPT !.meant = Append(@, v)])
    <3>1. PICK v \in Outs : SetNewest(f, [Newest(f) EXCEPT !.out = v])
               /\ Told(f, [tale[f] EXCEPT !.meant = Append(@, v)])
      BY <2>4
    <3> QED BY <3>1, <2>2, <1>3 DEF Told, CountsKept
  <2>5. CASE \E v \in Outs, r \in NewestReturns(f) :
               /\ Chain(f, [Blank EXCEPT !.ret = r, !.out = v], TRUE)
               /\ Told(f, [tale[f] EXCEPT !.plan = Append(@, PlannedLast(f)),
                                          !.meant = Append(@, v)])
    <3>1. PICK v \in Outs, r \in NewestReturns(f) :
               /\ Chain(f, [Blank EXCEPT !.ret = r, !.out = v], TRUE)
               /\ Told(f, [tale[f] EXCEPT !.plan = Append(@, PlannedLast(f)),
                                          !.meant = Append(@, v)])
      BY <2>5
    <3> QED BY <3>1, <2>3, <1>4 DEF Told, CountsKept
  <2> QED BY <1>8, <2>1, <2>4, <2>5 DEF ReturnThruPtr, OutOfMemory
<1> QED BY <1>6, <1>7, <1>8

LEMMA IgnoringKeepsCounts ==
    ASSUME Typed, NEW f \in Funcs,
           \/ Ignore(f) \/ IgnoreAndReturn(f) \/ IgnoreStateless(f) \/ StopIgnore(f)
    PROVE  CountsKept
<1>1. /\ mock \in [Funcs -> Mocks] /\ tale \in [Funcs -> Tales]
      /\ \A g \in Funcs : mock[g] \in Mocks /\ tale[g] \in Tales
  BY DEF Typed, MockType, TaleType
<1>2. CASE Ignore(f)
  BY <1>1, <1>2 DEF Ignore, Told, CountsKept, Mocks, Tales
<1>3. CASE IgnoreAndReturn(f)
  <2>1. CASE OutOfMemory(f)
    BY <2>1 DEF OutOfMemory, CountsKept
  <2>2. ASSUME NEW inst, Chain(f, inst, TRUE)
        PROVE  \A g \in Funcs : mock'[g].calls = mock[g].calls
    BY <1>1, <2>2 DEF Chain, Mocks
  <2>3. ASSUME NEW p, NEW l, tale' = [tale EXCEPT ![f] = [tale[f] EXCEPT !.plan = p, !.latest = l]]
        PROVE  \A g \in Funcs : tale'[g].invoked = tale[g].invoked
    BY <1>1, <2>3 DEF Tales
  <2>4. CASE ~ OutOfMemory(f)
    <3>1. PICK r \in Rets :
            /\ Chain(f, [Blank EXCEPT !.ret = r], TRUE)
            /\ Told(f, [tale[f] EXCEPT !.plan = Append(@, r), !.latest = "ignore"])
      BY <1>3, <2>4 DEF IgnoreAndReturn
    <3> QED BY <2>2, <2>3, <3>1 DEF Told, CountsKept
  <2> QED BY <2>1, <2>4
<1>4. CASE IgnoreStateless(f)
  <2>1. PICK r \in Rets :
          /\ mock' = Kept(f, r)
          /\ Told(f, [tale[f] EXCEPT !.plan = Append(Planned(f), r), !.latest = "ignore"])
    BY <1>4 DEF IgnoreStateless
  <2>2. \A g \in Funcs : mock'[g].calls = mock[g].calls
    BY <1>1, <2>1 DEF Kept, Mocks
  <2>3. \A g \in Funcs : tale'[g].invoked = tale[g].invoked
    BY <1>1, <2>1 DEF Told, Tales
  <2> QED BY <2>2, <2>3 DEF CountsKept
<1>5. CASE StopIgnore(f)
  BY <1>1, <1>5 DEF StopIgnore, Told, CountsKept, Mocks, Tales
<1> QED BY <1>2, <1>3, <1>4, <1>5

LEMMA CallsKeepCounts ==
    ASSUME Typed, NEW f \in Funcs, NEW a \in Args,
           \/ CallIgnored(f, a) \/ CallFails(f, a) \/ CallReturns(f, a) \/ CallThrows(f, a)
    PROVE  CountsKept
<1>1. /\ mock \in [Funcs -> Mocks] /\ tale \in [Funcs -> Tales]
      /\ \A g \in Funcs : mock[g] \in Mocks /\ tale[g] \in Tales
  BY DEF Typed, MockType, TaleType
<1>2. \A g \in Funcs : Popped(f)[g].calls = mock[g].calls
  BY <1>1 DEF Popped, Mocks
<1>3. Took(f).invoked = tale[f].invoked /\ Took(f) \in Tales
  BY <1>1, TookType DEF Took, Tales
<1>4. ASSUME NEW h, NEW r, NEW w, NEW o, Answered(f, h, r, w, o)
      PROVE  \A g \in Funcs : tale'[g].invoked = tale[g].invoked
  BY <1>1, <1>3, <1>4 DEF Answered, Told, Tales
<1>5. ASSUME Told(f, Took(f))
      PROVE  \A g \in Funcs : tale'[g].invoked = tale[g].invoked
  BY <1>1, <1>3, <1>5 DEF Told
<1>6. CASE CallIgnored(f, a)
  <2>1. \A g \in Funcs : tale'[g].invoked = tale[g].invoked
    BY <1>4, <1>6 DEF CallIgnored
  <2>2. Popped(f) \in [Funcs -> Mocks]
    BY PoppedType
  <2>3. \A g \in Funcs : mock'[g].calls = mock[g].calls
    BY <1>1, <1>2, <1>6, <2>2 DEF CallIgnored, Mocks
  <2> QED BY <2>1, <2>3 DEF CountsKept
<1>7. CASE CallFails(f, a)
  BY <1>2, <1>5, <1>7 DEF CallFails, CountsKept
<1>8. CASE CallReturns(f, a)
  BY <1>2, <1>4, <1>8 DEF CallReturns, CountsKept
<1>9. CASE CallThrows(f, a)
  BY <1>2, <1>5, <1>9 DEF CallThrows, CountsKept
<1> QED BY <1>6, <1>7, <1>8, <1>9

LEMMA NextCounts == ASSUME IncludeCount, CountInv, [Next]_vars PROVE CountsCallbacks'
<1>1. /\ Typed /\ mock \in [Funcs -> Mocks] /\ tale \in [Funcs -> Tales]
      /\ \A g \in Funcs : mock[g] \in Mocks /\ tale[g] \in Tales
      /\ \A g \in Funcs : mock[g].calls = tale[g].invoked
  BY DEF CountInv, Typed, MockType, TaleType, CountsCallbacks
<1>2. ASSUME CountsKept PROVE CountsCallbacks'
  BY <1>1, <1>2 DEF CountsKept, CountsCallbacks
<1>3. CASE UNCHANGED <<mock, tale>>
  BY <1>1, <1>3 DEF CountsCallbacks
<1>4. CASE NextTest
  BY <1>4 DEF NextTest, AllCleared, AllUntold, Cleared, Untold, CountsCallbacks
<1>5. ASSUME NEW f \in Funcs, Install(f) PROVE CountsCallbacks'
  <2>1. PICK fixed \in BOOLEAN, there \in BOOLEAN, l \in Latests :
          /\ mock' = [mock EXCEPT ![f] = Installed(f, fixed, there)]
          /\ Told(f, [tale[f] EXCEPT !.invoked = 0, !.latest = l])
    BY <1>5 DEF Install, Latests
  <2>2. Installed(f, fixed, there).calls = 0
    BY <1>1 DEF Installed, Mocks
  <2>3. \A g \in Funcs : tale'[g].invoked = IF g = f THEN 0 ELSE tale[g].invoked
    BY <1>1, <2>1 DEF Told, Tales
  <2> QED BY <1>1, <2>1, <2>2, <2>3 DEF CountsCallbacks
<1>6. ASSUME NEW f \in Funcs, NEW inst, NEW at, Enter(f, inst, at) PROVE CountsCallbacks'
  <2>1. Popped(f) \in [Funcs -> Mocks] /\ Took(f) \in Tales
    BY <1>1, PoppedType, TookType
  <2>2. \A g \in Funcs : Popped(f)[g].calls = mock[g].calls
    BY <1>1 DEF Popped, Mocks
  <2>3. Took(f).invoked = tale[f].invoked
    BY <1>1 DEF Took, Tales
  <2>4. \A g \in Funcs : mock'[g].calls = IF g = f THEN mock[g].calls + 1 ELSE mock[g].calls
    BY <1>6, <2>1, <2>2 DEF Enter, Mocks
  <2>5. \A g \in Funcs : tale'[g].invoked =
                           IF g = f THEN tale[g].invoked + 1 ELSE tale[g].invoked
    BY <1>1, <1>6, <2>1, <2>3 DEF Enter, Told, Tales
  <2> QED BY <1>1, <2>4, <2>5 DEF CountsCallbacks
<1>7. ASSUME NEW f \in Funcs, NEW a \in Args, CallStubbed(f, a) \/ CallsBack(f, a)
      PROVE  CountsCallbacks'
  BY <1>6, <1>7 DEF CallStubbed, CallsBack
<1>8. CASE CallbackReturns
  <2>0. PICK f \in Funcs : f = Frame.fn
    BY <1>1, <1>8, FrameType DEF CallbackReturns
  <2>1. CASE UNCHANGED tale
    BY <1>3, <1>8, <2>1 DEF CallbackReturns
  <2>2. ASSUME NEW ret, NEW r, NEW w,
               tale' = [tale EXCEPT ![f] = [tale[f] EXCEPT !.how = "called back",
                                              !.value = ret, !.wanted = r, !.wrote = w]]
        PROVE  \A g \in Funcs : tale'[g].invoked = tale[g].invoked
    BY <1>1, <2>2 DEF Tales
  <2>3. CASE ~ UNCHANGED tale
    <3>1. PICK r \in RetsOf(f), junk \in RetsOf(f) :
            Told(f, [tale[f] EXCEPT !.how = "called back",
                       !.value = IF Frame.room = room THEN r ELSE junk, !.wanted = r,
                       !.wrote = IF Frame.inst.out = NoOut THEN @ ELSE Append(@, Frame.inst.out)])
      BY <1>8, <2>0, <2>3 DEF CallbackReturns
    <3>2. \A g \in Funcs : tale'[g].invoked = tale[g].invoked
      BY <2>2, <3>1 DEF Told
    <3>3. UNCHANGED mock
      BY <1>8 DEF CallbackReturns
    <3> QED BY <1>2, <3>2, <3>3 DEF CountsKept
  <2> QED BY <2>1, <2>3
<1>9. CASE EndBody \/ Verify \/ StubReturns \/ CallbackThrows \/ UNCHANGED vars
  BY <1>3, <1>9 DEF EndBody, Verify, StubReturns, CallbackThrows, vars
<1> QED
  BY <1>1, <1>2, <1>4, <1>5, <1>7, <1>8, <1>9, SettingsKeepCounts, IgnoringKeepsCounts,
     CallsKeepCounts
  DEF Next

\* A callback is told how often it has run since it was installed: no interface
\* call, no call that is ignored or fails, and no exception makes the count go
\* astray, whatever the callbacks do.
THEOREM CallbacksAreCounted == ASSUME IncludeCount PROVE Spec => []CountsCallbacks
<1>1. Init => CountInv
  BY InitTyped DEF CountInv, Init, CountsCallbacks, AllCleared, AllUntold, Cleared, Untold
<1>2. CountInv /\ [Next]_vars => CountInv'
  BY NextCounts, NextTyped DEF CountInv
<1>3. CountInv => CountsCallbacks
  BY DEF CountInv
<1> QED BY <1>1, <1>2, <1>3, PTL DEF Spec

-----------------------------------------------------------------------------
(* The strict order.                                                       *)

\* Calls are only expected of functions that are never ignored or stubbed.
OnlyStrictExpected ==
    \A f \in Funcs \ Strict :
        {"Expect", "ExpectAnyArgs", "ExpectAndThrow"} \cap Offers[f] = {}

\* The places in the order that the instances of a chain stand for.
OrdersIn(q) == {q[i].order : i \in DOMAIN q}
Orders(f) == OrdersIn(mock[f].queue)

StrictIsChecked ==
    \A f \in Strict : ~mock[f].ignore /\ (mock[f].callback => mock[f].fixed)
OthersHaveNoOrder == \A f \in Funcs \ Strict : Orders(f) \subseteq {0}
OrdersAreGiven == \A f \in Funcs : Orders(f) \subseteq 0 .. expectCount
\* Every order given and not verified yet is waiting in some chain.
NoneIsLost ==
    verdict = "running" =>
        /\ offender = Nothing
        /\ \A k \in verifyOrder + 1 .. expectCount : \E g \in Funcs : k \in Orders(g)

OrderInv ==
    /\ Typed
    /\ StrictIsChecked /\ OthersHaveNoOrder /\ OrdersAreGiven /\ NoneIsLost

LEMMA OrdersOfChains ==
    ASSUME NEW q \in Seq(Instances)
    PROVE  /\ \A inst \in Instances : OrdersIn(Append(q, inst)) = OrdersIn(q) \cup {inst.order}
           /\ OrdersIn(Rest(q)) \subseteq OrdersIn(q)
           /\ q # <<>> => OrdersIn(q) \subseteq OrdersIn(Rest(q)) \cup {q[1].order}
           /\ q # <<>> => \A inst \in Instances :
                inst.order = q[Len(q)].order =>
                    OrdersIn([q EXCEPT ![Len(q)] = inst]) = OrdersIn(q)
           /\ OrdersIn(<<>>) = {}
           /\ q # <<>> => q[1].order \in OrdersIn(q)
<1>1. ASSUME NEW inst \in Instances
      PROVE  OrdersIn(Append(q, inst)) = OrdersIn(q) \cup {inst.order}
  <2>1. DOMAIN Append(q, inst) = 1 .. Len(q) + 1 /\ DOMAIN q = 1 .. Len(q)
    OBVIOUS
  <2>2. \A i \in 1 .. Len(q) : Append(q, inst)[i] = q[i]
    OBVIOUS
  <2>3. Append(q, inst)[Len(q) + 1] = inst /\ Len(q) + 1 \in DOMAIN Append(q, inst)
    OBVIOUS
  <2>4. OrdersIn(q) \cup {inst.order} \subseteq OrdersIn(Append(q, inst))
    BY <2>1, <2>2, <2>3 DEF OrdersIn
  <2>5. OrdersIn(Append(q, inst)) \subseteq OrdersIn(q) \cup {inst.order}
    BY <2>1, <2>2, <2>3 DEF OrdersIn
  <2> QED BY <2>4, <2>5
<1>2. /\ OrdersIn(Rest(q)) \subseteq OrdersIn(q)
      /\ q # <<>> => OrdersIn(q) \subseteq OrdersIn(Rest(q)) \cup {q[1].order}
  <2>1. CASE q = <<>>
    BY <2>1 DEF Rest
  <2>2. CASE q # <<>>
    <3>1. /\ Rest(q) = Tail(q) /\ DOMAIN Tail(q) = 1 .. Len(q) - 1 /\ DOMAIN q = 1 .. Len(q)
          /\ \A i \in 1 .. Len(q) - 1 : Tail(q)[i] = q[i + 1]
      BY <2>2 DEF Rest
    <3>2. OrdersIn(Rest(q)) \subseteq OrdersIn(q)
      BY <3>1 DEF OrdersIn
    <3>3. ASSUME NEW i \in DOMAIN q, i # 1 PROVE q[i].order \in OrdersIn(Rest(q))
      <4>1. i - 1 \in 1 .. Len(q) - 1 /\ q[i] = Tail(q)[i - 1]
        BY <3>1, <3>3
      <4> QED BY <3>1, <4>1 DEF OrdersIn
    <3> QED BY <3>2, <3>3 DEF OrdersIn
  <2> QED BY <2>1, <2>2
<1>3. ASSUME q # <<>>, NEW inst \in Instances, inst.order = q[Len(q)].order
      PROVE  OrdersIn([q EXCEPT ![Len(q)] = inst]) = OrdersIn(q)
  <2>1. Len(q) \in DOMAIN q
    BY <1>3
  <2> QED BY <1>3, <2>1 DEF OrdersIn
<1>4. OrdersIn(<<>>) = {}
  BY DEF OrdersIn
<1>5. q # <<>> => q[1].order \in OrdersIn(q)
  BY DEF OrdersIn
<1> QED BY <1>1, <1>2, <1>3, <1>4, <1>5

\* A step that changes at most the chain of f keeps the invariant if it gives
\* no order, verifies none, and loses none of a function that is expected.
LEMMA ChainStep ==
    ASSUME OrderInv, Typed', NEW f \in Funcs,
           \A g \in Funcs \ {f} : mock'[g] = mock[g],
           f \in Strict => ~mock'[f].ignore /\ (mock'[f].callback => mock'[f].fixed),
           f \in Strict => Orders(f)' = Orders(f),
           f \notin Strict => Orders(f)' \subseteq {0},
           UNCHANGED order,
           verdict' = "running" => verdict = "running" /\ UNCHANGED offender
    PROVE  OrderInv'
<1>1. \A g \in Funcs \ {f} : Orders(g)' = Orders(g)
  BY DEF Orders
<1>2. StrictIsChecked'
  BY DEF OrderInv, StrictIsChecked, Strict
<1>3. OthersHaveNoOrder'
  BY <1>1 DEF OrderInv, OthersHaveNoOrder
<1>4. OrdersAreGiven'
  <2>1. expectCount' = expectCount /\ expectCount \in Nat
    BY DEF order, OrderInv, Typed, OrderType
  <2>2. \A g \in Funcs : Orders(g)' \subseteq Orders(g) \cup {0}
    BY <1>1
  <2> QED BY <2>1, <2>2 DEF OrderInv, OrdersAreGiven
<1>5. NoneIsLost'
  <2> SUFFICES ASSUME verdict' = "running"
               PROVE  /\ offender' = Nothing
                      /\ \A k \in verifyOrder' + 1 .. expectCount' : \E g \in Funcs : k \in Orders(g)'
    BY DEF NoneIsLost, Nothing
  <2>1. offender' = Nothing /\ order' = order
    BY DEF OrderInv, NoneIsLost
  <2>2. ASSUME NEW k \in verifyOrder + 1 .. expectCount
        PROVE  \E g \in Funcs : k \in Orders(g)'
    <3>1. PICK g \in Funcs : k \in Orders(g)
      BY DEF OrderInv, NoneIsLost
    <3>2. g \in Strict
      <4>1. k # 0
        BY DEF OrderInv, Typed, OrderType
      <4> QED BY <3>1, <4>1 DEF OrderInv, OthersHaveNoOrder
    <3> QED BY <1>1, <3>1, <3>2
  <2> QED BY <2>1, <2>2 DEF order
<1> QED BY <1>2, <1>3, <1>4, <1>5 DEF OrderInv

\* So does a failure, which may also verify a place.
LEMMA FailureStep ==
    ASSUME OrderInv, Typed', NEW f \in Funcs, verdict' # "running", UNCHANGED expectCount,
           UNCHANGED mock \/ mock' = Popped(f)
    PROVE  OrderInv'
<1>1. \A g \in Funcs : /\ Orders(g)' \subseteq Orders(g)
                       /\ mock'[g].ignore = mock[g].ignore
                       /\ mock'[g].callback = mock[g].callback
                       /\ mock'[g].fixed = mock[g].fixed
  <2>1. CASE UNCHANGED mock
    BY <2>1 DEF Orders
  <2>2. CASE mock' = Popped(f)
    <3>1. Typed
      BY DEF OrderInv
    <3>2. mock \in [Funcs -> Mocks] /\ \A g \in Funcs : mock[g] \in Mocks
      BY <3>1 DEF Typed, MockType
    <3>3. mock' = [mock EXCEPT ![f] = [mock[f] EXCEPT !.queue = Rest(mock[f].queue)]]
      BY <2>2, <3>1, PoppedType
    <3>4. mock'[f].queue = Rest(mock[f].queue)
      BY <3>2, <3>3 DEF Mocks
    <3>5. Orders(f)' \subseteq Orders(f)
      BY <3>1, <3>4, QueueFacts, OrdersOfChains DEF Orders
    <3>6. \A g \in Funcs \ {f} : mock'[g] = mock[g]
      BY <3>2, <3>3
    <3>7. \A g \in Funcs : /\ mock'[g].ignore = mock[g].ignore
                           /\ mock'[g].callback = mock[g].callback
                           /\ mock'[g].fixed = mock[g].fixed
      BY <3>2, <3>3 DEF Mocks
    <3> QED BY <3>5, <3>6, <3>7 DEF Orders
  <2> QED BY <2>1, <2>2
<1>2. StrictIsChecked'
  BY <1>1 DEF OrderInv, StrictIsChecked, Strict
<1>3. OthersHaveNoOrder' /\ OrdersAreGiven'
  BY <1>1 DEF OrderInv, OthersHaveNoOrder, OrdersAreGiven
<1> QED BY <1>2, <1>3 DEF OrderInv, NoneIsLost

\* A call takes the next place in the order.
LEMMA PassStep ==
    ASSUME Ordered, OrderInv, Typed', NEW f \in Funcs,
           HasOne(f) /\ ~Early(f) /\ ~Late(f),
           \A g \in Funcs : mock'[g].queue = Popped(f)[g].queue,
           \A g \in Funcs : /\ mock'[g].ignore = mock[g].ignore
                            /\ mock'[g].callback = mock[g].callback
                            /\ mock'[g].fixed = mock[g].fixed,
           Verified(f), UNCHANGED runner
    PROVE  OrderInv'
<1>0. Typed /\ HasOne(f) /\ ~Early(f) /\ ~Late(f)
  BY DEF OrderInv
<1>1. Oldest(f).order = verifyOrder + 1 /\ Oldest(f) = mock[f].queue[1]
  <2>1. Oldest(f).order \in Nat /\ verifyOrder \in Nat
    BY <1>0, QueueFacts DEF Instances, Typed, OrderType
  <2> QED BY <1>0, <2>1, QueueFacts DEF Early, Late
<1>2. mock \in [Funcs -> Mocks] /\ \A g \in Funcs : mock[g] \in Mocks
  BY <1>0 DEF Typed, MockType
<1>3. /\ mock'[f].queue = Rest(mock[f].queue)
      /\ \A g \in Funcs \ {f} : mock'[g].queue = mock[g].queue
  <2>1. Popped(f) = [mock EXCEPT ![f] = [mock[f] EXCEPT !.queue = Rest(mock[f].queue)]]
    BY <1>0, PoppedType
  <2> QED BY <1>2, <2>1 DEF Mocks
<1>4. /\ \A g \in Funcs : Orders(g)' \subseteq Orders(g)
      /\ Orders(f) \subseteq Orders(f)' \cup {verifyOrder + 1}
      /\ \A g \in Funcs \ {f} : Orders(g)' = Orders(g)
  <2>1. mock[f].queue # <<>>
    BY <1>0 DEF HasOne
  <2> QED BY <1>0, <1>1, <1>3, <2>1, QueueFacts, OrdersOfChains DEF Orders
<1>5. StrictIsChecked'
  BY DEF OrderInv, StrictIsChecked, Strict
<1>6. /\ verifyOrder' = verifyOrder + 1 /\ expectCount' = expectCount
      /\ verifyOrder \in Nat /\ expectCount \in Nat
      /\ verdict' = verdict /\ offender' = offender
  BY <1>0 DEF Verified, runner, Typed, OrderType
<1>7. OthersHaveNoOrder' /\ OrdersAreGiven'
  BY <1>4, <1>6 DEF OrderInv, OthersHaveNoOrder, OrdersAreGiven
<1>8. NoneIsLost'
  <2> SUFFICES ASSUME verdict = "running"
               PROVE  /\ offender' = Nothing
                      /\ \A k \in verifyOrder' + 1 .. expectCount' : \E g \in Funcs : k \in Orders(g)'
    BY <1>6 DEF NoneIsLost, Nothing
  <2>1. offender' = Nothing
    BY <1>6 DEF OrderInv, NoneIsLost
  <2>2. ASSUME NEW k \in verifyOrder + 1 + 1 .. expectCount
        PROVE  \E g \in Funcs : k \in Orders(g)'
    <3>1. k \in verifyOrder + 1 .. expectCount /\ k # verifyOrder + 1
      BY <1>6
    <3>2. PICK g \in Funcs : k \in Orders(g)
      BY <3>1 DEF OrderInv, NoneIsLost
    <3> QED BY <1>4, <3>1, <3>2
  <2> QED BY <1>6, <2>1, <2>2
<1> QED BY <1>5, <1>7, <1>8 DEF OrderInv

\* An expectation gets the next place in the order.
LEMMA ExpectStep ==
    ASSUME Ordered, OnlyStrictExpected, OrderInv, Typed', NEW f \in Funcs, Expect(f)
    PROVE  OrderInv'
<1>0. /\ Typed /\ mock \in [Funcs -> Mocks] /\ \A g \in Funcs : mock[g] \in Mocks
      /\ expectCount \in Nat /\ verifyOrder \in Nat
  BY DEF OrderInv, Typed, MockType, OrderType
<1>1. CASE OutOfMemory(f)
  <2>1. verdict' # "running" /\ UNCHANGED expectCount /\ UNCHANGED mock
    BY <1>1 DEF OutOfMemory, Fail, order
  <2> QED BY <2>1, FailureStep
<1>2. CASE ~ OutOfMemory(f)
  <2>1. PICK i \in Requests(f) :
          AddExpectation(f, [Blank EXCEPT !.arg = i.arg, !.ret = i.ret,
                                  !.unchecked = i.unchecked, !.throws = i.throws])
    BY <1>2 DEF Expect
  <2>2. f \in Strict
    BY DEF Requests, OnlyStrictExpected
  <2> DEFINE asked == [Blank EXCEPT !.arg = i.arg, !.ret = i.ret,
                                    !.unchecked = i.unchecked, !.throws = i.throws]
             n == expectCount + 1
             inst == [asked EXCEPT !.order = n, !.asked = TRUE]
  <2>3. asked \in Instances
    BY RequestType
  <2>4. inst \in Instances /\ inst.order = n
    <3>1. n \in Nat
      BY <1>0
    <3>2. inst = [asked EXCEPT !.order = n, !.asked = TRUE]
      OBVIOUS
    <3> HIDE DEF asked, n, inst
    <3> QED BY <2>3, <3>1, <3>2 DEF Instances
  <2>5. Chain(f, inst, FALSE) /\ expectCount' = n /\ UNCHANGED <<verifyOrder, verdict, offender>>
    BY <2>1 DEF AddExpectation, runner
  <2> HIDE DEF inst
  <2>6. /\ mock'[f].queue = Append(mock[f].queue, inst) /\ mock'[f].ignore = FALSE
        /\ mock'[f].callback = mock[f].callback /\ mock'[f].fixed = mock[f].fixed
        /\ \A g \in Funcs \ {f} : mock'[g] = mock[g]
    BY <1>0, <2>5 DEF Chain, Mocks
  <2>7. /\ Orders(f)' = Orders(f) \cup {n}
        /\ \A g \in Funcs \ {f} : Orders(g)' = Orders(g)
    BY <1>0, <2>4, <2>6, QueueFacts, OrdersOfChains DEF Orders
  <2>8. StrictIsChecked'
    BY <2>6 DEF OrderInv, StrictIsChecked, Strict
  <2>9. OthersHaveNoOrder' /\ OrdersAreGiven'
    BY <1>0, <2>2, <2>5, <2>7 DEF OrderInv, OthersHaveNoOrder, OrdersAreGiven
  <2>10. NoneIsLost'
    <3> SUFFICES ASSUME verdict = "running"
                 PROVE  /\ offender' = Nothing
                        /\ \A k \in verifyOrder + 1 .. n : \E g \in Funcs : k \in Orders(g)'
      BY <2>5 DEF NoneIsLost, Nothing
    <3>1. offender' = Nothing
      BY <2>5 DEF OrderInv, NoneIsLost
    <3>2. ASSUME NEW k \in verifyOrder + 1 .. n
          PROVE  \E g \in Funcs : k \in Orders(g)'
      <4>1. CASE k = n
        BY <2>7, <4>1
      <4>2. CASE k # n
        <5>1. k \in verifyOrder + 1 .. expectCount
          BY <1>0, <4>2
        <5>2. PICK g \in Funcs : k \in Orders(g)
          BY <5>1 DEF OrderInv, NoneIsLost
        <5> QED BY <2>7, <5>2
      <4> QED BY <4>1, <4>2
    <3> QED BY <3>1, <3>2
  <2> QED BY <2>8, <2>9, <2>10 DEF OrderInv
<1> QED BY <1>1, <1>2

\* Only functions that are never ignored are expected, so what the other calls
\* of the interface do to a chain touches no order.
LEMMA InterfaceStep ==
    ASSUME OrderInv, Typed', NEW f \in Funcs,
           \/ IgnoreArg(f) \/ ReturnThruPtr(f) \/ Ignore(f) \/ IgnoreAndReturn(f)
           \/ IgnoreStateless(f) \/ StopIgnore(f) \/ Install(f)
    PROVE  OrderInv'
<1>0. /\ Typed /\ mock \in [Funcs -> Mocks] /\ \A g \in Funcs : mock[g] \in Mocks
      /\ mock[f].queue \in Seq(Instances)
      /\ f \in Strict => ~mock[f].ignore /\ (mock[f].callback => mock[f].fixed)
      /\ f \notin Strict => Orders(f) \subseteq {0}
  BY QueueFacts DEF OrderInv, Typed, MockType, StrictIsChecked, OthersHaveNoOrder
<1>1. ASSUME NEW a, NEW why, Fail(f, a, why), UNCHANGED <<mock, order>>
      PROVE  OrderInv'
  BY <1>1, FailureStep DEF Fail, order
<1>2. ASSUME HasOne(f), NEW inst \in Instances, inst.order = Newest(f).order, SetNewest(f, inst)
      PROVE  OrderInv'
  <2> DEFINE q == [mock[f].queue EXCEPT ![Len(mock[f].queue)] = inst]
  <2>1. /\ mock'[f] = [mock[f] EXCEPT !.queue = q]
        /\ \A g \in Funcs \ {f} : mock'[g] = mock[g]
    BY <1>0, <1>2 DEF SetNewest
  <2>2. /\ mock'[f].queue = q /\ mock'[f].ignore = mock[f].ignore
        /\ mock'[f].callback = mock[f].callback /\ mock'[f].fixed = mock[f].fixed
    <3> HIDE DEF q
    <3> QED BY <1>0, <2>1 DEF Mocks
  <2>3. Orders(f)' = Orders(f)
    BY <1>0, <1>2, <2>2, OrdersOfChains DEF Orders, HasOne, Newest
  <2>4. UNCHANGED order /\ UNCHANGED <<verdict, offender>>
    BY <1>2 DEF SetNewest, runner
  <2> QED BY <1>0, <2>1, <2>2, <2>3, <2>4, ChainStep
<1>3. ASSUME f \notin Strict, NEW inst \in Instances, inst.order = 0, Chain(f, inst, TRUE),
             UNCHANGED <<order, runner>>
      PROVE  OrderInv'
  <2>1. /\ mock'[f].queue = Append(mock[f].queue, inst)
        /\ \A g \in Funcs \ {f} : mock'[g] = mock[g]
    BY <1>0, <1>3 DEF Chain, Mocks
  <2>2. Orders(f)' \subseteq {0}
    BY <1>0, <1>3, <2>1, OrdersOfChains DEF Orders
  <2> QED BY <1>3, <2>1, <2>2, ChainStep DEF runner
<1>4. CASE IgnoreArg(f)
  <2>1. CASE HasOne(f)
    <3> DEFINE inst == [Newest(f) EXCEPT !.unchecked = TRUE]
    <3>1. inst \in Instances /\ inst.order = Newest(f).order
      BY <1>0, <2>1, QueueFacts DEF Instances
    <3>2. SetNewest(f, inst)
      BY <1>4, <2>1 DEF IgnoreArg
    <3> HIDE DEF inst
    <3> QED BY <1>2, <2>1, <3>1, <3>2
  <2>2. CASE ~HasOne(f)
    BY <1>1, <1>4, <2>2 DEF IgnoreArg, memory, order
  <2> QED BY <2>1, <2>2
<1>5. CASE ReturnThruPtr(f)
  <2>1. CASE OutOfMemory(f)
    BY <1>1, <2>1 DEF OutOfMemory
  <2>2. CASE Fail(f, NULL, "misuse") /\ UNCHANGED <<mock, memory, order, tale>>
    BY <1>1, <2>2
  <2>3. ASSUME HasOne(f), NEW v \in Outs, SetNewest(f, [Newest(f) EXCEPT !.out = v])
        PROVE  OrderInv'
    <3> DEFINE inst == [Newest(f) EXCEPT !.out = v]
    <3>1. inst \in Instances /\ inst.order = Newest(f).order
      BY <1>0, <2>3, QueueFacts DEF Instances
    <3>2. SetNewest(f, inst)
      BY <2>3
    <3> HIDE DEF inst
    <3> QED BY <1>2, <2>3, <3>1, <3>2
  <2>4. ASSUME Queues(f), NEW v \in Outs, NEW r \in NewestReturns(f),
               Chain(f, [Blank EXCEPT !.ret = r, !.out = v], TRUE),
               UNCHANGED <<stack, runner, promised, log, order>>
        PROVE  OrderInv'
    <3> DEFINE inst == [Blank EXCEPT !.ret = r, !.out = v]
    <3>1. r \in Rets
      <4>1. RetsOf(f) \subseteq Rets /\ 0 \in Rets
        BY MockAssumption DEF RetsOf
      <4>2. HasOne(f) => Newest(f).ret \in Rets
        BY <1>0, QueueFacts DEF Instances
      <4> QED BY <4>1, <4>2 DEF NewestReturns
    <3>2. inst \in Instances
      BY <3>1, StartTypes DEF Instances
    <3>3. inst.order = 0
      BY DEF Blank
    <3>4. f \notin Strict
      BY <1>0, <2>4 DEF Queues
    <3>5. Chain(f, inst, TRUE)
      BY <2>4
    <3> HIDE DEF inst
    <3> QED BY <1>3, <2>4, <3>2, <3>3, <3>4, <3>5
  <2> QED BY <1>5, <2>1, <2>2, <2>3, <2>4 DEF ReturnThruPtr
<1>6. CASE Ignore(f)
  <2>1. f \notin Strict
    BY <1>6 DEF Ignore, Strict
  <2>2. mock'[f].queue = mock[f].queue /\ \A g \in Funcs \ {f} : mock'[g] = mock[g]
    BY <1>0, <1>6 DEF Ignore, Mocks
  <2> QED BY <1>0, <1>6, <2>1, <2>2, ChainStep DEF Ignore, Orders, runner
<1>7. CASE IgnoreAndReturn(f)
  <2>1. CASE OutOfMemory(f)
    BY <1>1, <2>1 DEF OutOfMemory
  <2>2. CASE ~ OutOfMemory(f)
    <3>1. PICK r \in Rets : Chain(f, [Blank EXCEPT !.ret = r], TRUE)
      BY <1>7, <2>2 DEF IgnoreAndReturn
    <3> DEFINE inst == [Blank EXCEPT !.ret = r]
    <3>2. inst \in Instances /\ inst.order = 0
      BY StartTypes DEF Instances, Blank
    <3>3. f \notin Strict
      BY <1>7 DEF IgnoreAndReturn, Strict
    <3>4. Chain(f, inst, TRUE) /\ UNCHANGED <<order, runner>>
      BY <1>7, <2>2, <3>1 DEF IgnoreAndReturn
    <3> HIDE DEF inst
    <3> QED BY <1>3, <3>2, <3>3, <3>4
  <2> QED BY <2>1, <2>2
<1>8. CASE IgnoreStateless(f)
  <2>1. f \notin Strict
    BY <1>8 DEF IgnoreStateless, Strict
  <2>2. PICK r \in Rets : mock' = Kept(f, r)
    BY <1>8 DEF IgnoreStateless
  <2>3. mock'[f].queue = <<>> /\ \A g \in Funcs \ {f} : mock'[g] = mock[g]
    BY <1>0, <2>2 DEF Kept, Mocks
  <2>4. Orders(f)' \subseteq {0}
    BY <2>3 DEF Orders, OrdersIn
  <2> QED BY <1>8, <2>1, <2>3, <2>4, ChainStep DEF IgnoreStateless, runner
<1>9. CASE StopIgnore(f)
  <2> DEFINE q == IF StopDrops(f) THEN Rest(mock[f].queue) ELSE mock[f].queue
  <2>1. mock' = [mock EXCEPT ![f] = [mock[f] EXCEPT !.queue = q, !.ignore = FALSE]]
    BY <1>9 DEF StopIgnore
  <2>2. /\ mock'[f].queue = q /\ ~mock'[f].ignore
        /\ mock'[f].callback = mock[f].callback /\ mock'[f].fixed = mock[f].fixed
        /\ \A g \in Funcs \ {f} : mock'[g] = mock[g]
    <3> HIDE DEF q
    <3> QED BY <1>0, <2>1 DEF Mocks
  <2>3. f \in Strict => Orders(f)' = Orders(f)
    BY <1>0, <2>2 DEF Orders, StopDrops
  <2>4. Orders(f)' \subseteq Orders(f)
    BY <1>0, <2>2, OrdersOfChains DEF Orders
  <2> QED BY <1>0, <1>9, <2>2, <2>3, <2>4, ChainStep DEF StopIgnore, runner
<1>10. CASE Install(f)
  <2>1. PICK fixed \in BOOLEAN, there \in BOOLEAN :
          /\ (IF fixed THEN "AddCallback" ELSE "Stub") \in Offers[f]
          /\ mock' = [mock EXCEPT ![f] = Installed(f, fixed, there)]
    BY <1>10 DEF Install
  <2>2. /\ mock'[f].queue = mock[f].queue
        /\ mock'[f].ignore => mock[f].ignore
        /\ mock'[f].fixed = fixed
        /\ \A g \in Funcs \ {f} : mock'[g] = mock[g]
    BY <1>0, <2>1 DEF Installed, Mocks
  <2>3. f \in Strict => fixed
    BY <2>1 DEF Strict
  <2> QED BY <1>0, <1>10, <2>2, <2>3, ChainStep DEF Install, runner, Orders
<1> QED BY <1>4, <1>5, <1>6, <1>7, <1>8, <1>9, <1>10

LEMMA CallStep ==
    ASSUME Ordered, OrderInv, Typed', NEW f \in Funcs, NEW a \in Args,
           \/ CallIgnored(f, a) \/ CallStubbed(f, a) \/ CallsBack(f, a)
           \/ CallFails(f, a) \/ CallReturns(f, a) \/ CallThrows(f, a)
    PROVE  OrderInv'
<1>0. /\ Typed /\ mock \in [Funcs -> Mocks] /\ \A g \in Funcs : mock[g] \in Mocks
      /\ f \in Strict => ~mock[f].ignore /\ (mock[f].callback => mock[f].fixed)
      /\ f \notin Strict => Orders(f) \subseteq {0}
  BY DEF OrderInv, Typed, MockType, StrictIsChecked, OthersHaveNoOrder
<1>1. Popped(f) = [mock EXCEPT ![f] = [mock[f] EXCEPT !.queue = Rest(mock[f].queue)]]
  BY <1>0, PoppedType
<1>2. /\ \A g \in Funcs \ {f} : Popped(f)[g] = mock[g]
      /\ Popped(f)[f].queue = Rest(mock[f].queue)
      /\ \A g \in Funcs : /\ Popped(f)[g].ignore = mock[g].ignore
                          /\ Popped(f)[g].callback = mock[g].callback
                          /\ Popped(f)[g].fixed = mock[g].fixed
  BY <1>0, <1>1 DEF Mocks
<1>3. f \notin Strict => OrdersIn(Rest(mock[f].queue)) \subseteq {0}
  BY <1>0, QueueFacts, OrdersOfChains DEF Orders
<1>4. ASSUME mock[f].ignore \/ Stubbed(f), mock'[f].queue = Rest(mock[f].queue),
             \A g \in Funcs \ {f} : mock'[g] = mock[g], UNCHANGED <<order, runner>>
      PROVE  OrderInv'
  <2>1. f \notin Strict
    BY <1>0, <1>4 DEF Stubbed
  <2> QED BY <1>3, <1>4, <2>1, ChainStep DEF Orders, runner
<1>5. CASE CallIgnored(f, a)
  <2>1. Popped(f) \in [Funcs -> Mocks]
    BY <1>0, PoppedType
  <2>2. PICK ret : mock' = [Popped(f) EXCEPT ![f].final = ret]
    BY <1>5 DEF CallIgnored
  <2>3. mock'[f].queue = Rest(mock[f].queue) /\ \A g \in Funcs \ {f} : mock'[g] = mock[g]
    BY <1>2, <2>1, <2>2 DEF Mocks
  <2> QED BY <1>4, <1>5, <2>3 DEF CallIgnored
<1>6. ASSUME NEW inst, NEW at, Enter(f, inst, at)
      PROVE  /\ mock'[f].queue = Rest(mock[f].queue)
             /\ \A g \in Funcs \ {f} : mock'[g] = mock[g]
             /\ \A g \in Funcs : /\ mock'[g].queue = Popped(f)[g].queue
                                 /\ mock'[g].ignore = mock[g].ignore
                                 /\ mock'[g].callback = mock[g].callback
                                 /\ mock'[g].fixed = mock[g].fixed
             /\ UNCHANGED runner
  <2>1. Popped(f) \in [Funcs -> Mocks]
    BY <1>0, PoppedType
  <2>2. PICK n : mock' = [Popped(f) EXCEPT ![f].calls = n]
    BY <1>6 DEF Enter
  <2>3. /\ mock'[f].queue = Rest(mock[f].queue)
        /\ \A g \in Funcs \ {f} : mock'[g] = Popped(f)[g]
        /\ mock'[f].ignore = mock[f].ignore
        /\ mock'[f].callback = mock[f].callback
        /\ mock'[f].fixed = mock[f].fixed
    BY <1>2, <2>1, <2>2 DEF Mocks
  <2> QED BY <1>2, <1>6, <2>3 DEF Enter
<1>7. CASE CallStubbed(f, a)
  BY <1>4, <1>6, <1>7 DEF CallStubbed
<1>8. CASE CallsBack(f, a)
  <2>1. HasOne(f) /\ ~Early(f) /\ ~Late(f) /\ Verified(f)
    BY <1>8 DEF CallsBack, Passes
  <2> QED BY <1>6, <1>8, <2>1, PassStep DEF CallsBack
<1>9. CASE CallReturns(f, a)
  <2>1. HasOne(f) /\ ~Early(f) /\ ~Late(f) /\ Verified(f) /\ mock' = Popped(f) /\ UNCHANGED runner
    BY <1>9 DEF CallReturns, Passes
  <2> QED BY <1>2, <2>1, PassStep
<1>10. CASE CallThrows(f, a)
  <2>1. HasOne(f) /\ ~Early(f) /\ ~Late(f) /\ Verified(f) /\ mock' = Popped(f) /\ UNCHANGED runner
    BY <1>10 DEF CallThrows, Passes
  <2> QED BY <1>2, <2>1, PassStep
<1>11. CASE CallFails(f, a)
  BY <1>11, FailureStep DEF CallFails, Fail, Verified, order
<1> QED BY <1>5, <1>7, <1>8, <1>9, <1>10, <1>11

\* Steps that leave the chains and the order alone.
LEMMA QuietStep ==
    ASSUME OrderInv, Typed', UNCHANGED <<mock, order>>,
           verdict' = "running" => verdict = "running" /\ UNCHANGED offender
    PROVE  OrderInv'
<1>1. \A g \in Funcs : Orders(g)' = Orders(g)
  BY DEF Orders
<1>2. StrictIsChecked' /\ OthersHaveNoOrder' /\ OrdersAreGiven'
  BY <1>1 DEF OrderInv, StrictIsChecked, Strict, OthersHaveNoOrder, OrdersAreGiven, order
<1>3. NoneIsLost'
  BY <1>1 DEF OrderInv, NoneIsLost, Nothing, order
<1> QED BY <1>2, <1>3 DEF OrderInv

LEMMA ClearedIsChecked ==
    ASSUME NEW f \in Strict
    PROVE  ~Cleared.ignore /\ ~Cleared.callback
<1>1. (Ignoring # "none" /\ ~FailOnUnexpected) = FALSE
  BY Zenon DEF Strict
<1>2. Cleared.ignore = (Ignoring # "none" /\ ~FailOnUnexpected) /\ Cleared.callback = FALSE
  BY DEF Cleared
<1> QED BY <1>1, <1>2

LEMMA InitOrder == Init => OrderInv
<1> SUFFICES ASSUME Init PROVE OrderInv
  OBVIOUS
<1>1. \A f \in Funcs : mock[f] = Cleared /\ Orders(f) = {}
  BY OrdersOfChains DEF Init, AllCleared, Cleared, Orders, OrdersIn
<1>2. StrictIsChecked
  <2>1. Strict \subseteq Funcs
    BY DEF Strict
  <2> QED BY <1>1, <2>1, ClearedIsChecked DEF StrictIsChecked
<1>3. OthersHaveNoOrder /\ OrdersAreGiven
  BY <1>1 DEF OthersHaveNoOrder, OrdersAreGiven
<1>4. NoneIsLost
  <2>1. 0 + 1 .. 0 = {}
    OBVIOUS
  <2> QED BY <2>1 DEF Init, NoneIsLost
<1> QED BY <1>2, <1>3, <1>4, InitTyped DEF OrderInv

LEMMA NextTestOrder == ASSUME OrderInv, Typed', NextTest PROVE OrderInv'
<1>1. \A f \in Funcs : mock'[f] = Cleared /\ Orders(f)' = {}
  BY DEF NextTest, AllCleared, Cleared, Orders, OrdersIn
<1>2. StrictIsChecked'
  <2>1. Strict \subseteq Funcs
    BY DEF Strict
  <2> QED BY <1>1, <2>1, ClearedIsChecked DEF StrictIsChecked
<1>3. OthersHaveNoOrder' /\ OrdersAreGiven'
  BY <1>1 DEF OthersHaveNoOrder, OrdersAreGiven
<1>4. NoneIsLost'
  <2>1. verifyOrder' + 1 .. expectCount' = {}
    BY DEF NextTest
  <2> QED BY <2>1 DEF NextTest, NoneIsLost, Nothing
<1> QED BY <1>2, <1>3, <1>4 DEF OrderInv

LEMMA NextOrder ==
    ASSUME Ordered, OnlyStrictExpected, OrderInv, [Next]_vars
    PROVE  OrderInv'
<1>1. Typed'
  BY NextTyped DEF OrderInv
<1>2. CASE UNCHANGED vars
  BY <1>1, <1>2, QuietStep DEF vars, order
<1>3. CASE EndBody \/ StubReturns \/ CallbackThrows
  BY <1>1, <1>3, QuietStep DEF EndBody, StubReturns, CallbackThrows, runner, order
<1>4. CASE Verify
  BY <1>1, <1>4, QuietStep DEF Verify, Fail
<1>5. CASE CallbackReturns
  BY <1>1, <1>5, QuietStep DEF CallbackReturns, Fail, runner
<1>6. CASE NextTest
  BY <1>1, <1>6, NextTestOrder
<1> QED BY <1>1, <1>2, <1>3, <1>4, <1>5, <1>6, ExpectStep, InterfaceStep, CallStep DEF Next

\* When the test runs, only an early call is blamed for being early.
LEMMA BlamedEarly ==
    ASSUME Typed, Next, NEW f \in Funcs, NEW a \in Args, verdict = "running",
           offender = Nothing, offender' = Failed(f, a, "early")
    PROVE  Early(f) /\ HasOne(f)
<1>1. offender' # offender /\ offender'.why = "early" /\ offender'.fn = f
  BY DEF Nothing, Failed
<1>2. ASSUME NEW g, NEW b, NEW why, Fail(g, b, why) PROVE why = "early" /\ g = f
  BY <1>1, <1>2 DEF Fail, Failed
<1>3. \A g : OutOfMemory(g) => FALSE
  BY <1>2 DEF OutOfMemory
<1>4. ASSUME NEW g \in Funcs, NEW b \in Args, CallFails(g, b)
      PROVE  Early(f) /\ HasOne(f)
  <2>1. Fault(g, b) = "early" /\ g = f
    BY <1>2, <1>4 DEF CallFails
  <2>2. Fault(f, b) = "early"
    BY <2>1
  <2>3. ~mock[f].ignore /\ ~Stubbed(f) /\ HasOne(f)
    BY <2>2 DEF Fault
  <2> QED BY <2>2, <2>3 DEF Fault
<1>5. CASE Verify
  BY <1>1, <1>2, <1>5 DEF Verify
<1>6. CASE CallbackReturns
  <2>1. UNCHANGED runner \/ Fail(Frame.fn, Frame.inst.arg, "null")
    BY <1>6 DEF CallbackReturns
  <2>2. ~ UNCHANGED runner
    BY <1>1 DEF runner
  <2>3. Fail(Frame.fn, Frame.inst.arg, "null")
    BY <2>1, <2>2
  <2>4. offender' = Failed(Frame.fn, Frame.inst.arg, "null")
    BY <2>3 DEF Fail
  <2>5. offender'.why = "null"
    BY <2>4 DEF Failed
  <2> QED BY <1>1, <2>5
<1>7. CASE EndBody \/ StubReturns \/ CallbackThrows
  BY <1>1, <1>7 DEF EndBody, StubReturns, CallbackThrows, runner
<1>8. CASE NextTest
  BY <1>1, <1>8 DEF NextTest
<1>9. ASSUME NEW g \in Funcs, Expect(g) PROVE FALSE
  BY <1>1, <1>3, <1>9 DEF Expect, AddExpectation, runner
<1>10. ASSUME NEW g \in Funcs, IgnoreArg(g) \/ ReturnThruPtr(g) PROVE FALSE
  BY <1>1, <1>2, <1>3, <1>10 DEF IgnoreArg, ReturnThruPtr, SetNewest, runner
<1>11. ASSUME NEW g \in Funcs,
              \/ Ignore(g) \/ IgnoreAndReturn(g) \/ IgnoreStateless(g)
              \/ StopIgnore(g) \/ Install(g)
       PROVE  FALSE
  BY <1>1, <1>3, <1>11
  DEF Ignore, IgnoreAndReturn, IgnoreStateless, StopIgnore, Install, runner
<1>12. ASSUME NEW g \in Funcs, NEW b \in Args,
              \/ CallIgnored(g, b) \/ CallStubbed(g, b) \/ CallsBack(g, b)
              \/ CallReturns(g, b) \/ CallThrows(g, b)
       PROVE  FALSE
  BY <1>1, <1>12 DEF CallIgnored, CallStubbed, CallsBack, CallReturns, CallThrows, Enter, runner
<1> QED BY <1>4, <1>5, <1>6, <1>7, <1>8, <1>9, <1>10, <1>11, <1>12 DEF Next

\* In strict order, with calls expected only of functions that are never
\* ignored or stubbed, a call that is refused for coming too early does come
\* before a call that is still expected: no place in the order gets lost.
THEOREM EarlyIsEarly ==
    ASSUME Ordered, OnlyStrictExpected
    PROVE  Spec => EarlyMeansSkipped
<1>1. Init => OrderInv
  BY InitOrder
<1>2. OrderInv /\ [Next]_vars => OrderInv'
  BY NextOrder
<1>3. OrderInv /\ [Next]_vars =>
        [\A f \in Funcs, a \in Args :
           verdict = "running" /\ offender' = Failed(f, a, "early") =>
             \E g \in Funcs : \E i \in DOMAIN mock[g].queue :
                mock[g].queue[i].order \in 1 .. Oldest(f).order - 1]_vars
  <2> SUFFICES ASSUME OrderInv, Next, NEW f \in Funcs, NEW a \in Args, verdict = "running",
                      offender' = Failed(f, a, "early")
               PROVE  \E g \in Funcs : \E i \in DOMAIN mock[g].queue :
                        mock[g].queue[i].order \in 1 .. Oldest(f).order - 1
    OBVIOUS
  <2>1. Typed /\ offender = Nothing
    BY DEF OrderInv, NoneIsLost
  <2>2. Early(f) /\ HasOne(f)
    BY <2>1, BlamedEarly
  <2>3. /\ verifyOrder \in Nat /\ expectCount \in Nat /\ Oldest(f).order \in Nat
        /\ mock[f].queue \in Seq(Instances)
        /\ Oldest(f).order > verifyOrder + 1
    BY <2>1, <2>2, QueueFacts DEF Typed, OrderType, Instances, Early
  <2>4. Oldest(f).order \in Orders(f)
    BY <2>1, <2>2, QueueFacts, OrdersOfChains DEF Orders, HasOne
  <2>5. Oldest(f).order \in 0 .. expectCount
    BY <2>4 DEF OrderInv, OrdersAreGiven
  <2>6. verifyOrder + 1 \in verifyOrder + 1 .. expectCount
    BY <2>3, <2>5
  <2>7. PICK g \in Funcs : verifyOrder + 1 \in Orders(g)
    BY <2>6 DEF OrderInv, NoneIsLost
  <2>8. PICK i \in DOMAIN mock[g].queue : mock[g].queue[i].order = verifyOrder + 1
    BY <2>7 DEF Orders, OrdersIn
  <2>9. verifyOrder + 1 \in 1 .. Oldest(f).order - 1
    BY <2>3
  <2> QED BY <2>8, <2>9
<1> QED BY <1>1, <1>2, <1>3, PTL DEF Spec, EarlyMeansSkipped

-----------------------------------------------------------------------------
(* What is left in a chain, with the plugin :ignore_stateless.             *)

\* Only void functions leave their chain alone when they are ignored.
NoVoidIsIgnored == \A f \in Void : "Ignore" \notin Offers[f]
\* A value to copy is only queued for a function that is ignored.
CopiesAreExpected ==
    \A f \in Funcs : "ReturnThruPtr" \in Offers[f] =>
        "Ignore" \notin Offers[f] /\ (Ignoring # "none" => FailOnUnexpected)

AskedIn(q) == \A i \in DOMAIN q : q[i].asked

LEMMA AskedOfChains ==
    ASSUME NEW q \in Seq(Instances)
    PROVE  /\ \A inst \in Instances : AskedIn(q) /\ inst.asked => AskedIn(Append(q, inst))
           /\ AskedIn(q) => AskedIn(Rest(q))
           /\ q # <<>> => \A inst \in Instances :
                inst.asked = q[Len(q)].asked /\ AskedIn(q) =>
                    AskedIn([q EXCEPT ![Len(q)] = inst])
<1>1. ASSUME NEW inst \in Instances
      PROVE  AskedIn(q) /\ inst.asked => AskedIn(Append(q, inst))
  <2>1. \A i \in DOMAIN Append(q, inst) :
          \/ i \in DOMAIN q /\ Append(q, inst)[i] = q[i]
          \/ Append(q, inst)[i] = inst
    OBVIOUS
  <2> QED BY <2>1 DEF AskedIn
<1>2. AskedIn(q) => AskedIn(Rest(q))
  <2>1. CASE q = <<>>
    BY <2>1 DEF Rest
  <2>2. CASE q # <<>>
    <3>1. /\ Rest(q) = Tail(q)
          /\ \A i \in DOMAIN Tail(q) : i + 1 \in DOMAIN q /\ Tail(q)[i] = q[i + 1]
      BY <2>2 DEF Rest
    <3> QED BY <3>1 DEF AskedIn
  <2> QED BY <2>1, <2>2
<1>3. ASSUME q # <<>>, NEW inst \in Instances, inst.asked = q[Len(q)].asked
      PROVE  AskedIn(q) => AskedIn([q EXCEPT ![Len(q)] = inst])
  <2>1. Len(q) \in DOMAIN q
    BY <1>3
  <2>2. \A i \in DOMAIN q : [q EXCEPT ![Len(q)] = inst][i] = IF i = Len(q) THEN inst ELSE q[i]
    BY <2>1
  <2>3. DOMAIN [q EXCEPT ![Len(q)] = inst] = DOMAIN q
    OBVIOUS
  <2> HIDE DEF Instances
  <2> QED BY <1>3, <2>1, <2>2, <2>3 DEF AskedIn
<1> QED BY <1>1, <1>2, <1>3

ExpectedOnly(f) ==
    /\ AskedIn(mock[f].queue)
    /\ "ReturnThruPtr" \in Offers[f] => ~mock[f].ignore
ClearedWhenIgnored(f) == tale[f].latest = "ignore" => mock[f].queue = <<>>
AskedInv == Typed /\ \A f \in Funcs : ExpectedOnly(f) /\ ClearedWhenIgnored(f)

StatelessSetting == Ignoring # "ignore" /\ NoVoidIsIgnored /\ CopiesAreExpected

\* What the operations on chains and on the history do to one function.
LEMMA ChainEffect ==
    ASSUME Typed, NEW f \in Funcs, NEW inst, NEW ignore, Chain(f, inst, ignore)
    PROVE  /\ \A g \in Funcs \ {f} : mock'[g] = mock[g]
           /\ mock'[f].queue = Append(mock[f].queue, inst)
           /\ mock'[f].ignore = ignore /\ mock'[f].final = mock[f].final
           /\ mock'[f].callback = mock[f].callback
  BY DEF Typed, MockType, Mocks, Chain

LEMMA SetNewestEffect ==
    ASSUME Typed, NEW f \in Funcs, NEW inst, SetNewest(f, inst)
    PROVE  /\ \A g \in Funcs \ {f} : mock'[g] = mock[g]
           /\ mock'[f].queue = [mock[f].queue EXCEPT ![Len(mock[f].queue)] = inst]
           /\ mock'[f].ignore = mock[f].ignore /\ mock'[f].final = mock[f].final
           /\ mock'[f].callback = mock[f].callback
<1> DEFINE q == [mock[f].queue EXCEPT ![Len(mock[f].queue)] = inst]
<1>1. mock \in [Funcs -> Mocks] /\ mock[f] \in Mocks
  BY DEF Typed, MockType
<1>2. mock' = [mock EXCEPT ![f] = [mock[f] EXCEPT !.queue = q]]
  BY DEF SetNewest
<1>3. /\ \A g \in Funcs \ {f} : mock'[g] = mock[g]
      /\ mock'[f].queue = q
      /\ mock'[f].ignore = mock[f].ignore /\ mock'[f].final = mock[f].final
      /\ mock'[f].callback = mock[f].callback
  <2> HIDE DEF q
  <2> QED BY <1>1, <1>2 DEF Mocks
<1> QED BY <1>3

\* A call takes the oldest instance off the chain, whatever becomes of the call.
LEMMA PopEffect ==
    ASSUME Typed, NEW f \in Funcs, NEW a \in Args,
           \/ CallIgnored(f, a) \/ CallStubbed(f, a) \/ CallsBack(f, a)
           \/ CallFails(f, a) \/ CallReturns(f, a) \/ CallThrows(f, a)
    PROVE  /\ \A g \in Funcs \ {f} : mock'[g] = mock[g] /\ tale'[g] = tale[g]
           /\ mock'[f].queue = Rest(mock[f].queue)
           /\ mock'[f].ignore = mock[f].ignore
           /\ mock'[f].callback = mock[f].callback
           /\ tale'[f].latest = tale[f].latest /\ tale'[f].plan = tale[f].plan
           /\ tale'[f].taken = Took(f).taken /\ tale'[f].meant = tale[f].meant
<1>0. /\ mock \in [Funcs -> Mocks] /\ mock[f] \in Mocks
      /\ tale \in [Funcs -> Tales] /\ tale[f] \in Tales /\ Took(f) \in Tales
  BY TookType DEF Typed, MockType, TaleType
<1>1. /\ Popped(f) \in [Funcs -> Mocks]
      /\ \A g \in Funcs \ {f} : Popped(f)[g] = mock[g]
      /\ Popped(f)[f].queue = Rest(mock[f].queue)
      /\ Popped(f)[f].ignore = mock[f].ignore
      /\ Popped(f)[f].callback = mock[f].callback
  BY <1>0, PoppedType DEF Popped, Mocks
<1>2. /\ Took(f).latest = tale[f].latest /\ Took(f).plan = tale[f].plan
      /\ Took(f).meant = tale[f].meant
  BY <1>0 DEF Took, Tales
<1>3. ASSUME NEW x, mock' = [Popped(f) EXCEPT ![f].final = x] \/ mock' = [Popped(f) EXCEPT ![f].calls = x]
      PROVE  /\ \A g \in Funcs \ {f} : mock'[g] = mock[g]
             /\ mock'[f].queue = Rest(mock[f].queue)
             /\ mock'[f].ignore = mock[f].ignore
             /\ mock'[f].callback = mock[f].callback
  BY <1>1, <1>3 DEF Mocks
<1>4. ASSUME Told(f, Took(f))
      PROVE  /\ \A g \in Funcs \ {f} : tale'[g] = tale[g]
             /\ tale'[f].latest = tale[f].latest /\ tale'[f].plan = tale[f].plan
             /\ tale'[f].taken = Took(f).taken /\ tale'[f].meant = tale[f].meant
  BY <1>0, <1>2, <1>4 DEF Told
<1>5. ASSUME NEW h, NEW v, NEW w, NEW o, Answered(f, h, v, w, o)
      PROVE  /\ \A g \in Funcs \ {f} : tale'[g] = tale[g]
             /\ tale'[f].latest = tale[f].latest /\ tale'[f].plan = tale[f].plan
             /\ tale'[f].taken = Took(f).taken /\ tale'[f].meant = tale[f].meant
  BY <1>0, <1>2, <1>5 DEF Answered, Told, Tales
<1>6. ASSUME NEW inst, NEW at, Enter(f, inst, at)
      PROVE  /\ \E x : mock' = [Popped(f) EXCEPT ![f].calls = x]
             /\ \A g \in Funcs \ {f} : tale'[g] = tale[g]
             /\ tale'[f].latest = tale[f].latest /\ tale'[f].plan = tale[f].plan
             /\ tale'[f].taken = Took(f).taken /\ tale'[f].meant = tale[f].meant
  BY <1>0, <1>2, <1>6 DEF Enter, Told, Tales
<1>7. CASE CallIgnored(f, a)
  BY <1>3, <1>5, <1>7 DEF CallIgnored
<1>8. CASE CallStubbed(f, a) \/ CallsBack(f, a)
  BY <1>3, <1>6, <1>8 DEF CallStubbed, CallsBack
<1>9. CASE CallFails(f, a)
  BY <1>1, <1>4, <1>9 DEF CallFails
<1>10. CASE CallReturns(f, a)
  BY <1>1, <1>5, <1>10 DEF CallReturns
<1>11. CASE CallThrows(f, a)
  BY <1>1, <1>4, <1>11 DEF CallThrows
<1> QED BY <1>7, <1>8, <1>9, <1>10, <1>11

LEMMA StartsCleared ==
    ASSUME StatelessSetting, NEW f \in Funcs
    PROVE  /\ AskedIn(Cleared.queue) /\ Cleared.queue = <<>> /\ Untold.latest = "nothing"
           /\ "ReturnThruPtr" \in Offers[f] => ~Cleared.ignore
<1>1. Cleared.queue = <<>> /\ Untold.latest = "nothing"
  BY DEF Cleared, Untold
<1>2. AskedIn(<<>>)
  BY DEF AskedIn
<1>3. ASSUME "ReturnThruPtr" \in Offers[f] PROVE ~Cleared.ignore
  <2>1. (Ignoring # "none" /\ ~FailOnUnexpected) = FALSE
    BY <1>3, Zenon DEF StatelessSetting, CopiesAreExpected
  <2>2. Cleared.ignore = (Ignoring # "none" /\ ~FailOnUnexpected)
    BY DEF Cleared
  <2> QED BY <2>1, <2>2
<1> QED BY <1>1, <1>2, <1>3

LEMMA NextAsked ==
    ASSUME StatelessSetting, AskedInv, [Next]_vars
    PROVE  AskedInv'
<1>0. /\ Typed /\ mock \in [Funcs -> Mocks] /\ \A g \in Funcs : mock[g] \in Mocks
      /\ tale \in [Funcs -> Tales] /\ \A g \in Funcs : tale[g] \in Tales
      /\ \A g \in Funcs : mock[g].queue \in Seq(Instances)
      /\ \A g \in Funcs : ExpectedOnly(g) /\ ClearedWhenIgnored(g)
  BY DEF AskedInv, Typed, MockType, TaleType, Mocks
<1>1. Typed'
  BY NextTyped DEF AskedInv
<1>2. CASE UNCHANGED <<mock, tale>>
  BY <1>1, <1>2 DEF AskedInv, ExpectedOnly, ClearedWhenIgnored
<1>3. ASSUME NEW f \in Funcs, \A g \in Funcs \ {f} : mock'[g] = mock[g] /\ tale'[g] = tale[g],
             ExpectedOnly(f)' /\ ClearedWhenIgnored(f)'
      PROVE  AskedInv'
  BY <1>1, <1>3 DEF AskedInv, ExpectedOnly, ClearedWhenIgnored
<1>4. ASSUME NEW f \in Funcs, \A g \in Funcs \ {f} : mock'[g] = mock[g] /\ tale'[g] = tale[g],
             mock'[f].queue \in {mock[f].queue, Rest(mock[f].queue)},
             mock'[f].ignore => mock[f].ignore,
             tale'[f].latest = "ignore" => tale[f].latest = "ignore"
      PROVE  AskedInv'
  <2>1. AskedIn(mock[f].queue) /\ AskedIn(Rest(mock[f].queue))
    BY <1>0, AskedOfChains DEF ExpectedOnly
  <2>2. mock[f].queue = <<>> => Rest(mock[f].queue) = <<>>
    BY DEF Rest
  <2> QED BY <1>0, <1>3, <1>4, <2>1, <2>2 DEF ExpectedOnly, ClearedWhenIgnored
<1>5. CASE NextTest
  <2>1. mock' = AllCleared /\ tale' = AllUntold
    BY <1>5 DEF NextTest
  <2>2. \A f \in Funcs : mock'[f] = Cleared /\ tale'[f] = Untold
    BY <2>1 DEF AllCleared, AllUntold
  <2> QED BY <1>1, <2>2, StartsCleared DEF AskedInv, ExpectedOnly, ClearedWhenIgnored
<1>6. ASSUME NEW f \in Funcs, Expect(f) PROVE AskedInv'
  <2>1. CASE OutOfMemory(f)
    BY <1>2, <2>1 DEF OutOfMemory
  <2>2. CASE ~ OutOfMemory(f)
    <3>1. PICK i \in Requests(f) :
            AddExpectation(f, [Blank EXCEPT !.arg = i.arg, !.ret = i.ret,
                                    !.unchecked = i.unchecked, !.throws = i.throws])
      BY <1>6, <2>2 DEF Expect
    <3> DEFINE asked == [Blank EXCEPT !.arg = i.arg, !.ret = i.ret,
                                      !.unchecked = i.unchecked, !.throws = i.throws]
               n == IF Ordered THEN expectCount + 1 ELSE 0
               inst == [asked EXCEPT !.order = n, !.asked = TRUE]
               p == Append(IF mock[f].ignore /\ Ignoring = "stateless"
                           THEN Planned(f) ELSE tale[f].plan, asked.ret)
    <3>2. asked \in Instances
      BY RequestType
    <3>3. inst \in Instances /\ inst.asked
      <4>1. n \in Nat
        BY <1>0 DEF Typed, OrderType
      <4>2. inst = [asked EXCEPT !.order = n, !.asked = TRUE]
        OBVIOUS
      <4> HIDE DEF asked, n, inst
      <4> QED BY <3>2, <4>1, <4>2 DEF Instances
    <3>4. Chain(f, inst, FALSE)
      <4> HIDE DEF asked
      <4> QED BY <3>1, Zenon DEF AddExpectation, asked
    <3>5. tale' = [tale EXCEPT ![f] = [tale[f] EXCEPT !.latest = "expect", !.plan = p]]
      BY <3>1 DEF AddExpectation, Told
    <3> HIDE DEF inst, p
    <3>6. /\ tale'[f].latest = "expect"
          /\ \A g \in Funcs \ {f} : tale'[g] = tale[g]
      BY <1>0, <3>5 DEF Tales
    <3>7. /\ \A g \in Funcs \ {f} : mock'[g] = mock[g]
          /\ mock'[f].queue = Append(mock[f].queue, inst) /\ mock'[f].ignore = FALSE
      BY <1>0, <3>4, ChainEffect
    <3>8. AskedIn(mock'[f].queue)
      <4>1. mock[f].queue \in Seq(Instances) /\ AskedIn(mock[f].queue)
        BY <1>0 DEF ExpectedOnly
      <4>2. AskedIn(Append(mock[f].queue, inst))
        BY <3>3, <4>1, AskedOfChains, Zenon
      <4> QED BY <3>7, <4>2
    <3>9. ExpectedOnly(f)' /\ ClearedWhenIgnored(f)'
      BY <3>6, <3>7, <3>8 DEF ExpectedOnly, ClearedWhenIgnored
    <3> QED BY <1>3, <3>6, <3>7, <3>9
  <2> QED BY <2>1, <2>2
\* An amendment keeps what it amends expected.
<1>7. ASSUME NEW f \in Funcs, HasOne(f), NEW inst \in Instances, inst.asked = Newest(f).asked,
             SetNewest(f, inst), \A g \in Funcs \ {f} : tale'[g] = tale[g],
             tale'[f].latest = tale[f].latest
      PROVE  AskedInv'
  <2>1. AskedIn(mock'[f].queue)
    <3> DEFINE q == mock[f].queue
    <3>1. q \in Seq(Instances) /\ AskedIn(q) /\ q # <<>> /\ inst.asked = q[Len(q)].asked
      BY <1>0, <1>7 DEF ExpectedOnly, HasOne, Newest
    <3>2. mock'[f].queue = [q EXCEPT ![Len(q)] = inst]
      BY <1>0, <1>7, SetNewestEffect
    <3> HIDE DEF q
    <3>3. AskedIn([q EXCEPT ![Len(q)] = inst])
      BY <1>7, <3>1, AskedOfChains, Zenon
    <3> QED BY <3>2, <3>3
  <2>2. tale[f].latest # "ignore"
    BY <1>0, <1>7 DEF ClearedWhenIgnored, HasOne
  <2> QED BY <1>0, <1>3, <1>7, <2>1, <2>2, SetNewestEffect DEF ExpectedOnly, ClearedWhenIgnored
<1>8. ASSUME NEW f \in Funcs, IgnoreArg(f) PROVE AskedInv'
  <2>1. CASE HasOne(f)
    <3> DEFINE inst == [Newest(f) EXCEPT !.unchecked = TRUE]
    <3>1. inst \in Instances /\ inst.asked = Newest(f).asked
      BY <1>0, <2>1, QueueFacts DEF Instances
    <3>2. SetNewest(f, inst) /\ UNCHANGED tale
      BY <1>8, <2>1 DEF IgnoreArg
    <3> HIDE DEF inst
    <3> QED BY <1>7, <2>1, <3>1, <3>2
  <2>2. CASE ~HasOne(f)
    BY <1>2, <1>8, <2>2 DEF IgnoreArg
  <2> QED BY <2>1, <2>2
<1>9. ASSUME NEW f \in Funcs, ReturnThruPtr(f) PROVE AskedInv'
  <2>1. ~Queues(f)
    BY <1>0, <1>9 DEF ReturnThruPtr, Queues, ExpectedOnly
  <2>2. CASE UNCHANGED <<mock, tale>>
    BY <1>2, <2>2
  <2>3. ASSUME HasOne(f), NEW v \in Outs, SetNewest(f, [Newest(f) EXCEPT !.out = v]),
               Told(f, [tale[f] EXCEPT !.meant = Append(@, v)])
        PROVE  AskedInv'
    <3> DEFINE inst == [Newest(f) EXCEPT !.out = v]
               m == Append(tale[f].meant, v)
    <3>1. inst \in Instances /\ inst.asked = Newest(f).asked
      BY <1>0, <2>3, QueueFacts DEF Instances
    <3>2. SetNewest(f, inst) /\ tale' = [tale EXCEPT ![f] = [tale[f] EXCEPT !.meant = m]]
      BY <2>3 DEF Told
    <3> HIDE DEF inst, m
    <3>3. tale'[f].latest = tale[f].latest /\ \A g \in Funcs \ {f} : tale'[g] = tale[g]
      BY <1>0, <3>2 DEF Tales
    <3> QED BY <1>7, <2>3, <3>1, <3>2, <3>3
  <2> QED BY <1>9, <2>1, <2>2, <2>3 DEF ReturnThruPtr
<1>10. ASSUME NEW f \in Funcs, Ignore(f) \/ IgnoreAndReturn(f) PROVE AskedInv'
  BY <1>10 DEF Ignore, IgnoreAndReturn, StatelessSetting, NoVoidIsIgnored
<1>11. ASSUME NEW f \in Funcs, IgnoreStateless(f) PROVE AskedInv'
  <2>1. PICK r \in Rets :
          /\ mock' = Kept(f, r)
          /\ Told(f, [tale[f] EXCEPT !.plan = Append(Planned(f), r), !.latest = "ignore"])
    BY <1>11 DEF IgnoreStateless
  <2>2. "ReturnThruPtr" \notin Offers[f]
    BY <1>11 DEF IgnoreStateless, StatelessSetting, CopiesAreExpected
  <2>3. mock'[f].queue = <<>> /\ \A g \in Funcs \ {f} : mock'[g] = mock[g]
    BY <1>0, <2>1 DEF Kept, Mocks
  <2>4. \A g \in Funcs \ {f} : tale'[g] = tale[g]
    BY <1>0, <2>1 DEF Told
  <2> QED BY <1>3, <2>2, <2>3, <2>4 DEF ExpectedOnly, ClearedWhenIgnored, AskedIn
<1>12. ASSUME NEW f \in Funcs, StopIgnore(f) PROVE AskedInv'
  <2>1. \A g \in Funcs \ {f} : mock'[g] = mock[g] /\ tale'[g] = tale[g]
    BY <1>0, <1>12 DEF StopIgnore, Told
  <2>2. mock'[f].queue = mock[f].queue /\ ~mock'[f].ignore
    BY <1>0, <1>12 DEF StopIgnore, StopDrops, Mocks, StatelessSetting
  <2>3. tale'[f].latest = "stop"
    BY <1>0, <1>12 DEF StopIgnore, Told, Tales
  <2> QED BY <1>4, <2>1, <2>2, <2>3
<1>13. ASSUME NEW f \in Funcs, Install(f) PROVE AskedInv'
  <2>1. PICK fixed \in BOOLEAN, there \in BOOLEAN, l \in {"stub", "callback"} :
          /\ mock' = [mock EXCEPT ![f] = Installed(f, fixed, there)]
          /\ Told(f, [tale[f] EXCEPT !.invoked = 0, !.latest = l])
    BY <1>13 DEF Install
  <2>2. \A g \in Funcs \ {f} : mock'[g] = mock[g] /\ tale'[g] = tale[g]
    BY <1>0, <2>1 DEF Told
  <2>3. mock'[f].queue = mock[f].queue /\ (mock'[f].ignore => mock[f].ignore)
    BY <1>0, <2>1 DEF Installed, Mocks
  <2>4. tale'[f].latest # "ignore"
    BY <1>0, <2>1 DEF Told, Tales
  <2> QED BY <1>4, <2>2, <2>3, <2>4
<1>14. ASSUME NEW f \in Funcs, NEW a \in Args,
              \/ CallIgnored(f, a) \/ CallStubbed(f, a) \/ CallsBack(f, a)
              \/ CallFails(f, a) \/ CallReturns(f, a) \/ CallThrows(f, a)
       PROVE  AskedInv'
  BY <1>0, <1>4, <1>14, PopEffect
<1>15. CASE CallbackReturns
  <2>1. UNCHANGED mock
    BY <1>15 DEF CallbackReturns
  <2>2. CASE UNCHANGED tale
    BY <1>2, <2>1, <2>2
  <2>3. CASE ~ UNCHANGED tale
    <3>1. PICK f \in Funcs : f = Frame.fn
      BY <1>0, <1>15, FrameType DEF CallbackReturns
    <3>2. PICK v, r, w : Told(f, WithAnswer(tale[f], "called back", v, r, w))
      BY <1>15, <2>3, <3>1 DEF CallbackReturns, WithAnswer
    <3>3. tale'[f].latest = tale[f].latest /\ \A g \in Funcs \ {f} : tale'[g] = tale[g]
      BY <1>0, <3>2 DEF Told, WithAnswer, Tales
    <3> QED BY <1>4, <2>1, <3>3
  <2> QED BY <2>2, <2>3
<1>16. CASE EndBody \/ Verify \/ StubReturns \/ CallbackThrows \/ UNCHANGED vars
  BY <1>2, <1>16 DEF EndBody, Verify, StubReturns, CallbackThrows, vars
<1> QED
  BY <1>5, <1>6, <1>8, <1>9, <1>10, <1>11, <1>12, <1>13, <1>14, <1>15, <1>16 DEF Next

LEMMA SpecAsked == ASSUME StatelessSetting PROVE Spec => []AskedInv
<1>1. Init => AskedInv
  <2> SUFFICES ASSUME Init PROVE AskedInv
    OBVIOUS
  <2> QED
    <3>1. \A f \in Funcs : mock[f] = Cleared /\ tale[f] = Untold
      BY DEF Init, AllCleared, AllUntold
    <3> QED BY <3>1, InitTyped, StartsCleared DEF AskedInv, ExpectedOnly, ClearedWhenIgnored
<1>2. AskedInv /\ [Next]_vars => AskedInv'
  BY NextAsked
<1> QED BY <1>1, <1>2, PTL DEF Spec

\* With the plugin :ignore_stateless, ignoring a function that returns something
\* clears what was expected of it.
THEOREM IgnoringClears ==
    ASSUME StatelessSetting PROVE Spec => []IgnoreClearsExpects
<1>1. AskedInv => IgnoreClearsExpects
  BY DEF AskedInv, ClearedWhenIgnored, IgnoreClearsExpects
<1> QED BY <1>1, SpecAsked, PTL

-----------------------------------------------------------------------------
(* The answers.                                                            *)

\* The arena does not move, and values to copy are queued for no function that
\* returns something.
AnswerSetting ==
    /\ ~Dynamic
    /\ \A f \in Funcs \ Void :
         "ReturnThruPtr" \in Offers[f] =>
            "Ignore" \notin Offers[f] /\ (Ignoring # "none" => FailOnUnexpected)

\* StopIgnore of the plugin :ignore is not used on functions that return something.
NoneStopped ==
    \A f \in Funcs \ Void : Ignoring = "ignore" => "StopIgnore" \notin Offers[f]

\* Where StopIgnore drops an instance, it is the last one.
StopsClean ==
    \A f \in Funcs : StopIgnore(f) /\ StopDrops(f) => Rest(mock[f].queue) = <<>>

\* The chain q holds what is left of a plan of which so much was taken.
Matches(q, plan, taken) ==
    /\ Len(plan) = taken + Len(q)
    /\ \A i \in DOMAIN q : q[i].ret = plan[taken + i]
NextOf(plan, taken) == IF taken < Len(plan) THEN taken + 1 ELSE taken
LastOf(plan) == IF plan = <<>> THEN 0 ELSE plan[Len(plan)]
WantedOf(plan, taken) == IF taken < Len(plan) THEN plan[taken + 1] ELSE LastOf(plan)

\* A function that returns nothing only ever returns 0.
ReturnsNothing(m, t) ==
    /\ \A i \in DOMAIN m.queue : m.queue[i].ret = 0
    /\ \A i \in DOMAIN t.plan : t.plan[i] = 0
    /\ t.value = 0 /\ t.wanted = 0

\* A function that is ignored statelessly has one value only, and its chain is
\* empty; otherwise the chain holds what is planned, and the value of the last
\* call is kept for when it is empty.
Prepared(f, m, t) ==
    /\ t.value = t.wanted
    /\ \A i \in DOMAIN m.queue : m.queue[i].out # NoOut => "ReturnThruPtr" \in Offers[f]
    /\ "ReturnThruPtr" \in Offers[f] => ~m.ignore
    /\ m.ignore /\ Ignoring = "stateless" =>
         /\ m.queue = <<>> /\ Len(t.plan) <= t.taken + 1
         /\ m.final = WantedOf(t.plan, t.taken)
    /\ ~(m.ignore /\ Ignoring = "stateless") => Matches(m.queue, t.plan, t.taken)
    /\ m.ignore /\ m.queue = <<>> => m.final = WantedOf(t.plan, t.taken)

AnswerReady(f, m, t) ==
    IF f \in Void THEN ReturnsNothing(m, t) ELSE Prepared(f, m, t)

RoomsAreStable == room = Room /\ \A i \in DOMAIN stack : stack[i].room = Room
AnswerInv ==
    /\ Typed
    /\ RoomsAreStable
    /\ \A f \in Funcs : AnswerReady(f, mock[f], tale[f])

\* A chain and a plan grow, shrink and are amended together.
LEMMA MatchesAppend ==
    ASSUME NEW q \in Seq(Instances), NEW plan \in Seq(Rets), NEW taken \in Nat,
           Matches(q, plan, taken), NEW inst \in Instances
    PROVE  Matches(Append(q, inst), Append(plan, inst.ret), taken)
<1>1. inst.ret \in Rets
  BY DEF Instances
<1> DEFINE p == Append(plan, inst.ret)
           c == Append(q, inst)
<1>2. /\ Len(p) = Len(plan) + 1 /\ Len(c) = Len(q) + 1
      /\ \A i \in 1 .. Len(plan) : p[i] = plan[i]
      /\ p[Len(plan) + 1] = inst.ret
      /\ \A i \in 1 .. Len(q) : c[i] = q[i]
      /\ c[Len(q) + 1] = inst
      /\ DOMAIN c = 1 .. Len(q) + 1 /\ DOMAIN q = 1 .. Len(q)
      /\ Len(q) \in Nat /\ Len(plan) \in Nat
  BY <1>1
<1> HIDE DEF p, c
<1>3. Len(p) = taken + Len(c)
  BY <1>2 DEF Matches
<1>4. ASSUME NEW i \in DOMAIN c PROVE c[i].ret = p[taken + i]
  <2>1. CASE i \in 1 .. Len(q)
    <3>1. taken + i \in 1 .. Len(plan)
      BY <1>2, <2>1 DEF Matches
    <3> QED BY <1>2, <2>1, <3>1 DEF Matches
  <2>2. CASE i = Len(q) + 1
    <3>1. taken + i = Len(plan) + 1
      BY <1>2, <2>2 DEF Matches
    <3> QED BY <1>2, <2>2, <3>1
  <2> QED BY <1>2, <2>1, <2>2
<1>5. Matches(c, p, taken)
  BY <1>3, <1>4 DEF Matches
<1> QED BY <1>5 DEF p, c

LEMMA MatchesRest ==
    ASSUME NEW q \in Seq(Instances), NEW plan \in Seq(Rets), NEW taken \in Nat,
           Matches(q, plan, taken)
    PROVE  /\ Matches(Rest(q), plan, NextOf(plan, taken))
           /\ WantedOf(plan, taken) = IF q = <<>> THEN LastOf(plan) ELSE q[1].ret
           /\ Rest(q) = <<>> => WantedOf(plan, NextOf(plan, taken)) = WantedOf(plan, taken)
<1>1. CASE q = <<>>
  BY <1>1 DEF Matches, Rest, NextOf, WantedOf
<1>2. CASE q # <<>>
  <2>1. /\ Rest(q) = Tail(q) /\ Len(Tail(q)) = Len(q) - 1 /\ Len(q) \in Nat /\ Len(q) > 0
        /\ DOMAIN q = 1 .. Len(q) /\ DOMAIN Tail(q) = 1 .. Len(q) - 1
        /\ \A i \in 1 .. Len(q) - 1 : Tail(q)[i] = q[i + 1]
        /\ Len(plan) \in Nat
    BY <1>2 DEF Rest
  <2>2. taken < Len(plan) /\ NextOf(plan, taken) = taken + 1
    BY <2>1 DEF Matches, NextOf
  <2>3. Len(plan) = taken + 1 + Len(Tail(q))
    <3>1. Len(plan) = taken + Len(q)
      BY DEF Matches
    <3> DEFINE n == Len(q)
               k == Len(Tail(q))
               l == Len(plan)
    <3>2. n \in Nat /\ k = n - 1 /\ l = taken + n
      BY <2>1, <3>1
    <3> HIDE DEF n, k, l
    <3>3. l = taken + 1 + k
      BY <3>2
    <3> QED BY <3>3 DEF l, k
  <2>4. ASSUME NEW i \in DOMAIN Tail(q) PROVE Tail(q)[i].ret = plan[taken + 1 + i]
    <3>1. i + 1 \in DOMAIN q /\ Tail(q)[i] = q[i + 1] /\ taken + (i + 1) = taken + 1 + i
      BY <2>1
    <3> QED BY <3>1 DEF Matches
  <2>5. Matches(Rest(q), plan, NextOf(plan, taken))
    BY <2>1, <2>2, <2>3, <2>4 DEF Matches
  <2>6. WantedOf(plan, taken) = q[1].ret
    <3>1. 1 \in DOMAIN q
      BY <2>1
    <3> QED BY <2>2, <3>1 DEF Matches, WantedOf
  <2>7. ASSUME Rest(q) = <<>>
        PROVE  WantedOf(plan, NextOf(plan, taken)) = WantedOf(plan, taken)
    <3>3. Tail(q) = <<>>
      BY <2>1, <2>7, Zenon
    <3>4. Len(Tail(q)) = Len(<<>>)
      BY <3>3, Zenon
    <3>5. Len(<<>>) = 0
      OBVIOUS
    <3> DEFINE k == Len(Tail(q))
               l == Len(plan)
    <3>6. k = 0 /\ l = taken + 1 + k
      BY <2>3, <3>4, <3>5, Zenon
    <3> HIDE DEF k, l
    <3>7. l = taken + 1
      BY <3>6
    <3>1. Len(plan) = taken + 1
      BY <3>7 DEF l
    <3>2. plan # <<>>
      BY <2>2
    <3> QED BY <2>2, <3>1, <3>2 DEF WantedOf, LastOf
  <2> QED BY <1>2, <2>5, <2>6, <2>7
<1> QED BY <1>1, <1>2

LEMMA MatchesNewest ==
    ASSUME NEW q \in Seq(Instances), q # <<>>, NEW plan, NEW taken,
           Matches(q, plan, taken), NEW inst \in Instances, inst.ret = q[Len(q)].ret
    PROVE  Matches([q EXCEPT ![Len(q)] = inst], plan, taken)
<1> DEFINE c == [q EXCEPT ![Len(q)] = inst]
<1>1. Len(c) = Len(q) /\ DOMAIN c = DOMAIN q
  OBVIOUS
<1>2. \A i \in DOMAIN q : c[i].ret = q[i].ret
  OBVIOUS
<1> HIDE DEF c
<1>3. Matches(c, plan, taken)
  BY <1>1, <1>2 DEF Matches
<1> QED BY <1>3 DEF c

LEMMA WantedIsWantedOf ==
    ASSUME Typed, NEW f \in Funcs
    PROVE  /\ Wanted(f) = WantedOf(tale[f].plan, tale[f].taken)
           /\ PlannedLast(f) = LastOf(tale[f].plan)
           /\ Took(f).taken = NextOf(tale[f].plan, tale[f].taken)
<1>1. tale[f] \in Tales
  BY TookType
<1> QED BY <1>1 DEF Wanted, WantedOf, PlannedLast, LastOf, Took, NextOf, Tales

LEMMA StartsReady ==
    ASSUME AnswerSetting, NEW f \in Funcs
    PROVE  AnswerReady(f, Cleared, Untold)
<1>1. /\ Cleared.queue = <<>> /\ Cleared.final = 0
      /\ Untold.plan = <<>> /\ Untold.taken = 0 /\ Untold.value = 0 /\ Untold.wanted = 0
  BY DEF Cleared, Untold
<1>2. Matches(<<>>, <<>>, 0) /\ WantedOf(<<>>, 0) = 0
  BY DEF Matches, WantedOf, LastOf
<1>3. ASSUME f \notin Void, "ReturnThruPtr" \in Offers[f] PROVE ~Cleared.ignore
  <2>1. (Ignoring # "none" /\ ~FailOnUnexpected) = FALSE
    BY <1>3, Zenon DEF AnswerSetting
  <2>2. Cleared.ignore = (Ignoring # "none" /\ ~FailOnUnexpected)
    BY DEF Cleared
  <2> QED BY <2>1, <2>2
<1>4. CASE f \in Void
  BY <1>1, <1>4 DEF AnswerReady, ReturnsNothing
<1>5. CASE f \notin Void
  BY <1>1, <1>2, <1>3, <1>5 DEF AnswerReady, Prepared
<1> QED BY <1>4, <1>5

\* A value, or what is expected next, goes to the end of the chain and the plan.
LEMMA ReadyAppend ==
    ASSUME AnswerSetting, Typed, NEW f \in Funcs, AnswerReady(f, mock[f], tale[f]),
           NEW inst \in Instances, inst.out = NoOut, NEW base \in Seq(Rets),
           f \notin Void => Matches(mock[f].queue, base, tale[f].taken),
           f \in Void => inst.ret = 0 /\ \A i \in DOMAIN base : base[i] = 0,
           mock'[f].queue = Append(mock[f].queue, inst),
           mock'[f].ignore =>
             f \notin Void /\ Ignoring = "ignore" /\ "Ignore" \in Offers[f],
           tale'[f].plan = Append(base, inst.ret), tale'[f].taken = tale[f].taken,
           tale'[f].value = tale[f].value, tale'[f].wanted = tale[f].wanted
    PROVE  AnswerReady(f, mock'[f], tale'[f])
<1>0. /\ mock[f].queue \in Seq(Instances) /\ tale[f].taken \in Nat /\ inst.ret \in Rets
  BY QueueFacts, TookType DEF Instances
<1> DEFINE q == mock[f].queue
           p == Append(base, inst.ret)
<1>1. \A i \in DOMAIN Append(q, inst) :
        \/ i \in DOMAIN q /\ Append(q, inst)[i] = q[i]
        \/ Append(q, inst)[i] = inst
  BY <1>0
<1>2. \A i \in DOMAIN p : (i \in DOMAIN base /\ p[i] = base[i]) \/ p[i] = inst.ret
  BY <1>0
<1>3. Append(q, inst) # <<>>
  <2>1. Len(Append(q, inst)) = Len(q) + 1 /\ Len(q) \in Nat
    BY <1>0
  <2>2. Len(Append(q, inst)) # 0
    BY <2>1
  <2> QED BY <2>2
<1>4. CASE f \in Void
  <2>1. ReturnsNothing(mock[f], tale[f])
    BY <1>4 DEF AnswerReady
  <2>2. \A i \in DOMAIN Append(q, inst) : Append(q, inst)[i].ret = 0
    BY <1>1, <1>4, <2>1 DEF ReturnsNothing
  <2>3. \A i \in DOMAIN p : p[i] = 0
    <3> HIDE DEF p
    <3> QED BY <1>2, <1>4
  <2> HIDE DEF q, p
  <2>4. ReturnsNothing(mock'[f], tale'[f])
    BY <2>1, <2>2, <2>3 DEF ReturnsNothing, q, p
  <2> QED BY <1>4, <2>4 DEF AnswerReady
<1>5. CASE f \notin Void
  <2>1. Prepared(f, mock[f], tale[f])
    BY <1>5 DEF AnswerReady
  <2>2. Matches(Append(q, inst), p, tale[f].taken)
    BY <1>0, <1>5, MatchesAppend
  <2>3. \A i \in DOMAIN Append(q, inst) :
          Append(q, inst)[i].out # NoOut => "ReturnThruPtr" \in Offers[f]
    BY <1>1, <2>1 DEF Prepared
  <2>4. "ReturnThruPtr" \in Offers[f] => ~mock'[f].ignore
    BY <1>5 DEF AnswerSetting
  <2>5. mock'[f].queue = Append(q, inst) /\ tale'[f].plan = p
    OBVIOUS
  <2>6. ~(mock'[f].ignore /\ Ignoring = "stateless")
    OBVIOUS
  <2>7. tale'[f].value = tale'[f].wanted
    BY <2>1 DEF Prepared
  <2> HIDE DEF q, p
  <2>8. Prepared(f, mock'[f], tale'[f])
    BY <1>3, <2>2, <2>3, <2>4, <2>5, <2>6, <2>7 DEF Prepared
  <2> QED BY <1>5, <2>8 DEF AnswerReady
<1> QED BY <1>4, <1>5

\* The newest instance is amended.
LEMMA ReadyNewest ==
    ASSUME Typed, NEW f \in Funcs, AnswerReady(f, mock[f], tale[f]), HasOne(f),
           NEW inst \in Instances, inst.ret = Newest(f).ret,
           inst.out \in {NoOut, Newest(f).out} \/ "ReturnThruPtr" \in Offers[f],
           SetNewest(f, inst),
           tale'[f].plan = tale[f].plan, tale'[f].taken = tale[f].taken,
           tale'[f].value = tale[f].value, tale'[f].wanted = tale[f].wanted
    PROVE  AnswerReady(f, mock'[f], tale'[f])
<1> DEFINE q == mock[f].queue
           c == [q EXCEPT ![Len(q)] = inst]
<1>1. q \in Seq(Instances) /\ q # <<>> /\ Newest(f) = q[Len(q)]
  BY QueueFacts DEF HasOne, Newest
<1>2. /\ mock'[f].queue = c /\ mock'[f].ignore = mock[f].ignore
      /\ mock'[f].final = mock[f].final
  BY SetNewestEffect
<1>3. DOMAIN c = DOMAIN q /\ \A i \in DOMAIN q : c[i] = IF i = Len(q) THEN inst ELSE q[i]
  BY <1>1
<1>4. c # <<>> /\ Len(q) \in DOMAIN q
  BY <1>1
<1>5. CASE f \in Void
  <2>1. ReturnsNothing(mock[f], tale[f])
    BY <1>5 DEF AnswerReady
  <2>2. \A i \in DOMAIN c : c[i].ret = 0
    <3> HIDE DEF c
    <3> QED BY <1>1, <1>3, <1>4, <2>1 DEF ReturnsNothing
  <2> HIDE DEF c, q
  <2>3. ReturnsNothing(mock'[f], tale'[f])
    BY <1>2, <2>1, <2>2 DEF ReturnsNothing
  <2> QED BY <1>5, <2>3 DEF AnswerReady
<1>6. CASE f \notin Void
  <2>1. Prepared(f, mock[f], tale[f])
    BY <1>6 DEF AnswerReady
  <2>2. ~(mock[f].ignore /\ Ignoring = "stateless") => Matches(c, tale[f].plan, tale[f].taken)
    <3>1. ASSUME Matches(q, tale[f].plan, tale[f].taken)
          PROVE  Matches(c, tale[f].plan, tale[f].taken)
      BY <1>1, <3>1, MatchesNewest
    <3> QED BY <2>1, <3>1 DEF Prepared
  <2>3. \A i \in DOMAIN c : c[i].out # NoOut => "ReturnThruPtr" \in Offers[f]
    <3> HIDE DEF c
    <3> QED BY <1>1, <1>3, <1>4, <2>1 DEF Prepared
  <2>4. ~(mock[f].ignore /\ Ignoring = "stateless")
    BY <1>1, <2>1 DEF Prepared
  <2> HIDE DEF c, q
  <2>5. Prepared(f, mock'[f], tale'[f])
    BY <1>2, <1>4, <2>1, <2>2, <2>3, <2>4 DEF Prepared
  <2> QED BY <1>6, <2>5 DEF AnswerReady
<1> QED BY <1>5, <1>6

\* A call takes what is planned next, and the chain and the plan still match.
LEMMA ReadyPop ==
    ASSUME Typed, NEW f \in Funcs, AnswerReady(f, mock[f], tale[f]),
           mock'[f].queue = Rest(mock[f].queue), mock'[f].ignore = mock[f].ignore,
           mock[f].ignore /\ f \notin Void =>
             mock'[f].final = IF HasOne(f) THEN Oldest(f).ret ELSE mock[f].final,
           tale'[f].plan = tale[f].plan, tale'[f].taken = Took(f).taken,
           tale'[f].value = tale'[f].wanted, f \in Void => tale'[f].value = 0
    PROVE  AnswerReady(f, mock'[f], tale'[f])
<1> DEFINE q == mock[f].queue
           p == tale[f].plan
           n == tale[f].taken
<1>1. /\ q \in Seq(Instances) /\ p \in Seq(Rets) /\ n \in Nat
      /\ HasOne(f) => Oldest(f) = q[1]
  BY QueueFacts, TookType
<1>2. /\ Took(f).taken = NextOf(p, n)
  BY WantedIsWantedOf
<1>3. \A i \in DOMAIN Rest(q) : i + 1 \in DOMAIN q /\ Rest(q)[i] = q[i + 1]
  <2>1. CASE q = <<>>
    BY <2>1 DEF Rest
  <2>2. CASE q # <<>>
    BY <1>1, <2>2 DEF Rest
  <2> QED BY <2>1, <2>2
<1>4. CASE f \in Void
  <2>1. ReturnsNothing(mock[f], tale[f])
    BY <1>4 DEF AnswerReady
  <2>2. \A i \in DOMAIN Rest(q) : Rest(q)[i].ret = 0
    BY <1>3, <2>1 DEF ReturnsNothing
  <2>3. ReturnsNothing(mock'[f], tale'[f])
    BY <1>4, <2>1, <2>2 DEF ReturnsNothing
  <2> QED BY <1>4, <2>3 DEF AnswerReady
<1>5. CASE f \notin Void
  <2>1. Prepared(f, mock[f], tale[f])
    BY <1>5 DEF AnswerReady
  <2>2. \A i \in DOMAIN Rest(q) : Rest(q)[i].out # NoOut => "ReturnThruPtr" \in Offers[f]
    BY <1>3, <2>1 DEF Prepared
  <2>3. CASE mock[f].ignore /\ Ignoring = "stateless"
    <3>1. q = <<>> /\ Rest(q) = <<>> /\ Len(p) <= n + 1 /\ mock[f].final = WantedOf(p, n)
      BY <2>1, <2>3 DEF Prepared, Rest
    <3>2. mock'[f].final = WantedOf(p, NextOf(p, n)) /\ Len(p) <= NextOf(p, n) + 1
      <4>1. mock'[f].final = WantedOf(p, n)
        BY <1>5, <2>3, <3>1 DEF HasOne
      <4>2. CASE n < Len(p)
        <5>1. Len(p) = n + 1 /\ NextOf(p, n) = n + 1
          BY <1>1, <3>1, <4>2 DEF NextOf
        <5>2. p # <<>>
          BY <1>1, <5>1
        <5> QED BY <1>1, <4>1, <4>2, <5>1, <5>2 DEF WantedOf, LastOf
      <4>3. CASE ~(n < Len(p))
        BY <3>1, <4>1, <4>3 DEF NextOf
      <4> QED BY <4>2, <4>3
    <3> HIDE DEF q, p, n
    <3>3. Prepared(f, mock'[f], tale'[f])
      BY <1>2, <2>1, <2>2, <2>3, <3>1, <3>2 DEF Prepared, q, p, n
    <3> QED BY <1>5, <3>3 DEF AnswerReady
  <2>4. CASE ~(mock[f].ignore /\ Ignoring = "stateless")
    <3>1. Matches(q, p, n)
      BY <2>1, <2>4 DEF Prepared
    <3>2. /\ Matches(Rest(q), p, NextOf(p, n))
          /\ WantedOf(p, n) = IF q = <<>> THEN LastOf(p) ELSE q[1].ret
          /\ Rest(q) = <<>> => WantedOf(p, NextOf(p, n)) = WantedOf(p, n)
      BY <1>1, <3>1, MatchesRest
    <3>3. ASSUME mock[f].ignore, Rest(q) = <<>>
          PROVE  mock'[f].final = WantedOf(p, NextOf(p, n))
      <4>1. CASE q = <<>>
        BY <1>5, <2>1, <3>2, <3>3, <4>1 DEF Prepared, HasOne
      <4>2. CASE q # <<>>
        BY <1>1, <1>5, <3>2, <3>3, <4>2 DEF HasOne
      <4> QED BY <4>1, <4>2
    <3>4. "ReturnThruPtr" \in Offers[f] => ~mock'[f].ignore
      BY <2>1 DEF Prepared
    <3> HIDE DEF q, p, n
    <3>5. /\ mock'[f].queue = Rest(q) /\ tale'[f].plan = p /\ tale'[f].taken = NextOf(p, n)
          /\ tale'[f].value = tale'[f].wanted /\ mock'[f].ignore = mock[f].ignore
      BY <1>2 DEF q, p
    <3>6. Prepared(f, mock'[f], tale'[f])
      BY <2>2, <2>4, <3>2, <3>3, <3>4, <3>5 DEF Prepared
    <3> QED BY <1>5, <3>6 DEF AnswerReady
  <2> QED BY <2>3, <2>4
<1> QED BY <1>4, <1>5

\* What is answered, and what it takes from the chain.
LEMMA AnswerEffect ==
    ASSUME AnswerSetting, Typed, NEW f \in Funcs, NEW a \in Args,
           AnswerReady(f, mock[f], tale[f]),
           \/ CallIgnored(f, a) \/ CallStubbed(f, a) \/ CallsBack(f, a)
           \/ CallFails(f, a) \/ CallReturns(f, a) \/ CallThrows(f, a)
    PROVE  /\ mock[f].ignore /\ f \notin Void =>
                mock'[f].final = IF HasOne(f) THEN Oldest(f).ret ELSE mock[f].final
           /\ tale'[f].value = tale'[f].wanted /\ (f \in Void => tale'[f].value = 0)
<1>0. /\ mock \in [Funcs -> Mocks] /\ mock[f] \in Mocks
      /\ tale \in [Funcs -> Tales] /\ tale[f] \in Tales /\ Took(f) \in Tales
  BY TookType DEF Typed, MockType, TaleType
<1>1. Popped(f) \in [Funcs -> Mocks] /\ Popped(f)[f].final = mock[f].final
  BY <1>0, PoppedType DEF Popped, Mocks
<1>2. tale[f].value = tale[f].wanted /\ (f \in Void => tale[f].value = 0)
  BY DEF AnswerReady, Prepared, ReturnsNothing
<1>3. Took(f).value = tale[f].value /\ Took(f).wanted = tale[f].wanted
  BY <1>0 DEF Took, Tales
<1>4. ASSUME Told(f, Took(f))
      PROVE  tale'[f].value = tale'[f].wanted /\ (f \in Void => tale'[f].value = 0)
  BY <1>0, <1>2, <1>3, <1>4 DEF Told
<1>5. ASSUME NEW h, NEW v, NEW w, NEW o, Answered(f, h, v, w, o)
      PROVE  tale'[f].value = v /\ tale'[f].wanted = w
  BY <1>0, <1>5 DEF Answered, Told, Tales
<1>6. CASE CallIgnored(f, a)
  <2> DEFINE ret == IgnoredReturn(f)
             want == IF f \in Void THEN 0 ELSE Wanted(f)
  <2>1. tale'[f].value = ret /\ tale'[f].wanted = want /\ mock' = [Popped(f) EXCEPT ![f].final = ret]
    BY <1>5, <1>6 DEF CallIgnored
  <2>2. mock'[f].final = ret
    <3> HIDE DEF ret
    <3> QED BY <1>1, <2>1 DEF Mocks
  <2>3. CASE f \in Void
    BY <2>1, <2>3 DEF IgnoredReturn
  <2>4. CASE f \notin Void
    <3>1. ret = IF HasOne(f) THEN Oldest(f).ret ELSE mock[f].final
      BY <2>4 DEF IgnoredReturn
    <3>2. Prepared(f, mock[f], tale[f]) /\ mock[f].ignore
      BY <1>6, <2>4 DEF AnswerReady, CallIgnored
    <3>3. ret = Wanted(f)
      <4>1. CASE ~HasOne(f)
        BY <3>1, <3>2, <4>1, WantedIsWantedOf DEF Prepared, HasOne
      <4>2. CASE HasOne(f)
        <5>1. Matches(mock[f].queue, tale[f].plan, tale[f].taken)
          BY <3>2, <4>2 DEF Prepared, HasOne
        <5>2. WantedOf(tale[f].plan, tale[f].taken) = Oldest(f).ret
          BY <4>2, <5>1, MatchesRest, QueueFacts, TookType DEF HasOne
        <5> QED BY <3>1, <4>2, <5>2, WantedIsWantedOf
      <4> QED BY <4>1, <4>2
    <3> QED BY <2>1, <2>2, <2>4, <3>1, <3>3
  <2> QED BY <2>3, <2>4
<1>7. ASSUME CallStubbed(f, a) \/ CallsBack(f, a)
      PROVE  ~mock[f].ignore /\ \E inst, at : Enter(f, inst, at)
  BY <1>7 DEF CallStubbed, CallsBack, Checked
<1>8. CASE CallStubbed(f, a) \/ CallsBack(f, a)
  <2>1. tale'[f].value = tale[f].value /\ tale'[f].wanted = tale[f].wanted
    BY <1>0, <1>3, <1>7, <1>8 DEF Enter, Told, Tales
  <2> QED BY <1>2, <1>7, <1>8, <2>1
<1>9. CASE CallFails(f, a)
  <2>1. mock[f].ignore => f \in Void
    <3> SUFFICES ASSUME mock[f].ignore, f \notin Void PROVE FALSE
      OBVIOUS
    <3>1. HasOne(f) /\ Oldest(f).out # NoOut
      BY <1>9 DEF CallFails, Fault, NullPointer
    <3>2. 1 \in DOMAIN mock[f].queue /\ Oldest(f) = mock[f].queue[1]
      BY <3>1, QueueFacts DEF HasOne
    <3> QED BY <3>1, <3>2 DEF AnswerReady, Prepared
  <2> QED BY <1>4, <1>9, <2>1 DEF CallFails
<1>10. CASE CallReturns(f, a)
  <2>1. /\ tale'[f].value = Oldest(f).ret /\ tale'[f].wanted = Wanted(f)
        /\ ~mock[f].ignore /\ HasOne(f)
    BY <1>5, <1>10 DEF CallReturns, Checked, Passes
  <2>2. Oldest(f) = mock[f].queue[1] /\ 1 \in DOMAIN mock[f].queue
    BY <2>1, QueueFacts DEF HasOne
  <2>3. CASE f \in Void
    <3>1. Oldest(f).ret = 0
      BY <2>2, <2>3 DEF AnswerReady, ReturnsNothing
    <3>2. Wanted(f) = 0
      <4>1. tale[f].plan \in Seq(Rets) /\ tale[f].taken \in Nat
        BY TookType
      <4>2. \A i \in 1 .. Len(tale[f].plan) : tale[f].plan[i] = 0
        BY <2>3, <4>1 DEF AnswerReady, ReturnsNothing
      <4>3. PlannedLast(f) = 0
        BY <4>1, <4>2 DEF PlannedLast
      <4> QED BY <4>1, <4>2, <4>3 DEF Wanted
    <3> QED BY <2>1, <3>1, <3>2
  <2>4. CASE f \notin Void
    <3>1. Matches(mock[f].queue, tale[f].plan, tale[f].taken)
      BY <2>1, <2>4 DEF AnswerReady, Prepared
    <3>2. WantedOf(tale[f].plan, tale[f].taken) = Oldest(f).ret
      BY <2>1, <3>1, MatchesRest, QueueFacts, TookType DEF HasOne
    <3> QED BY <2>1, <2>4, <3>2, WantedIsWantedOf
  <2> QED BY <2>1, <2>3, <2>4
<1>11. CASE CallThrows(f, a)
  BY <1>4, <1>11 DEF CallThrows, Checked
<1> QED BY <1>6, <1>8, <1>9, <1>10, <1>11

\* No step moves the arena.
LEMMA RoomsStay ==
    ASSUME ~Dynamic, Typed, RoomsAreStable, [Next]_vars
    PROVE  RoomsAreStable'
<1>0. stack \in Seq(Frames)
  BY DEF Typed, StackType
<1>1. room' = Room
  BY NextTyped DEF Typed, MemoryType
<1>2. ASSUME NEW k \in 0 .. Len(stack), stack' = SubSeq(stack, 1, k)
      PROVE  RoomsAreStable'
  <2>1. \A i \in DOMAIN stack' : i \in DOMAIN stack /\ stack'[i] = stack[i]
    BY <1>0, <1>2
  <2> QED BY <1>1, <2>1 DEF RoomsAreStable
<1>3. CASE UNCHANGED stack
  BY <1>1, <1>3 DEF RoomsAreStable
<1>4. CASE stack' = <<>>
  BY <1>1, <1>4 DEF RoomsAreStable
<1>5. ASSUME NEW f \in Funcs, NEW inst, NEW at, Enter(f, inst, at) PROVE RoomsAreStable'
  <2>1. PICK e : stack' = Append(stack, e) /\ e.room = room
    BY <1>5 DEF Enter
  <2>2. \A i \in DOMAIN stack' : stack'[i] = e \/ (i \in DOMAIN stack /\ stack'[i] = stack[i])
    BY <1>0, <2>1
  <2> QED BY <1>1, <2>1, <2>2 DEF RoomsAreStable
<1>6. CASE StubReturns \/ CallbackReturns
  <2>1. stack # <<>> /\ (stack' = Below \/ stack' = <<>>)
    BY <1>6 DEF StubReturns, CallbackReturns, Fail
  <2>2. Len(stack) - 1 \in 0 .. Len(stack)
    BY <1>0, <2>1
  <2> QED BY <1>2, <1>4, <2>1, <2>2 DEF Below
<1>7. CASE CallbackThrows
  <2>1. PICK k \in 0 .. Len(stack) - 1 : stack' = SubSeq(stack, 1, k)
    BY <1>7 DEF CallbackThrows
  <2>2. k \in 0 .. Len(stack)
    BY <1>0
  <2> QED BY <1>2, <2>1, <2>2
<1>8. ASSUME NEW f \in Funcs, NEW a \in Args, CallThrows(f, a) PROVE RoomsAreStable'
  BY <1>2, <1>8 DEF CallThrows
<1>9. ASSUME NEW f \in Funcs, NEW a \in Args, CallStubbed(f, a) \/ CallsBack(f, a)
      PROVE  RoomsAreStable'
  BY <1>5, <1>9 DEF CallStubbed, CallsBack
<1>10. ASSUME NEW f \in Funcs, NEW a \in Args,
              CallIgnored(f, a) \/ CallFails(f, a) \/ CallReturns(f, a)
       PROVE  RoomsAreStable'
  BY <1>3, <1>4, <1>10 DEF CallIgnored, CallFails, CallReturns, Fail
<1>11. ASSUME NEW f \in Funcs, OutOfMemory(f) PROVE stack' = <<>>
  BY <1>11 DEF OutOfMemory, Fail
<1>12. ASSUME NEW f \in Funcs, Expect(f) PROVE RoomsAreStable'
  BY <1>3, <1>4, <1>11, <1>12 DEF Expect, AddExpectation
<1>13. ASSUME NEW f \in Funcs, IgnoreArg(f) \/ ReturnThruPtr(f) PROVE RoomsAreStable'
  BY <1>3, <1>4, <1>11, <1>13 DEF IgnoreArg, ReturnThruPtr, SetNewest, Fail
<1>14. ASSUME NEW f \in Funcs,
              \/ Ignore(f) \/ IgnoreAndReturn(f) \/ IgnoreStateless(f)
              \/ StopIgnore(f) \/ Install(f)
       PROVE  RoomsAreStable'
  BY <1>3, <1>4, <1>11, <1>14
  DEF Ignore, IgnoreAndReturn, IgnoreStateless, StopIgnore, Install
<1>15. CASE EndBody \/ Verify \/ NextTest \/ UNCHANGED vars
  BY <1>3, <1>4, <1>15 DEF EndBody, Verify, NextTest, Fail, vars
<1> QED BY <1>6, <1>7, <1>8, <1>9, <1>10, <1>12, <1>13, <1>14, <1>15 DEF Next

LEMMA NextAnswers ==
    ASSUME AnswerSetting, AnswerInv, [Next]_vars, StopsClean
    PROVE  AnswerInv'
<1>0. /\ Typed /\ mock \in [Funcs -> Mocks] /\ \A g \in Funcs : mock[g] \in Mocks
      /\ tale \in [Funcs -> Tales] /\ \A g \in Funcs : tale[g] \in Tales
      /\ \A g \in Funcs : mock[g].queue \in Seq(Instances)
      /\ \A g \in Funcs : AnswerReady(g, mock[g], tale[g])
  BY DEF AnswerInv, Typed, MockType, TaleType, Mocks
<1>1. Typed' /\ RoomsAreStable'
  BY NextTyped, RoomsStay DEF AnswerInv, AnswerSetting
<1>2. CASE UNCHANGED <<mock, tale>>
  BY <1>0, <1>1, <1>2 DEF AnswerInv
<1>3. ASSUME NEW f \in Funcs, \A g \in Funcs \ {f} : mock'[g] = mock[g] /\ tale'[g] = tale[g],
             AnswerReady(f, mock'[f], tale'[f])
      PROVE  AnswerInv'
  BY <1>0, <1>1, <1>3 DEF AnswerInv
<1>4. CASE NextTest
  <2>1. mock' = AllCleared /\ tale' = AllUntold
    BY <1>4 DEF NextTest
  <2>2. \A f \in Funcs : mock'[f] = Cleared /\ tale'[f] = Untold
    BY <2>1 DEF AllCleared, AllUntold
  <2> QED BY <1>1, <2>2, StartsReady DEF AnswerInv
<1>5. ASSUME NEW f \in Funcs, Expect(f) PROVE AnswerInv'
  <2>1. CASE OutOfMemory(f)
    BY <1>2, <2>1 DEF OutOfMemory
  <2>2. CASE ~ OutOfMemory(f)
    <3>1. PICK i \in Requests(f) :
            AddExpectation(f, [Blank EXCEPT !.arg = i.arg, !.ret = i.ret,
                                    !.unchecked = i.unchecked, !.throws = i.throws])
      BY <1>5, <2>2 DEF Expect
    <3> DEFINE asked == [Blank EXCEPT !.arg = i.arg, !.ret = i.ret,
                                      !.unchecked = i.unchecked, !.throws = i.throws]
               n == IF Ordered THEN expectCount + 1 ELSE 0
               inst == [asked EXCEPT !.order = n, !.asked = TRUE]
               base == IF mock[f].ignore /\ Ignoring = "stateless"
                       THEN Planned(f) ELSE tale[f].plan
    <3>2. asked \in Instances /\ asked.out = NoOut /\ asked.ret = i.ret
      BY RequestType DEF Blank
    <3>3. inst \in Instances /\ inst.out = NoOut /\ inst.ret = i.ret
      <4>1. n \in Nat
        BY <1>0 DEF Typed, OrderType
      <4>2. inst = [asked EXCEPT !.order = n, !.asked = TRUE]
        OBVIOUS
      <4> HIDE DEF asked, n, inst
      <4> QED BY <3>2, <4>1, <4>2 DEF Instances
    <3>4. Chain(f, inst, FALSE)
      <4> HIDE DEF asked
      <4> QED BY <3>1, Zenon DEF AddExpectation, asked
    <3>5. tale' = [tale EXCEPT ![f] = [tale[f] EXCEPT !.latest = "expect",
                                         !.plan = Append(base, asked.ret)]]
      BY <3>1 DEF AddExpectation, Told
    <3>6. /\ base \in Seq(Rets)
          /\ f \notin Void => Matches(mock[f].queue, base, tale[f].taken)
          /\ f \in Void => inst.ret = 0 /\ \A k \in DOMAIN base : base[k] = 0
      <4>1. base \in Seq(Rets)
        BY <1>0, TookType
      <4>2. ASSUME f \notin Void PROVE Matches(mock[f].queue, base, tale[f].taken)
        <5>1. Prepared(f, mock[f], tale[f])
          BY <1>0, <4>2 DEF AnswerReady
        <5>2. CASE mock[f].ignore /\ Ignoring = "stateless"
          <6>1. mock[f].queue = <<>> /\ Len(base) = tale[f].taken /\ tale[f].taken \in Nat
            BY <1>0, <5>1, <5>2, TookType DEF Prepared
          <6> HIDE DEF base
          <6> QED BY <6>1 DEF Matches
        <5>3. CASE ~(mock[f].ignore /\ Ignoring = "stateless")
          BY <5>1, <5>3 DEF Prepared
        <5> QED BY <5>2, <5>3
      <4>3. ASSUME f \in Void PROVE inst.ret = 0 /\ \A k \in DOMAIN base : base[k] = 0
        <5>1. i.ret = 0
          BY <4>3 DEF Requests, RetsOf
        <5>2. ReturnsNothing(mock[f], tale[f])
          BY <1>0, <4>3 DEF AnswerReady
        <5>3. \A k \in DOMAIN Planned(f) : k \in DOMAIN tale[f].plan /\ Planned(f)[k] = tale[f].plan[k]
          BY <1>0, TookType DEF Planned
        <5> HIDE DEF inst
        <5> QED BY <3>3, <5>1, <5>2, <5>3 DEF ReturnsNothing
      <4> QED BY <4>1, <4>2, <4>3
    <3>7. Append(base, asked.ret) = Append(base, inst.ret)
      BY <3>2, <3>3
    <3> HIDE DEF inst, base, asked
    <3>8. /\ tale'[f].plan = Append(base, inst.ret) /\ tale'[f].taken = tale[f].taken
          /\ tale'[f].value = tale[f].value /\ tale'[f].wanted = tale[f].wanted
          /\ \A g \in Funcs \ {f} : tale'[g] = tale[g]
      BY <1>0, <3>5, <3>7 DEF Tales
    <3>9. /\ \A g \in Funcs \ {f} : mock'[g] = mock[g]
          /\ mock'[f].queue = Append(mock[f].queue, inst) /\ ~mock'[f].ignore
      BY <1>0, <3>4, ChainEffect
    <3>10. AnswerReady(f, mock'[f], tale'[f])
      BY <1>0, <3>3, <3>6, <3>8, <3>9, ReadyAppend
    <3> QED BY <1>3, <3>8, <3>9, <3>10
  <2> QED BY <2>1, <2>2
<1>6. ASSUME NEW f \in Funcs, IgnoreArg(f) PROVE AnswerInv'
  <2>1. CASE HasOne(f)
    <3> DEFINE inst == [Newest(f) EXCEPT !.unchecked = TRUE]
    <3>1. inst \in Instances /\ inst.ret = Newest(f).ret /\ inst.out = Newest(f).out
      BY <1>0, <2>1, QueueFacts DEF Instances
    <3>2. SetNewest(f, inst) /\ UNCHANGED tale
      BY <1>6, <2>1 DEF IgnoreArg
    <3> HIDE DEF inst
    <3>3. AnswerReady(f, mock'[f], tale'[f])
      BY <1>0, <2>1, <3>1, <3>2, ReadyNewest
    <3> QED BY <1>0, <1>3, <3>2, <3>3, SetNewestEffect
  <2>2. CASE ~HasOne(f)
    BY <1>2, <1>6, <2>2 DEF IgnoreArg
  <2> QED BY <2>1, <2>2
<1>7. ASSUME NEW f \in Funcs, ReturnThruPtr(f) PROVE AnswerInv'
  <2>0. "ReturnThruPtr" \in Offers[f]
    BY <1>7 DEF ReturnThruPtr
  <2>1. CASE UNCHANGED <<mock, tale>>
    BY <1>2, <2>1
  <2>2. ASSUME HasOne(f), NEW v \in Outs, SetNewest(f, [Newest(f) EXCEPT !.out = v]),
               Told(f, [tale[f] EXCEPT !.meant = Append(@, v)])
        PROVE  AnswerInv'
    <3> DEFINE inst == [Newest(f) EXCEPT !.out = v]
               m == Append(tale[f].meant, v)
    <3>1. inst \in Instances /\ inst.ret = Newest(f).ret
      BY <1>0, <2>2, QueueFacts DEF Instances
    <3>2. SetNewest(f, inst) /\ tale' = [tale EXCEPT ![f] = [tale[f] EXCEPT !.meant = m]]
      BY <2>2 DEF Told
    <3> HIDE DEF inst, m
    <3>3. /\ tale'[f].plan = tale[f].plan /\ tale'[f].taken = tale[f].taken
          /\ tale'[f].value = tale[f].value /\ tale'[f].wanted = tale[f].wanted
          /\ \A g \in Funcs \ {f} : tale'[g] = tale[g]
      BY <1>0, <3>2 DEF Tales
    <3>4. AnswerReady(f, mock'[f], tale'[f])
      BY <1>0, <2>0, <2>2, <3>1, <3>2, <3>3, ReadyNewest
    <3> QED BY <1>0, <1>3, <3>2, <3>3, <3>4, SetNewestEffect
  <2>3. ASSUME Queues(f), NEW v \in Outs, NEW r \in NewestReturns(f),
               Chain(f, [Blank EXCEPT !.ret = r, !.out = v], TRUE),
               Told(f, [tale[f] EXCEPT !.plan = Append(@, PlannedLast(f)),
                                       !.meant = Append(@, v)])
        PROVE  AnswerInv'
    <3>1. f \in Void
      BY <1>0, <2>0, <2>3 DEF Queues, AnswerReady, Prepared
    <3>2. ReturnsNothing(mock[f], tale[f])
      BY <1>0, <3>1 DEF AnswerReady
    <3>3. r = 0
      <4>1. HasOne(f) => Newest(f).ret = 0
        BY <1>0, <3>2 DEF HasOne, Newest, ReturnsNothing
      <4> QED BY <3>1, <4>1 DEF NewestReturns, RetsOf
    <3>4. PlannedLast(f) = 0
      <4>1. tale[f].plan \in Seq(Rets)
        BY <1>0, TookType
      <4> QED BY <3>2, <4>1 DEF PlannedLast, ReturnsNothing
    <3> DEFINE inst == [Blank EXCEPT !.ret = r, !.out = v]
               p == Append(tale[f].plan, PlannedLast(f))
               m == Append(tale[f].meant, v)
               q == Append(mock[f].queue, inst)
    <3>5. inst \in Instances /\ inst.ret = 0
      BY <3>3, MockAssumption, StartTypes DEF Instances, Blank
    <3>6. \A i \in DOMAIN q : q[i].ret = 0
      <4>1. \A i \in DOMAIN q : q[i] = inst \/ (i \in DOMAIN mock[f].queue /\ q[i] = mock[f].queue[i])
        BY <1>0, <3>5
      <4> HIDE DEF q, inst
      <4> QED BY <3>2, <3>5, <4>1 DEF ReturnsNothing
    <3>7. \A i \in DOMAIN p : p[i] = 0
      <4>1. \A i \in DOMAIN p : p[i] = PlannedLast(f) \/ (i \in DOMAIN tale[f].plan /\ p[i] = tale[f].plan[i])
        BY <1>0, TookType
      <4> HIDE DEF p
      <4> QED BY <3>2, <3>4, <4>1 DEF ReturnsNothing
    <3>8. Chain(f, inst, TRUE) /\ tale' = [tale EXCEPT ![f] = WithCopy(tale[f], p, m)]
      BY <2>3 DEF Told, WithCopy
    <3>9. mock'[f].queue = q /\ \A g \in Funcs \ {f} : mock'[g] = mock[g]
      <4> HIDE DEF inst
      <4> QED BY <1>0, <3>8, ChainEffect
    <3> HIDE DEF inst, p, m, q
    <3>10. /\ tale'[f].plan = p /\ tale'[f].value = tale[f].value
           /\ tale'[f].wanted = tale[f].wanted
           /\ \A g \in Funcs \ {f} : tale'[g] = tale[g]
      BY <1>0, <3>8 DEF WithCopy, Tales
    <3>11. ReturnsNothing(mock'[f], tale'[f])
      BY <3>2, <3>6, <3>7, <3>9, <3>10 DEF ReturnsNothing
    <3> QED BY <1>3, <3>1, <3>9, <3>10, <3>11 DEF AnswerReady
  <2> QED BY <1>7, <2>1, <2>2, <2>3 DEF ReturnThruPtr, OutOfMemory
\* A void function returns nothing however it is set up.
<1>8. ASSUME NEW f \in Funcs, f \in Void, \A g \in Funcs \ {f} : mock'[g] = mock[g] /\ tale'[g] = tale[g],
             mock'[f].queue \in {mock[f].queue, Rest(mock[f].queue)},
             tale'[f].plan \in {tale[f].plan, Planned(f)},
             tale'[f].value = tale[f].value, tale'[f].wanted = tale[f].wanted
      PROVE  AnswerInv'
  <2>1. ReturnsNothing(mock[f], tale[f])
    BY <1>0, <1>8 DEF AnswerReady
  <2>2. \A k \in DOMAIN Planned(f) : k \in DOMAIN tale[f].plan /\ Planned(f)[k] = tale[f].plan[k]
    BY <1>0, TookType DEF Planned
  <2>3. \A i \in DOMAIN Rest(mock[f].queue) :
          i + 1 \in DOMAIN mock[f].queue /\ Rest(mock[f].queue)[i] = mock[f].queue[i + 1]
    <3>1. CASE mock[f].queue = <<>>
      BY <3>1 DEF Rest
    <3>2. CASE mock[f].queue # <<>>
      BY <1>0, <3>2 DEF Rest
    <3> QED BY <3>1, <3>2
  <2>4. ReturnsNothing(mock'[f], tale'[f])
    BY <1>8, <2>1, <2>2, <2>3 DEF ReturnsNothing
  <2> QED BY <1>3, <1>8, <2>4 DEF AnswerReady
<1>9. ASSUME NEW f \in Funcs, Ignore(f) PROVE AnswerInv'
  <2>1. mock'[f].queue = mock[f].queue /\ \A g \in Funcs \ {f} : mock'[g] = mock[g]
    BY <1>0, <1>9 DEF Ignore, Mocks
  <2>2. /\ tale'[f].plan = tale[f].plan /\ tale'[f].value = tale[f].value
        /\ tale'[f].wanted = tale[f].wanted /\ \A g \in Funcs \ {f} : tale'[g] = tale[g]
    BY <1>0, <1>9 DEF Ignore, Told, Tales
  <2> QED BY <1>8, <1>9, <2>1, <2>2 DEF Ignore
<1>10. ASSUME NEW f \in Funcs, IgnoreAndReturn(f) PROVE AnswerInv'
  <2>1. CASE OutOfMemory(f)
    BY <1>2, <2>1 DEF OutOfMemory
  <2>2. CASE ~ OutOfMemory(f)
    <3>1. PICK r \in Rets :
            /\ Chain(f, [Blank EXCEPT !.ret = r], TRUE)
            /\ Told(f, [tale[f] EXCEPT !.plan = Append(@, r), !.latest = "ignore"])
      BY <1>10, <2>2 DEF IgnoreAndReturn
    <3>2. f \notin Void /\ Ignoring = "ignore" /\ "Ignore" \in Offers[f]
      BY <1>10 DEF IgnoreAndReturn
    <3> DEFINE inst == [Blank EXCEPT !.ret = r]
               p == Append(tale[f].plan, inst.ret)
    <3>3. inst \in Instances /\ inst.out = NoOut /\ inst.ret = r
      BY StartTypes DEF Instances, Blank
    <3>4. Chain(f, inst, TRUE) /\ tale' = [tale EXCEPT ![f] = WithPlan(tale[f], p, "ignore")]
      BY <3>1, <3>3 DEF Told, WithPlan
    <3>5. Matches(mock[f].queue, tale[f].plan, tale[f].taken)
      BY <1>0, <3>2 DEF AnswerReady, Prepared
    <3> HIDE DEF inst, p
    <3>6. /\ tale'[f].plan = p /\ tale'[f].taken = tale[f].taken
          /\ tale'[f].value = tale[f].value /\ tale'[f].wanted = tale[f].wanted
          /\ \A g \in Funcs \ {f} : tale'[g] = tale[g]
      BY <1>0, <3>4 DEF WithPlan, Tales
    <3>7. mock'[f].queue = Append(mock[f].queue, inst) /\ \A g \in Funcs \ {f} : mock'[g] = mock[g]
      BY <1>0, <3>4, ChainEffect
    <3>8. AnswerReady(f, mock'[f], tale'[f])
      BY <1>0, <3>2, <3>3, <3>5, <3>6, <3>7, TookType, ReadyAppend DEF p
    <3> QED BY <1>3, <3>6, <3>7, <3>8
  <2> QED BY <2>1, <2>2
<1>11. ASSUME NEW f \in Funcs, IgnoreStateless(f) PROVE AnswerInv'
  <2>1. PICK r \in Rets :
          /\ mock' = Kept(f, r)
          /\ Told(f, [tale[f] EXCEPT !.plan = Append(Planned(f), r), !.latest = "ignore"])
    BY <1>11 DEF IgnoreStateless
  <2>2. f \notin Void /\ "Ignore" \in Offers[f] /\ Ignoring = "stateless"
    BY <1>11 DEF IgnoreStateless
  <2> DEFINE p == Append(Planned(f), r)
             n == tale[f].taken
  <2>3. /\ mock'[f].queue = <<>> /\ mock'[f].final = r /\ mock'[f].ignore
        /\ \A g \in Funcs \ {f} : mock'[g] = mock[g]
    BY <1>0, <2>1 DEF Kept, Mocks
  <2>4. tale' = [tale EXCEPT ![f] = WithPlan(tale[f], p, "ignore")]
    BY <2>1 DEF Told, WithPlan
  <2>5. Len(p) = n + 1 /\ n \in Nat /\ p[n + 1] = r
    BY <1>0, TookType
  <2>6. WantedOf(p, n) = r /\ Len(p) <= n + 1
    <3> HIDE DEF p, n
    <3> QED BY <2>5 DEF WantedOf
  <2> HIDE DEF p
  <2>7. /\ tale'[f].plan = p /\ tale'[f].taken = n
        /\ tale'[f].value = tale[f].value /\ tale'[f].wanted = tale[f].wanted
        /\ \A g \in Funcs \ {f} : tale'[g] = tale[g]
    BY <1>0, <2>4 DEF WithPlan, Tales
  <2>8. tale[f].value = tale[f].wanted /\ "ReturnThruPtr" \notin Offers[f]
    BY <1>0, <2>2 DEF AnswerReady, Prepared, AnswerSetting
  <2> HIDE DEF n
  <2>9. Prepared(f, mock'[f], tale'[f])
    BY <2>2, <2>3, <2>6, <2>7, <2>8 DEF Prepared
  <2> QED BY <1>3, <2>2, <2>3, <2>7, <2>9 DEF AnswerReady
<1>12. ASSUME NEW f \in Funcs, StopIgnore(f) PROVE AnswerInv'
  <2> DEFINE q == IF StopDrops(f) THEN Rest(mock[f].queue) ELSE mock[f].queue
             p == IF mock[f].ignore THEN Planned(f) ELSE tale[f].plan
  <2>1. /\ mock' = [mock EXCEPT ![f] = [mock[f] EXCEPT !.queue = q, !.ignore = FALSE]]
        /\ tale' = [tale EXCEPT ![f] = WithPlan(tale[f], p, "stop")]
    BY <1>12 DEF StopIgnore, Told, WithPlan
  <2>2. /\ mock'[f].queue = q /\ ~mock'[f].ignore
        /\ \A g \in Funcs \ {f} : mock'[g] = mock[g]
    <3> HIDE DEF q
    <3> QED BY <1>0, <2>1 DEF Mocks
  <2>3. /\ tale'[f].plan = p /\ tale'[f].taken = tale[f].taken
        /\ tale'[f].value = tale[f].value /\ tale'[f].wanted = tale[f].wanted
        /\ \A g \in Funcs \ {f} : tale'[g] = tale[g]
    <3> HIDE DEF p
    <3> QED BY <1>0, <2>1 DEF WithPlan, Tales
  <2>4. CASE f \in Void
    BY <1>8, <2>2, <2>3, <2>4
  <2>5. CASE f \notin Void
    <3>1. Prepared(f, mock[f], tale[f])
      BY <1>0, <2>5 DEF AnswerReady
    <3>2. tale[f].taken \in Nat /\ tale[f].plan \in Seq(Rets) /\ mock[f].queue \in Seq(Instances)
      BY <1>0, TookType
    <3> DEFINE Left ==
                 /\ Matches(q, p, tale[f].taken)
                 /\ \A i \in DOMAIN q : q[i].out # NoOut => "ReturnThruPtr" \in Offers[f]
    <3>3. ASSUME mock[f].ignore PROVE Left
      <4>1. q = <<>>
        <5>1. CASE StopDrops(f)
          BY <1>12, <5>1 DEF StopsClean
        <5>2. CASE ~StopDrops(f)
          <6>1. "StopIgnore" \in Offers[f]
            BY <1>12 DEF StopIgnore
          <6>2. Ignoring # "ignore"
            BY <2>5, <3>3, <5>2 DEF StopDrops
          <6>3. Ignoring = "stateless"
            BY <6>1, <6>2, MockAssumption
          <6>4. mock[f].queue = <<>>
            BY <3>1, <3>3, <6>3 DEF Prepared
          <6> QED BY <5>2, <6>4
        <5> QED BY <5>1, <5>2
      <4>2. Len(p) = tale[f].taken
        <5>1. tale[f].taken <= Len(tale[f].plan)
          BY <1>0, TookType
        <5>2. p = SubSeq(tale[f].plan, 1, tale[f].taken)
          BY <3>3 DEF Planned
        <5> QED BY <3>2, <5>1, <5>2
      <4>3. Matches(q, p, tale[f].taken)
        <5> HIDE DEF q, p
        <5> QED BY <3>2, <4>1, <4>2 DEF Matches
      <4>4. \A i \in DOMAIN q : q[i].out # NoOut => "ReturnThruPtr" \in Offers[f]
        BY <4>1
      <4> QED BY <4>3, <4>4
    <3>4. ASSUME ~mock[f].ignore PROVE Left
      <4>1. q = mock[f].queue
        BY <3>4 DEF StopDrops
      <4>2. p = tale[f].plan
        BY <3>4
      <4> HIDE DEF q, p
      <4> QED BY <3>1, <3>4, <4>1, <4>2 DEF Prepared
    <3> HIDE DEF q, p
    <3>5. Left
      BY <3>3, <3>4
    <3>6. Prepared(f, mock'[f], tale'[f])
      BY <2>2, <2>3, <3>1, <3>5 DEF Prepared
    <3> QED BY <1>3, <2>2, <2>3, <2>5, <3>6 DEF AnswerReady
  <2> QED BY <2>4, <2>5
<1>13. ASSUME NEW f \in Funcs, Install(f) PROVE AnswerInv'
  <2>1. PICK fixed \in BOOLEAN, there \in BOOLEAN, l \in Latests :
          /\ mock' = [mock EXCEPT ![f] = Installed(f, fixed, there)]
          /\ Told(f, [tale[f] EXCEPT !.invoked = 0, !.latest = l])
    BY <1>13 DEF Install, Latests
  <2>2. /\ mock'[f].queue = mock[f].queue /\ mock'[f].final = mock[f].final
        /\ mock'[f].ignore = (mock[f].ignore /\ Ignoring # "ignore")
        /\ \A g \in Funcs \ {f} : mock'[g] = mock[g]
    BY <1>0, <2>1 DEF Installed, Mocks
  <2>3. /\ tale'[f].plan = tale[f].plan /\ tale'[f].taken = tale[f].taken
        /\ tale'[f].value = tale[f].value /\ tale'[f].wanted = tale[f].wanted
        /\ \A g \in Funcs \ {f} : tale'[g] = tale[g]
    BY <1>0, <2>1 DEF Told, Tales
  <2>4. CASE f \in Void
    BY <1>8, <2>2, <2>3, <2>4
  <2>5. CASE f \notin Void
    <3>1. Prepared(f, mock[f], tale[f])
      BY <1>0, <2>5 DEF AnswerReady
    <3>2. Prepared(f, mock'[f], tale'[f])
      BY <2>2, <2>3, <3>1 DEF Prepared
    <3> QED BY <1>3, <2>2, <2>3, <2>5, <3>2 DEF AnswerReady
  <2> QED BY <2>4, <2>5
<1>14. ASSUME NEW f \in Funcs, NEW a \in Args,
              \/ CallIgnored(f, a) \/ CallStubbed(f, a) \/ CallsBack(f, a)
              \/ CallFails(f, a) \/ CallReturns(f, a) \/ CallThrows(f, a)
       PROVE  AnswerInv'
  <2>1. /\ mock[f].ignore /\ f \notin Void =>
             mock'[f].final = IF HasOne(f) THEN Oldest(f).ret ELSE mock[f].final
        /\ tale'[f].value = tale'[f].wanted /\ (f \in Void => tale'[f].value = 0)
    BY <1>0, <1>14, AnswerEffect
  <2>2. /\ \A g \in Funcs \ {f} : mock'[g] = mock[g] /\ tale'[g] = tale[g]
        /\ mock'[f].queue = Rest(mock[f].queue) /\ mock'[f].ignore = mock[f].ignore
        /\ tale'[f].plan = tale[f].plan /\ tale'[f].taken = Took(f).taken
    BY <1>0, <1>14, PopEffect
  <2>3. AnswerReady(f, mock'[f], tale'[f])
    BY <1>0, <2>1, <2>2, ReadyPop
  <2> QED BY <1>3, <2>2, <2>3
<1>15. CASE CallbackReturns
  <2>1. UNCHANGED mock /\ stack # <<>>
    BY <1>15 DEF CallbackReturns
  <2>2. CASE UNCHANGED tale
    BY <1>2, <2>1, <2>2
  <2>3. CASE ~ UNCHANGED tale
    <3>1. PICK f \in Funcs : f = Frame.fn
      BY <1>0, <2>1, FrameType
    <3>2. Frame.room = room
      BY <1>0, <2>1 DEF AnswerInv, RoomsAreStable, Frame, Typed, StackType
    <3>7. PICK r \in RetsOf(f) :
             \E w : Told(f, WithAnswer(tale[f], "called back", r, r, w))
      BY <1>15, <2>3, <3>1, <3>2 DEF CallbackReturns, WithAnswer
    <3>3. PICK w : Told(f, WithAnswer(tale[f], "called back", r, r, w))
      BY <3>7
    <3>4. /\ tale'[f].plan = tale[f].plan /\ tale'[f].taken = tale[f].taken
          /\ tale'[f].value = r /\ tale'[f].wanted = r
          /\ \A g \in Funcs \ {f} : tale'[g] = tale[g]
      BY <1>0, <3>3 DEF Told, WithAnswer, Tales
    <3>5. CASE f \in Void
      <4>1. r = 0
        BY <3>5 DEF RetsOf
      <4>2. ReturnsNothing(mock'[f], tale'[f])
        BY <1>0, <2>1, <3>4, <3>5, <4>1 DEF AnswerReady, ReturnsNothing
      <4> QED BY <1>3, <2>1, <3>4, <3>5, <4>2 DEF AnswerReady
    <3>6. CASE f \notin Void
      <4>1. Prepared(f, mock'[f], tale'[f])
        BY <1>0, <2>1, <3>4, <3>6 DEF AnswerReady, Prepared
      <4> QED BY <1>3, <2>1, <3>4, <3>6, <4>1 DEF AnswerReady
    <3> QED BY <3>5, <3>6
  <2> QED BY <2>2, <2>3
<1>16. CASE EndBody \/ Verify \/ StubReturns \/ CallbackThrows \/ UNCHANGED vars
  BY <1>2, <1>16 DEF EndBody, Verify, StubReturns, CallbackThrows, vars
<1> QED
  BY <1>4, <1>5, <1>6, <1>7, <1>9, <1>10, <1>11, <1>12, <1>13, <1>14, <1>15, <1>16 DEF Next

LEMMA InitAnswers == ASSUME AnswerSetting PROVE Init => AnswerInv
<1> SUFFICES ASSUME Init PROVE AnswerInv
  OBVIOUS
<1>1. \A f \in Funcs : mock[f] = Cleared /\ tale[f] = Untold
  BY DEF Init, AllCleared, AllUntold
<1>2. RoomsAreStable
  BY DEF Init, RoomsAreStable
<1> QED BY <1>1, <1>2, InitTyped, StartsReady DEF AnswerInv

LEMMA ReadyMeansRight == AnswerInv => AnswersAsSpecified
  BY DEF AnswerInv, AnswerReady, ReturnsNothing, Prepared, AnswersAsSpecified

\* A mock answers every call with the value that its queue of values says is
\* next, or the last one again, as long as the arena does not move and nobody
\* stops ignoring a function that has values queued.
THEOREM AnswersRight ==
    ASSUME AnswerSetting, NoneStopped PROVE Spec => []AnswersAsSpecified
<1>1. AnswerInv /\ [Next]_vars => AnswerInv'
  <2>1. StopsClean
    BY DEF StopsClean, StopIgnore, StopDrops, NoneStopped
  <2> QED BY <2>1, NextAnswers
<1> QED BY <1>1, InitAnswers, ReadyMeansRight, PTL DEF Spec

\* What is queued last for a function that is ignored was queued by ignoring it.
LastIgnored(f, m) ==
    f \notin Void /\ Ignoring = "ignore" /\ m.ignore /\ m.queue # <<>> =>
        ~m.queue[Len(m.queue)].asked
IgnoredInv == AnswerInv /\ \A f \in Funcs : LastIgnored(f, mock[f])

LEMMA LastOfChains ==
    ASSUME NEW q \in Seq(Instances)
    PROVE  /\ \A inst : LET n == Append(q, inst) IN n[Len(n)] = inst
           /\ Rest(q) # <<>> => q # <<>> /\ Rest(q)[Len(Rest(q))] = q[Len(q)]
           /\ \A inst : q # <<>> => LET n == [q EXCEPT ![Len(q)] = inst] IN n[Len(n)] = inst
<1>1. ASSUME Rest(q) # <<>> PROVE q # <<>> /\ Rest(q)[Len(Rest(q))] = q[Len(q)]
  <2>1. q # <<>> /\ Rest(q) = Tail(q)
    BY <1>1 DEF Rest
  <2>2. /\ Len(Tail(q)) = Len(q) - 1 /\ Tail(q) \in Seq(Instances) /\ Len(q) \in Nat
        /\ \A i \in 1 .. Len(q) - 1 : Tail(q)[i] = q[i + 1]
    BY <2>1
  <2>3. Len(q) - 1 \in 1 .. Len(q) - 1
    BY <1>1, <2>1, <2>2
  <2>4. Tail(q)[Len(q) - 1] = q[Len(q)]
    BY <2>2, <2>3
  <2> QED BY <2>1, <2>2, <2>4
<1>2. ASSUME NEW inst PROVE Append(q, inst)[Len(Append(q, inst))] = inst
  OBVIOUS
<1>3. ASSUME NEW inst, q # <<>>
      PROVE  [q EXCEPT ![Len(q)] = inst][Len([q EXCEPT ![Len(q)] = inst])] = inst
  <2>1. Len(q) \in DOMAIN q /\ Len([q EXCEPT ![Len(q)] = inst]) = Len(q)
    BY <1>3
  <2> QED BY <2>1
<1> QED BY <1>1, <1>2, <1>3

LEMMA NextIgnored ==
    ASSUME Typed, \A f \in Funcs : LastIgnored(f, mock[f]), [Next]_vars
    PROVE  \A f \in Funcs : LastIgnored(f, mock'[f])
<1> DEFINE Goal == \A f \in Funcs : LastIgnored(f, mock'[f])
<1>0. /\ mock \in [Funcs -> Mocks] /\ \A g \in Funcs : mock[g] \in Mocks
      /\ \A g \in Funcs : mock[g].queue \in Seq(Instances)
  BY DEF Typed, MockType, Mocks
<1>1. CASE UNCHANGED mock
  BY <1>1
<1>2. ASSUME NEW f \in Funcs, \A g \in Funcs \ {f} : mock'[g] = mock[g],
             LastIgnored(f, mock'[f])
      PROVE  Goal
  BY <1>2
<1>3. CASE NextTest
  BY <1>3 DEF NextTest, AllCleared, Cleared, LastIgnored
<1>4. ASSUME NEW f \in Funcs, NEW inst, NEW ignore, Chain(f, inst, ignore),
             ignore = FALSE \/ inst.asked = FALSE
      PROVE  Goal
  <2>1. mock'[f].ignore = ignore /\ mock'[f].queue = Append(mock[f].queue, inst)
    BY <1>4, ChainEffect
  <2>2. mock'[f].queue[Len(mock'[f].queue)] = inst
    BY <1>0, <2>1, LastOfChains
  <2>3. LastIgnored(f, mock'[f])
    BY <1>4, <2>1, <2>2 DEF LastIgnored
  <2>4. \A g \in Funcs \ {f} : mock'[g] = mock[g]
    BY <1>4, ChainEffect
  <2> QED BY <1>2, <2>3, <2>4
<1>5. ASSUME NEW f \in Funcs, HasOne(f), NEW inst, inst.asked = Newest(f).asked,
             SetNewest(f, inst)
      PROVE  Goal
  <2>1. /\ \A g \in Funcs \ {f} : mock'[g] = mock[g]
        /\ mock'[f].ignore = mock[f].ignore
        /\ mock'[f].queue = [mock[f].queue EXCEPT ![Len(mock[f].queue)] = inst]
    BY <1>5, SetNewestEffect
  <2>2. mock'[f].queue[Len(mock'[f].queue)] = inst
    BY <1>0, <1>5, <2>1, LastOfChains DEF HasOne
  <2>3. LastIgnored(f, mock'[f])
    BY <1>5, <2>1, <2>2 DEF LastIgnored, HasOne, Newest
  <2> QED BY <1>2, <2>1, <2>3
<1>6. ASSUME NEW f \in Funcs, Expect(f) PROVE Goal
  <2>1. CASE OutOfMemory(f)
    BY <1>1, <2>1 DEF OutOfMemory
  <2>2. CASE ~OutOfMemory(f)
    <3>1. PICK i \in Requests(f) :
            AddExpectation(f, [Blank EXCEPT !.arg = i.arg, !.ret = i.ret,
                                 !.unchecked = i.unchecked, !.throws = i.throws])
      BY <1>6, <2>2 DEF Expect
    <3>2. \E inst : Chain(f, inst, FALSE)
      BY <3>1 DEF AddExpectation
    <3> QED BY <1>4, <3>2
  <2> QED BY <2>1, <2>2
<1>7. ASSUME NEW f \in Funcs, IgnoreArg(f) PROVE Goal
  <2>1. CASE UNCHANGED mock
    BY <1>1, <2>1
  <2>2. CASE HasOne(f)
    <3> DEFINE inst == [Newest(f) EXCEPT !.unchecked = TRUE]
    <3>1. inst.asked = Newest(f).asked /\ SetNewest(f, inst)
      BY <1>7, <2>2, QueueFacts DEF IgnoreArg, Instances
    <3> HIDE DEF inst
    <3> QED BY <1>5, <2>2, <3>1
  <2> QED BY <1>7, <2>1, <2>2 DEF IgnoreArg
<1>8. ASSUME NEW f \in Funcs, ReturnThruPtr(f) PROVE Goal
  <2>1. CASE UNCHANGED mock
    BY <1>1, <2>1
  <2>2. ASSUME NEW v, HasOne(f), SetNewest(f, [Newest(f) EXCEPT !.out = v]) PROVE Goal
    <3> DEFINE inst == [Newest(f) EXCEPT !.out = v]
    <3>1. inst.asked = Newest(f).asked /\ SetNewest(f, inst)
      BY <2>2, QueueFacts DEF Instances
    <3> HIDE DEF inst
    <3> QED BY <1>5, <2>2, <3>1
  <2>3. ASSUME NEW v, NEW r, Chain(f, [Blank EXCEPT !.ret = r, !.out = v], TRUE) PROVE Goal
    <3> DEFINE inst == [Blank EXCEPT !.ret = r, !.out = v]
    <3>1. inst.asked = FALSE /\ Chain(f, inst, TRUE)
      BY <2>3 DEF Blank
    <3> HIDE DEF inst
    <3> QED BY <1>4, <3>1
  <2> QED BY <1>8, <2>1, <2>2, <2>3 DEF ReturnThruPtr, OutOfMemory
<1>9. ASSUME NEW f \in Funcs, Ignore(f) PROVE Goal
  <2>1. f \in Void /\ \A g \in Funcs \ {f} : mock'[g] = mock[g]
    BY <1>0, <1>9 DEF Ignore
  <2> QED BY <1>2, <2>1 DEF LastIgnored
<1>10. ASSUME NEW f \in Funcs, IgnoreAndReturn(f) PROVE Goal
  <2>1. CASE UNCHANGED mock
    BY <1>1, <2>1
  <2>2. ASSUME NEW r, Chain(f, [Blank EXCEPT !.ret = r], TRUE) PROVE Goal
    <3> DEFINE inst == [Blank EXCEPT !.ret = r]
    <3>1. inst.asked = FALSE /\ Chain(f, inst, TRUE)
      BY <2>2 DEF Blank
    <3> HIDE DEF inst
    <3> QED BY <1>4, <3>1
  <2> QED BY <1>10, <2>1, <2>2 DEF IgnoreAndReturn, OutOfMemory
<1>11. ASSUME NEW f \in Funcs, IgnoreStateless(f) PROVE Goal
  <2>1. Ignoring # "ignore" /\ \A g \in Funcs \ {f} : mock'[g] = mock[g]
    BY <1>0, <1>11 DEF IgnoreStateless, Kept
  <2> QED BY <1>2, <2>1 DEF LastIgnored
<1>12. ASSUME NEW f \in Funcs, StopIgnore(f) PROVE Goal
  <2> DEFINE q == IF StopDrops(f) THEN Rest(mock[f].queue) ELSE mock[f].queue
  <2>1. mock' = [mock EXCEPT ![f] = [mock[f] EXCEPT !.queue = q, !.ignore = FALSE]]
    BY <1>12 DEF StopIgnore
  <2> HIDE DEF q
  <2>2. ~mock'[f].ignore /\ \A g \in Funcs \ {f} : mock'[g] = mock[g]
    BY <1>0, <2>1 DEF Mocks
  <2> QED BY <1>2, <2>2 DEF LastIgnored
<1>13. ASSUME NEW f \in Funcs, Install(f) PROVE Goal
  <2>1. PICK fixed \in BOOLEAN, there \in BOOLEAN :
          mock' = [mock EXCEPT ![f] = Installed(f, fixed, there)]
    BY <1>13 DEF Install
  <2>2. /\ mock'[f].ignore = (mock[f].ignore /\ Ignoring # "ignore")
        /\ \A g \in Funcs \ {f} : mock'[g] = mock[g]
    BY <1>0, <2>1 DEF Installed, Mocks
  <2> QED BY <1>2, <2>2 DEF LastIgnored
<1>14. ASSUME NEW f \in Funcs, NEW a \in Args,
              \/ CallIgnored(f, a) \/ CallStubbed(f, a) \/ CallsBack(f, a)
              \/ CallFails(f, a) \/ CallReturns(f, a) \/ CallThrows(f, a)
       PROVE  Goal
  <2>1. /\ \A g \in Funcs \ {f} : mock'[g] = mock[g]
        /\ mock'[f].queue = Rest(mock[f].queue) /\ mock'[f].ignore = mock[f].ignore
    BY <1>14, PopEffect
  <2> DEFINE q == mock[f].queue
  <2>2. q \in Seq(Instances) /\ LastIgnored(f, mock[f])
    BY <1>0
  <2>3. Rest(q) # <<>> => q # <<>> /\ Rest(q)[Len(Rest(q))] = q[Len(q)]
    BY <2>2, LastOfChains
  <2>4. LastIgnored(f, mock'[f])
    BY <2>1, <2>2, <2>3 DEF LastIgnored
  <2> QED BY <1>2, <2>1, <2>4
<1>15. CASE \/ EndBody \/ Verify \/ StubReturns \/ CallbackReturns \/ CallbackThrows
            \/ UNCHANGED vars
  BY <1>1, <1>15 DEF EndBody, Verify, StubReturns, CallbackReturns, CallbackThrows, vars
<1> QED
  BY <1>3, <1>6, <1>7, <1>8, <1>9, <1>10, <1>11, <1>12, <1>13, <1>14, <1>15 DEF Next

\* A chain that is clean once its oldest instance is dropped, and ended with an
\* instance of an ignored function, had no other.
LEMMA CleanStops ==
    ASSUME IgnoredInv, [Next]_vars, NothingLeft'
    PROVE  StopsClean
<1> SUFFICES ASSUME NEW f \in Funcs, StopIgnore(f), StopDrops(f)
             PROVE  Rest(mock[f].queue) = <<>>
  BY DEF StopsClean
<1> DEFINE q == mock[f].queue
<1>1. /\ q \in Seq(Instances) /\ mock \in [Funcs -> Mocks] /\ mock[f] \in Mocks
      /\ f \notin Void /\ Ignoring = "ignore" /\ mock[f].ignore
  BY DEF IgnoredInv, AnswerInv, Typed, MockType, Mocks, StopDrops
<1>2. mock'[f].queue = Rest(q) /\ tale'[f].latest = "stop"
  <2>1. mock'[f].queue = Rest(q)
    BY <1>1 DEF StopIgnore, Mocks
  <2>2. tale'[f].latest = "stop"
    BY DEF StopIgnore, Told, IgnoredInv, AnswerInv, Typed, TaleType, Tales
  <2> QED BY <2>1, <2>2
<1>3. \A i \in DOMAIN Rest(q) : Rest(q)[i].asked
  BY <1>2 DEF NothingLeft
<1>4. ASSUME Rest(q) # <<>> PROVE FALSE
  <2>1. q # <<>> /\ Rest(q)[Len(Rest(q))] = q[Len(q)]
    BY <1>1, <1>4, LastOfChains
  <2>2. ~q[Len(q)].asked
    BY <1>1, <2>1 DEF IgnoredInv, LastIgnored
  <2>3. Rest(q) \in Seq(Instances)
    BY <1>1 DEF Rest
  <2>4. Len(Rest(q)) \in DOMAIN Rest(q)
    BY <1>4, <2>3
  <2> QED BY <1>3, <2>1, <2>2, <2>4
<1> QED BY <1>4

\* With Ignore, Expect and StopIgnore of the plugin :ignore on one function, the
\* answers are right as long as each StopIgnore finds one value left at most.
THEOREM AnswersRightBetweenIgnores ==
    ASSUME AnswerSetting PROVE Spec => AnswersBetweenIgnores
<1>1. Init => IgnoredInv
  <2>1. Init => \A f \in Funcs : LastIgnored(f, mock[f])
    BY DEF Init, AllCleared, Cleared, LastIgnored
  <2> QED BY <2>1, InitAnswers DEF IgnoredInv
<1>2. IgnoredInv /\ [Next]_vars /\ NothingLeft' => IgnoredInv'
  <2> SUFFICES ASSUME IgnoredInv, [Next]_vars, NothingLeft' PROVE IgnoredInv'
    OBVIOUS
  <2>1. AnswerInv'
    BY CleanStops, NextAnswers DEF IgnoredInv
  <2>2. \A f \in Funcs : LastIgnored(f, mock'[f])
    BY NextIgnored DEF IgnoredInv, AnswerInv
  <2> QED BY <2>1, <2>2 DEF IgnoredInv, LastIgnored
<1>3. IgnoredInv => AnswersAsSpecified
  BY ReadyMeansRight DEF IgnoredInv
<1> QED BY <1>1, <1>2, <1>3, PTL DEF Spec, AnswersBetweenIgnores

-----------------------------------------------------------------------------
(* Stubs are called.                                                       *)

\* What was last asked of a function that is ignored is not that it be stubbed.
NotStubbed(m, t) ==
    m.ignore => t.latest # "stub" /\ Ignoring # "none"
StubInv == Typed /\ \A f \in Funcs : NotStubbed(mock[f], tale[f])

LEMMA NextStub == ASSUME Ignoring # "stateless", StubInv, [Next]_vars PROVE StubInv'
<1>0. /\ Typed /\ mock \in [Funcs -> Mocks] /\ \A g \in Funcs : mock[g] \in Mocks
      /\ tale \in [Funcs -> Tales] /\ \A g \in Funcs : tale[g] \in Tales
      /\ \A g \in Funcs : NotStubbed(mock[g], tale[g])
  BY DEF StubInv, Typed, MockType, TaleType
<1>1. Typed'
  BY NextTyped DEF StubInv
<1>2. ASSUME NEW f \in Funcs, \A g \in Funcs \ {f} : mock'[g] = mock[g] /\ tale'[g] = tale[g],
             NotStubbed(mock'[f], tale'[f])
      PROVE  StubInv'
  BY <1>0, <1>1, <1>2 DEF StubInv
<1>3. CASE UNCHANGED mock /\ \A g \in Funcs : tale'[g].latest = tale[g].latest
  BY <1>0, <1>1, <1>3 DEF StubInv, NotStubbed
<1>4. CASE UNCHANGED <<mock, tale>>
  BY <1>3, <1>4
<1>5. CASE NextTest
  <2>1. \A f \in Funcs : mock'[f] = Cleared /\ tale'[f] = Untold
    BY <1>5 DEF NextTest, AllCleared, AllUntold
  <2>2. NotStubbed(Cleared, Untold)
    BY DEF NotStubbed, Cleared, Untold
  <2> QED BY <1>1, <2>1, <2>2 DEF StubInv
\* What a call of the interface says of f and what it leaves.
<1>6. ASSUME NEW f \in Funcs, NEW t, t.latest # "stub", Told(f, t),
             \A g \in Funcs \ {f} : mock'[g] = mock[g],
             mock'[f].ignore => mock[f].ignore \/ Ignoring # "none"
      PROVE  StubInv'
  <2>1. tale'[f] = t /\ \A g \in Funcs \ {f} : tale'[g] = tale[g]
    BY <1>0, <1>6 DEF Told
  <2>2. NotStubbed(mock'[f], tale'[f])
    BY <1>0, <1>6, <2>1 DEF NotStubbed
  <2> QED BY <1>2, <1>6, <2>1, <2>2
<1>7. ASSUME NEW f \in Funcs, Expect(f) PROVE StubInv'
  <2>1. CASE OutOfMemory(f)
    BY <1>4, <2>1 DEF OutOfMemory
  <2>2. CASE ~OutOfMemory(f)
    <3>1. PICK i \in Requests(f) :
            AddExpectation(f, [Blank EXCEPT !.arg = i.arg, !.ret = i.ret,
                                 !.unchecked = i.unchecked, !.throws = i.throws])
      BY <1>7, <2>2 DEF Expect
    <3>2. \E inst : Chain(f, inst, FALSE)
      BY <3>1 DEF AddExpectation
    <3>3. mock'[f].ignore = FALSE /\ \A g \in Funcs \ {f} : mock'[g] = mock[g]
      BY <1>0, <3>2, ChainEffect
    <3>4. \E p : Told(f, WithPlan(tale[f], p, "expect"))
      <4> DEFINE base == [Blank EXCEPT !.arg = i.arg, !.ret = i.ret,
                             !.unchecked = i.unchecked, !.throws = i.throws]
      <4>1. AddExpectation(f, base)
        BY <3>1
      <4> HIDE DEF base
      <4> DEFINE p == Append(IF mock[f].ignore /\ Ignoring = "stateless"
                             THEN Planned(f) ELSE tale[f].plan, base.ret)
      <4>2. tale' = [tale EXCEPT ![f] = [tale[f] EXCEPT !.latest = "expect", !.plan = p]]
        BY <4>1 DEF AddExpectation, Told
      <4> HIDE DEF p
      <4>3. [tale[f] EXCEPT !.latest = "expect", !.plan = p] = WithPlan(tale[f], p, "expect")
        BY <1>0 DEF WithPlan, Tales
      <4> QED BY <4>2, <4>3 DEF Told
    <3>5. PICK p : Told(f, WithPlan(tale[f], p, "expect"))
      BY <3>4
    <3>6. WithPlan(tale[f], p, "expect").latest = "expect"
      BY <1>0 DEF WithPlan, Tales
    <3> QED BY <1>6, <3>3, <3>5, <3>6
  <2> QED BY <2>1, <2>2
<1>8. ASSUME NEW f \in Funcs, mock'[f].ignore = mock[f].ignore,
             \A g \in Funcs \ {f} : mock'[g] = mock[g] /\ tale'[g] = tale[g],
             tale'[f].latest = tale[f].latest
      PROVE  StubInv'
  BY <1>0, <1>2, <1>8 DEF NotStubbed
<1>9. ASSUME NEW f \in Funcs, IgnoreArg(f) PROVE StubInv'
  <2>1. CASE UNCHANGED mock
    BY <1>4, <1>9, <2>1 DEF IgnoreArg
  <2>2. CASE HasOne(f)
    BY <1>0, <1>8, <1>9, <2>2, SetNewestEffect DEF IgnoreArg
  <2> QED BY <1>9, <2>1, <2>2 DEF IgnoreArg
<1>10. ASSUME NEW f \in Funcs, ReturnThruPtr(f) PROVE StubInv'
  <2>1. CASE UNCHANGED <<mock, tale>>
    BY <1>4, <2>1
  <2>2. ASSUME NEW inst, SetNewest(f, inst), NEW v, Told(f, [tale[f] EXCEPT !.meant = Append(@, v)])
        PROVE  StubInv'
    <3>1. tale'[f].latest = tale[f].latest /\ \A g \in Funcs \ {f} : tale'[g] = tale[g]
      BY <1>0, <2>2 DEF Told, Tales
    <3> QED BY <1>0, <1>8, <2>2, <3>1, SetNewestEffect
  <2>3. ASSUME Queues(f), NEW inst, Chain(f, inst, TRUE), NEW v,
               Told(f, [tale[f] EXCEPT !.plan = Append(@, PlannedLast(f)),
                                       !.meant = Append(@, v)])
        PROVE  StubInv'
    <3>1. tale'[f].latest = tale[f].latest /\ \A g \in Funcs \ {f} : tale'[g] = tale[g]
      BY <1>0, <2>3 DEF Told, Tales
    <3>2. mock'[f].ignore = TRUE /\ mock[f].ignore = TRUE
          /\ \A g \in Funcs \ {f} : mock'[g] = mock[g]
      BY <1>0, <2>3, ChainEffect DEF Queues, Mocks
    <3> QED BY <1>8, <3>1, <3>2
  <2> QED BY <1>10, <2>1, <2>2, <2>3 DEF ReturnThruPtr, OutOfMemory
<1>11. ASSUME NEW f \in Funcs, Ignore(f) \/ IgnoreAndReturn(f) \/ StopIgnore(f) \/ Install(f)
       PROVE  StubInv'
  <2>1. CASE Ignore(f)
    <3>1. Ignoring # "none"
      BY <2>1, MockAssumption DEF Ignore
    <3>2. \A g \in Funcs \ {f} : mock'[g] = mock[g]
      BY <1>0, <2>1 DEF Ignore
    <3>3. /\ Told(f, [tale[f] EXCEPT !.latest = "ignore"])
          /\ [tale[f] EXCEPT !.latest = "ignore"].latest = "ignore"
      BY <1>0, <2>1 DEF Ignore, Tales
    <3> QED BY <1>6, <3>1, <3>2, <3>3
  <2>2. CASE IgnoreAndReturn(f)
    <3>1. CASE OutOfMemory(f)
      BY <1>4, <3>1 DEF OutOfMemory
    <3>2. CASE ~OutOfMemory(f)
      <4>1. PICK r \in Rets :
              /\ Chain(f, [Blank EXCEPT !.ret = r], TRUE)
              /\ Told(f, [tale[f] EXCEPT !.plan = Append(@, r), !.latest = "ignore"])
        BY <2>2, <3>2 DEF IgnoreAndReturn
      <4>2. \A g \in Funcs \ {f} : mock'[g] = mock[g]
        BY <1>0, <4>1, ChainEffect
      <4>3. [tale[f] EXCEPT !.plan = Append(@, r), !.latest = "ignore"].latest = "ignore"
        BY <1>0 DEF Tales
      <4> QED BY <1>6, <2>2, <4>1, <4>2, <4>3 DEF IgnoreAndReturn
    <3> QED BY <3>1, <3>2
  <2>3. CASE StopIgnore(f)
    <3> DEFINE q == IF StopDrops(f) THEN Rest(mock[f].queue) ELSE mock[f].queue
               p == IF mock[f].ignore THEN Planned(f) ELSE tale[f].plan
    <3>1. /\ mock' = [mock EXCEPT ![f] = [mock[f] EXCEPT !.queue = q, !.ignore = FALSE]]
          /\ tale' = [tale EXCEPT ![f] = [tale[f] EXCEPT !.plan = p, !.latest = "stop"]]
      BY <2>3 DEF StopIgnore, Told
    <3> HIDE DEF q, p
    <3>2. ~mock'[f].ignore /\ \A g \in Funcs \ {f} : mock'[g] = mock[g] /\ tale'[g] = tale[g]
      BY <1>0, <3>1 DEF Mocks
    <3> QED BY <1>2, <3>2 DEF NotStubbed
  <2>4. CASE Install(f)
    <3>1. PICK fixed \in BOOLEAN, there \in BOOLEAN :
            /\ mock' = [mock EXCEPT ![f] = Installed(f, fixed, there)]
            /\ \E t : Told(f, t)
      BY <2>4 DEF Install
    <3>2. /\ mock'[f].ignore = (mock[f].ignore /\ Ignoring # "ignore")
          /\ \A g \in Funcs \ {f} : mock'[g] = mock[g] /\ tale'[g] = tale[g]
      BY <1>0, <3>1 DEF Installed, Mocks, Told
    <3>3. ~mock'[f].ignore
      BY <1>0, <3>2, MockAssumption DEF NotStubbed
    <3> QED BY <1>2, <3>2, <3>3 DEF NotStubbed
  <2> QED BY <1>11, <2>1, <2>2, <2>3, <2>4
<1>12. ASSUME NEW f \in Funcs, NEW a \in Args,
              \/ CallIgnored(f, a) \/ CallStubbed(f, a) \/ CallsBack(f, a)
              \/ CallFails(f, a) \/ CallReturns(f, a) \/ CallThrows(f, a)
       PROVE  StubInv'
  BY <1>0, <1>8, <1>12, PopEffect
<1>13. CASE CallbackReturns
  <2>1. UNCHANGED mock /\ stack # <<>>
    BY <1>13 DEF CallbackReturns
  <2>2. CASE UNCHANGED tale
    BY <1>4, <2>1, <2>2
  <2>3. CASE ~ UNCHANGED tale
    <3>1. PICK f \in Funcs : f = Frame.fn
      BY <1>0, <2>1, FrameType
    <3>2. \E v, r, w : Told(f, WithAnswer(tale[f], "called back", v, r, w))
      BY <1>13, <2>3, <3>1 DEF CallbackReturns, WithAnswer
    <3>3. \A g \in Funcs : tale'[g].latest = tale[g].latest
      BY <1>0, <3>2 DEF Told, WithAnswer, Tales
    <3> QED BY <1>3, <2>1, <3>3
  <2> QED BY <2>2, <2>3
<1>14. CASE EndBody \/ Verify \/ StubReturns \/ CallbackThrows \/ UNCHANGED vars
  BY <1>4, <1>14 DEF EndBody, Verify, StubReturns, CallbackThrows, vars
<1>15. ASSUME NEW f \in Funcs, IgnoreStateless(f) PROVE FALSE
  BY <1>15 DEF IgnoreStateless
<1> QED
  BY <1>5, <1>7, <1>9, <1>10, <1>11, <1>12, <1>13, <1>14, <1>15 DEF Next

\* A stub that was asked for last is called: with the plugin :ignore or none,
\* no call of its function is treated as ignored.
THEOREM StubsAreCalled == ASSUME Ignoring # "stateless" PROVE Spec => StubIsCalled
<1>1. Init => StubInv
  <2> SUFFICES ASSUME Init PROVE StubInv
    OBVIOUS
  <2>1. \A f \in Funcs : mock[f] = Cleared /\ tale[f] = Untold
    BY DEF Init, AllCleared, AllUntold
  <2>2. NotStubbed(Cleared, Untold)
    BY DEF NotStubbed, Cleared, Untold
  <2> QED BY <2>1, <2>2, InitTyped DEF StubInv
<1>2. StubInv /\ [Next]_vars => StubInv'
  BY NextStub
<1>3. StubInv /\ [Next]_vars =>
        [\A f \in Funcs, a \in Args : CallIgnored(f, a) => tale[f].latest # "stub"]_vars
  BY DEF StubInv, NotStubbed, CallIgnored
<1> QED BY <1>1, <1>2, <1>3, PTL DEF Spec, StubIsCalled

-----------------------------------------------------------------------------
(* The values to copy.                                                     *)

\* The functions that are only ignored and given values to copy.
Copying == {f \in Funcs : Offers[f] \subseteq {"Ignore", "ReturnThruPtr"}}

\* The plugin :ignore_stateless clears the chain of a function that returns
\* something, with the values to copy.
CopySetting ==
    Ignoring = "stateless" =>
        \A f \in Copying \ Void : ~{"Ignore", "ReturnThruPtr"} \subseteq Offers[f]

\* at marks the place of chain q in what is meant to be copied: its i-th
\* instance leaves off after value at[i].
Marks(q, meant, wrote, at) ==
    /\ at[0] = Len(wrote) /\ at[Len(q)] = Len(meant)
    /\ \A i \in 1 .. Len(q) :
         IF q[i].out = NoOut THEN at[i] = at[i - 1]
         ELSE at[i] = at[i - 1] + 1 /\ q[i].out = meant[at[i]]

\* What is in chain q is what is still to be copied.
Copies(q, meant, wrote) ==
    /\ Len(wrote) <= Len(meant)
    /\ \A i \in 1 .. Len(wrote) : wrote[i] = meant[i]
    /\ \E at \in [0 .. Len(q) -> 0 .. Len(meant)] : Marks(q, meant, wrote, at)

CopyReady(f, m, t) ==
    /\ m.queue # <<>> => m.ignore
    /\ "ReturnThruPtr" \notin Offers[f] => t.meant = <<>>
    /\ Copies(m.queue, t.meant, t.wrote)

\* None of them calls back.
NoCallbacks ==
    /\ \A f \in Copying : ~mock[f].callback
    /\ \A i \in 1 .. Len(stack) : stack[i].fn \notin Copying

CopyInv ==
    /\ Typed /\ NoCallbacks
    /\ verdict # "failed" => \A f \in Copying : CopyReady(f, mock[f], tale[f])

LEMMA CopiesNone ==
    ASSUME NEW q \in Seq(Instances), NEW wrote \in Seq(Outs), Copies(q, <<>>, wrote)
    PROVE  Copies(<<>>, <<>>, wrote)
<1>1. Len(wrote) = 0 /\ Len(wrote) \in Nat
  BY DEF Copies
<1> DEFINE at == [i \in 0 .. Len(<<>>) |-> 0]
<1>2. Len(<<>>) = 0
  OBVIOUS
<1>3. /\ at \in [0 .. Len(<<>>) -> 0 .. Len(<<>>)]
      /\ at[0] = Len(wrote) /\ at[Len(<<>>)] = Len(<<>>)
  BY <1>1, <1>2
<1> HIDE DEF at
<1> QED
  BY <1>1, <1>2, <1>3 DEF Copies, Marks

\* The test gives a value to copy, or a value to return (out is NoOut).
LEMMA CopiesAppend ==
    ASSUME NEW q \in Seq(Instances), NEW meant \in Seq(Outs), NEW wrote \in Seq(Outs),
           Copies(q, meant, wrote), NEW inst \in Instances
    PROVE  /\ inst.out = NoOut => Copies(Append(q, inst), meant, wrote)
           /\ inst.out # NoOut => Copies(Append(q, inst), Append(meant, inst.out), wrote)
<1> DEFINE n == Len(q)
           more == IF inst.out = NoOut THEN meant ELSE Append(meant, inst.out)
           c == Append(q, inst)
<1>1. PICK at \in [0 .. n -> 0 .. Len(meant)] :
        /\ at[0] = Len(wrote) /\ at[n] = Len(meant)
        /\ \A i \in 1 .. n :
             IF q[i].out = NoOut THEN at[i] = at[i - 1]
             ELSE at[i] = at[i - 1] + 1 /\ q[i].out = meant[at[i]]
  BY DEF Copies, Marks
<1>2. /\ n \in Nat /\ Len(meant) \in Nat /\ Len(wrote) \in Nat
      /\ Len(wrote) <= Len(meant)
      /\ \A i \in 1 .. Len(wrote) : wrote[i] = meant[i]
  BY DEF Copies
<1>3. inst.out # NoOut => inst.out \in Outs
  BY DEF Instances
<1>4. /\ Len(c) = n + 1 /\ c[n + 1] = inst
      /\ \A i \in 1 .. n : c[i] = q[i]
  BY AppendProperties
<1>5. /\ more \in Seq(Outs)
      /\ Len(more) = IF inst.out = NoOut THEN Len(meant) ELSE Len(meant) + 1
      /\ \A i \in 1 .. Len(meant) : more[i] = meant[i]
      /\ inst.out # NoOut => more[Len(more)] = inst.out
  BY <1>2, <1>3, AppendProperties
<1> DEFINE to == [i \in 0 .. n + 1 |-> IF i = n + 1 THEN Len(more) ELSE at[i]]
<1> HIDE DEF n, more, c
<1>6. /\ to \in [0 .. n + 1 -> 0 .. Len(more)]
      /\ to[n + 1] = Len(more) /\ \A i \in 0 .. n : to[i] = at[i]
  BY <1>1, <1>2, <1>5
<1>7. to[0] = Len(wrote)
  BY <1>1, <1>2, <1>6
<1> HIDE DEF to
<1>8. ASSUME NEW i \in 1 .. n + 1
      PROVE  IF c[i].out = NoOut THEN to[i] = to[i - 1]
             ELSE to[i] = to[i - 1] + 1 /\ c[i].out = more[to[i]]
  <2>1. CASE i = n + 1
    <3>1. c[i] = inst /\ to[i] = Len(more) /\ i - 1 = n /\ to[n] = Len(meant)
      BY <1>1, <1>2, <1>4, <1>6, <2>1
    <3> QED
      BY <1>2, <1>5, <3>1
  <2>2. CASE i \in 1 .. n
    <3>1. i \in 0 .. n /\ i - 1 \in 0 .. n
      BY <1>2, <2>2
    <3>2. c[i] = q[i] /\ to[i] = at[i] /\ to[i - 1] = at[i - 1]
      BY <1>4, <1>6, <2>2, <3>1
    <3>3. at[i] \in 0 .. Len(meant) /\ at[i - 1] \in 0 .. Len(meant)
      BY <1>1, <3>1
    <3>4. q[i].out # NoOut => at[i] \in 1 .. Len(meant)
      BY <1>1, <1>2, <2>2, <3>3
    <3> QED
      BY <1>1, <1>5, <2>2, <3>2, <3>4
  <2> QED
    BY <1>2, <2>1, <2>2
<1>9. Copies(c, more, wrote)
  <2>1. Len(wrote) <= Len(more) /\ \A i \in 1 .. Len(wrote) : wrote[i] = more[i]
    BY <1>2, <1>5
  <2>2. to \in [0 .. Len(c) -> 0 .. Len(more)]
    BY <1>4, <1>6
  <2>3. Marks(c, more, wrote, to)
    BY <1>4, <1>6, <1>7, <1>8 DEF Marks
  <2> QED
    BY <2>1, <2>2, <2>3 DEF Copies
<1> QED
  BY <1>9 DEF c, more

\* ... or it gives the newest instance the value to copy.
LEMMA CopiesNewest ==
    ASSUME NEW q \in Seq(Instances), q # <<>>, q[Len(q)].out = NoOut,
           NEW meant \in Seq(Outs), NEW wrote \in Seq(Outs), Copies(q, meant, wrote),
           NEW inst \in Instances, inst.out \in Outs
    PROVE  Copies([q EXCEPT ![Len(q)] = inst], Append(meant, inst.out), wrote)
<1> DEFINE n == Len(q)
           more == Append(meant, inst.out)
           c == [q EXCEPT ![n] = inst]
<1>1. PICK at \in [0 .. n -> 0 .. Len(meant)] :
        /\ at[0] = Len(wrote) /\ at[n] = Len(meant)
        /\ \A i \in 1 .. n :
             IF q[i].out = NoOut THEN at[i] = at[i - 1]
             ELSE at[i] = at[i - 1] + 1 /\ q[i].out = meant[at[i]]
  BY DEF Copies, Marks
<1>2. /\ n \in Nat /\ n \in 1 .. n /\ Len(meant) \in Nat /\ Len(wrote) \in Nat
      /\ Len(wrote) <= Len(meant)
      /\ \A i \in 1 .. Len(wrote) : wrote[i] = meant[i]
      /\ inst.out # NoOut
  BY MockAssumption DEF Copies
<1>3. /\ Len(c) = n /\ c[n] = inst
      /\ \A i \in 1 .. n : i # n => c[i] = q[i]
  BY <1>2
<1>4. /\ Len(more) = Len(meant) + 1 /\ more[Len(meant) + 1] = inst.out
      /\ \A i \in 1 .. Len(meant) : more[i] = meant[i]
  BY AppendProperties
<1>5. at[n - 1] = Len(meant) /\ q[n].out = NoOut
  BY <1>1, <1>2
<1> DEFINE to == [i \in 0 .. n |-> IF i = n THEN Len(meant) + 1 ELSE at[i]]
<1> HIDE DEF n, more, c
<1>6. /\ to \in [0 .. n -> 0 .. Len(more)]
      /\ to[n] = Len(meant) + 1 /\ \A i \in 0 .. n : i # n => to[i] = at[i]
      /\ to[0] = Len(wrote)
  BY <1>1, <1>2, <1>4
<1> HIDE DEF to
<1>7. ASSUME NEW i \in 1 .. n
      PROVE  IF c[i].out = NoOut THEN to[i] = to[i - 1]
             ELSE to[i] = to[i - 1] + 1 /\ c[i].out = more[to[i]]
  <2>0. i \in 0 .. n /\ i - 1 \in 0 .. n /\ i - 1 # n
    BY <1>2
  <2>1. CASE i = n
    BY <1>2, <1>3, <1>4, <1>5, <1>6, <2>0, <2>1
  <2>2. CASE i # n
    <3>1. c[i] = q[i] /\ to[i] = at[i] /\ to[i - 1] = at[i - 1]
      BY <1>3, <1>6, <2>0, <2>2
    <3>2. at[i] \in 0 .. Len(meant) /\ at[i - 1] \in 0 .. Len(meant)
      BY <1>1, <2>0
    <3>3. q[i].out # NoOut => at[i] \in 1 .. Len(meant)
      BY <1>1, <1>2, <3>2
    <3> QED
      BY <1>1, <1>4, <3>1, <3>3
  <2> QED
    BY <2>1, <2>2
<1>8. Copies(c, more, wrote)
  <2>1. Len(wrote) <= Len(more) /\ \A i \in 1 .. Len(wrote) : wrote[i] = more[i]
    BY <1>2, <1>4
  <2>2. to \in [0 .. Len(c) -> 0 .. Len(more)]
    BY <1>3, <1>6
  <2>3. Marks(c, more, wrote, to)
    BY <1>3, <1>4, <1>6, <1>7 DEF Marks
  <2> QED
    BY <2>1, <2>2, <2>3 DEF Copies
<1> QED
  BY <1>8 DEF c, more, n

\* A call copies the value of the oldest instance.
LEMMA CopiesPop ==
    ASSUME NEW q \in Seq(Instances), q # <<>>,
           NEW meant \in Seq(Outs), NEW wrote \in Seq(Outs), Copies(q, meant, wrote)
    PROVE  Copies(Tail(q), meant,
                  IF q[1].out = NoOut THEN wrote ELSE Append(wrote, q[1].out))
<1> DEFINE n == Len(q)
           done == IF q[1].out = NoOut THEN wrote ELSE Append(wrote, q[1].out)
           c == Tail(q)
<1>1. PICK at \in [0 .. n -> 0 .. Len(meant)] :
        /\ at[0] = Len(wrote) /\ at[n] = Len(meant)
        /\ \A i \in 1 .. n :
             IF q[i].out = NoOut THEN at[i] = at[i - 1]
             ELSE at[i] = at[i - 1] + 1 /\ q[i].out = meant[at[i]]
  BY DEF Copies, Marks
<1>2. /\ n \in Nat /\ 1 \in 1 .. n /\ n - 1 \in Nat
      /\ Len(meant) \in Nat /\ Len(wrote) \in Nat
      /\ Len(wrote) <= Len(meant)
      /\ \A i \in 1 .. Len(wrote) : wrote[i] = meant[i]
      /\ q[1].out # NoOut => q[1].out \in Outs
  <2>1. n \in Nat /\ n # 0 /\ Len(meant) \in Nat /\ Len(wrote) \in Nat
    OBVIOUS
  <2>2. q[1] \in Instances
    BY <2>1
  <2>3. q[1].out \in Outs \cup {NoOut}
    BY <2>2 DEF Instances
  <2> HIDE DEF n
  <2> QED
    BY <2>1, <2>3 DEF Copies
<1>3. Len(c) = n - 1 /\ \A i \in 1 .. n - 1 : c[i] = q[i + 1]
  BY <1>2
<1>4. /\ Len(done) = at[1] /\ at[1] <= Len(meant)
      /\ \A i \in 1 .. Len(done) : done[i] = meant[i]
  <2>1. at[1] \in 0 .. Len(meant) /\ 1 - 1 = 0
    BY <1>1, <1>2
  <2>2. CASE q[1].out = NoOut
    BY <1>1, <1>2, <2>1, <2>2
  <2>3. CASE q[1].out # NoOut
    <3>1. at[1] = Len(wrote) + 1 /\ q[1].out = meant[at[1]]
      BY <1>1, <1>2, <2>1, <2>3
    <3>2. /\ Len(done) = Len(wrote) + 1 /\ done[Len(wrote) + 1] = q[1].out
          /\ \A i \in 1 .. Len(wrote) : done[i] = wrote[i]
      BY <1>2, <2>3, AppendProperties
    <3> HIDE DEF done
    <3>3. Len(done) = at[1] /\ at[1] <= Len(meant)
      BY <2>1, <3>1, <3>2
    <3>4. ASSUME NEW i \in 1 .. Len(done) PROVE done[i] = meant[i]
      <4>1. i \in 1 .. Len(wrote) \/ i = Len(wrote) + 1
        BY <1>2, <3>2
      <4> QED
        BY <1>2, <3>1, <3>2, <3>3, <4>1
    <3> QED
      BY <3>3, <3>4
  <2> QED
    BY <2>2, <2>3
<1> DEFINE to == [i \in 0 .. n - 1 |-> at[i + 1]]
<1> HIDE DEF n, done, c
<1>5. \A i \in 0 .. n - 1 : i + 1 \in 0 .. n
  BY <1>2
<1>6. /\ to \in [0 .. n - 1 -> 0 .. Len(meant)]
      /\ \A i \in 0 .. n - 1 : to[i] = at[i + 1]
  BY <1>1, <1>5
<1>7. to[0] = at[1] /\ to[n - 1] = at[n]
  BY <1>2, <1>6
<1> HIDE DEF to
<1>8. ASSUME NEW i \in 1 .. n - 1
      PROVE  IF c[i].out = NoOut THEN to[i] = to[i - 1]
             ELSE to[i] = to[i - 1] + 1 /\ c[i].out = meant[to[i]]
  <2>1. /\ i \in 0 .. n - 1 /\ i - 1 \in 0 .. n - 1 /\ i + 1 \in 1 .. n
        /\ (i - 1) + 1 = i /\ (i + 1) - 1 = i
    BY <1>2
  <2>2. c[i] = q[i + 1] /\ to[i] = at[i + 1] /\ to[i - 1] = at[i]
    BY <1>3, <1>6, <2>1
  <2> QED
    BY <1>1, <2>1, <2>2
<1>9. Copies(c, meant, done)
  <2>1. Len(done) <= Len(meant) /\ \A i \in 1 .. Len(done) : done[i] = meant[i]
    BY <1>4
  <2>2. to \in [0 .. Len(c) -> 0 .. Len(meant)]
    BY <1>3, <1>6
  <2>3. Marks(c, meant, done, to)
    BY <1>1, <1>3, <1>4, <1>6, <1>7, <1>8 DEF Marks
  <2> QED
    BY <2>1, <2>2, <2>3 DEF Copies
<1> QED
  BY <1>9 DEF c, done

\* A call of a function that is ignored copies the oldest value.
LEMMA WroteEffect ==
    ASSUME Typed, NEW f \in Funcs, NEW a \in Args, CallIgnored(f, a)
    PROVE  tale'[f].wrote = IF ~HasOne(f) \/ Oldest(f).out = NoOut THEN tale[f].wrote
                            ELSE Append(tale[f].wrote, Oldest(f).out)
<1> DEFINE out == IF HasOne(f) THEN Oldest(f).out ELSE NoOut
           w == IF out = NoOut THEN tale[f].wrote ELSE Append(tale[f].wrote, out)
<1>1. tale \in [Funcs -> Tales] /\ tale[f] \in Tales /\ Took(f) \in Tales
  BY TookType DEF Typed, TaleType
<1>2. Took(f).wrote = tale[f].wrote
  BY <1>1 DEF Took, Tales
<1>3. \E v, r : tale' = [tale EXCEPT ![f] =
                  [Took(f) EXCEPT !.how = "ignored", !.value = v, !.wanted = r, !.wrote = w]]
  BY <1>2 DEF CallIgnored, Answered, Told
<1> HIDE DEF w
<1>4. tale'[f].wrote = w
  BY <1>1, <1>3 DEF Tales
<1> QED
  BY <1>4 DEF w

-----------------------------------------------------------------------------
\* Callbacks of functions that have none are not in progress.
LEMMA NextNoCallbacks ==
    ASSUME Typed, NoCallbacks, [Next]_vars
    PROVE  NoCallbacks'
<1>0. /\ mock \in [Funcs -> Mocks] /\ \A g \in Funcs : mock[g] \in Mocks
      /\ stack \in Seq(Frames) /\ Len(stack) \in Nat
      /\ \A g \in Copying : ~mock[g].callback
      /\ \A i \in 1 .. Len(stack) : stack[i].fn \notin Copying
      /\ Copying \subseteq Funcs
  BY DEF Typed, MockType, StackType, NoCallbacks, Copying
<1>1. ASSUME \A g \in Copying : mock'[g].callback = mock[g].callback,
             \E k \in 0 .. Len(stack) : stack' = SubSeq(stack, 1, k)
      PROVE  NoCallbacks'
  <2>1. PICK k \in 0 .. Len(stack) : stack' = SubSeq(stack, 1, k)
    BY <1>1
  <2>2. Len(stack') = k /\ \A i \in 1 .. k : stack'[i] = stack[i]
    BY <1>0, <2>1, SubSeqProperties
  <2> QED BY <1>0, <1>1, <2>2 DEF NoCallbacks
<1>2. \E k \in 0 .. Len(stack) : stack = SubSeq(stack, 1, k)
  BY <1>0, StackPart
<1>3. \E k \in 0 .. Len(stack) : <<>> = SubSeq(stack, 1, k)
  BY <1>0
<1>4. stack # <<>> => Len(stack) - 1 \in 0 .. Len(stack)
  BY <1>0
<1>5. CASE UNCHANGED mock /\ \E k \in 0 .. Len(stack) : stack' = SubSeq(stack, 1, k)
  BY <1>1, <1>5
<1>6. CASE UNCHANGED mock /\ stack' \in {stack, <<>>}
  BY <1>2, <1>3, <1>5, <1>6
<1>7. CASE UNCHANGED stack /\ \A g \in Copying : mock'[g].callback = mock[g].callback
  BY <1>1, <1>2, <1>7
<1>8. ASSUME NEW f \in Funcs, UNCHANGED stack, \A g \in Funcs \ {f} : mock'[g] = mock[g],
             mock'[f].callback = mock[f].callback
      PROVE  NoCallbacks'
  BY <1>0, <1>7, <1>8
<1>9. ASSUME NEW f \in Funcs, OutOfMemory(f) PROVE NoCallbacks'
  BY <1>6, <1>9 DEF OutOfMemory, Fail
<1>10. ASSUME NEW f \in Funcs, UNCHANGED stack, NEW inst,
              SetNewest(f, inst) \/ \E ignore : Chain(f, inst, ignore)
       PROVE  NoCallbacks'
  BY <1>8, <1>10, ChainEffect, SetNewestEffect
<1>11. CASE NextTest
  <2>1. \A g \in Funcs : ~mock'[g].callback
    BY <1>11 DEF NextTest, AllCleared, Cleared
  <2> QED BY <1>0, <1>11, <2>1 DEF NextTest, NoCallbacks
<1>12. ASSUME NEW f \in Funcs, Expect(f) PROVE NoCallbacks'
  <2>1. OutOfMemory(f) \/ \E i : AddExpectation(f, i)
    BY <1>12 DEF Expect
  <2>2. ASSUME NEW i, AddExpectation(f, i) PROVE NoCallbacks'
    <3>1. \E inst, ignore : Chain(f, inst, ignore)
      BY <2>2 DEF AddExpectation
    <3> QED BY <1>10, <2>2, <3>1 DEF AddExpectation
  <2> QED BY <1>9, <2>1, <2>2
<1>13. ASSUME NEW f \in Funcs, IgnoreArg(f) PROVE NoCallbacks'
  <2>1. CASE HasOne(f)
    BY <1>10, <1>13, <2>1 DEF IgnoreArg, SetNewest
  <2>2. CASE ~HasOne(f)
    BY <1>6, <1>13, <2>2 DEF IgnoreArg, Fail
  <2> QED BY <2>1, <2>2
<1>14. ASSUME NEW f \in Funcs, ReturnThruPtr(f) PROVE NoCallbacks'
  <2>1. \/ OutOfMemory(f)
        \/ UNCHANGED stack /\ \E inst : Chain(f, inst, TRUE)
        \/ \E inst : SetNewest(f, inst)
        \/ UNCHANGED mock /\ Fail(f, NULL, "misuse")
    BY <1>14, Zenon DEF ReturnThruPtr
  <2>2. ASSUME NEW inst, SetNewest(f, inst) PROVE UNCHANGED stack
    BY <2>2 DEF SetNewest
  <2> QED BY <1>6, <1>9, <1>10, <2>1, <2>2 DEF Fail
<1>15. ASSUME NEW f \in Funcs, Ignore(f) \/ IgnoreStateless(f) \/ StopIgnore(f)
       PROVE  NoCallbacks'
  <2>1. CASE Ignore(f)
    BY <1>0, <1>8, <2>1 DEF Ignore, Mocks
  <2>2. CASE IgnoreStateless(f)
    BY <1>0, <1>8, <2>2 DEF IgnoreStateless, Kept, Mocks
  <2>3. CASE StopIgnore(f)
    <3> DEFINE q == IF StopDrops(f) THEN Rest(mock[f].queue) ELSE mock[f].queue
    <3>1. mock' = [mock EXCEPT ![f] = [mock[f] EXCEPT !.queue = q, !.ignore = FALSE]]
      BY <2>3 DEF StopIgnore
    <3> HIDE DEF q
    <3>2. mock'[f].callback = mock[f].callback /\ \A g \in Funcs \ {f} : mock'[g] = mock[g]
      BY <1>0, <3>1 DEF Mocks
    <3> QED BY <1>8, <2>3, <3>2 DEF StopIgnore
  <2> QED BY <1>15, <2>1, <2>2, <2>3
<1>16. ASSUME NEW f \in Funcs, IgnoreAndReturn(f) PROVE NoCallbacks'
  <2>1. OutOfMemory(f) \/ (UNCHANGED stack /\ \E inst : Chain(f, inst, TRUE))
    BY <1>16 DEF IgnoreAndReturn
  <2> QED BY <1>9, <1>10, <2>1
<1>17. ASSUME NEW f \in Funcs, Install(f) PROVE NoCallbacks'
  <2>1. f \notin Copying
    BY <1>17 DEF Install, Copying
  <2>2. \A g \in Funcs \ {f} : mock'[g] = mock[g]
    BY <1>0, <1>17 DEF Install
  <2> QED BY <1>0, <1>7, <1>17, <2>1, <2>2 DEF Install
<1>18. ASSUME NEW f \in Funcs, NEW a \in Args,
              CallIgnored(f, a) \/ CallFails(f, a) \/ CallReturns(f, a) \/ CallThrows(f, a)
       PROVE  NoCallbacks'
  <2>1. \A g \in Copying : mock'[g].callback = mock[g].callback
    BY <1>0, <1>18, PopEffect
  <2>2. \E k \in 0 .. Len(stack) : stack' = SubSeq(stack, 1, k)
    BY <1>2, <1>3, <1>18 DEF CallIgnored, CallFails, Fail, CallReturns, CallThrows
  <2> QED BY <1>1, <2>1, <2>2
<1>19. ASSUME NEW f \in Funcs, NEW a \in Args, CallStubbed(f, a) \/ CallsBack(f, a)
       PROVE  NoCallbacks'
  <2>1. mock[f].callback
    BY <1>19 DEF CallStubbed, Stubbed, CallsBack
  <2>2. \A g \in Copying : mock'[g].callback = mock[g].callback
    BY <1>0, <1>19, PopEffect
  <2>3. \E inst, at : Enter(f, inst, at)
    BY <1>19 DEF CallStubbed, CallsBack
  <2>4. PICK frame : stack' = Append(stack, frame) /\ frame.fn = f
    BY <2>3 DEF Enter
  <2>5. /\ Len(stack') = Len(stack) + 1 /\ stack'[Len(stack) + 1] = frame
        /\ \A i \in 1 .. Len(stack) : stack'[i] = stack[i]
    BY <1>0, <2>4
  <2>6. \A i \in 1 .. Len(stack') : stack'[i].fn \notin Copying
    BY <1>0, <2>1, <2>4, <2>5
  <2> QED BY <1>0, <2>2, <2>6 DEF NoCallbacks
<1>20. CASE EndBody \/ Verify \/ UNCHANGED vars
  BY <1>6, <1>20 DEF EndBody, Verify, Fail, vars
<1>21. CASE StubReturns \/ CallbackReturns \/ CallbackThrows
  <2>1. UNCHANGED mock /\ stack # <<>>
    BY <1>21 DEF StubReturns, CallbackReturns, CallbackThrows
  <2>2. CASE CallbackThrows
    BY <1>0, <1>5, <2>1, <2>2 DEF CallbackThrows
  <2>3. CASE StubReturns \/ CallbackReturns
    <3>1. stack' \in {Below, <<>>}
      BY <2>3 DEF StubReturns, CallbackReturns, Fail
    <3> QED BY <1>3, <1>4, <1>5, <2>1, <3>1 DEF Below
  <2> QED BY <1>21, <2>2, <2>3
<1> QED
  BY <1>11, <1>12, <1>13, <1>14, <1>15, <1>16, <1>17, <1>18, <1>19, <1>20, <1>21 DEF Next

LEMMA StartsCopying == \A f : CopyReady(f, Cleared, Untold)
<1> DEFINE at == [i \in 0 .. Len(<<>>) |-> 0]
<1>1. at \in [0 .. Len(<<>>) -> 0 .. Len(<<>>)] /\ Marks(<<>>, <<>>, <<>>, at)
  BY DEF Marks
<1>2. Copies(<<>>, <<>>, <<>>)
  BY <1>1 DEF Copies
<1> QED
  BY <1>2 DEF CopyReady, Cleared, Untold

LEMMA NextCopies ==
    ASSUME CopySetting, CopyInv, [Next]_vars
    PROVE  CopyInv'
<1>0. /\ Typed /\ mock \in [Funcs -> Mocks] /\ \A g \in Funcs : mock[g] \in Mocks
      /\ tale \in [Funcs -> Tales] /\ \A g \in Funcs : tale[g] \in Tales
      /\ \A g \in Funcs : mock[g].queue \in Seq(Instances)
      /\ \A g \in Funcs : tale[g].meant \in Seq(Outs) /\ tale[g].wrote \in Seq(Outs)
      /\ \A g \in Copying : ~mock[g].callback
      /\ verdict # "failed" => \A g \in Copying : CopyReady(g, mock[g], tale[g])
  BY DEF CopyInv, NoCallbacks, Typed, MockType, TaleType, Mocks, Tales
<1>1. Typed' /\ NoCallbacks'
  BY NextTyped, NextNoCallbacks DEF CopyInv
<1>2. ASSUME NEW f \in Funcs, \A g \in Funcs \ {f} : mock'[g] = mock[g] /\ tale'[g] = tale[g],
             verdict = "failed" => verdict' = "failed",
             f \in Copying /\ verdict' # "failed" => CopyReady(f, mock'[f], tale'[f])
      PROVE  CopyInv'
  BY <1>0, <1>1, <1>2 DEF CopyInv, Copying
<1>3. CASE verdict' = "failed"
  BY <1>1, <1>3 DEF CopyInv
<1>4. CASE UNCHANGED <<mock, tale>> /\ (verdict = "failed" => verdict' = "failed")
  BY <1>0, <1>1, <1>4 DEF CopyInv
<1>5. CASE NextTest
  <2>1. \A f \in Funcs : mock'[f] = Cleared /\ tale'[f] = Untold
    BY <1>5 DEF NextTest, AllCleared, AllUntold
  <2> QED BY <1>1, <2>1, StartsCopying DEF CopyInv, Copying
<1>6. ASSUME NEW f \in Funcs, OutOfMemory(f) PROVE CopyInv'
  BY <1>3, <1>6 DEF OutOfMemory, Fail
\* What is asked of other functions.
<1>7. ASSUME NEW f \in Funcs, Expect(f) PROVE CopyInv'
  <2>1. OutOfMemory(f) \/ \E i : AddExpectation(f, i)
    BY <1>7 DEF Expect
  <2>2. ASSUME NEW i, AddExpectation(f, i) PROVE CopyInv'
    <3>1. f \notin Copying
      BY <1>7 DEF Expect, Requests, OutOfMemory, Copying
    <3>2. /\ \A g \in Funcs \ {f} : mock'[g] = mock[g] /\ tale'[g] = tale[g]
          /\ UNCHANGED verdict
      BY <1>0, <2>2 DEF AddExpectation, Chain, Told, runner
    <3> QED BY <1>2, <3>1, <3>2
  <2> QED BY <1>6, <2>1, <2>2
<1>8. ASSUME NEW f \in Funcs, IgnoreArg(f) \/ StopIgnore(f) \/ Install(f) PROVE CopyInv'
  <2>1. f \notin Copying
    BY <1>8 DEF IgnoreArg, StopIgnore, Install, Copying
  <2>2. CASE IgnoreArg(f)
    BY <1>0, <1>2, <1>3, <2>1, <2>2, SetNewestEffect DEF IgnoreArg, Fail, SetNewest, runner
  <2>3. CASE StopIgnore(f)
    BY <1>0, <1>2, <2>1, <2>3 DEF StopIgnore, Told, runner
  <2>4. CASE Install(f)
    BY <1>0, <1>2, <2>1, <2>4 DEF Install, Told, runner
  <2> QED BY <1>8, <2>2, <2>3, <2>4
<1>9. ASSUME NEW f \in Funcs, ReturnThruPtr(f) PROVE CopyInv'
  <2>0. "ReturnThruPtr" \in Offers[f]
    BY <1>9 DEF ReturnThruPtr
  <2>1. ASSUME Queues(f), NEW v \in Outs, NEW r \in Rets,
               Chain(f, [Blank EXCEPT !.ret = r, !.out = v], TRUE),
               Told(f, [tale[f] EXCEPT !.plan = Append(@, PlannedLast(f)),
                                       !.meant = Append(@, v)]),
               UNCHANGED verdict
        PROVE  CopyInv'
    <3> DEFINE inst == [Blank EXCEPT !.ret = r, !.out = v]
               m == Append(tale[f].meant, v)
               p == Append(tale[f].plan, PlannedLast(f))
    <3>1. inst \in Instances /\ inst.out = v /\ v # NoOut
      BY MockAssumption DEF Instances, Blank
    <3>2. Chain(f, inst, TRUE)
      BY <2>1
    <3>3. tale' = [tale EXCEPT ![f] = [tale[f] EXCEPT !.plan = p, !.meant = m]]
      BY <2>1 DEF Told
    <3> HIDE DEF inst, p
    <3>4. /\ \A g \in Funcs \ {f} : mock'[g] = mock[g]
          /\ mock'[f].queue = Append(mock[f].queue, inst) /\ mock'[f].ignore = TRUE
      BY <1>0, <3>2, ChainEffect
    <3> HIDE DEF m
    <3>5. /\ tale'[f].meant = m /\ tale'[f].wrote = tale[f].wrote
          /\ \A g \in Funcs \ {f} : tale'[g] = tale[g]
      BY <1>0, <3>3 DEF Tales
    <3>6. ASSUME f \in Copying, verdict' # "failed" PROVE CopyReady(f, mock'[f], tale'[f])
      <4>1. Copies(mock[f].queue, tale[f].meant, tale[f].wrote)
        BY <1>0, <2>1, <3>6 DEF CopyReady
      <4>2. Copies(Append(mock[f].queue, inst), m, tale[f].wrote)
        BY <1>0, <3>1, <4>1, CopiesAppend DEF m
      <4> QED BY <2>0, <3>4, <3>5, <4>2 DEF CopyReady
    <3> QED BY <1>2, <2>1, <3>4, <3>5, <3>6
  <2>2. ASSUME ~Queues(f), HasOne(f), NEW v \in Outs,
               SetNewest(f, [Newest(f) EXCEPT !.out = v]),
               Told(f, [tale[f] EXCEPT !.meant = Append(@, v)])
        PROVE  CopyInv'
    <3> DEFINE inst == [Newest(f) EXCEPT !.out = v]
               m == Append(tale[f].meant, v)
               q == mock[f].queue
    <3>1. inst \in Instances /\ inst.out = v
      BY <1>0, <2>2, QueueFacts DEF Instances
    <3>2. SetNewest(f, inst) /\ UNCHANGED verdict
      BY <2>2 DEF SetNewest, runner
    <3>3. tale' = [tale EXCEPT ![f] = [tale[f] EXCEPT !.meant = m]]
      BY <2>2 DEF Told
    <3>4. q # <<>> /\ q \in Seq(Instances) /\ Newest(f) = q[Len(q)]
      BY <1>0, <2>2 DEF HasOne, Newest
    <3> HIDE DEF inst, q
    <3>5. /\ \A g \in Funcs \ {f} : mock'[g] = mock[g]
          /\ mock'[f].queue = [q EXCEPT ![Len(q)] = inst] /\ mock'[f].ignore = mock[f].ignore
      BY <1>0, <3>2, SetNewestEffect DEF q
    <3> HIDE DEF m
    <3>6. /\ tale'[f].meant = m /\ tale'[f].wrote = tale[f].wrote
          /\ \A g \in Funcs \ {f} : tale'[g] = tale[g]
      BY <1>0, <3>3 DEF Tales
    <3>7. ASSUME f \in Copying, verdict' # "failed" PROVE CopyReady(f, mock'[f], tale'[f])
      <4>1. Copies(q, tale[f].meant, tale[f].wrote) /\ mock[f].ignore
        BY <1>0, <3>2, <3>4, <3>7 DEF CopyReady, q
      <4>2. q[Len(q)].out = NoOut
        BY <2>2, <3>4, <4>1 DEF Queues
      <4>3. Copies([q EXCEPT ![Len(q)] = inst], m, tale[f].wrote)
        BY <1>0, <3>1, <3>4, <4>1, <4>2, CopiesNewest DEF m
      <4> QED BY <2>0, <3>5, <3>6, <4>1, <4>3 DEF CopyReady
    <3> QED BY <1>2, <3>2, <3>5, <3>6, <3>7
  <2>3. NewestReturns(f) \subseteq Rets
    BY <1>0, MockAssumption, QueueFacts DEF NewestReturns, RetsOf, Instances
  <2>4. CASE verdict' = "failed"
    BY <1>3, <2>4
  <2>5. CASE verdict' # "failed"
    <3>1. ~Fail(f, NULL, "misuse") /\ ~Fail(f, NULL, "memory")
      BY <2>5 DEF Fail
    <3> QED BY <1>9, <2>1, <2>2, <2>3, <3>1 DEF ReturnThruPtr, OutOfMemory, runner
  <2> QED BY <2>4, <2>5
\* What is asked of f leaves what is to be copied, or there is nothing to copy.
<1>10. ASSUME NEW f \in Funcs, "Ignore" \in Offers[f], NEW t,
              \A g \in Funcs \ {f} : mock'[g] = mock[g], UNCHANGED verdict,
              mock'[f].ignore, Told(f, t), t.meant = tale[f].meant, t.wrote = tale[f].wrote,
              f \in Copying /\ CopyReady(f, mock[f], tale[f]) =>
                Copies(mock'[f].queue, tale[f].meant, tale[f].wrote)
       PROVE  CopyInv'
  <2>1. tale'[f] = t /\ \A g \in Funcs \ {f} : tale'[g] = tale[g]
    BY <1>0, <1>10 DEF Told
  <2>2. ASSUME f \in Copying, verdict' # "failed" PROVE CopyReady(f, mock'[f], tale'[f])
    BY <1>0, <1>10, <2>1, <2>2 DEF CopyReady
  <2> QED BY <1>2, <1>10, <2>1, <2>2
<1>11. ASSUME NEW f \in Funcs, Ignore(f) PROVE CopyInv'
  <2> DEFINE t == [tale[f] EXCEPT !.latest = "ignore"]
  <2>1. /\ "Ignore" \in Offers[f] /\ Told(f, t) /\ UNCHANGED verdict
        /\ mock' = [mock EXCEPT ![f].ignore = TRUE]
    BY <1>11 DEF Ignore, runner
  <2>2. t.meant = tale[f].meant /\ t.wrote = tale[f].wrote
    BY <1>0 DEF Tales
  <2>3. /\ \A g \in Funcs \ {f} : mock'[g] = mock[g]
        /\ mock'[f].ignore /\ mock'[f].queue = mock[f].queue
    BY <1>0, <2>1 DEF Mocks
  <2> HIDE DEF t
  <2> QED BY <1>10, <2>1, <2>2, <2>3 DEF CopyReady
<1>12. ASSUME NEW f \in Funcs, IgnoreAndReturn(f) PROVE CopyInv'
  <2>1. ASSUME NEW r \in Rets, Chain(f, [Blank EXCEPT !.ret = r], TRUE), UNCHANGED verdict,
               Told(f, [tale[f] EXCEPT !.plan = Append(@, r), !.latest = "ignore"])
        PROVE  CopyInv'
    <3> DEFINE inst == [Blank EXCEPT !.ret = r]
               p == Append(tale[f].plan, r)
               t == [tale[f] EXCEPT !.plan = p, !.latest = "ignore"]
    <3>1. inst \in Instances /\ inst.out = NoOut
      BY MockAssumption DEF Instances, Blank
    <3>2. Chain(f, inst, TRUE) /\ Told(f, t) /\ "Ignore" \in Offers[f]
      BY <1>12, <2>1 DEF IgnoreAndReturn
    <3> HIDE DEF inst, p
    <3>3. t.meant = tale[f].meant /\ t.wrote = tale[f].wrote
      BY <1>0 DEF Tales
    <3>4. /\ \A g \in Funcs \ {f} : mock'[g] = mock[g]
          /\ mock'[f].queue = Append(mock[f].queue, inst) /\ mock'[f].ignore = TRUE
      BY <1>0, <3>2, ChainEffect
    <3> HIDE DEF t
    <3>5. ASSUME CopyReady(f, mock[f], tale[f])
          PROVE  Copies(mock'[f].queue, tale[f].meant, tale[f].wrote)
      BY <1>0, <3>1, <3>4, <3>5, CopiesAppend DEF CopyReady
    <3> QED BY <1>10, <2>1, <3>2, <3>3, <3>4, <3>5
  <2> QED BY <1>6, <1>12, <2>1 DEF IgnoreAndReturn, runner
<1>13. ASSUME NEW f \in Funcs, IgnoreStateless(f) PROVE CopyInv'
  <2>1. PICK r \in Rets :
          /\ mock' = Kept(f, r)
          /\ Told(f, [tale[f] EXCEPT !.plan = Append(Planned(f), r), !.latest = "ignore"])
    BY <1>13 DEF IgnoreStateless
  <2> DEFINE p == Append(Planned(f), r)
             t == [tale[f] EXCEPT !.plan = p, !.latest = "ignore"]
  <2>2. Told(f, t)
    BY <2>1
  <2> HIDE DEF p
  <2>3. t.meant = tale[f].meant /\ t.wrote = tale[f].wrote
    BY <1>0 DEF Tales
  <2> HIDE DEF t
  <2>4. /\ \A g \in Funcs \ {f} : mock'[g] = mock[g]
        /\ mock'[f].queue = <<>> /\ mock'[f].ignore
    BY <1>0, <2>1 DEF Kept, Mocks
  <2>5. ASSUME f \in Copying, CopyReady(f, mock[f], tale[f])
        PROVE  Copies(<<>>, tale[f].meant, tale[f].wrote)
    <3>1. "ReturnThruPtr" \notin Offers[f]
      BY <1>13, <2>5 DEF IgnoreStateless, CopySetting
    <3>2. tale[f].meant = <<>> /\ Copies(mock[f].queue, <<>>, tale[f].wrote)
      BY <2>5, <3>1 DEF CopyReady
    <3> QED BY <1>0, <3>2, CopiesNone
  <2>6. "Ignore" \in Offers[f] /\ UNCHANGED verdict
    BY <1>13 DEF IgnoreStateless, runner
  <2> QED BY <1>10, <2>2, <2>3, <2>4, <2>5, <2>6
<1>14. ASSUME NEW f \in Funcs, NEW a \in Args, CallIgnored(f, a) PROVE CopyInv'
  <2> DEFINE q == mock[f].queue
  <2>1. /\ \A g \in Funcs \ {f} : mock'[g] = mock[g] /\ tale'[g] = tale[g]
        /\ mock'[f].queue = Rest(q) /\ mock'[f].ignore = mock[f].ignore
        /\ tale'[f].meant = tale[f].meant
    BY <1>0, <1>14, PopEffect
  <2>2. /\ tale'[f].wrote = IF ~HasOne(f) \/ Oldest(f).out = NoOut THEN tale[f].wrote
                            ELSE Append(tale[f].wrote, Oldest(f).out)
        /\ UNCHANGED verdict /\ mock[f].ignore
    BY <1>0, <1>14, WroteEffect DEF CallIgnored, runner
  <2>3. ASSUME f \in Copying, verdict' # "failed" PROVE CopyReady(f, mock'[f], tale'[f])
    <3>1. CopyReady(f, mock[f], tale[f]) /\ Copies(q, tale[f].meant, tale[f].wrote)
      BY <1>0, <2>2, <2>3 DEF CopyReady
    <3>2. Copies(Rest(q), tale[f].meant, tale'[f].wrote)
      <4>1. CASE q = <<>>
        BY <2>2, <3>1, <4>1 DEF HasOne, Rest
      <4>2. CASE q # <<>>
        <5>1. Oldest(f) = q[1] /\ HasOne(f) /\ Rest(q) = Tail(q)
          BY <1>0, <4>2, QueueFacts DEF HasOne, Rest
        <5>2. tale'[f].wrote = IF q[1].out = NoOut THEN tale[f].wrote
                               ELSE Append(tale[f].wrote, q[1].out)
          BY <2>2, <5>1
        <5>3. q \in Seq(Instances) /\ tale[f].meant \in Seq(Outs) /\ tale[f].wrote \in Seq(Outs)
          BY <1>0
        <5> HIDE DEF q
        <5> QED BY <3>1, <4>2, <5>1, <5>2, <5>3, CopiesPop
      <4> QED BY <4>1, <4>2
    <3> QED BY <2>1, <2>2, <3>1, <3>2 DEF CopyReady
  <2> QED BY <1>2, <2>1, <2>2, <2>3
<1>15. ASSUME NEW f \in Funcs, NEW a \in Args, CallFails(f, a) PROVE CopyInv'
  BY <1>3, <1>15 DEF CallFails, Fail
\* The other calls are of functions with an expectation or a callback.
<1>16. ASSUME NEW f \in Funcs, NEW a \in Args,
              CallStubbed(f, a) \/ CallsBack(f, a) \/ CallReturns(f, a) \/ CallThrows(f, a)
       PROVE  CopyInv'
  <2>1. UNCHANGED verdict
    BY <1>16 DEF CallStubbed, CallsBack, Enter, CallReturns, CallThrows, runner
  <2>2. mock[f].callback \/ (HasOne(f) /\ ~mock[f].ignore)
    BY <1>16 DEF CallStubbed, Stubbed, CallsBack, CallReturns, CallThrows, Checked, Passes
  <2>3. ~(f \in Copying /\ verdict' # "failed")
    BY <1>0, <2>1, <2>2 DEF CopyReady, HasOne
  <2>4. \A g \in Funcs \ {f} : mock'[g] = mock[g] /\ tale'[g] = tale[g]
    BY <1>0, <1>16, PopEffect
  <2> QED BY <1>2, <2>1, <2>3, <2>4
<1>17. CASE CallbackReturns
  <2>1. UNCHANGED mock /\ stack # <<>>
    BY <1>17 DEF CallbackReturns
  <2>2. CASE verdict' = "failed"
    BY <1>3, <2>2
  <2>3. CASE verdict' # "failed"
    <3>1. PICK f \in Funcs : f = Frame.fn
      BY <1>0, <2>1, FrameType
    <3>2. f \notin Copying
      BY <1>0, <2>1, <3>1 DEF CopyInv, NoCallbacks, Frame, Typed, StackType
    <3>3. ~Fail(f, Frame.inst.arg, "null")
      BY <2>3 DEF Fail
    <3>4. UNCHANGED verdict /\ \E t : Told(f, t)
      BY <1>17, <3>1, <3>3 DEF CallbackReturns, runner
    <3>5. \A g \in Funcs \ {f} : tale'[g] = tale[g]
      BY <1>0, <3>4 DEF Told
    <3> QED BY <1>2, <2>1, <3>2, <3>4, <3>5
  <2> QED BY <2>2, <2>3
<1>18. CASE EndBody \/ Verify \/ StubReturns \/ CallbackThrows \/ UNCHANGED vars
  BY <1>4, <1>18 DEF EndBody, Verify, Fail, StubReturns, CallbackThrows, runner, vars
<1> QED
  BY <1>5, <1>7, <1>8, <1>9, <1>11, <1>12, <1>13, <1>14, <1>15, <1>16, <1>17, <1>18 DEF Next

\* Values to copy through the pointer of a function that is only ignored are
\* copied in the order they were given, none twice and none left out, unless
\* :ignore_stateless may clear them.
THEOREM CopiesRight == ASSUME CopySetting PROVE Spec => []CopiesInOrder
<1>1. Init => CopyInv
  <2> SUFFICES ASSUME Init PROVE CopyInv
    OBVIOUS
  <2>1. \A f \in Funcs : mock[f] = Cleared /\ tale[f] = Untold
    BY DEF Init, AllCleared, AllUntold
  <2>2. \A f \in Funcs : CopyReady(f, mock[f], tale[f])
    BY <2>1, StartsCopying
  <2>3. NoCallbacks
    BY <2>1 DEF Init, NoCallbacks, Copying, Cleared
  <2> QED BY <2>2, <2>3, InitTyped DEF CopyInv, Copying
<1>2. CopyInv /\ [Next]_vars => CopyInv'
  BY NextCopies
<1>3. CopyInv => CopiesInOrder
  <2> SUFFICES ASSUME CopyInv, NEW f \in Funcs, verdict # "failed", f \in Copying
               PROVE  /\ Len(tale[f].wrote) <= Len(tale[f].meant)
                      /\ tale[f].wrote = SubSeq(tale[f].meant, 1, Len(tale[f].wrote))
    BY DEF CopiesInOrder, Copying
  <2>1. tale[f].meant \in Seq(Outs) /\ tale[f].wrote \in Seq(Outs)
    BY DEF CopyInv, Typed, TaleType, Tales
  <2>2. /\ Len(tale[f].wrote) <= Len(tale[f].meant)
        /\ \A i \in 1 .. Len(tale[f].wrote) : tale[f].wrote[i] = tale[f].meant[i]
    BY DEF CopyInv, CopyReady, Copies
  <2> QED BY <2>1, <2>2, SubSeqProperties
<1> QED BY <1>1, <1>2, <1>3, PTL DEF Spec

=============================================================================
