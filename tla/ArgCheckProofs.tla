--------------------------- MODULE ArgCheckProofs ---------------------------
(***************************************************************************)
(* Proof about ArgChecks: for any memory, any depths and every argument    *)
(* and configuration, a call passes if and only if its pointer points to   *)
(* what the test asked for.                                                *)
(***************************************************************************)
EXTENDS ArgChecks, TLAPS

\* What an instance keeps says what the test asked for: the depth is the
\* number of elements, or 0 if a whole string is compared.
KeepsAsked(i, a) ==
    /\ i.ptr = a.ptr /\ i.size = a.size
    /\ IF setup.arrays
       THEN /\ a.whole <=> IsString /\ i.depth = 0
            /\ ~a.whole => i.depth = a.depth
       ELSE a.depth = 1 /\ (a.whole <=> IsString)

ArgTypes ==
    /\ setup \in Setups
    /\ inst \in [ptr : Pointers, size : Depths, depth : Nat, ignored : BOOLEAN, set : BOOLEAN]
    /\ asked \in [ptr : Pointers, size : Depths, depth : Nat, whole : BOOLEAN]
    /\ verdict \in {"none", "passes", "mismatch", "crash"}

ArgInv ==
    /\ ArgTypes
    /\ IF inst.set THEN KeepsAsked(inst, asked) ELSE verdict = "none"
    /\ AcceptsAsPromised

-----------------------------------------------------------------------------
LEMMA SetupType ==
    ASSUME NEW s \in Setups
    PROVE  /\ s.kind \in {"typed", "scalar", "unknown", "void", "string", "fixed"}
           /\ s.order \in {"none", "before", "after"}
           /\ s.arrays \in BOOLEAN /\ s.zero \in BOOLEAN
           /\ s.handling \in {"compare_ptr", "compare_data", "smart"}
           /\ ~(s.arrays /\ s.handling = "compare_ptr")
  BY ArgAssumption

LEMMA RangeTypes ==
    /\ Depths \subseteq Nat /\ 0 \in Depths /\ 1 \in Depths
    /\ Pointers \subseteq Nat /\ NULL \in Pointers
  BY ArgAssumption, SMT DEF Depths, Pointers, NULL

-----------------------------------------------------------------------------
(* Comparisons.                                                            *)

\* To compare elements is what was promised, however many there are.
LEMMA ElementsPointToTheSame ==
    ASSUME NEW p, NEW q, NEW d
    PROVE  SameElements(p, q, d) <=> PointsToTheSame(p, q, d)
  BY Zenon DEF SameElements, PointsToTheSame

\* An array of at least one element.
LEMMA ArrayPointsToTheSame ==
    ASSUME NEW p, NEW q, NEW d \in Nat, d # 0
    PROVE  SameArray(p, q, d) <=> PointsToTheSame(p, q, d)
  BY ElementsPointToTheSame DEF SameArray

\* A pointer that is NULL is expected: only NULL equals it.
LEMMA NullEqualsNull ==
    ASSUME NEW q, NEW d
    PROVE  PointsToTheSame(NULL, q, d) <=> q = NULL
  BY DEF PointsToTheSame

\* Arrays, compared by :compare_data or :smart, with or without :array.
LEMMA ArraysAsPromised ==
    ASSUME ArgTypes, KeepsAsked(inst, asked), ~asked.whole, NEW q \in Pointers,
           setup.arrays => setup.handling # "compare_ptr"
    PROVE  ArrayMatches(inst, q) <=>
             IF asked.depth = 0
             THEN asked.ptr = q /\ (setup.handling = "smart" \/ setup.zero \/ q = NULL)
             ELSE PointsToTheSame(asked.ptr, q, asked.depth)
  <1>1. /\ inst.ptr = asked.ptr /\ asked.depth \in Nat
        /\ setup.arrays => inst.depth = asked.depth
        /\ ~setup.arrays => asked.depth = 1
        /\ setup.arrays \in BOOLEAN
    BY SetupType DEF KeepsAsked, ArgTypes
  <1>2. CASE asked.ptr = NULL
    <2>1. ArrayMatches(inst, q) <=> q = NULL
      BY <1>1, <1>2 DEF ArrayMatches
    <2> QED
      BY <1>2, <2>1, NullEqualsNull
  <1>3. CASE asked.ptr # NULL /\ ~setup.arrays
    <2>1. ArrayMatches(inst, q) <=> SameArray(asked.ptr, q, 1)
      BY <1>1, <1>3 DEF ArrayMatches
    <2> QED
      BY <1>1, <1>3, <2>1, ArrayPointsToTheSame
  <1>4. CASE asked.ptr # NULL /\ setup.arrays /\ asked.depth # 0
    <2>1. ArrayMatches(inst, q) <=> SameArray(asked.ptr, q, asked.depth)
      BY <1>1, <1>4 DEF ArrayMatches
    <2> QED
      BY <1>1, <1>4, <2>1, ArrayPointsToTheSame
  <1>5. CASE asked.ptr # NULL /\ setup.arrays /\ asked.depth = 0
    BY <1>1, <1>5 DEF ArrayMatches, SameArray, SamePointer
  <1> QED
    BY <1>1, <1>2, <1>3, <1>4, <1>5

\* Strings, as a whole or so many characters of them.
LEMMA StringsAsPromised ==
    ASSUME ArgTypes, KeepsAsked(inst, asked), IsString, NEW q \in Pointers
    PROVE  StringMatches(inst, q) <=>
             IF asked.whole THEN SameString(asked.ptr, q)
             ELSE PointsToTheSame(asked.ptr, q, asked.depth)
  BY ElementsPointToTheSame, SetupType DEF StringMatches, KeepsAsked, ArgTypes

-----------------------------------------------------------------------------
(* The check of a call.                                                    *)

\* The check that the generator has chosen accepts what was promised.
LEMMA MatchesAsPromised ==
    ASSUME ArgTypes, KeepsAsked(inst, asked), NEW q \in Pointers,
           Assertion = "element" => asked.depth = 1 /\ NULL \notin {asked.ptr, q}
    PROVE  Matches(inst, q) <=> Promised(q)
  <1>1. /\ setup.kind \in {"typed", "scalar", "unknown", "void", "string", "fixed"}
        /\ setup.arrays \in BOOLEAN /\ setup.zero \in BOOLEAN
        /\ setup.handling \in {"compare_ptr", "compare_data", "smart"}
        /\ setup.arrays => setup.handling # "compare_ptr"
    BY SetupType DEF ArgTypes
  <1>2. /\ inst.ptr = asked.ptr /\ asked.depth \in Nat
        /\ ~IsString => ~asked.whole
        /\ setup.arrays => (asked.whole <=> IsString /\ inst.depth = 0)
        /\ setup.arrays /\ ~asked.whole => inst.depth = asked.depth
        /\ ~setup.arrays => asked.depth = 1 /\ (asked.whole <=> IsString)
    BY <1>1 DEF KeepsAsked, ArgTypes
  <1>3. CASE Assertion = "string"
    <2>1. IsString
      BY <1>1, <1>3 DEF Assertion, IsString
    <2>2. Matches(inst, q) <=> StringMatches(inst, q)
      BY <1>3 DEF Matches
    <2>3. ~asked.whole => asked.depth # 0 /\ ~ComparesPointers
      BY <1>1, <1>2, <2>1 DEF ComparesPointers, IsString
    <2> QED
      BY <2>1, <2>2, <2>3, StringsAsPromised, Zenon DEF Promised
  <1>4. CASE Assertion = "ptr"
    <2>1. ~asked.whole /\ ComparesPointers
      BY <1>1, <1>2, <1>4 DEF Assertion, ComparesPointers, IsString
    <2> QED
      BY <1>2, <1>4, <2>1 DEF Matches, SamePointer, Promised
  <1>5. CASE Assertion \in {"array", "memory_array"}
    <2>1. ~asked.whole /\ ~ComparesPointers
      BY <1>1, <1>2, <1>5 DEF Assertion, ComparesPointers, IsString
    <2>2. Matches(inst, q) <=> ArrayMatches(inst, q)
      BY <1>5 DEF Matches
    <2> QED
      BY <1>1, <2>1, <2>2, ArraysAsPromised DEF Promised
  <1>6. CASE Assertion = "memory"
    <2>1. ~asked.whole /\ ~ComparesPointers /\ ~setup.arrays
      BY <1>1, <1>2, <1>6 DEF Assertion, ComparesPointers, IsString
    <2> QED
      BY <1>2, <1>6, <2>1, ElementsPointToTheSame DEF Matches, Promised
  <1>7. CASE Assertion = "element"
    <2>1. ~asked.whole /\ ~ComparesPointers
      BY <1>1, <1>2, <1>7 DEF Assertion, ComparesPointers, IsString
    <2>2. asked.depth = 1 /\ asked.ptr # NULL /\ q # NULL
      BY <1>7
    <2>3. asked.ptr + 0 = asked.ptr /\ q + 0 = q
      <3>1. asked.ptr \in Nat /\ q \in Nat
        BY RangeTypes DEF ArgTypes
      <3> QED
        BY <3>1, SMT
    <2>4. PointsToTheSame(asked.ptr, q, 1) <=> mem[asked.ptr] = mem[q]
      <3>1. 0 .. 1 - 1 = {0}
        BY SMT
      <3> QED
        BY <2>2, <2>3, <3>1, Zenon DEF PointsToTheSame
    <2>5. Matches(inst, q) <=> mem[asked.ptr] = mem[q]
      BY <1>2, <1>7 DEF Matches
    <2>6. Promised(q) <=> PointsToTheSame(asked.ptr, q, asked.depth)
      BY <2>1, <2>2 DEF Promised
    <2> QED
      BY <2>2, <2>4, <2>5, <2>6, Zenon
  <1> QED
    BY <1>1, <1>3, <1>4, <1>5, <1>6, <1>7 DEF Assertion

LEMMA InitArgs == Init => ArgInv
  <1> SUFFICES ASSUME Init PROVE ArgInv
    OBVIOUS
  <1> QED
    BY RangeTypes DEF Init, ArgInv, ArgTypes, NoInst, Nothing, AcceptsAsPromised

\* The three ways to set an expectation keep what was asked.
LEMMA ExpectStep ==
    ASSUME ArgInv, NEW p \in Pointers, NEW n \in Depths, Expect(p, n)
    PROVE  ArgInv'
  <1>1. /\ inst' = Loaded(p, PlainDepth(n), n)
        /\ verdict' = "none" /\ setup' = setup /\ setup \in Setups
    BY DEF Expect, Asked, ArgInv, ArgTypes
  <1>2. n \in Nat /\ 1 \in Nat /\ 0 \in Nat
    BY RangeTypes
  <1> DEFINE depth == IF setup.order \in {"before", "after"} THEN n ELSE IF IsString THEN 0 ELSE 1
             listed == setup.arrays /\ Paired
             count == IF listed THEN n ELSE 1
             whole == IF listed THEN IsString /\ n = 0 ELSE IsString
  <1>3. inst' = [ptr |-> p, size |-> n, depth |-> depth, ignored |-> FALSE, set |-> TRUE]
    BY <1>1 DEF Loaded, PlainDepth
  <1>4. asked' = [ptr |-> p, size |-> n, depth |-> count, whole |-> whole]
    BY DEF Expect, Asked
  <1>5. depth \in Nat /\ count \in Nat /\ whole \in BOOLEAN
    BY <1>2 DEF IsString
  <1>6. /\ setup.arrays => (whole <=> IsString /\ depth = 0)
        /\ setup.arrays /\ ~whole => depth = count
        /\ ~setup.arrays => count = 1 /\ (whole <=> IsString)
    BY <1>1, SetupType DEF Paired
  <1> HIDE DEF depth, count, whole
  <1>7. ArgTypes'
    BY <1>1, <1>3, <1>4, <1>5 DEF ArgTypes
  <1>8. KeepsAsked(inst, asked)'
    BY <1>1, <1>3, <1>4, <1>6 DEF KeepsAsked, IsString
  <1> QED
    BY <1>1, <1>3, <1>7, <1>8 DEF ArgInv, AcceptsAsPromised

LEMMA ExpectArrayStep ==
    ASSUME ArgInv, NEW p \in Pointers, NEW d \in Depths, NEW n \in Depths,
           ExpectWithArray(p, d, n) \/ ExpectWithArrayExtended(p, d, n)
    PROVE  ArgInv'
  <1>1. /\ WithArray(p, d, n) /\ Asked(p, d, n, IsString /\ d = 0) /\ setup.arrays
        /\ verdict' = "none" /\ setup' = setup /\ setup \in Setups
    BY DEF ExpectWithArray, ExpectWithArrayExtended, Asked, ArgInv, ArgTypes
  <1>2. d \in Nat /\ n \in Nat
    BY RangeTypes
  <1>3. inst' = [ptr |-> p, size |-> n, depth |-> d, ignored |-> FALSE, set |-> TRUE]
    BY <1>1 DEF WithArray, Loaded
  <1>4. asked' = [ptr |-> p, size |-> n, depth |-> d, whole |-> IsString /\ d = 0]
    BY <1>1 DEF Asked
  <1>5. (IsString /\ d = 0) \in BOOLEAN
    BY DEF IsString
  <1>6. ArgTypes'
    BY <1>1, <1>2, <1>3, <1>4, <1>5 DEF ArgTypes
  <1>7. KeepsAsked(inst, asked)'
    BY <1>1, <1>3, <1>4 DEF KeepsAsked, IsString
  <1> QED
    BY <1>1, <1>3, <1>6, <1>7 DEF ArgInv, AcceptsAsPromised

LEMMA CallStep ==
    ASSUME ArgInv, NEW q \in Pointers, NEW n \in Depths, Call(q, n)
    PROVE  ArgInv'
  <1>1. /\ ArgTypes /\ inst.set /\ KeepsAsked(inst, asked)
        /\ UNCHANGED <<setup, mem, inst, asked>>
        /\ given' = [ptr |-> q, size |-> n]
        /\ inst.size = asked.size /\ inst.ptr = asked.ptr
    BY DEF Call, ArgInv, KeepsAsked
  <1>2. verdict' \in {"none", "passes", "mismatch", "crash"}
    BY Zenon DEF Call
  <1>3. ArgTypes' /\ KeepsAsked(inst, asked)'
    BY <1>1, <1>2 DEF ArgTypes, KeepsAsked, IsString
  <1>4. ASSUME Assertion = "element" => asked.depth = 1 /\ NULL \notin {asked.ptr, q}
        PROVE  verdict' = "passes" <=> n = asked.size /\ (inst.ignored \/ Promised(q))
    <2>1. Matches(inst, q) <=> Promised(q)
      BY <1>1, <1>4, MatchesAsPromised
    <2>2. ~ReadsNull(inst, q)
      BY <1>1, <1>4 DEF ReadsNull
    <2>3. verdict' = IF n # inst.size /\ setup.order = "before" THEN "mismatch"
                     ELSE IF n = inst.size /\ (inst.ignored \/ Matches(inst, q)) THEN "passes"
                     ELSE "mismatch"
      BY <2>2 DEF Call
    <2> QED
      BY <1>1, <2>1, <2>3, Zenon
  <1>5. AcceptsAsPromised'
    <2> SUFFICES ASSUME WithinHelper'
                 PROVE  (verdict = "passes" <=>
                          given.size = asked.size /\ (inst.ignored \/ Promised(given.ptr)))'
      BY DEF AcceptsAsPromised
    <2>1. Assertion' = Assertion /\ asked' = asked /\ given'.ptr = q /\ given'.size = n
      BY <1>1 DEF Assertion, IsString
    <2>2. Assertion = "element" => asked.depth = 1 /\ NULL \notin {asked.ptr, q}
      BY <2>1 DEF WithinHelper
    <2>3. Promised(given.ptr)' <=> Promised(q)
      BY <1>1, <2>1 DEF Promised, SameString, ComparesPointers, PointsToTheSame
    <2> QED
      BY <1>1, <1>4, <2>1, <2>2, <2>3
  <1> QED
    BY <1>1, <1>3, <1>5 DEF ArgInv

LEMMA NextArgs == ASSUME ArgInv, [Next]_acVars PROVE ArgInv'
  <1>1. CASE Store \/ IgnoreArg
    BY <1>1 DEF Store, IgnoreArg, ArgInv, ArgTypes, KeepsAsked, IsString, AcceptsAsPromised
  <1>2. CASE UNCHANGED acVars
    BY <1>2 DEF acVars, ArgInv, ArgTypes, KeepsAsked, IsString, AcceptsAsPromised,
       WithinHelper, Assertion, Promised, SameString, ComparesPointers, PointsToTheSame
  <1> QED
    BY <1>1, <1>2, ExpectStep, ExpectArrayStep, CallStep DEF Next

\* For any memory, depths, argument and configuration: a call passes if and
\* only if its size is as expected and its pointer is ignored or points to what
\* the test asked for.
THEOREM ComparesRight == Spec => []AcceptsAsPromised
  <1>1. ArgInv => AcceptsAsPromised
    BY DEF ArgInv
  <1> QED
    BY InitArgs, NextArgs, <1>1, PTL DEF Spec
=============================================================================
