----------------------------- MODULE ArgChecks ------------------------------
(***************************************************************************)
(* How a mock compares a pointer argument (lib/cmock_generator_utils.rb,   *)
(* the plugin :array and the lookup of lib/cmock_unityhelper_parser.rb).   *)
(* An expectation keeps the pointer, not what it points to: both sides are *)
(* read when the mock is called.  The function has a pointer argument and  *)
(* a number, which may be paired as its size (ArgPairing).                 *)
(*                                                                         *)
(* setup, fixed for a behaviour, is the argument and the configuration:    *)
(*   kind      "typed": Unity or a helper can compare arrays of it         *)
(*             "scalar": a helper can compare one element of it only       *)
(*             "unknown": raw memory; "void"; "string"; "fixed": an array *)
(*   order     the size comes "before" or "after" the pointer; or "none"   *)
(*   arrays    the plugin :array is in use                                 *)
(*   handling  :when_ptr, "compare_ptr", "compare_data" or "smart"         *)
(*   zero      UNITY_COMPARE_PTRS_ON_ZERO_ARRAY is defined                 *)
(***************************************************************************)
EXTENDS Naturals, Sequences

CONSTANTS
    Setups,     \* the arguments and configurations
    MemLength,  \* bytes of memory
    MaxDepth    \* bound: elements compared

NULL == 0
Terminator == 0

ASSUME ArgAssumption ==
    /\ Setups \subseteq
         [kind : {"typed", "scalar", "unknown", "void", "string", "fixed"},
          order : {"none", "before", "after"}, arrays : BOOLEAN,
          handling : {"compare_ptr", "compare_data", "smart"}, zero : BOOLEAN]
    /\ \A s \in Setups :    \* the generator raises an error
         ~(s.arrays /\ s.handling = "compare_ptr")
    /\ {MemLength, MaxDepth} \subseteq Nat /\ 0 < MaxDepth /\ MaxDepth < MemLength

VARIABLES
    setup,
    mem,        \* what the test and the code under test keep in memory
    inst,       \* the call instance, or NoInst
    verdict,    \* of the last call: "none", "passes", "mismatch" or "crash"
    given,      \* history: the arguments of the last call
    asked       \* history: what the test asked for

acVars == <<setup, mem, inst, verdict, given, asked>>

Depths == 0 .. MaxDepth
Pointers == {NULL} \cup 1 .. MemLength - MaxDepth
NoInst == [ptr |-> NULL, size |-> 0, depth |-> 0, ignored |-> FALSE, set |-> FALSE]
Nothing == [ptr |-> NULL, size |-> 0, depth |-> 0, whole |-> FALSE]

Init ==
    /\ setup \in Setups
    /\ mem = [a \in 1 .. MemLength |-> Terminator]
    /\ inst = NoInst
    /\ verdict = "none"
    /\ given = [ptr |-> NULL, size |-> 0]
    /\ asked = Nothing

\* Memory changes at any time; the last byte ends every string.
Store ==
    /\ \E a \in 1 .. MemLength - 1, v \in 0 .. 1 : mem' = [mem EXCEPT ![a] = v]
    /\ verdict' = "none"
    /\ UNCHANGED <<setup, inst, given, asked>>

-----------------------------------------------------------------------------
(* Expectations.                                                           *)

Paired == setup.order # "none"
IsString == setup.kind = "string"

\* CMockExpectParameters_<f>: a pointer whose size comes first has no depth of
\* its own, and the size is its depth.
Loaded(p, d, n) ==
    [ptr |-> p, size |-> n, depth |-> IF setup.order = "before" THEN n ELSE d,
     ignored |-> FALSE, set |-> TRUE]

\* The depth <f>_Expect passes on.
PlainDepth(n) ==
    IF setup.order = "after" THEN n
    ELSE IF IsString THEN 0 ELSE 1

Asked(p, d, n, whole) ==
    /\ asked' = [ptr |-> p, size |-> n, depth |-> d, whole |-> whole]
    /\ verdict' = "none"
    /\ UNCHANGED <<setup, mem, given>>

\* <f>_Expect: without the plugin :array there are no depths, one element is
\* compared and all of a string.
Expect(p, n) ==
    /\ inst' = Loaded(p, PlainDepth(n), n)
    /\ IF setup.arrays /\ Paired
       THEN Asked(p, n, n, IsString /\ n = 0)
       ELSE Asked(p, 1, n, IsString)

\* Mutant: the depth is not set again.
WithArrayLoaded(p, d, n) == inst' = Loaded(p, d, n)

\* <f>_CMockExpectWithArray: after the loader, the depth of a pointer whose
\* size comes first is set again.
WithArray(p, d, n) ==
    inst' = IF setup.order = "before" THEN [Loaded(p, d, n) EXCEPT !.depth = d]
            ELSE Loaded(p, d, n)

\* <f>_ExpectWithArray takes no depth for a pointer that is paired,
\* <f>_ExpectWithArrayExtended exists for functions that have such a pointer.
ExpectWithArray(p, d, n) ==
    /\ setup.arrays
    /\ Paired => d = n
    /\ WithArray(p, d, n)
    /\ Asked(p, d, n, IsString /\ d = 0)

ExpectWithArrayExtended(p, d, n) ==
    /\ setup.arrays /\ Paired
    /\ WithArray(p, d, n)
    /\ Asked(p, d, n, IsString /\ d = 0)

IgnoreArg ==
    /\ inst.set
    /\ inst' = [inst EXCEPT !.ignored = TRUE]
    /\ verdict' = "none"
    /\ UNCHANGED <<setup, mem, given, asked>>

-----------------------------------------------------------------------------
(* Unity's comparisons.                                                    *)

SamePointer(p, q) == p = q
SameElements(p, q, n) ==
    \/ p = q
    \/ p # NULL /\ q # NULL /\ \A k \in 0 .. n - 1 : mem[p + k] = mem[q + k]
\* An array of no elements fails, or its address is compared.
SameArray(p, q, n) ==
    IF n = 0 THEN setup.zero /\ SamePointer(p, q) ELSE SameElements(p, q, n)
SameString(p, q) ==
    \/ p = q
    \/ p # NULL /\ q # NULL /\ \E n \in 0 .. MemLength :
         /\ {p + n, q + n} \subseteq 1 .. MemLength
         /\ mem[p + n] = Terminator /\ mem[q + n] = Terminator
         /\ \A k \in 0 .. n - 1 : mem[p + k] = mem[q + k]

-----------------------------------------------------------------------------
(* Checks.                                                                 *)

\* lookup_expect_type and get_helper: which assertion fits the argument.  Only
\* "element" is not given the pointers but what they point to.
Assertion ==
    IF setup.kind = "fixed" THEN "memory_array"
    ELSE IF IsString THEN "string"
    ELSE IF setup.handling = "compare_ptr" THEN "ptr"
    ELSE IF setup.kind = "void" THEN IF setup.arrays THEN "array" ELSE "ptr"
    ELSE IF setup.kind = "typed" THEN "array"
    ELSE IF setup.kind = "scalar" THEN "element"
    ELSE IF setup.arrays THEN "memory_array" ELSE "memory"

\* code_verify_an_arg_expectation_with_no_arrays, _normal_arrays (:compare_data)
\* and _smart_arrays (:smart).
ArrayMatches(e, q) ==
    IF e.ptr = NULL THEN q = NULL
    ELSE IF ~setup.arrays THEN SameArray(e.ptr, q, 1)
    ELSE IF setup.handling = "smart" /\ e.depth = 0 THEN SamePointer(e.ptr, q)
    ELSE SameArray(e.ptr, q, e.depth)

StringMatches(e, q) ==
    IF setup.arrays /\ e.depth # 0 THEN SameElements(e.ptr, q, e.depth)
    ELSE SameString(e.ptr, q)

Matches(e, q) ==
    \/ Assertion = "memory" /\ SameElements(e.ptr, q, 1)
    \/ Assertion \in {"array", "memory_array"} /\ ArrayMatches(e, q)
    \/ Assertion = "string" /\ StringMatches(e, q)
    \/ Assertion = "ptr" /\ SamePointer(e.ptr, q)
    \/ Assertion = "element" /\ mem[e.ptr] = mem[q]

ReadsNull(e, q) == ~e.ignored /\ Assertion = "element" /\ NULL \in {e.ptr, q}

\* The mock is called.  Arguments are checked from the first to the last.
Call(q, n) ==
    LET badSize == n # inst.size IN
    /\ inst.set
    /\ verdict' =
         IF badSize /\ setup.order = "before" THEN "mismatch"
         ELSE IF ReadsNull(inst, q) THEN "crash"
         ELSE IF ~badSize /\ (inst.ignored \/ Matches(inst, q)) THEN "passes"
         ELSE "mismatch"
    /\ given' = [ptr |-> q, size |-> n]
    /\ UNCHANGED <<setup, mem, inst, asked>>

Next ==
    \/ Store \/ IgnoreArg
    \/ \E p \in Pointers, n \in Depths :
         \/ Expect(p, n) \/ Call(p, n)
         \/ \E d \in Depths : ExpectWithArray(p, d, n) \/ ExpectWithArrayExtended(p, d, n)

Spec == Init /\ [][Next]_acVars

-----------------------------------------------------------------------------
(* Properties.                                                             *)

\* What the documentation promises about a pointer that is not ignored.  NULL
\* equals NULL only.
PointsToTheSame(p, q, d) ==
    \/ p = NULL /\ q = NULL
    \/ p # NULL /\ q # NULL /\ \A k \in 0 .. d - 1 : mem[p + k] = mem[q + k]

ComparesPointers ==
    \/ setup.handling = "compare_ptr" /\ setup.kind # "fixed"
    \/ setup.kind = "void" /\ ~setup.arrays

Promised(q) ==
    \/ asked.whole /\ SameString(asked.ptr, q)
    \/ /\ ~asked.whole
       /\ IF ComparesPointers THEN asked.ptr = q
          ELSE IF asked.depth = 0
          THEN asked.ptr = q /\ (setup.handling = "smart" \/ setup.zero \/ q = NULL)
          ELSE PointsToTheSame(asked.ptr, q, asked.depth)

\* What a helper for single elements can do: compare one, and not behind NULL.
WithinHelper ==
    Assertion = "element" => asked.depth = 1 /\ NULL \notin {asked.ptr, given.ptr}

\* A call passes if and only if its size is the one expected and its pointer
\* is ignored or points to what is in memory behind the expected one at the
\* time of the call: all the elements asked for, whichever of the three ways
\* to ask was used and whichever side the size is on.  A helper for single
\* elements is out of it unless one element is asked for.
AcceptsAsPromised ==
    verdict # "none" /\ WithinHelper =>
        (verdict = "passes" <=>
            given.size = asked.size /\ (inst.ignored \/ Promised(given.ptr)))
=============================================================================
