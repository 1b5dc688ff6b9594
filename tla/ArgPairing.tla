----------------------------- MODULE ArgPairing -----------------------------
(***************************************************************************)
(* The end of parse_args (lib/cmock_header_parser.rb): which pointer       *)
(* argument of a function is an array whose size another argument gives.   *)
(* Every candidate for a size is compared with every pointer; one          *)
(* comparison is a step.  How alike two names are is an input.             *)
(***************************************************************************)
EXTENDS Naturals, FiniteSets

CONSTANTS
    N,          \* a function has this many arguments
    Scores      \* what array_size_name_affinity returns: 10, 7, 5 or 0

PairingAssumption == N \in Nat \ {0} /\ Scores \subseteq Nat /\ 0 \in Scores

Positions == 1 .. N
None == 0

VARIABLES
    shape,      \* "pointer" (or string), "size" (name and type fit) or "other"
    affinity,   \* array_size_name_affinity of a pointer and a size
    sizeIdx,    \* the candidate being paired
    ptrIdx,     \* the argument it is compared with next
    bestScore, bestPtr,
    sizeName,   \* :array_size_name of every argument, the size's position here
    sizeOrder,  \* :array_size_order
    isSize      \* :array_size?

inputs == <<shape, affinity>>
best == <<bestScore, bestPtr>>
pairing == <<sizeName, sizeOrder, isSize>>
apVars == <<shape, affinity, sizeIdx, ptrIdx, bestScore, bestPtr,
            sizeName, sizeOrder, isSize>>

Pointers == {k \in Positions : shape[k] = "pointer"}
Candidates == {k \in Positions : shape[k] = "size"}
Done == sizeIdx > N
Idle == Pointers = {} /\ Candidates = {}

Nowhere == [k \in Positions |-> None]
Unordered == [k \in Positions |-> "none"]
NoSize == [k \in Positions |-> FALSE]

Init ==
    /\ shape = [k \in Positions |-> "other"]
    /\ affinity = <<>>
    /\ sizeIdx = N + 1 /\ ptrIdx = 1
    /\ bestScore = 0 /\ bestPtr = None
    /\ sizeName = Nowhere /\ sizeOrder = Unordered /\ isSize = NoSize

\* parse_declaration of the next function: its arguments.
Begin ==
    /\ Done /\ Idle
    /\ shape' \in [Positions -> {"pointer", "size", "other"}]
    /\ affinity' \in [Pointers' -> [Candidates' -> Scores]]
    /\ sizeIdx' = 1
    /\ UNCHANGED <<ptrIdx, best, pairing>>

\* Its arguments are returned.
Return ==
    /\ Done /\ ~Idle
    /\ shape' = [k \in Positions |-> "other"]
    /\ affinity' = <<>>
    /\ sizeName' = Nowhere /\ sizeOrder' = Unordered /\ isSize' = NoSize
    /\ UNCHANGED <<sizeIdx, ptrIdx, best>>

\* The next size that may be paired starts with no pointer.
NextSize ==
    /\ sizeIdx' = sizeIdx + 1
    /\ ptrIdx' = 1
    /\ bestScore' = 0 /\ bestPtr' = None

Skip ==
    /\ ~Done
    /\ sizeIdx \notin Candidates
    /\ NextSize
    /\ UNCHANGED <<inputs, pairing>>

Adjacent(p, s) == p + 1 = s
Score(p, s) == affinity[p][s] + IF Adjacent(p, s) THEN 2 ELSE 0

\* Mutant: of two pointers with one score, the second wins.
CompareLast ==
    /\ sizeIdx \in Candidates
    /\ ptrIdx <= N
    /\ IF ptrIdx \in Pointers /\ Score(ptrIdx, sizeIdx) >= bestScore
          /\ Score(ptrIdx, sizeIdx) > 0
       THEN bestScore' = Score(ptrIdx, sizeIdx) /\ bestPtr' = ptrIdx
       ELSE UNCHANGED best
    /\ ptrIdx' = ptrIdx + 1
    /\ UNCHANGED <<inputs, sizeIdx, pairing>>

\* A pointer is looked at even if it is paired already: no argument ever gets
\* the flag :array_data? that would exclude it.
Compare ==
    /\ sizeIdx \in Candidates
    /\ ptrIdx <= N
    /\ IF ptrIdx \in Pointers /\ Score(ptrIdx, sizeIdx) > bestScore
       THEN bestScore' = Score(ptrIdx, sizeIdx) /\ bestPtr' = ptrIdx
       ELSE UNCHANGED best
    /\ ptrIdx' = ptrIdx + 1
    /\ UNCHANGED <<inputs, sizeIdx, pairing>>

Pair ==
    /\ sizeIdx \in Candidates
    /\ ptrIdx > N
    /\ IF bestPtr # None
       THEN /\ sizeName' = [sizeName EXCEPT ![bestPtr] = sizeIdx]
            /\ sizeOrder' = [sizeOrder EXCEPT ![bestPtr] =
                               IF sizeIdx < bestPtr THEN "before" ELSE "after"]
            /\ isSize' = [isSize EXCEPT ![sizeIdx] = TRUE]
       ELSE UNCHANGED pairing
    /\ NextSize
    /\ UNCHANGED inputs

Next == Begin \/ Skip \/ Compare \/ Pair \/ Return

Spec == Init /\ [][Next]_apVars

-----------------------------------------------------------------------------
(* Properties.                                                             *)

\* The first of the pointers whose score is highest, if any pointer scores.
BestPointers(s) ==
    {p \in Pointers :
        /\ Score(p, s) > 0
        /\ \A q \in Pointers :
             /\ Score(q, s) <= Score(p, s)
             /\ Score(q, s) = Score(p, s) => p <= q}

SizesFor(p) == {s \in Candidates : p \in BestPointers(s)}

\* In the end a pointer is paired exactly if it is the best pointer of a size,
\* and then with such a size, on the side where that argument really is.
PairsBest ==
    Done => \A p \in Pointers :
        /\ sizeName[p] = None <=> SizesFor(p) = {}
        /\ SizesFor(p) # {} => /\ sizeName[p] \in SizesFor(p)
                               /\ sizeOrder[p] = "before" <=> sizeName[p] < p

\* Of the sizes that have one best pointer, it is paired with one that scores
\* highest: "The highest-scoring pairing wins."
HighestScoreWins ==
    Done => \A p \in Pointers : sizeName[p] # None =>
        \A s \in SizesFor(p) : Score(p, s) <= Score(p, sizeName[p])
=============================================================================
