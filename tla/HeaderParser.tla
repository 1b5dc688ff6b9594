---------------------------- MODULE HeaderParser ----------------------------
(***************************************************************************)
(* parse (lib/cmock_header_parser.rb) on one header after the other: the   *)
(* passes over the text, then the declarations that were found.  Each pass *)
(* is a module; what a pass hands to the next is text, of which the next   *)
(* may find anything.                                                      *)
(***************************************************************************)
EXTENDS DisabledCode

CONSTANTS MaxScopes, N, Scores

VARIABLES
    pass,       \* "conditionals", "scopes" or "declarations"
    ns, pub, labels, found, scopes, begun, exotic, wanted,
    shape, affinity, sizeIdx, ptrIdx, bestScore, bestPtr, sizeName, sizeOrder, isSize

scopeVars == <<ns, pub, labels, found, scopes, begun, exotic, wanted>>
pairVars == <<shape, affinity, sizeIdx, ptrIdx, bestScore, bestPtr, sizeName, sizeOrder, isSize>>

Cpp == INSTANCE CppScopes
Args == INSTANCE ArgPairing

ASSUME ParserAssumption == MaxScopes \in Nat /\ Args!PairingAssumption

ParserInit ==
    /\ pass = "conditionals"
    /\ Init
    /\ Cpp!Init
    /\ Args!Init

\* A pass ends with the text: the next header finds its variables anew.
Ends(now, next) == pass = now /\ pass' = next

Conditionals ==
    /\ pass = "conditionals" /\ Next
    /\ UNCHANGED <<pass, scopeVars, pairVars>>

ConditionalsEnd ==
    /\ Ends("conditionals", "scopes")
    /\ emit' = TRUE /\ stack' = <<>> /\ line' = "directive" /\ open' = <<>>
    /\ UNCHANGED <<scopeVars, pairVars>>

Scopes ==
    /\ pass = "scopes" /\ Cpp!Next
    /\ UNCHANGED <<pass, dcVars, pairVars>>

\* An exception ends the run of CMock.
ScopesEnd ==
    /\ Ends("scopes", "declarations")
    /\ Cpp!Anew
    /\ UNCHANGED <<dcVars, pairVars>>

Declarations ==
    /\ pass = "declarations" /\ Args!Next
    /\ UNCHANGED <<pass, dcVars, scopeVars>>

DeclarationsEnd ==
    /\ Ends("declarations", "conditionals")
    /\ Args!Done /\ Args!Idle
    /\ UNCHANGED <<dcVars, scopeVars, pairVars>>

ParserNext ==
    \/ Conditionals \/ ConditionalsEnd
    \/ Scopes \/ ScopesEnd
    \/ Declarations \/ DeclarationsEnd

ParserSpec == ParserInit /\ [][ParserNext]_<<pass, dcVars, scopeVars, pairVars>>

-----------------------------------------------------------------------------
\* Public static functions are mocked under their scopes (see CppScopes).
FunctionsInScope == Cpp!FunctionsInScope

\* A pointer gets a size that it is the best pointer of (see ArgPairing).
PairsBest == Args!PairsBest

\* The size that scores highest wins (see ArgPairing).
HighestScoreWins == Args!HighestScoreWins
=============================================================================
