SPECIFICATION ParserSpec
CONSTANTS
    MaxNesting = 3
    MaxScopes = 3
    N = 4
    Scores = {0, 5, 7}
INVARIANTS
    KeepsWhatMayCompile
    FunctionsInScope
    PairsBest
\* An exception ends the run.
CHECK_DEADLOCK FALSE
