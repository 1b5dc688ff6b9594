SPECIFICATION ParserSpec
CONSTANTS
    MaxNesting = 1
    MaxScopes = 1
    N = 3
    Scores = {0, 5, 10}
INVARIANTS
    HighestScoreWins
\* An exception ends the run.
CHECK_DEADLOCK FALSE
