SPECIFICATION Spec
CONSTANTS
    foo = foo
    bar = bar
    baz = baz
    Funcs <- OrderedFuncs
    Void <- OrderedVoid
    Offers <- OrderedOffers
    Ordered = TRUE
    Ignoring = "none"
    IncludeCount = TRUE
    FailOnUnexpected = TRUE
    Room = 3
    Dynamic = FALSE
    MaxSteps = 6
    MaxDepth = 2
    Args = {0, 1}
    Rets = {0, 5}
    Outs = {7}
INVARIANTS
    TypeOK
    CountsCallbacks
    AnswersAsSpecified
PROPERTIES
    KeepsContract
    EarlyMeansSkipped
