SPECIFICATION Spec
CONSTANTS
    foo = foo
    bar = bar
    baz = baz
    Funcs <- MixedFuncs
    Void <- OrderedVoid
    Offers <- MixedOffers
    Ordered = FALSE
    Ignoring = "ignore"
    IncludeCount = TRUE
    FailOnUnexpected = TRUE
    Room = 3
    Dynamic = FALSE
    MaxSteps = 6
    MaxDepth = 1
    Args = {0, 1}
    Rets = {0, 5}
    Outs = {7, 8}
INVARIANTS
    CopiesInOrder
PROPERTIES
    KeepsContract
    StubIsCalled
    AnswersBetweenIgnores

