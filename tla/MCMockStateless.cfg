SPECIFICATION Spec
CONSTANTS
    foo = foo
    bar = bar
    baz = baz
    Funcs <- JustFoo
    Void <- Nobody
    Offers <- IgnoreStopOffers
    Ordered = FALSE
    Ignoring = "stateless"
    IncludeCount = TRUE
    FailOnUnexpected = TRUE
    Room = 3
    Dynamic = FALSE
    MaxSteps = 7
    MaxDepth = 0
    Args = {0, 1}
    Rets = {0, 5, 6}
    Outs = {7}
INVARIANTS
    AnswersAsSpecified
    IgnoreClearsExpects
