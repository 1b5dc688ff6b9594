SPECIFICATION Spec
CONSTANTS
    foo = foo
    bar = bar
    baz = baz
    Funcs <- JustFoo
    Void <- Nobody
    Offers <- ExpectCallbackOffers
    Ordered = FALSE
    Ignoring = "none"
    IncludeCount = TRUE
    FailOnUnexpected = TRUE
    Room = 1
    Dynamic = TRUE
    MaxSteps = 6
    MaxDepth = 1
    Args = {0, 1}
    Rets = {0, 5}
    Outs = {7}
INVARIANTS
    AnswersAsSpecified
