SPECIFICATION Spec
CONSTANTS
    foo = foo
    bar = bar
    baz = baz
    Funcs <- JustFoo
    Void <- Nobody
    Offers <- ExpectStubOffers
    Ordered = FALSE
    Ignoring = "none"
    IncludeCount = TRUE
    FailOnUnexpected = TRUE
    Room = 3
    Dynamic = FALSE
    MaxSteps = 6
    MaxDepth = 1
    Args = {0, 1}
    Rets = {0, 5}
    Outs = {7}
INVARIANTS
    StubReplacesChecks
