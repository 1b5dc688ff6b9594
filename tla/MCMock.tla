------------------------------- MODULE MCMock -------------------------------
(***************************************************************************)
(* Small instances of MockRuntime: one to three mock functions and a test  *)
(* that makes some of the calls CMock offers for each of them.             *)
(***************************************************************************)
EXTENDS MockRuntime, TLC

CONSTANTS foo, bar, baz

JustFoo == {foo}
Nobody == {}

\* foo returns a value and bar does not; both are only ever expected.
OrderedFuncs == {foo, bar}
OrderedVoid == {bar}
OrderedOffers ==
    (foo :> {"Expect", "ExpectAndThrow", "IgnoreArg", "ReturnThruPtr", "AddCallback"}) @@
    (bar :> {"Expect", "ExpectAnyArgs"})

\* foo is expected, bar (void) is ignored, baz is expected, ignored or stubbed and
\* ignored no longer.
MixedFuncs == {foo, bar, baz}
MixedOffers ==
    (foo :> {"Expect"}) @@
    (bar :> {"Ignore", "ReturnThruPtr"}) @@
    (baz :> {"Expect", "Ignore", "StopIgnore", "Stub"})

\* foo is expected, then ignored, then expected again.
IgnoreStopOffers == (foo :> {"Expect", "Ignore", "StopIgnore"})

\* The divergences need two kinds of calls each.
ExpectCallbackOffers == (foo :> {"Expect", "AddCallback"})
ExpectStubOffers == (foo :> {"Expect", "Stub"})
=============================================================================
