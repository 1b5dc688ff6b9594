---------------------------- MODULE MockContract ----------------------------
(***************************************************************************)
(* What CMock promises the author of a test about the functions the test   *)
(* only ever sets expectations on: a call is accepted if and only if it is *)
(* the next one expected, its answer is the one asked for, and the test    *)
(* passes if and only if every expectation was met.  No queues, no flags,  *)
(* no callbacks, no memory.                                                *)
(***************************************************************************)
EXTENDS Naturals, Sequences, FiniteSets

CONSTANTS
    Strict,     \* the functions the promise is about
    Args,       \* the arguments of calls and expectations; NULL is one
    NULL,
    Rets,       \* return values
    Outs,       \* values copied through a pointer argument; NoOut is none
    NoOut,
    Ordered     \* :enforce_strict_ordering

VARIABLES
    promised,   \* the expectations of the test, in the order they were set
    log,        \* the accepted calls, in the order they were made
    verdict,    \* "running", "passed" or "failed"
    offender    \* why and on which function the test failed

mcVars == <<promised, log, verdict, offender>>

Promises == [fn : Strict, arg : Args, unchecked : BOOLEAN, ret : Rets,
             out : Outs \cup {NoOut}, throws : BOOLEAN]

Of(f, s) == {i \in DOMAIN s : s[i].fn = f}
Count(f, s) == Cardinality(Of(f, s))

\* The expectation of f that has been waiting longest, if any waits.
NextOf(f) ==
    {i \in Of(f, promised) :
        Cardinality({j \in Of(f, promised) : j < i}) = Count(f, log)}
NewestOf(f) ==
    {i \in Of(f, promised) :
        /\ Count(f, promised) > Count(f, log)
        /\ \A j \in Of(f, promised) : j <= i}

Due(i) == Ordered => i = Len(log) + 1
Fits(p, a) == p.unchecked \/ p.arg = a
NeedsPointer(p, a) == ~p.throws /\ p.out # NoOut /\ a = NULL
Servable(f, a) ==
    \E i \in NextOf(f) :
        /\ Due(i)
        /\ Fits(promised[i], a)
        /\ ~NeedsPointer(promised[i], a)

Entry(f, a, state, ret, out) ==
    [fn |-> f, arg |-> a, state |-> state, ret |-> ret, out |-> out]

\* The answer expectation p asks for: an exception, or a return value and a
\* value copied through the pointer.
Answer(p, a, ret) ==
    IF p.throws THEN Entry(p.fn, a, "thrown", 0, NoOut)
    ELSE Entry(p.fn, a, "returned", ret, p.out)

Running == verdict = "running" /\ UNCHANGED <<verdict, offender>>

MCInit ==
    /\ promised = <<>>
    /\ log = <<>>
    /\ verdict = "running"
    /\ offender = [why |-> "nothing"]

Promise ==
    /\ Running
    /\ \E p \in Promises : promised' = Append(promised, p)
    /\ UNCHANGED log

\* The newest expectation of a function is loosened or gets a value to copy.
Amend(f) ==
    /\ Running
    /\ \E i \in NewestOf(f) :
         \/ promised' = [promised EXCEPT ![i].unchecked = TRUE]
         \/ \E v \in Outs : promised' = [promised EXCEPT ![i].out = v]
    /\ UNCHANGED log

\* An exception abandons callbacks in progress.
Open == {i \in DOMAIN log : log[i].state = "open"}
Abandoned(K) ==
    [i \in DOMAIN log |->
        IF i \in K THEN [log[i] EXCEPT !.state = "lost"] ELSE log[i]]

\* A call is accepted and answered at once, or its answer waits for a callback.
Serve(f, a) ==
    /\ Running
    /\ \E i \in NextOf(f) :
         /\ Due(i) /\ Fits(promised[i], a)
         /\ \/ /\ Servable(f, a)
               /\ IF promised[i].throws
                  THEN \E K \in SUBSET Open :
                         log' = Append(Abandoned(K), Answer(promised[i], a, 0))
                  ELSE log' = Append(log, Answer(promised[i], a, promised[i].ret))
            \/ log' = Append(log, Entry(f, a, "open", 0, NoOut))
    /\ UNCHANGED promised

\* The promise the i-th accepted call was made on.
PromiseOf(i) ==
    LET f == log[i].fn IN
    CHOOSE j \in Of(f, promised) :
        Cardinality({k \in Of(f, promised) : k < j}) =
        Cardinality({k \in Of(f, log) : k < i})

\* A callback returns; what it returns is the answer.
CallBack(i) ==
    LET p == promised[PromiseOf(i)] IN
    /\ Running
    /\ ~NeedsPointer(p, log[i].arg)
    /\ \E r \in Rets, K \in SUBSET (Open \ {i}) :
         /\ K # {} => p.throws
         /\ log' = [Abandoned(K) EXCEPT ![i] = Answer(p, log[i].arg, r)]
    /\ UNCHANGED promised

\* A callback is left by an exception.
Abandon ==
    /\ Running
    /\ \E K \in SUBSET Open : log' = Abandoned(K)
    /\ UNCHANGED promised

\* The test fails for a call nobody promised to accept, for an expectation
\* that was not met, or for a mistake of its own.
Refuse ==
    /\ verdict = "running" /\ verdict' = "failed"
    /\ \/ /\ offender'.why \in {"more", "early", "late", "mismatch", "null"}
          /\ offender'.fn \in Strict =>
               \/ ~Servable(offender'.fn, offender'.arg)
               \/ \E i \in Open :
                    /\ log[i].fn = offender'.fn
                    /\ NeedsPointer(promised[PromiseOf(i)], log[i].arg)
       \/ /\ offender'.why = "less"
          /\ offender'.fn \in Strict => NewestOf(offender'.fn) # {}
       \/ offender'.why \in {"memory", "misuse"}
    /\ UNCHANGED <<promised, log>>

Pass ==
    /\ verdict = "running" /\ verdict' = "passed"
    /\ \A f \in Strict : Count(f, promised) = Count(f, log)
    /\ Open = {}
    /\ UNCHANGED <<promised, log, offender>>

NewTest ==
    /\ promised' = <<>>
    /\ log' = <<>>
    /\ verdict' = "running"
    /\ offender' = [why |-> "nothing"]

MCNext ==
    \/ Promise \/ Abandon \/ Refuse \/ Pass \/ NewTest
    \/ \E f \in Strict : Amend(f) \/ \E a \in Args : Serve(f, a)
    \/ \E i \in Open : CallBack(i)

MCSpec == MCInit /\ [][MCNext]_mcVars
=============================================================================
