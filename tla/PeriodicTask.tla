---------------------------- MODULE PeriodicTask ----------------------------
(***************************************************************************)
(* What a task of the scheduler promises, without its bookkeeping.  The    *)
(* clock is read now and then.  A task is due when the clock has entered   *)
(* another period since it was read last, and periods start at multiples   *)
(* of Period: being late never moves them.  Periods that pass between two  *)
(* reads make the task due once.  Only where the clock wraps may a period  *)
(* be cut short or run on, until the task is due the next time.            *)
(***************************************************************************)
EXTENDS Integers

CONSTANT Period

VARIABLES
    seen,       \* the clock when it was last read
    due,        \* the task is due
    aligned     \* the current period began at a multiple of Period

ptVars == <<seen, due, aligned>>

Window(t) == t - (t % Period)

Init ==
    /\ seen = 0
    /\ due = FALSE
    /\ aligned = TRUE

Read ==
    /\ seen' \in Nat
    /\ IF aligned /\ seen' >= seen
       THEN /\ due' = (due \/ Window(seen') # Window(seen))
            /\ aligned' = TRUE
       ELSE \/ due' = TRUE /\ aligned' = TRUE
            \/ due' = due /\ aligned' \in BOOLEAN

Take ==
    /\ due
    /\ due' = FALSE
    /\ UNCHANGED <<seen, aligned>>

Spec == Init /\ [][Read \/ Take]_ptVars
=============================================================================
