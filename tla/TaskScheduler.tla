--------------------------- MODULE TaskScheduler ---------------------------
(***************************************************************************)
(* The scheduler of examples/temp_sensor/src/TaskScheduler.c: two tasks,   *)
(* each due again when its period has passed, on a clock that wraps.       *)
(***************************************************************************)
EXTENDS Integers

CONSTANTS
    TimeRange,      \* 2^32: the values of a uint32
    UsartPeriod,    \* 1000
    AdcPeriod       \* 100

ASSUME PeriodsAssumption ==
    /\ TimeRange \in Nat \ {0}
    /\ UsartPeriod \in 1 .. TimeRange
    /\ AdcPeriod \in 1 .. TimeRange

Names == {"usart", "adc"}
Period == [k \in Names |-> IF k = "usart" THEN UsartPeriod ELSE AdcPeriod]
Times == 0 .. TimeRange - 1
Tasks == [doIt : BOOLEAN, startTime : Times]

TaskScheduler_Init == [k \in Names |-> [doIt |-> FALSE, startTime |-> 0]]

\* The difference of two uint32.
Elapsed(time, since) == IF time >= since THEN time - since ELSE time + TimeRange - since

\* Mutant: a task starts its next period when it is seen to be due.
UpdatedLate(task, period, time) ==
    IF Elapsed(time, task.startTime) >= period
    THEN [doIt |-> TRUE, startTime |-> time]
    ELSE task
\* Mutant: a period must be exceeded.
UpdatedAfter(task, period, time) ==
    IF Elapsed(time, task.startTime) > period
    THEN [doIt |-> TRUE, startTime |-> time - (time % period)]
    ELSE task

Updated(task, period, time) ==
    IF Elapsed(time, task.startTime) >= period
    THEN [doIt |-> TRUE, startTime |-> time - (time % period)]
    ELSE task

TaskScheduler_Update(tasks, time) ==
    [k \in Names |-> Updated(tasks[k], Period[k], time)]

\* TaskScheduler_DoUsart and TaskScheduler_DoAdc answer doIt and take it.
Taken(tasks, k) == [tasks EXCEPT ![k].doIt = FALSE]
=============================================================================
