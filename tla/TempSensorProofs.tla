-------------------------- MODULE TempSensorProofs --------------------------
(***************************************************************************)
(* Proofs about TempSensor: for any clock, any two periods and any tick,   *)
(* the tasks stay on schedule and implement PeriodicTask; every count of   *)
(* the converter is read right; the memory map puts every register where   *)
(* the list of addresses says; and after the boot, step by step, the clock *)
(* is exact, the samples are the program's own, the registers mean what    *)
(* the comments say and the interrupt finds its handler.                   *)
(***************************************************************************)
EXTENDS TempSensor, TLAPS

-----------------------------------------------------------------------------
(* Remainders.                                                             *)

LEMMA RemainderInRange ==
    ASSUME NEW t \in Nat, NEW P \in Nat \ {0}
    PROVE  t % P \in 0 .. P - 1
  BY SMT

LEMMA MultipleHasNone ==
    ASSUME NEW q \in Nat, NEW P \in Nat \ {0}
    PROVE  (P * q) % P = 0
  BY SMT

\* The window a time is in begins at a multiple of the period.
LEMMA WindowStart ==
    ASSUME NEW t \in Nat, NEW P \in Nat \ {0}
    PROVE  /\ (t - (t % P)) % P = 0
           /\ t - (t % P) \in 0 .. t
           /\ t - (t - (t % P)) < P
  <1> DEFINE q == t \div P
             r == t % P
  <1>1. q \in Nat /\ r \in 0 .. P - 1 /\ t = P * q + r
    BY SMT
  <1>2. P * q \in Nat
    BY <1>1, SMT
  <1>3. t - r = P * q
    BY <1>1, <1>2, SMT
  <1>4. (t - r) % P = 0
    BY <1>1, <1>3, MultipleHasNone
  <1>5. r <= t
    BY <1>1, <1>2, SMT
  <1> QED
    BY <1>1, <1>4, <1>5, SMT

\* A multiple of the period that is less than a period ago is that window.
LEMMA WindowOf ==
    ASSUME NEW t \in Nat, NEW s \in Nat, NEW P \in Nat \ {0},
           s % P = 0, s <= t, t < s + P
    PROVE  t - (t % P) = s
  BY SMT

-----------------------------------------------------------------------------
(* One update of a task.                                                   *)

LEMMA PeriodsType ==
    /\ TimeRange \in Nat \ {0}
    /\ \A k \in Names : Period[k] \in Nat \ {0} /\ Period[k] <= TimeRange
  BY PeriodsAssumption, SMT DEF Names, Period

LEMMA UpdatedOnSchedule ==
    ASSUME NEW task \in Tasks, NEW P \in Nat \ {0}, P <= TimeRange,
           NEW time \in Times, task.startTime % P = 0
    PROVE  LET new == Updated(task, P, time) IN
           /\ new \in Tasks
           /\ new.startTime % P = 0
           /\ Elapsed(time, new.startTime) < P
  <1> DEFINE w == time - (time % P)
  <1>0. time \in Nat /\ task.startTime \in Times /\ task.doIt \in BOOLEAN
    BY DEF Times, Tasks
  <1>1. CASE Elapsed(time, task.startTime) >= P
    <2>1. w % P = 0 /\ w \in 0 .. time /\ time - w < P
      BY <1>0, WindowStart, Zenon
    <2>2. Updated(task, P, time) = [doIt |-> TRUE, startTime |-> w]
      BY <1>1 DEF Updated
    <2>3. w \in Times
      BY <2>1, PeriodsAssumption, SMT DEF Times
    <2>4. Elapsed(time, w) = time - w
      BY <2>1, <1>0, SMT DEF Elapsed
    <2> HIDE DEF w
    <2> QED
      BY <2>1, <2>2, <2>3, <2>4 DEF Tasks
  <1>2. CASE ~(Elapsed(time, task.startTime) >= P)
    <2>1. Updated(task, P, time) = task
      BY <1>2 DEF Updated
    <2>2. Elapsed(time, task.startTime) \in Int
      BY <1>0, PeriodsAssumption, SMT DEF Elapsed, Times
    <2>3. Elapsed(time, task.startTime) < P
      BY <1>2, <2>2, SMT
    <2> QED
      BY <2>1, <2>3
  <1> QED
    BY <1>1, <1>2

\* The update makes a task due, or leaves it alone because its window goes on.
LEMMA UpdatedIsRead ==
    ASSUME NEW task \in Tasks, NEW P \in Nat \ {0}, NEW last0 \in Times, NEW time \in Times,
           task.startTime % P = 0, Elapsed(last0, task.startTime) < P
    PROVE  LET new == Updated(task, P, time)
               Win(t) == t - (t % P)
           IN
           \/ /\ new.doIt = TRUE
              /\ new.startTime <= time
              /\ task.startTime <= last0 /\ last0 <= time => Win(time) # Win(last0)
           \/ /\ new = task
              /\ task.startTime <= last0 /\ last0 <= time =>
                    Win(time) = Win(last0) /\ task.startTime <= time
  <1> DEFINE s == task.startTime
             w == time - (time % P)
  <1>0. time \in Nat /\ last0 \in Nat /\ s \in Nat
    BY DEF Times, Tasks
  <1>1. ASSUME s <= last0
        PROVE  last0 - (last0 % P) = s
    <2>1. last0 < s + P
      BY <1>0, <1>1, SMT DEF Elapsed
    <2> QED
      BY <1>0, <1>1, <2>1, WindowOf
  <1>2. CASE Elapsed(time, s) >= P
    <2>1. w \in 0 .. time /\ time - w < P
      BY <1>0, WindowStart, Zenon
    <2>2. Updated(task, P, time) = [doIt |-> TRUE, startTime |-> w]
      BY <1>2 DEF Updated
    <2>3. ASSUME s <= last0, last0 <= time
          PROVE  w # s
      BY <1>0, <1>2, <2>1, <2>3, SMT DEF Elapsed
    <2> HIDE DEF w
    <2>4. s <= last0 /\ last0 <= time => w # last0 - (last0 % P)
      BY <1>1, <2>3
    <2> QED
      BY <1>0, <2>1, <2>2, <2>4, SMT DEF w
  <1>3. CASE ~(Elapsed(time, s) >= P)
    <2>1. Updated(task, P, time) = task
      BY <1>3 DEF Updated
    <2>2. ASSUME s <= last0, last0 <= time
          PROVE  s <= time /\ time - (time % P) = s
      <3>1. s <= time
        BY <1>0, <2>2, SMT
      <3>2. time < s + P
        BY <1>0, <1>3, <3>1, SMT DEF Elapsed
      <3> QED
        BY <1>0, <3>1, <3>2, WindowOf
    <2> QED
      BY <1>1, <2>1, <2>2
  <1> QED
    BY <1>2, <1>3

-----------------------------------------------------------------------------
(* The schedule.                                                           *)

\* Until the boot is over the tasks are as the scheduler has initialised them;
\* then OnSchedule is inductive.
ScheduleInv ==
    /\ tasks \in [Names -> Tasks]
    /\ systemTime \in Times /\ seen \in Times
    /\ at = "boot" => tasks = TaskScheduler_Init /\ seen = 0
    /\ OnSchedule

LEMMA InitiallyOnSchedule ==
    ASSUME seen = 0, tasks = TaskScheduler_Init
    PROVE  OnSchedule
  <1>1. \A k \in Names : tasks[k].startTime = 0
    BY DEF TaskScheduler_Init
  <1>2. Elapsed(seen, 0) = 0
    BY SMT DEF Elapsed
  <1>3. ASSUME NEW k \in Names
        PROVE  0 % Period[k] = 0 /\ 0 < Period[k]
    BY <1>3, PeriodsType, SMT
  <1> QED
    BY <1>1, <1>2, <1>3 DEF OnSchedule

LEMMA InitSchedule == Init => ScheduleInv
  <1> SUFFICES ASSUME Init PROVE ScheduleInv
    OBVIOUS
  <1>1. tasks = TaskScheduler_Init /\ seen = 0 /\ systemTime = 0
    BY DEF Init
  <1>2. 0 \in Times
    BY PeriodsAssumption, SMT DEF Times
  <1>3. tasks \in [Names -> Tasks]
    BY <1>1, <1>2 DEF TaskScheduler_Init, Tasks
  <1> QED
    BY <1>1, <1>2, <1>3, InitiallyOnSchedule DEF ScheduleInv

\* What most steps leave alone.
Frame == tasks' = tasks /\ seen' = seen /\ (at' = "boot" => at = "boot")

LEMMA FrameKeeps ==
    ASSUME ScheduleInv, Frame, systemTime' \in Times
    PROVE  ScheduleInv'
  BY Zenon DEF ScheduleInv, Frame, OnSchedule

\* Steps of the boot: they begin in the boot and leave the scheduler as it is.
LEMMA BootFrame ==
    ASSUME ScheduleInv, Boot
    PROVE  Frame /\ systemTime' \in Times
  <1>1. at = "boot" /\ seen' = seen
    BY DEF Boot, Booting, BootWrite, BootStatus, BootModel, BootWakeup, BootTime, BootEnable,
           history
  <1>2. tasks' = tasks
    <2>1. CASE BootModel
      BY <1>1, <2>1 DEF BootModel, ScheduleInv
    <2>2. CASE BootWrite \/ BootStatus \/ BootWakeup \/ BootTime \/ BootEnable
      BY <2>2 DEF BootWrite, BootStatus, BootWakeup, BootTime, BootEnable
    <2> QED
      BY <2>1, <2>2 DEF Boot
  <1>3. systemTime' = systemTime \/ systemTime' = 0
    BY DEF Boot, BootWrite, BootStatus, BootModel, BootWakeup, BootTime, BootEnable, chip
  <1>4. 0 \in Times
    BY PeriodsAssumption, SMT DEF Times
  <1> QED
    BY <1>1, <1>2, <1>3, <1>4 DEF Frame, ScheduleInv

\* The interrupt, the controllers and the transmitter.
LEMMA OtherFrame ==
    ASSUME ScheduleInv, PutChar \/ Interrupt \/ Match \/ Converted \/ Sent
    PROVE  Frame /\ systemTime' \in Times
  <1>1. tasks' = tasks /\ seen' = seen /\ at' = at
    BY DEF PutChar, Interrupt, Match, Converted, Sent, program, history
  <1>2. systemTime' = systemTime \/ systemTime' = (systemTime + Tick) % TimeRange
    BY DEF PutChar, Interrupt, Match, Converted, Sent, Timer_InterruptHandler
  <1>3. systemTime + Tick \in Nat
    BY ClockAssumption, PeriodsAssumption, SMT DEF ScheduleInv, Times
  <1>4. (systemTime + Tick) % TimeRange \in Times
    BY <1>3, PeriodsAssumption, RemainderInRange DEF Times
  <1> QED
    BY <1>1, <1>2, <1>4 DEF Frame, ScheduleInv

LEMMA TakenType ==
    ASSUME NEW ts \in [Names -> Tasks], NEW k \in Names
    PROVE  /\ Taken(ts, k) \in [Names -> Tasks]
           /\ Taken(ts, k)[k].doIt = FALSE
           /\ \A j \in Names : Taken(ts, k)[j].startTime = ts[j].startTime
           /\ \A j \in Names \ {k} : Taken(ts, k)[j] = ts[j]
  BY DEF Taken, Tasks

\* Steps of the main loop, after the boot.
LEMMA RunKeeps ==
    ASSUME ScheduleInv, UsartConductor_Run \/ TimerConductor_Run \/ AdcConductor_Run
    PROVE  ScheduleInv'
  <1>1. CASE UsartConductor_Run \/ AdcConductor_Run
    <2>1. at' # "boot" /\ seen' = seen /\ systemTime' = systemTime
      BY <1>1 DEF UsartConductor_Run, AdcConductor_Run, chip, history
    <2>2. tasks' = tasks \/ tasks' = Taken(tasks, "usart") \/ tasks' = Taken(tasks, "adc")
      BY <1>1 DEF UsartConductor_Run, AdcConductor_Run
    <2>3. /\ tasks' \in [Names -> Tasks]
          /\ \A k \in Names : tasks'[k].startTime = tasks[k].startTime
      <3>1. "usart" \in Names /\ "adc" \in Names
        BY DEF Names
      <3>2. tasks \in [Names -> Tasks]
        BY DEF ScheduleInv
      <3>3. ASSUME NEW k \in Names, tasks' = Taken(tasks, k)
            PROVE  /\ tasks' \in [Names -> Tasks]
                   /\ \A j \in Names : tasks'[j].startTime = tasks[j].startTime
        BY <3>2, <3>3, TakenType, Zenon
      <3> QED
        BY <2>2, <3>1, <3>2, <3>3, Zenon
    <2>4. OnSchedule'
      BY <2>1, <2>3 DEF OnSchedule, ScheduleInv
    <2> QED
      BY <2>1, <2>3, <2>4 DEF ScheduleInv
  <1>2. CASE TimerConductor_Run
    <2>1. /\ at' # "boot" /\ systemTime' = systemTime /\ seen' = systemTime
          /\ tasks' = [k \in Names |-> Updated(tasks[k], Period[k], systemTime)]
      BY <1>2 DEF TimerConductor_Run, TaskScheduler_Update
    <2>2. ASSUME NEW k \in Names
          PROVE  /\ tasks'[k] \in Tasks
                 /\ tasks'[k].startTime % Period[k] = 0
                 /\ Elapsed(seen', tasks'[k].startTime) < Period[k]
      <3>1. /\ tasks[k] \in Tasks /\ tasks[k].startTime % Period[k] = 0
            /\ systemTime \in Times
            /\ Period[k] \in Nat \ {0} /\ Period[k] <= TimeRange
        BY <2>2, PeriodsType DEF ScheduleInv, OnSchedule
      <3>2. tasks'[k] = Updated(tasks[k], Period[k], systemTime)
        BY <2>1, <2>2
      <3> QED
        BY <2>1, <3>1, <3>2, UpdatedOnSchedule
    <2>3. tasks' \in [Names -> Tasks]
      BY <2>1, <2>2
    <2> QED
      BY <2>1, <2>2, <2>3 DEF ScheduleInv, OnSchedule
  <1> QED
    BY <1>1, <1>2

LEMMA NextSchedule == ScheduleInv /\ [Next]_vars => ScheduleInv'
  <1> SUFFICES ASSUME ScheduleInv, [Next]_vars PROVE ScheduleInv'
    OBVIOUS
  <1>1. CASE Boot
    BY <1>1, BootFrame, FrameKeeps
  <1>2. CASE PutChar \/ Interrupt \/ Match \/ Converted \/ Sent
    BY <1>2, OtherFrame, FrameKeeps
  <1>3. CASE UsartConductor_Run \/ TimerConductor_Run \/ AdcConductor_Run
    BY <1>3, RunKeeps
  <1>4. CASE UNCHANGED vars
    <2>1. Frame /\ systemTime' = systemTime
      BY <1>4 DEF vars, program, chip, history, Frame
    <2> QED
      BY <2>1, FrameKeeps DEF ScheduleInv
  <1> QED
    BY <1>1, <1>2, <1>3, <1>4 DEF Next, Executor_Run

\* Whatever the clock's range, its tick, the periods and the delays, a task's
\* period has begun at a multiple of its period and is not over when the
\* scheduler has been updated.
THEOREM Schedule == Spec => []OnSchedule
  <1>1. ScheduleInv => OnSchedule
    BY DEF ScheduleInv
  <1> QED
    BY InitSchedule, NextSchedule, <1>1, PTL DEF Spec

\* What Schedule rests on, for the proofs about the tasks.
THEOREM ScheduleInvariance == Spec => []ScheduleInv
  BY InitSchedule, NextSchedule, PTL DEF Spec

-----------------------------------------------------------------------------
(* Each task implements PeriodicTask.                                      *)

\* A step, seen from a task of period P: nothing happens to it, it is taken,
\* or it is updated.
LEMMA StepOfTask ==
    ASSUME ScheduleInv, [Next]_vars, NEW k \in Names
    PROVE  \/ tasks'[k] = tasks[k] /\ seen' = seen
           \/ /\ tasks[k].doIt = TRUE /\ tasks'[k].doIt = FALSE
              /\ tasks'[k].startTime = tasks[k].startTime /\ seen' = seen
           \/ tasks'[k] = Updated(tasks[k], Period[k], seen') /\ seen' \in Times
  <1>0. tasks \in [Names -> Tasks] /\ "usart" \in Names /\ "adc" \in Names
    BY DEF ScheduleInv, Names
  <1>1. CASE Boot
    BY <1>1, BootFrame, Zenon DEF Frame
  <1>2. CASE PutChar \/ Interrupt \/ Match \/ Converted \/ Sent
    BY <1>2, OtherFrame, Zenon DEF Frame
  <1>3. CASE UsartConductor_Run \/ AdcConductor_Run
    <2>1. seen' = seen
      BY <1>3 DEF UsartConductor_Run, AdcConductor_Run, history
    <2>2. tasks' = tasks \/ tasks' = Taken(tasks, "usart") \/ tasks' = Taken(tasks, "adc")
      BY <1>3 DEF UsartConductor_Run, AdcConductor_Run
    <2>3. ASSUME NEW j \in Names, tasks' = Taken(tasks, j)
          PROVE  \/ tasks'[k] = tasks[k]
                 \/ /\ tasks[k].doIt = TRUE /\ tasks'[k].doIt = FALSE
                    /\ tasks'[k].startTime = tasks[k].startTime
      <3>1. CASE j # k
        <4>1. k \in Names \ {j}
          BY <3>1
        <4>2. Taken(tasks, j)[k] = tasks[k]
          BY <1>0, <4>1, TakenType, Zenon
        <4> QED
          BY <2>3, <4>2, Zenon
      <3>2. CASE j = k /\ tasks[k].doIt = TRUE
        BY <1>0, <2>3, <3>2, TakenType
      <3>3. CASE j = k /\ tasks[k].doIt = FALSE
        <4>1. Taken(tasks, k) = [tasks EXCEPT ![k] = [tasks[k] EXCEPT !.doIt = FALSE]]
          BY <1>0 DEF Taken
        <4>2. [tasks[k] EXCEPT !.doIt = FALSE] = tasks[k]
          BY <1>0, <3>3 DEF Tasks
        <4> QED
          BY <1>0, <2>3, <3>3, <4>1, <4>2
      <3>4. tasks[k].doIt \in BOOLEAN
        BY <1>0 DEF Tasks
      <3> QED
        BY <3>1, <3>2, <3>3, <3>4
    <2> QED
      BY <1>0, <2>1, <2>2, <2>3
  <1>4. CASE TimerConductor_Run
    <2>1. /\ seen' = systemTime
          /\ tasks' = [j \in Names |-> Updated(tasks[j], Period[j], systemTime)]
      BY <1>4 DEF TimerConductor_Run, TaskScheduler_Update
    <2> QED
      BY <2>1 DEF ScheduleInv
  <1>5. CASE UNCHANGED vars
    BY <1>5 DEF vars, program, history
  <1> QED
    BY <1>1, <1>2, <1>3, <1>4, <1>5 DEF Next, Executor_Run

\* A task's bookkeeping makes PeriodicTask's step of it.
LEMMA TaskStep ==
    ASSUME ScheduleInv, [Next]_vars, NEW k \in Names
    PROVE  LET P == Period[k]
               due == tasks[k].doIt
               Win(t) == t - (t % P)
               aligned == tasks[k].startTime <= seen
           IN
           \/ due' = due /\ seen' = seen /\ aligned' = aligned
           \/ due /\ due' = FALSE /\ seen' = seen /\ aligned' = aligned
           \/ /\ seen' \in Nat
              /\ IF aligned /\ seen' >= seen
                 THEN /\ due' = (due \/ Win(seen') # Win(seen))
                      /\ aligned' = TRUE
                 ELSE \/ due' = TRUE /\ aligned' = TRUE
                      \/ due' = due /\ aligned' \in BOOLEAN
  <1> DEFINE P == Period[k]
             Win(t) == t - (t % P)
  <1>0. /\ tasks[k] \in Tasks /\ tasks[k].startTime % P = 0
        /\ seen \in Times /\ Elapsed(seen, tasks[k].startTime) < P
        /\ P \in Nat \ {0}
    BY PeriodsType DEF ScheduleInv, OnSchedule
  <1>1. CASE tasks'[k] = tasks[k] /\ seen' = seen
    BY <1>1, Zenon
  <1>2. CASE /\ tasks[k].doIt = TRUE /\ tasks'[k].doIt = FALSE
             /\ tasks'[k].startTime = tasks[k].startTime /\ seen' = seen
    BY <1>2, Zenon
  <1>3. CASE tasks'[k] = Updated(tasks[k], Period[k], seen') /\ seen' \in Times
    <2>1. \/ /\ tasks'[k].doIt = TRUE
             /\ tasks'[k].startTime <= seen'
             /\ tasks[k].startTime <= seen /\ seen <= seen' => Win(seen') # Win(seen)
          \/ /\ tasks'[k] = tasks[k]
             /\ tasks[k].startTime <= seen /\ seen <= seen' =>
                   Win(seen') = Win(seen) /\ tasks[k].startTime <= seen'
      <3>1. /\ tasks[k] \in Tasks /\ Period[k] \in Nat \ {0} /\ seen \in Times
            /\ seen' \in Times /\ tasks[k].startTime % Period[k] = 0
            /\ Elapsed(seen, tasks[k].startTime) < Period[k]
        BY <1>0, <1>3
      <3> DEFINE new == Updated(tasks[k], Period[k], seen')
      <3>2. \/ /\ new.doIt = TRUE
               /\ new.startTime <= seen'
               /\ tasks[k].startTime <= seen /\ seen <= seen' => Win(seen') # Win(seen)
            \/ /\ new = tasks[k]
               /\ tasks[k].startTime <= seen /\ seen <= seen' =>
                     Win(seen') = Win(seen) /\ tasks[k].startTime <= seen'
        BY <3>1, UpdatedIsRead, Zenon
      <3> HIDE DEF Win
      <3> QED
        BY <1>3, <3>2, Zenon
    <2>2. seen' \in Nat /\ seen \in Nat
      BY <1>0, <1>3, SMT DEF Times
    <2>3. seen' >= seen <=> seen <= seen'
      BY <2>2, SMT
    <2>4. tasks[k].doIt \in BOOLEAN
      BY <1>0 DEF Tasks
    <2> HIDE DEF Win, P
    <2>5. (tasks'[k].startTime <= seen') \in BOOLEAN
      BY SMT
    <2> QED
      BY <2>1, <2>2, <2>3, <2>4, <2>5, Zenon DEF P, Win
  <1> QED
    BY <1>1, <1>2, <1>3, StepOfTask


LEMMA UsartStep ==
    ASSUME ScheduleInv, [Next]_vars
    PROVE  [UsartTask!Read \/ UsartTask!Take]_UsartTask!ptVars
  <1>1. "usart" \in Names /\ Period["usart"] = UsartPeriod
    BY DEF Names, Period
  <1> QED
    BY <1>1, TaskStep, Zenon
       DEF UsartTask!Read, UsartTask!Take, UsartTask!ptVars, UsartTask!Window

LEMMA AdcStep ==
    ASSUME ScheduleInv, [Next]_vars
    PROVE  [AdcTask!Read \/ AdcTask!Take]_AdcTask!ptVars
  <1>1. "adc" \in Names /\ Period["adc"] = AdcPeriod
    BY DEF Names, Period
  <1> QED
    BY <1>1, TaskStep, Zenon
       DEF AdcTask!Read, AdcTask!Take, AdcTask!ptVars, AdcTask!Window

\* The scheduler implements PeriodicTask for both tasks: each is due once for
\* every period the clock is seen in, however late it is served.
THEOREM Refinement == Spec => TasksArePeriodic
  <1>1. Init => UsartTask!Init /\ AdcTask!Init
    <2> SUFFICES ASSUME Init PROVE UsartTask!Init /\ AdcTask!Init
      OBVIOUS
    <2>1. "usart" \in Names /\ "adc" \in Names /\ (0 <= 0) = TRUE
      BY SMT DEF Names
    <2>2. tasks = TaskScheduler_Init /\ seen = 0
      BY DEF Init
    <2>3. /\ tasks["usart"].doIt = FALSE /\ tasks["usart"].startTime = 0
          /\ tasks["adc"].doIt = FALSE /\ tasks["adc"].startTime = 0
      BY <2>1, <2>2 DEF TaskScheduler_Init
    <2> QED
      BY <2>1, <2>2, <2>3, Zenon DEF UsartTask!Init, AdcTask!Init
  <1>2. ScheduleInv /\ [Next]_vars => [UsartTask!Read \/ UsartTask!Take]_UsartTask!ptVars
    BY UsartStep
  <1>3. ScheduleInv /\ [Next]_vars => [AdcTask!Read \/ AdcTask!Take]_AdcTask!ptVars
    BY AdcStep
  <1> QED
    BY <1>1, <1>2, <1>3, ScheduleInvariance, PTL
       DEF Spec, TasksArePeriodic, UsartTask!Spec, AdcTask!Spec

-----------------------------------------------------------------------------
(* The readings.                                                           *)

\* What the converter may measure, below its reference of 3 V.
Volts == 0 .. 2998

\* The step-wise quotient is the nearest millivolt.
LEMMA MillivoltsNearest ==
    ASSUME NEW c \in Counts
    PROVE  /\ Millivolts(c) \in Volts
           /\ 1024 * Millivolts(c) - 3000 * c \in -512 .. 512
           /\ (Millivolts(c) = 0) <=> (c = 0)
  BY SMTT(60) DEF Millivolts, Counts, Volts

LEMMA MillivoltsGrow ==
    ASSUME NEW c \in Counts, c > 0
    PROVE  Millivolts(c) > Millivolts(c - 1)
  BY SMTT(60) DEF Millivolts, Counts

LEMMA QuotientInRange ==
    ASSUME NEW m \in Nat, NEW P \in Nat \ {0}
    PROVE  m \div P \in 0 .. m
  <1> DEFINE q == m \div P
  <1>1. q \in Nat /\ m % P \in Nat /\ m = P * q + (m % P)
    BY SMT
  <1>2. q <= P * q
    BY <1>1, SMT
  <1> QED
    BY <1>1, <1>2, SMT

LEMMA CalculateKinds ==
    ASSUME NEW mv \in Volts
    PROVE  /\ (TemperatureCalculator_Calculate(mv) = NegInf) <=> (mv = 0)
           /\ mv > 0 => Finite(TemperatureCalculator_Calculate(mv))
  <1>0. mv \in Int /\ 0 <= mv /\ mv <= 2998
    BY SMT DEF Volts
  <1>1. CASE mv = 0
    BY <1>1, SMT DEF TemperatureCalculator_Calculate
  <1>2. CASE mv \in 1 .. 2999
    <2>1. TemperatureCalculator_Calculate(mv) = mv \div TempUnit
      BY <1>2, SMTT(60) DEF TemperatureCalculator_Calculate
    <2>2. mv \in Nat /\ TempUnit \in Nat \ {0}
      BY <1>2, UnitAssumption, SMT
    <2>3. mv \div TempUnit \in 0 .. mv
      BY <2>2, QuotientInRange
    <2> QED
      BY <1>2, <2>1, <2>3, SMT DEF Finite, NegInf, PosInf, NaN
  <1> QED
    BY <1>0, <1>1, <1>2, SMT

LEMMA EveryReading == ASSUME NEW c \in Counts PROVE ReadingInRange(c)
  <1> DEFINE mv == Millivolts(c)
             t == TemperatureCalculator_Calculate(mv)
  <1>1. mv \in Volts
    BY MillivoltsNearest
  <1>2. 1024 * mv - 3000 * c \in -512 .. 512
    BY MillivoltsNearest
  <1>3. (mv = 0) <=> (c = 0)
    BY MillivoltsNearest
  <1>4. c > 0 => mv > Millivolts(c - 1)
    BY MillivoltsGrow
  <1>5. c \in Nat
    BY SMT DEF Counts
  <1> HIDE DEF mv
  <1>6. ((t = NegInf) <=> (mv = 0)) /\ (mv > 0 => Finite(t))
    BY <1>1, CalculateKinds, Zenon
  <1> HIDE DEF t
  <1>7. c > 0 => mv > 0
    BY <1>1, <1>3, <1>5, SMT DEF Volts
  <1>8. ((t = NegInf) <=> (c = 0)) /\ (c > 0 => Finite(t))
    BY <1>3, <1>6, <1>7, Zenon
  <1> QED
    BY <1>2, <1>4, <1>8, SMT DEF ReadingInRange, mv, t

\* Whatever the samples are, the converter holds a count.
Held == [busy : BOOLEAN, eoc : BOOLEAN, cdr4 : Counts, own : BOOLEAN]
CountInv == adc \in Held

LEMMA CountStep == CountInv /\ [Next]_vars => CountInv'
  <1> SUFFICES ASSUME CountInv, [Next]_vars PROVE CountInv'
    OBVIOUS
  <1>1. 0 \in Counts
    BY SMT DEF Counts
  <1>2. CASE BootWrite
    <2>1. adc' = adc \/ adc' = AdcAfter(Now.bits)
      BY <1>2 DEF BootWrite
    <2>2. AdcIdle \in Held
      BY <1>1 DEF AdcIdle, NoSample, Held
    <2>3. ASSUME NEW b \in BOOLEAN
          PROVE  [adc EXCEPT !.busy = TRUE, !.own = b] \in Held
      BY DEF CountInv, Held
    <2>4. (~adc.eoc) \in BOOLEAN
      OBVIOUS
    <2>5. [adc EXCEPT !.busy = TRUE, !.own = ~adc.eoc] \in Held
      BY <2>3, <2>4, Zenon
    <2> QED
      BY <2>1, <2>2, <2>5, Zenon DEF CountInv, AdcAfter
  <1>3. CASE AdcConductor_Run
    <2>1. \/ adc' = adc
          \/ adc' = [busy |-> TRUE, eoc |-> FALSE, cdr4 |-> NoSample, own |-> TRUE]
      BY <1>3, Zenon DEF AdcConductor_Run
    <2>2. [busy |-> TRUE, eoc |-> FALSE, cdr4 |-> NoSample, own |-> TRUE] \in Held
      BY <1>1 DEF Held, NoSample
    <2> QED
      BY <2>1, <2>2, Zenon DEF CountInv
  <1>4. CASE Converted
    BY <1>4, ClockAssumption DEF Converted, CountInv, Held
  <1>5. CASE BootStatus \/ BootModel \/ BootWakeup \/ BootTime \/ BootEnable \/ PutChar
             \/ UsartConductor_Run \/ TimerConductor_Run \/ Interrupt \/ Match \/ Sent
             \/ UNCHANGED vars
    <2>1. adc' = adc
      BY <1>5 DEF BootStatus, BootModel, BootWakeup, BootTime, BootEnable, PutChar,
         UsartConductor_Run, TimerConductor_Run, Interrupt, Match, Sent, vars, chip
    <2> QED
      BY <2>1 DEF CountInv
  <1> QED
    BY <1>2, <1>3, <1>4, <1>5 DEF Next, Boot, Executor_Run

LEMMA InitCount == Init => CountInv
  <1>1. 0 \in Counts
    BY SMT DEF Counts
  <1>2. AdcIdle \in Held
    BY <1>1 DEF AdcIdle, NoSample, Held
  <1>3. [busy : BOOLEAN, eoc : BOOLEAN, cdr4 : {NoSample}, own : {FALSE}] \subseteq Held
    BY <1>1 DEF NoSample, Held
  <1> QED
    BY <1>2, <1>3, Zenon DEF Init, CountInv

\* For any failing voltage, any samples: what the program makes of a sample is
\* the nearest voltage and a temperature, but for the count of a failure.
THEOREM ReadingsRight == Spec => []ReadingsInRange
  <1>1. Init => CountInv
    BY InitCount
  <1>2. CountInv => ReadingsInRange
    BY EveryReading DEF CountInv, Held, ReadingsInRange
  <1> QED
    BY <1>1, CountStep, <1>2, PTL DEF Spec

-----------------------------------------------------------------------------
(* The memory map: a controller's struct and the list of its addresses     *)
(* agree.                                                                  *)

\* The sums of at most 16 numbers, as the recursion says.
LEMMA SumsOf ==
    ASSUME NEW numbers, Len(numbers) \in 0 .. 16
    PROVE  LET s == Sums(numbers) IN
           s[1] = 0 /\ \A k \in 1 .. Len(numbers) : s[k + 1] = s[k] + numbers[k]
  <1> DEFINE n == Len(numbers)
             Rule(m, f) == f = [k \in 1 .. m + 1 |-> IF k = 1 THEN 0 ELSE f[k - 1] + numbers[k - 1]]
             Exists(m) == \E f : Rule(m, f)
             s == Sums(numbers)
  <1>1. Exists(0)
    <2>1. Rule(0, [k \in 1 .. 1 |-> 0])
      BY SMT
    <2> QED
      BY <2>1
  <1>2. ASSUME NEW m \in Nat, Exists(m)
        PROVE  Exists(m + 1)
    <2>1. PICK f : Rule(m, f)
      BY <1>2
    <2> DEFINE g == [k \in 1 .. (m + 1) + 1 |->
                        IF k <= m + 1 THEN f[k] ELSE f[m + 1] + numbers[m + 1]]
    <2>2. ASSUME NEW k \in 1 .. (m + 1) + 1
          PROVE  g[k] = IF k = 1 THEN 0 ELSE g[k - 1] + numbers[k - 1]
      <3>1. CASE k <= m + 1
        <4>1. k \in 1 .. m + 1 /\ (k # 1 => k - 1 \in 1 .. (m + 1) + 1 /\ k - 1 <= m + 1)
          BY <3>1, SMT
        <4>2. g[k] = f[k] /\ (k # 1 => g[k - 1] = f[k - 1])
          BY <3>1, <4>1
        <4>3. f[k] = IF k = 1 THEN 0 ELSE f[k - 1] + numbers[k - 1]
          BY <2>1, <4>1, SMT
        <4> QED
          BY <4>2, <4>3
      <3>2. CASE ~(k <= m + 1)
        <4>1. k = m + 2 /\ k # 1 /\ k - 1 = m + 1 /\ m + 1 \in 1 .. (m + 1) + 1
          BY <3>2, SMT
        <4>2. g[k] = f[m + 1] + numbers[m + 1] /\ g[m + 1] = f[m + 1]
          BY <3>2, <4>1, SMT
        <4> QED
          BY <4>1, <4>2
      <3> QED
        BY <3>1, <3>2
    <2>3. g = [k \in 1 .. (m + 1) + 1 |-> g[k]]
      OBVIOUS
    <2> HIDE DEF g
    <2>4. Rule(m + 1, g)
      BY <2>2, <2>3
    <2> QED
      BY <2>4
  <1>3. Exists(n)
    <2> HIDE DEF Exists
    <2>1. /\ Exists(1) /\ Exists(2) /\ Exists(3) /\ Exists(4) /\ Exists(5) /\ Exists(6)
          /\ Exists(7) /\ Exists(8)
      BY <1>1, <1>2, SMT
    <2>2. /\ Exists(9) /\ Exists(10) /\ Exists(11) /\ Exists(12) /\ Exists(13) /\ Exists(14)
          /\ Exists(15) /\ Exists(16)
      BY <1>2, <2>1, SMT
    <2>3. n \in 0 .. 16
      OBVIOUS
    <2> HIDE DEF n
    <2> QED
      BY <1>1, <2>1, <2>2, <2>3, SMT
  <1>4. s = CHOOSE f : Rule(n, f)
    BY DEF Sums
  <1> HIDE DEF s
  <1>5. Rule(n, s)
    <2> HIDE DEF Rule, n
    <2> QED
      BY <1>3, <1>4, Zenon
  <1>6. s[1] = 0 /\ \A k \in 1 .. n : s[k + 1] = s[k] + numbers[k]
    BY <1>5, SMT
  <1> QED
    BY <1>6 DEF s

\* Sums of natural numbers are natural numbers.
LEMMA SumsTyped ==
    ASSUME NEW numbers, Len(numbers) \in 0 .. 16,
           \A k \in 1 .. Len(numbers) : numbers[k] \in Nat
    PROVE  \A k \in 1 .. Len(numbers) + 1 : Sums(numbers)[k] \in Nat
  <1> DEFINE n == Len(numbers)
             s == Sums(numbers)
             typed(k) == k <= n + 1 => s[k] \in Nat
  <1>6. n \in 0 .. 16 /\ s[1] = 0 /\ \A k \in 1 .. n : s[k + 1] = s[k] + numbers[k]
    BY SumsOf
  <1> HIDE DEF s
  <1>7. typed(1)
    BY <1>6, SMT
  <1>8. ASSUME NEW k \in Nat \ {0}, typed(k)
        PROVE  typed(k + 1)
    <2>1. CASE k \in 1 .. n
      <3>1. s[k] \in Nat /\ numbers[k] \in Nat /\ s[k + 1] = s[k] + numbers[k]
        BY <1>6, <1>8, <2>1, SMT
      <3> QED
        BY <3>1, SMT
    <2>2. CASE k \notin 1 .. n
      BY <1>6, <2>2, SMT
    <2> QED
      BY <2>1, <2>2
  <1> HIDE DEF typed
  <1>9. typed(1) /\ typed(2) /\ typed(3) /\ typed(4) /\ typed(5) /\ typed(6) /\ typed(7) /\ typed(8)
        /\ typed(9)
    BY <1>7, <1>8, SMT
  <1>10. typed(10) /\ typed(11) /\ typed(12) /\ typed(13) /\ typed(14) /\ typed(15) /\ typed(16)
         /\ typed(17)
    BY <1>8, <1>9, SMT
  <1>11. ASSUME NEW k \in 1 .. n + 1
         PROVE  s[k] \in Nat
    <2> HIDE DEF n
    <2>1. k \in 1 .. 17 /\ k <= n + 1
      BY <1>6, SMT
    <2>2. typed(k)
      BY <1>9, <1>10, <2>1, SMT
    <2> QED
      BY <2>1, <2>2 DEF typed
  <1> QED
    BY <1>6, <1>11 DEF s

\* Chunks of so many members, from one start to the next.
Spaced(names, start, n) ==
    /\ n \in 1 .. 7
    /\ \A k \in 1 .. n + 1 : start[k] \in Nat
    /\ \A k \in 1 .. n : names[k] \in Nat /\ start[k + 1] >= start[k] + names[k]

OnePlaceEach(names, start, n) ==
    \A k1, k2 \in 1 .. n : \A i1 \in 1 .. names[k1] : \A i2 \in 1 .. names[k2] :
        start[k1] + i1 = start[k2] + i2 => k1 = k2 /\ i1 = i2

\* Members at one place are one member.
LEMMA PlacesDiffer ==
    ASSUME NEW names, NEW start, NEW n, Spaced(names, start, n)
    PROVE  OnePlaceEach(names, start, n)
  <1>0. /\ n \in 1 .. 7
        /\ \A k \in 1 .. n + 1 : start[k] \in Nat
        /\ \A k \in 1 .. n : names[k] \in Nat /\ start[k + 1] >= start[k] + names[k]
    BY DEF Spaced
  <1>1. ASSUME NEW k \in 1 .. n, NEW j \in 1 .. n, k < j
        PROVE  start[j] >= start[k] + names[k]
    <2>1. \A m \in 1 .. n : start[m + 1] >= start[m] /\ start[m] \in Nat
      BY <1>0, SMT
    <2> DEFINE up(d) == \A m \in 1 .. n : m + d <= n => start[m + d] >= start[m]
    <2>2. up(0) /\ up(1)
      BY <1>0, <2>1, SMT
    <2>3. ASSUME NEW d \in Nat, up(d)
          PROVE  up(d + 1)
      <3>1. ASSUME NEW m \in 1 .. n, m + (d + 1) <= n
            PROVE  start[m + (d + 1)] >= start[m]
        <4>1. m + d \in 1 .. n /\ (m + d) + 1 = m + (d + 1) /\ m + (d + 1) \in 1 .. n
          BY <1>0, <3>1, SMT
        <4>2. start[(m + d) + 1] >= start[m + d] /\ start[m + d] >= start[m]
          BY <1>0, <2>1, <2>3, <4>1, SMT
        <4>3. start[m + (d + 1)] \in Nat /\ start[m + d] \in Nat /\ start[m] \in Nat
          BY <2>1, <4>1
        <4> QED
          BY <4>1, <4>2, <4>3, SMT
      <3> QED
        BY <3>1
    <2> HIDE DEF up
    <2>4. up(2) /\ up(3) /\ up(4) /\ up(5)
      BY <2>2, <2>3, SMT
    <2>5. j - (k + 1) \in 0 .. 5 /\ (k + 1) + (j - (k + 1)) = j /\ k + 1 \in 1 .. n
      BY <1>0, <1>1, SMT
    <2>6. up(j - (k + 1))
      BY <2>2, <2>4, <2>5, SMT
    <2>7. start[j] >= start[k + 1]
      BY <2>5, <2>6, SMT DEF up
    <2>8. start[k + 1] >= start[k] + names[k] /\ start[k + 1] \in Nat /\ start[k] \in Nat
          /\ start[j] \in Nat /\ names[k] \in Nat
      BY <1>0, <2>1, <2>5, SMT
    <2> QED
      BY <2>7, <2>8, SMT
  <1> QED
    BY <1>0, <1>1, SMT DEF OnePlaceEach

\* A struct as it is written down: at most seven chunks of members and words.
WellFormed(struct) ==
    /\ Len(struct) \in 1 .. 7
    /\ \A k \in 1 .. Len(struct) : Len(struct[k][1]) \in Nat /\ struct[k][2] \in Nat

\* Every member of the struct has the address that its place gives it, and
\* every register of the list is a member.
ChunkAgrees(names, first, address, base) ==
    \A i \in 1 .. Len(names) : address[names[i]] = base + 4 * (first + i - 1)

Named(names, r) == \E i \in 1 .. Len(names) : names[i] = r

Agree(struct, start, address, base) ==
    /\ \A k \in 1 .. Len(struct) : ChunkAgrees(struct[k][1], start[k], address, base)
    /\ \A r \in DOMAIN address : \E k \in 1 .. Len(struct) : Named(struct[k][1], r)

LEMMA ChunksStart ==
    ASSUME NEW struct, WellFormed(struct)
    PROVE  LET size == ChunkSizes(struct)
               start == ChunkStarts(struct)
           IN
           /\ start[1] = 0
           /\ \A k \in 1 .. Len(struct) : start[k + 1] = start[k] + size[k]
           /\ \A k \in 1 .. Len(struct) + 1 : start[k] \in Nat
           /\ \A k \in 1 .. Len(struct) : size[k] = Len(struct[k][1]) + struct[k][2]
  <1> DEFINE size == ChunkSizes(struct)
  <1>1. /\ Len(size) = Len(struct)
        /\ \A k \in 1 .. Len(struct) : size[k] = Len(struct[k][1]) + struct[k][2]
        /\ \A k \in 1 .. Len(size) : size[k] \in Nat
        /\ Len(size) \in 0 .. 16
    BY SMT DEF WellFormed, ChunkSizes
  <1> HIDE DEF size
  <1>2. /\ Sums(size)[1] = 0
        /\ \A k \in 1 .. Len(size) : Sums(size)[k + 1] = Sums(size)[k] + size[k]
        /\ \A k \in 1 .. Len(size) + 1 : Sums(size)[k] \in Nat
    BY <1>1, SumsOf, SumsTyped
  <1> QED
    BY <1>1, <1>2 DEF ChunkStarts, size

LEMMA LandsWhereNamed ==
    ASSUME NEW dev, WellFormed(Struct[dev]), Base[dev] \in Nat,
           Agree(Struct[dev], ChunkStarts(Struct[dev]), Address[dev], Base[dev])
    PROVE  \A r \in DOMAIN Address[dev] : Target(dev, r) = r
  <1> DEFINE struct == Struct[dev]
             start == ChunkStarts(struct)
             n == Len(struct)
             names == [k \in 1 .. n |-> Len(struct[k][1])]
             there(m) == {r \in DOMAIN Address[dev] : IsAt(struct, m, Address[dev][r] - Base[dev])}
  <1>1. /\ n \in 1 .. 7
        /\ \A k \in 1 .. n : names[k] = Len(struct[k][1]) /\ names[k] \in Nat
    BY DEF WellFormed
  <1>2. /\ \A k \in 1 .. n + 1 : start[k] \in Nat
        /\ \A k \in 1 .. n : start[k] \in Nat /\ start[k + 1] >= start[k] + names[k]
    <2>1. /\ \A k \in 1 .. n + 1 : start[k] \in Nat
          /\ \A k \in 1 .. n : start[k + 1] = start[k] + (Len(struct[k][1]) + struct[k][2])
      BY ChunksStart, Zenon
    <2>2. \A k \in 1 .. n : names[k] = Len(struct[k][1]) /\ names[k] \in Nat /\ struct[k][2] \in Nat
      BY DEF WellFormed
    <2>3. ASSUME NEW k \in 1 .. n
          PROVE  start[k] \in Nat /\ start[k + 1] >= start[k] + names[k]
      <3> HIDE DEF start, names, n, struct
      <3>1. k \in 1 .. n + 1 /\ k + 1 \in 1 .. n + 1
        BY <1>1, SMT
      <3>2. start[k] \in Nat /\ names[k] \in Nat /\ struct[k][2] \in Nat
            /\ start[k + 1] = start[k] + (names[k] + struct[k][2])
        BY <2>1, <2>2, <3>1
      <3> QED
        BY <3>2, SMT
    <2> QED
      BY <2>1, <2>3
  <1>3. \A k \in 1 .. n : \A i \in 1 .. names[k] :
           Address[dev][struct[k][1][i]] - Base[dev] = 4 * (start[k] + i - 1)
    <2>1. ASSUME NEW k \in 1 .. n, NEW i \in 1 .. names[k]
          PROVE  Address[dev][struct[k][1][i]] - Base[dev] = 4 * (start[k] + i - 1)
      <3>1. Address[dev][struct[k][1][i]] = Base[dev] + 4 * (start[k] + i - 1)
        BY <1>1 DEF Agree, ChunkAgrees
      <3>2. start[k] \in Nat /\ i \in Nat
        BY <1>1, <1>2, SMT
      <3> HIDE DEF start, names, n, struct
      <3> QED
        BY <3>1, <3>2, SMT
    <2> QED
      BY <2>1
  <1>4. \A r \in DOMAIN Address[dev] : \E k \in 1 .. n : \E i \in 1 .. names[k] : struct[k][1][i] = r
    <2> HIDE DEF start, names
    <2> QED
      BY <1>1 DEF Agree, Named
  <1>5. OnePlaceEach(names, start, n)
    <2> HIDE DEF start, names, n
    <2>1. Spaced(names, start, n)
      BY <1>1, <1>2 DEF Spaced
    <2> QED
      BY <2>1, PlacesDiffer
  <1>6. ASSUME NEW r \in DOMAIN Address[dev]
        PROVE  there(r) = {r}
    <2> HIDE DEF start, names, n
    <2>1. PICK k \in 1 .. n : \E i \in 1 .. names[k] : struct[k][1][i] = r
      BY <1>4
    <2>2. IsAt(struct, r, Address[dev][r] - Base[dev])
      BY <1>1, <1>3, <2>1 DEF IsAt, n, start
    <2>3. ASSUME NEW q \in DOMAIN Address[dev], IsAt(struct, r, Address[dev][q] - Base[dev])
          PROVE  q = r
      <3>1. PICK k1 \in 1 .. n : \E i1 \in 1 .. names[k1] :
                   /\ struct[k1][1][i1] = r
                   /\ Address[dev][q] - Base[dev] = 4 * (start[k1] + i1 - 1)
        BY <1>1, <2>3 DEF IsAt, n, start
      <3>2. PICK i1 \in 1 .. names[k1] :
                   /\ struct[k1][1][i1] = r
                   /\ Address[dev][q] - Base[dev] = 4 * (start[k1] + i1 - 1)
        BY <3>1
      <3>3. PICK k2 \in 1 .. n : \E i2 \in 1 .. names[k2] : struct[k2][1][i2] = q
        BY <1>4
      <3>4. PICK i2 \in 1 .. names[k2] : struct[k2][1][i2] = q
        BY <3>3
      <3>5. Address[dev][q] - Base[dev] = 4 * (start[k2] + i2 - 1)
        BY <1>3, <3>4
      <3>6. start[k1] + i1 = start[k2] + i2
        <4>1. start[k1] \in Nat /\ start[k2] \in Nat /\ i1 \in Int /\ i2 \in Int
          BY <1>1, <1>2, SMT
        <4>2. 4 * (start[k1] + i1 - 1) = 4 * (start[k2] + i2 - 1)
          BY <3>2, <3>5
        <4> QED
          BY <4>1, <4>2, SMT
      <3> QED
        BY <1>5, <3>2, <3>4, <3>6 DEF OnePlaceEach
    <2> QED
      BY <2>2, <2>3
  <1>7. ASSUME NEW r \in DOMAIN Address[dev]
        PROVE  Target(dev, r) = r
    <2>1. Target(dev, r) = IF there(r) = {} THEN "" ELSE CHOOSE q \in there(r) : TRUE
      BY DEF Target
    <2> HIDE DEF there
    <2>2. there(r) = {r}
      BY <1>6
    <2> QED
      BY <2>1, <2>2, Zenon
  <1> QED
    BY <1>7

LEMMA AICChunks ==
    /\ WellFormed(AT91S_AIC) /\ Len(AT91S_AIC) = 5
    /\ ChunkStarts(AT91S_AIC)[1] = 0
    /\ ChunkStarts(AT91S_AIC)[2] = 32
    /\ ChunkStarts(AT91S_AIC)[3] = 64
    /\ ChunkStarts(AT91S_AIC)[4] = 72
    /\ ChunkStarts(AT91S_AIC)[5] = 80
    /\ ChunkStarts(AT91S_AIC)[6] = 83
  <1> DEFINE size == ChunkSizes(AT91S_AIC)
             start == ChunkStarts(AT91S_AIC)
  <1>1. WellFormed(AT91S_AIC) /\ Len(AT91S_AIC) = 5
    BY SMT DEF WellFormed, AT91S_AIC
  <1>2. /\ Len(AT91S_AIC[1][1]) + AT91S_AIC[1][2] = 32
        /\ Len(AT91S_AIC[2][1]) + AT91S_AIC[2][2] = 32
        /\ Len(AT91S_AIC[3][1]) + AT91S_AIC[3][2] = 8
        /\ Len(AT91S_AIC[4][1]) + AT91S_AIC[4][2] = 8
        /\ Len(AT91S_AIC[5][1]) + AT91S_AIC[5][2] = 3
    BY SMT DEF AT91S_AIC
  <1>3. size[1] = 32 /\ size[2] = 32 /\ size[3] = 8 /\ size[4] = 8 /\ size[5] = 3
    BY <1>1, <1>2, SMT DEF ChunkSizes
  <1>4. start[1] = 0 /\ \A k \in 1 .. 5 : start[k + 1] = start[k] + size[k]
    BY <1>1, ChunksStart
  <1> HIDE DEF size, start
  <1>5. /\ start[1] = 0 /\ start[2] = 32 /\ start[3] = 64 /\ start[4] = 72 /\ start[5] = 80
        /\ start[6] = 83
    BY <1>3, <1>4, SMT
  <1> QED
    BY <1>1, <1>5 DEF start

LEMMA AICLands == \A r \in DOMAIN Address.AIC : Target("AIC", r) = r
  <1>1. /\ ChunkAgrees(AT91S_AIC[1][1], 0, AT91C_AIC, Base.AIC)
        /\ ChunkAgrees(AT91S_AIC[2][1], 32, AT91C_AIC, Base.AIC)
        /\ ChunkAgrees(AT91S_AIC[3][1], 64, AT91C_AIC, Base.AIC)
        /\ ChunkAgrees(AT91S_AIC[4][1], 72, AT91C_AIC, Base.AIC)
        /\ ChunkAgrees(AT91S_AIC[5][1], 80, AT91C_AIC, Base.AIC)
    BY SMT DEF ChunkAgrees, AT91C_AIC, AT91S_AIC, Base
  <1>2. \A r \in DOMAIN AT91C_AIC : \/ Named(AT91S_AIC[1][1], r)
                                   \/ Named(AT91S_AIC[2][1], r)
                                   \/ Named(AT91S_AIC[3][1], r)
                                   \/ Named(AT91S_AIC[4][1], r)
                                   \/ Named(AT91S_AIC[5][1], r)
    BY SMT DEF AT91C_AIC, AT91S_AIC, Named
  <1>3. 1 \in 1 .. 5 /\ 2 \in 1 .. 5 /\ 3 \in 1 .. 5 /\ 4 \in 1 .. 5 /\ 5 \in 1 .. 5
        /\ \A k \in 1 .. 5 : k = 1 \/ k = 2 \/ k = 3 \/ k = 4 \/ k = 5
    BY SMT
  <1> DEFINE start == ChunkStarts(AT91S_AIC)
  <1>4. /\ Len(AT91S_AIC) = 5 /\ start[1] = 0 /\ start[2] = 32 /\ start[3] = 64
        /\ start[4] = 72 /\ start[5] = 80
    BY AICChunks
  <1>5. Struct.AIC = AT91S_AIC /\ Address.AIC = AT91C_AIC /\ Base.AIC \in Nat
    BY SMT DEF Struct, Address, Base
  <1> HIDE DEF start
  <1>6. \A k \in 1 .. 5 : ChunkAgrees(AT91S_AIC[k][1], start[k], AT91C_AIC, Base.AIC)
    BY <1>1, <1>3, <1>4
  <1>7. Agree(AT91S_AIC, start, AT91C_AIC, Base.AIC)
    BY <1>2, <1>3, <1>4, <1>6, Zenon DEF Agree
  <1> QED
    BY <1>5, <1>7, AICChunks, LandsWhereNamed, Zenon DEF start

LEMMA DBGUChunks ==
    /\ WellFormed(AT91S_DBGU) /\ Len(AT91S_DBGU) = 3
    /\ ChunkStarts(AT91S_DBGU)[1] = 0
    /\ ChunkStarts(AT91S_DBGU)[2] = 16
    /\ ChunkStarts(AT91S_DBGU)[3] = 64
    /\ ChunkStarts(AT91S_DBGU)[4] = 74
  <1> DEFINE size == ChunkSizes(AT91S_DBGU)
             start == ChunkStarts(AT91S_DBGU)
  <1>1. WellFormed(AT91S_DBGU) /\ Len(AT91S_DBGU) = 3
    BY SMT DEF WellFormed, AT91S_DBGU
  <1>2. /\ Len(AT91S_DBGU[1][1]) + AT91S_DBGU[1][2] = 16
        /\ Len(AT91S_DBGU[2][1]) + AT91S_DBGU[2][2] = 48
        /\ Len(AT91S_DBGU[3][1]) + AT91S_DBGU[3][2] = 10
    BY SMT DEF AT91S_DBGU
  <1>3. size[1] = 16 /\ size[2] = 48 /\ size[3] = 10
    BY <1>1, <1>2, SMT DEF ChunkSizes
  <1>4. start[1] = 0 /\ \A k \in 1 .. 3 : start[k + 1] = start[k] + size[k]
    BY <1>1, ChunksStart
  <1> HIDE DEF size, start
  <1>5. start[1] = 0 /\ start[2] = 16 /\ start[3] = 64 /\ start[4] = 74
    BY <1>3, <1>4, SMT
  <1> QED
    BY <1>1, <1>5 DEF start

LEMMA PIOChunks ==
    /\ WellFormed(AT91S_PIO) /\ Len(AT91S_PIO) = 7
    /\ ChunkStarts(AT91S_PIO)[1] = 0
    /\ ChunkStarts(AT91S_PIO)[2] = 4
    /\ ChunkStarts(AT91S_PIO)[3] = 8
    /\ ChunkStarts(AT91S_PIO)[4] = 12
    /\ ChunkStarts(AT91S_PIO)[5] = 24
    /\ ChunkStarts(AT91S_PIO)[6] = 28
    /\ ChunkStarts(AT91S_PIO)[7] = 40
    /\ ChunkStarts(AT91S_PIO)[8] = 43
  <1> DEFINE size == ChunkSizes(AT91S_PIO)
             start == ChunkStarts(AT91S_PIO)
  <1>1. WellFormed(AT91S_PIO) /\ Len(AT91S_PIO) = 7
    BY SMT DEF WellFormed, AT91S_PIO
  <1>2. /\ Len(AT91S_PIO[1][1]) + AT91S_PIO[1][2] = 4
        /\ Len(AT91S_PIO[2][1]) + AT91S_PIO[2][2] = 4
        /\ Len(AT91S_PIO[3][1]) + AT91S_PIO[3][2] = 4
        /\ Len(AT91S_PIO[4][1]) + AT91S_PIO[4][2] = 12
        /\ Len(AT91S_PIO[5][1]) + AT91S_PIO[5][2] = 4
        /\ Len(AT91S_PIO[6][1]) + AT91S_PIO[6][2] = 12
        /\ Len(AT91S_PIO[7][1]) + AT91S_PIO[7][2] = 3
    BY SMT DEF AT91S_PIO
  <1>3. /\ size[1] = 4 /\ size[2] = 4 /\ size[3] = 4 /\ size[4] = 12 /\ size[5] = 4
        /\ size[6] = 12 /\ size[7] = 3
    BY <1>1, <1>2, SMT DEF ChunkSizes
  <1>4. start[1] = 0 /\ \A k \in 1 .. 7 : start[k + 1] = start[k] + size[k]
    BY <1>1, ChunksStart
  <1> HIDE DEF size, start
  <1>5. /\ start[1] = 0 /\ start[2] = 4 /\ start[3] = 8 /\ start[4] = 12 /\ start[5] = 24
        /\ start[6] = 28 /\ start[7] = 40 /\ start[8] = 43
    BY <1>3, <1>4, SMT
  <1> QED
    BY <1>1, <1>5 DEF start

LEMMA PIOALands == \A r \in DOMAIN Address.PIOA : Target("PIOA", r) = r
  <1>1. /\ ChunkAgrees(AT91S_PIO[1][1], 0, AT91C_PIOA, Base.PIOA)
        /\ ChunkAgrees(AT91S_PIO[2][1], 4, AT91C_PIOA, Base.PIOA)
        /\ ChunkAgrees(AT91S_PIO[3][1], 8, AT91C_PIOA, Base.PIOA)
        /\ ChunkAgrees(AT91S_PIO[4][1], 12, AT91C_PIOA, Base.PIOA)
        /\ ChunkAgrees(AT91S_PIO[5][1], 24, AT91C_PIOA, Base.PIOA)
        /\ ChunkAgrees(AT91S_PIO[6][1], 28, AT91C_PIOA, Base.PIOA)
        /\ ChunkAgrees(AT91S_PIO[7][1], 40, AT91C_PIOA, Base.PIOA)
    BY SMT DEF ChunkAgrees, AT91C_PIOA, AT91S_PIO, Base
  <1>2. \A r \in DOMAIN AT91C_PIOA : \/ Named(AT91S_PIO[1][1], r)
                                    \/ Named(AT91S_PIO[2][1], r)
                                    \/ Named(AT91S_PIO[3][1], r)
                                    \/ Named(AT91S_PIO[4][1], r)
                                    \/ Named(AT91S_PIO[5][1], r)
                                    \/ Named(AT91S_PIO[6][1], r)
                                    \/ Named(AT91S_PIO[7][1], r)
    BY SMT DEF AT91C_PIOA, AT91S_PIO, Named
  <1>3. /\ 1 \in 1 .. 7 /\ 2 \in 1 .. 7 /\ 3 \in 1 .. 7 /\ 4 \in 1 .. 7 /\ 5 \in 1 .. 7
        /\ 6 \in 1 .. 7 /\ 7 \in 1 .. 7
        /\ \A k \in 1 .. 7 : k = 1 \/ k = 2 \/ k = 3 \/ k = 4 \/ k = 5 \/ k = 6 \/ k = 7
    BY SMT
  <1> DEFINE start == ChunkStarts(AT91S_PIO)
  <1>4. /\ Len(AT91S_PIO) = 7 /\ start[1] = 0 /\ start[2] = 4 /\ start[3] = 8 /\ start[4] = 12
        /\ start[5] = 24 /\ start[6] = 28 /\ start[7] = 40
    BY PIOChunks
  <1>5. Struct.PIOA = AT91S_PIO /\ Address.PIOA = AT91C_PIOA /\ Base.PIOA \in Nat
    BY SMT DEF Struct, Address, Base
  <1> HIDE DEF start
  <1>6. \A k \in 1 .. 7 : ChunkAgrees(AT91S_PIO[k][1], start[k], AT91C_PIOA, Base.PIOA)
    BY <1>1, <1>3, <1>4
  <1>7. Agree(AT91S_PIO, start, AT91C_PIOA, Base.PIOA)
    BY <1>2, <1>3, <1>4, <1>6, Zenon DEF Agree
  <1> QED
    BY <1>5, <1>7, PIOChunks, LandsWhereNamed, Zenon DEF start

LEMMA PIOBLands == \A r \in DOMAIN Address.PIOB : Target("PIOB", r) = r
  <1>1. /\ ChunkAgrees(AT91S_PIO[1][1], 0, AT91C_PIOB, Base.PIOB)
        /\ ChunkAgrees(AT91S_PIO[2][1], 4, AT91C_PIOB, Base.PIOB)
        /\ ChunkAgrees(AT91S_PIO[3][1], 8, AT91C_PIOB, Base.PIOB)
        /\ ChunkAgrees(AT91S_PIO[4][1], 12, AT91C_PIOB, Base.PIOB)
        /\ ChunkAgrees(AT91S_PIO[5][1], 24, AT91C_PIOB, Base.PIOB)
        /\ ChunkAgrees(AT91S_PIO[6][1], 28, AT91C_PIOB, Base.PIOB)
        /\ ChunkAgrees(AT91S_PIO[7][1], 40, AT91C_PIOB, Base.PIOB)
    BY SMT DEF ChunkAgrees, AT91C_PIOB, AT91S_PIO, Base
  <1>2. \A r \in DOMAIN AT91C_PIOB : \/ Named(AT91S_PIO[1][1], r)
                                    \/ Named(AT91S_PIO[2][1], r)
                                    \/ Named(AT91S_PIO[3][1], r)
                                    \/ Named(AT91S_PIO[4][1], r)
                                    \/ Named(AT91S_PIO[5][1], r)
                                    \/ Named(AT91S_PIO[6][1], r)
                                    \/ Named(AT91S_PIO[7][1], r)
    BY SMT DEF AT91C_PIOB, AT91S_PIO, Named
  <1>3. /\ 1 \in 1 .. 7 /\ 2 \in 1 .. 7 /\ 3 \in 1 .. 7 /\ 4 \in 1 .. 7 /\ 5 \in 1 .. 7
        /\ 6 \in 1 .. 7 /\ 7 \in 1 .. 7
        /\ \A k \in 1 .. 7 : k = 1 \/ k = 2 \/ k = 3 \/ k = 4 \/ k = 5 \/ k = 6 \/ k = 7
    BY SMT
  <1> DEFINE start == ChunkStarts(AT91S_PIO)
  <1>4. /\ Len(AT91S_PIO) = 7 /\ start[1] = 0 /\ start[2] = 4 /\ start[3] = 8 /\ start[4] = 12
        /\ start[5] = 24 /\ start[6] = 28 /\ start[7] = 40
    BY PIOChunks
  <1>5. Struct.PIOB = AT91S_PIO /\ Address.PIOB = AT91C_PIOB /\ Base.PIOB \in Nat
    BY SMT DEF Struct, Address, Base
  <1> HIDE DEF start
  <1>6. \A k \in 1 .. 7 : ChunkAgrees(AT91S_PIO[k][1], start[k], AT91C_PIOB, Base.PIOB)
    BY <1>1, <1>3, <1>4
  <1>7. Agree(AT91S_PIO, start, AT91C_PIOB, Base.PIOB)
    BY <1>2, <1>3, <1>4, <1>6, Zenon DEF Agree
  <1> QED
    BY <1>5, <1>7, PIOChunks, LandsWhereNamed, Zenon DEF start

LEMMA PMCChunks ==
    /\ WellFormed(AT91S_PMC) /\ Len(AT91S_PMC) = 6
    /\ ChunkStarts(AT91S_PMC)[1] = 0
    /\ ChunkStarts(AT91S_PMC)[2] = 4
    /\ ChunkStarts(AT91S_PMC)[3] = 8
    /\ ChunkStarts(AT91S_PMC)[4] = 11
    /\ ChunkStarts(AT91S_PMC)[5] = 16
    /\ ChunkStarts(AT91S_PMC)[6] = 24
    /\ ChunkStarts(AT91S_PMC)[7] = 28
  <1> DEFINE size == ChunkSizes(AT91S_PMC)
             start == ChunkStarts(AT91S_PMC)
  <1>1. WellFormed(AT91S_PMC) /\ Len(AT91S_PMC) = 6
    BY SMT DEF WellFormed, AT91S_PMC
  <1>2. /\ Len(AT91S_PMC[1][1]) + AT91S_PMC[1][2] = 4
        /\ Len(AT91S_PMC[2][1]) + AT91S_PMC[2][2] = 4
        /\ Len(AT91S_PMC[3][1]) + AT91S_PMC[3][2] = 3
        /\ Len(AT91S_PMC[4][1]) + AT91S_PMC[4][2] = 5
        /\ Len(AT91S_PMC[5][1]) + AT91S_PMC[5][2] = 8
        /\ Len(AT91S_PMC[6][1]) + AT91S_PMC[6][2] = 4
    BY SMT DEF AT91S_PMC
  <1>3. size[1] = 4 /\ size[2] = 4 /\ size[3] = 3 /\ size[4] = 5 /\ size[5] = 8 /\ size[6] = 4
    BY <1>1, <1>2, SMT DEF ChunkSizes
  <1>4. start[1] = 0 /\ \A k \in 1 .. 6 : start[k + 1] = start[k] + size[k]
    BY <1>1, ChunksStart
  <1> HIDE DEF size, start
  <1>5. /\ start[1] = 0 /\ start[2] = 4 /\ start[3] = 8 /\ start[4] = 11 /\ start[5] = 16
        /\ start[6] = 24 /\ start[7] = 28
    BY <1>3, <1>4, SMT
  <1> QED
    BY <1>1, <1>5 DEF start

LEMMA PMCLands == \A r \in DOMAIN Address.PMC : Target("PMC", r) = r
  <1>1. /\ ChunkAgrees(AT91S_PMC[1][1], 0, AT91C_PMC, Base.PMC)
        /\ ChunkAgrees(AT91S_PMC[2][1], 4, AT91C_PMC, Base.PMC)
        /\ ChunkAgrees(AT91S_PMC[3][1], 8, AT91C_PMC, Base.PMC)
        /\ ChunkAgrees(AT91S_PMC[4][1], 11, AT91C_PMC, Base.PMC)
        /\ ChunkAgrees(AT91S_PMC[5][1], 16, AT91C_PMC, Base.PMC)
        /\ ChunkAgrees(AT91S_PMC[6][1], 24, AT91C_PMC, Base.PMC)
    BY SMT DEF ChunkAgrees, AT91C_PMC, AT91S_PMC, Base
  <1>2. \A r \in DOMAIN AT91C_PMC : \/ Named(AT91S_PMC[1][1], r)
                                   \/ Named(AT91S_PMC[2][1], r)
                                   \/ Named(AT91S_PMC[3][1], r)
                                   \/ Named(AT91S_PMC[4][1], r)
                                   \/ Named(AT91S_PMC[5][1], r)
                                   \/ Named(AT91S_PMC[6][1], r)
    BY SMT DEF AT91C_PMC, AT91S_PMC, Named
  <1>3. 1 \in 1 .. 6 /\ 2 \in 1 .. 6 /\ 3 \in 1 .. 6 /\ 4 \in 1 .. 6 /\ 5 \in 1 .. 6 /\ 6 \in 1 .. 6
        /\ \A k \in 1 .. 6 : k = 1 \/ k = 2 \/ k = 3 \/ k = 4 \/ k = 5 \/ k = 6
    BY SMT
  <1> DEFINE start == ChunkStarts(AT91S_PMC)
  <1>4. /\ Len(AT91S_PMC) = 6 /\ start[1] = 0 /\ start[2] = 4 /\ start[3] = 8 /\ start[4] = 11
        /\ start[5] = 16 /\ start[6] = 24
    BY PMCChunks
  <1>5. Struct.PMC = AT91S_PMC /\ Address.PMC = AT91C_PMC /\ Base.PMC \in Nat
    BY SMT DEF Struct, Address, Base
  <1> HIDE DEF start
  <1>6. \A k \in 1 .. 6 : ChunkAgrees(AT91S_PMC[k][1], start[k], AT91C_PMC, Base.PMC)
    BY <1>1, <1>3, <1>4
  <1>7. Agree(AT91S_PMC, start, AT91C_PMC, Base.PMC)
    BY <1>2, <1>3, <1>4, <1>6, Zenon DEF Agree
  <1> QED
    BY <1>5, <1>7, PMCChunks, LandsWhereNamed, Zenon DEF start

LEMMA USARTChunks ==
    /\ WellFormed(AT91S_USART) /\ Len(AT91S_USART) = 4
    /\ ChunkStarts(AT91S_USART)[1] = 0
    /\ ChunkStarts(AT91S_USART)[2] = 16
    /\ ChunkStarts(AT91S_USART)[3] = 19
    /\ ChunkStarts(AT91S_USART)[4] = 64
    /\ ChunkStarts(AT91S_USART)[5] = 74
  <1> DEFINE size == ChunkSizes(AT91S_USART)
             start == ChunkStarts(AT91S_USART)
  <1>1. WellFormed(AT91S_USART) /\ Len(AT91S_USART) = 4
    BY SMT DEF WellFormed, AT91S_USART
  <1>2. /\ Len(AT91S_USART[1][1]) + AT91S_USART[1][2] = 16
        /\ Len(AT91S_USART[2][1]) + AT91S_USART[2][2] = 3
        /\ Len(AT91S_USART[3][1]) + AT91S_USART[3][2] = 45
        /\ Len(AT91S_USART[4][1]) + AT91S_USART[4][2] = 10
    BY SMT DEF AT91S_USART
  <1>3. size[1] = 16 /\ size[2] = 3 /\ size[3] = 45 /\ size[4] = 10
    BY <1>1, <1>2, SMT DEF ChunkSizes
  <1>4. start[1] = 0 /\ \A k \in 1 .. 4 : start[k + 1] = start[k] + size[k]
    BY <1>1, ChunksStart
  <1> HIDE DEF size, start
  <1>5. start[1] = 0 /\ start[2] = 16 /\ start[3] = 19 /\ start[4] = 64 /\ start[5] = 74
    BY <1>3, <1>4, SMT
  <1> QED
    BY <1>1, <1>5 DEF start

LEMMA US0Lands == \A r \in DOMAIN Address.US0 : Target("US0", r) = r
  <1>1. /\ ChunkAgrees(AT91S_USART[1][1], 0, AT91C_US0, Base.US0)
        /\ ChunkAgrees(AT91S_USART[2][1], 16, AT91C_US0, Base.US0)
        /\ ChunkAgrees(AT91S_USART[3][1], 19, AT91C_US0, Base.US0)
        /\ ChunkAgrees(AT91S_USART[4][1], 64, AT91C_US0, Base.US0)
    BY SMT DEF ChunkAgrees, AT91C_US0, AT91S_USART, Base
  <1>2. \A r \in DOMAIN AT91C_US0 : \/ Named(AT91S_USART[1][1], r)
                                   \/ Named(AT91S_USART[2][1], r)
                                   \/ Named(AT91S_USART[3][1], r)
                                   \/ Named(AT91S_USART[4][1], r)
    BY SMT DEF AT91C_US0, AT91S_USART, Named
  <1>3. 1 \in 1 .. 4 /\ 2 \in 1 .. 4 /\ 3 \in 1 .. 4 /\ 4 \in 1 .. 4
        /\ \A k \in 1 .. 4 : k = 1 \/ k = 2 \/ k = 3 \/ k = 4
    BY SMT
  <1> DEFINE start == ChunkStarts(AT91S_USART)
  <1>4. Len(AT91S_USART) = 4 /\ start[1] = 0 /\ start[2] = 16 /\ start[3] = 19 /\ start[4] = 64
    BY USARTChunks
  <1>5. Struct.US0 = AT91S_USART /\ Address.US0 = AT91C_US0 /\ Base.US0 \in Nat
    BY SMT DEF Struct, Address, Base
  <1> HIDE DEF start
  <1>6. \A k \in 1 .. 4 : ChunkAgrees(AT91S_USART[k][1], start[k], AT91C_US0, Base.US0)
    BY <1>1, <1>3, <1>4
  <1>7. Agree(AT91S_USART, start, AT91C_US0, Base.US0)
    BY <1>2, <1>3, <1>4, <1>6, Zenon DEF Agree
  <1> QED
    BY <1>5, <1>7, USARTChunks, LandsWhereNamed, Zenon DEF start

LEMMA TCChunks ==
    /\ WellFormed(AT91S_TC) /\ Len(AT91S_TC) = 2
    /\ ChunkStarts(AT91S_TC)[1] = 0
    /\ ChunkStarts(AT91S_TC)[2] = 4
    /\ ChunkStarts(AT91S_TC)[3] = 12
  <1> DEFINE size == ChunkSizes(AT91S_TC)
             start == ChunkStarts(AT91S_TC)
  <1>1. WellFormed(AT91S_TC) /\ Len(AT91S_TC) = 2
    BY SMT DEF WellFormed, AT91S_TC
  <1>2. Len(AT91S_TC[1][1]) + AT91S_TC[1][2] = 4 /\ Len(AT91S_TC[2][1]) + AT91S_TC[2][2] = 8
    BY SMT DEF AT91S_TC
  <1>3. size[1] = 4 /\ size[2] = 8
    BY <1>1, <1>2, SMT DEF ChunkSizes
  <1>4. start[1] = 0 /\ \A k \in 1 .. 2 : start[k + 1] = start[k] + size[k]
    BY <1>1, ChunksStart
  <1> HIDE DEF size, start
  <1>5. start[1] = 0 /\ start[2] = 4 /\ start[3] = 12
    BY <1>3, <1>4, SMT
  <1> QED
    BY <1>1, <1>5 DEF start

LEMMA TC0Lands == \A r \in DOMAIN Address.TC0 : Target("TC0", r) = r
  <1>1. /\ ChunkAgrees(AT91S_TC[1][1], 0, AT91C_TC0, Base.TC0)
        /\ ChunkAgrees(AT91S_TC[2][1], 4, AT91C_TC0, Base.TC0)
    BY SMT DEF ChunkAgrees, AT91C_TC0, AT91S_TC, Base
  <1>2. \A r \in DOMAIN AT91C_TC0 : \/ Named(AT91S_TC[1][1], r)
                                   \/ Named(AT91S_TC[2][1], r)
    BY SMT DEF AT91C_TC0, AT91S_TC, Named
  <1>3. 1 \in 1 .. 2 /\ 2 \in 1 .. 2
        /\ \A k \in 1 .. 2 : k = 1 \/ k = 2
    BY SMT
  <1> DEFINE start == ChunkStarts(AT91S_TC)
  <1>4. Len(AT91S_TC) = 2 /\ start[1] = 0 /\ start[2] = 4
    BY TCChunks
  <1>5. Struct.TC0 = AT91S_TC /\ Address.TC0 = AT91C_TC0 /\ Base.TC0 \in Nat
    BY SMT DEF Struct, Address, Base
  <1> HIDE DEF start
  <1>6. \A k \in 1 .. 2 : ChunkAgrees(AT91S_TC[k][1], start[k], AT91C_TC0, Base.TC0)
    BY <1>1, <1>3, <1>4
  <1>7. Agree(AT91S_TC, start, AT91C_TC0, Base.TC0)
    BY <1>2, <1>3, <1>4, <1>6, Zenon DEF Agree
  <1> QED
    BY <1>5, <1>7, TCChunks, LandsWhereNamed, Zenon DEF start

LEMMA ADCChunks ==
    /\ WellFormed(AT91S_ADC) /\ Len(AT91S_ADC) = 3
    /\ ChunkStarts(AT91S_ADC)[1] = 0
    /\ ChunkStarts(AT91S_ADC)[2] = 4
    /\ ChunkStarts(AT91S_ADC)[3] = 64
    /\ ChunkStarts(AT91S_ADC)[4] = 74
  <1> DEFINE size == ChunkSizes(AT91S_ADC)
             start == ChunkStarts(AT91S_ADC)
  <1>1. WellFormed(AT91S_ADC) /\ Len(AT91S_ADC) = 3
    BY SMT DEF WellFormed, AT91S_ADC
  <1>2. /\ Len(AT91S_ADC[1][1]) + AT91S_ADC[1][2] = 4
        /\ Len(AT91S_ADC[2][1]) + AT91S_ADC[2][2] = 60
        /\ Len(AT91S_ADC[3][1]) + AT91S_ADC[3][2] = 10
    BY SMT DEF AT91S_ADC
  <1>3. size[1] = 4 /\ size[2] = 60 /\ size[3] = 10
    BY <1>1, <1>2, SMT DEF ChunkSizes
  <1>4. start[1] = 0 /\ \A k \in 1 .. 3 : start[k + 1] = start[k] + size[k]
    BY <1>1, ChunksStart
  <1> HIDE DEF size, start
  <1>5. start[1] = 0 /\ start[2] = 4 /\ start[3] = 64 /\ start[4] = 74
    BY <1>3, <1>4, SMT
  <1> QED
    BY <1>1, <1>5 DEF start

LEMMA ADCLands == \A r \in DOMAIN Address.ADC : Target("ADC", r) = r
  <1>1. /\ ChunkAgrees(AT91S_ADC[1][1], 0, AT91C_ADC, Base.ADC)
        /\ ChunkAgrees(AT91S_ADC[2][1], 4, AT91C_ADC, Base.ADC)
        /\ ChunkAgrees(AT91S_ADC[3][1], 64, AT91C_ADC, Base.ADC)
    BY SMT DEF ChunkAgrees, AT91C_ADC, AT91S_ADC, Base
  <1>2. \A r \in DOMAIN AT91C_ADC : \/ Named(AT91S_ADC[1][1], r)
                                   \/ Named(AT91S_ADC[2][1], r)
                                   \/ Named(AT91S_ADC[3][1], r)
    BY SMT DEF AT91C_ADC, AT91S_ADC, Named
  <1>3. 1 \in 1 .. 3 /\ 2 \in 1 .. 3 /\ 3 \in 1 .. 3
        /\ \A k \in 1 .. 3 : k = 1 \/ k = 2 \/ k = 3
    BY SMT
  <1> DEFINE start == ChunkStarts(AT91S_ADC)
  <1>4. Len(AT91S_ADC) = 3 /\ start[1] = 0 /\ start[2] = 4 /\ start[3] = 64
    BY ADCChunks
  <1>5. Struct.ADC = AT91S_ADC /\ Address.ADC = AT91C_ADC /\ Base.ADC \in Nat
    BY SMT DEF Struct, Address, Base
  <1> HIDE DEF start
  <1>6. \A k \in 1 .. 3 : ChunkAgrees(AT91S_ADC[k][1], start[k], AT91C_ADC, Base.ADC)
    BY <1>1, <1>3, <1>4
  <1>7. Agree(AT91S_ADC, start, AT91C_ADC, Base.ADC)
    BY <1>2, <1>3, <1>4, <1>6, Zenon DEF Agree
  <1> QED
    BY <1>5, <1>7, ADCChunks, LandsWhereNamed, Zenon DEF start

LEMMA SystemControllers ==
    \A dev \in DOMAIN PartOfSYS : Base[dev] = Base.AIC + 4 * SysStarts[PartOfSYS[dev]]
  <1> DEFINE part(n) == AT91S_SYS[n][1]
             end(n) == ChunkStarts(part(n))[Len(part(n)) + 1]
             size == [n \in 1 .. Len(AT91S_SYS) |-> end(n) + AT91S_SYS[n][2]]
  <1>1. /\ Len(AT91S_SYS) = 6
        /\ part(1) = AT91S_AIC /\ part(2) = AT91S_DBGU /\ part(3) = AT91S_PIO
        /\ part(4) = AT91S_PIO /\ part(5) = AT91S_PMC
        /\ AT91S_SYS[1][2] = 45 /\ AT91S_SYS[2][2] = 54 /\ AT91S_SYS[3][2] = 85
        /\ AT91S_SYS[4][2] = 341 /\ AT91S_SYS[5][2] = 36 /\ AT91S_SYS[6][2] = 0
    BY SMT DEF AT91S_SYS
  <1>2. WellFormed(part(6))
    BY SMT DEF WellFormed, AT91S_SYS
  <1>3. end(6) \in Nat
    <2>1. Len(part(6)) + 1 \in 1 .. Len(part(6)) + 1
      BY <1>2, SMT DEF WellFormed
    <2> QED
      BY <1>2, <2>1, ChunksStart
  <1>4. end(1) = 83 /\ end(2) = 74 /\ end(3) = 43 /\ end(4) = 43 /\ end(5) = 28
    BY <1>1, AICChunks, DBGUChunks, PIOChunks, PMCChunks
  <1> HIDE DEF end
  <1>5. /\ Len(size) = 6
        /\ size[1] = 128 /\ size[2] = 128 /\ size[3] = 128 /\ size[4] = 384
        /\ size[5] \in Nat /\ size[6] \in Nat
    BY <1>1, <1>3, <1>4, SMT
  <1>6. SysStarts = Sums(size)
    BY DEF SysStarts, end
  <1> HIDE DEF size
  <1>7. Len(size) \in 0 .. 16 /\ \A n \in 1 .. Len(size) : size[n] \in Nat
    BY <1>5, SMT
  <1>8. Sums(size)[1] = 0 /\ \A n \in 1 .. Len(size) : Sums(size)[n + 1] = Sums(size)[n] + size[n]
    BY <1>7, SumsOf
  <1> DEFINE start == Sums(size)
  <1> HIDE DEF start
  <1>9. start[1] = 0 /\ start[3] = 256 /\ start[4] = 384 /\ start[5] = 768
    <2>1. start[1] = 0 /\ \A n \in 1 .. 6 : start[n + 1] = start[n] + size[n]
      BY <1>5, <1>8 DEF start
    <2> QED
      BY <1>5, <2>1, SMT
  <1>10. \A dev \in DOMAIN PartOfSYS : dev = "AIC" \/ dev = "PIOA" \/ dev = "PIOB" \/ dev = "PMC"
    BY SMT DEF PartOfSYS
  <1>11. /\ PartOfSYS["AIC"] = 1 /\ PartOfSYS["PIOA"] = 3 /\ PartOfSYS["PIOB"] = 4
         /\ PartOfSYS["PMC"] = 5
         /\ Base["PIOA"] = Base.AIC + 4 * 256 /\ Base["PIOB"] = Base.AIC + 4 * 384
         /\ Base["PMC"] = Base.AIC + 4 * 768 /\ Base["AIC"] = Base.AIC + 4 * 0
    BY SMT DEF PartOfSYS, Base
  <1>12. /\ SysStarts[1] = 0 /\ SysStarts[3] = 256 /\ SysStarts[4] = 384
         /\ SysStarts[5] = 768
    BY <1>6, <1>9 DEF start
  <1> QED
    BY <1>10, <1>11, <1>12

\* Both descriptions of every controller agree.
LEMMA LayoutHolds == \A dev \in Devices : LayoutAgrees(dev)
  <1>1. \A dev \in Devices : \/ dev = "AIC" \/ dev = "PIOA" \/ dev = "PIOB" \/ dev = "PMC"
                             \/ dev = "US0" \/ dev = "TC0" \/ dev = "ADC"
    BY SMT DEF Devices, Base
  <1>2. \A dev \in Devices : \A r \in DOMAIN Address[dev] : Target(dev, r) = r
    BY <1>1, AICLands, PIOALands, PIOBLands, PMCLands, US0Lands, TC0Lands, ADCLands, Zenon
  <1> QED
    BY <1>2, SystemControllers, Zenon DEF LayoutAgrees

-----------------------------------------------------------------------------
(* What the values mean that the boot writes.                              *)

\* A bit as a number.
Bit(bits, i) == IF i \in bits THEN 1 ELSE 0

\* The numbers that add up to the value of a field.
FieldSums(bits, low, width) ==
    Sums([i \in 1 .. width |-> IF low + i - 1 \in bits THEN 2^(i - 1) ELSE 0])

\* The number in a field of a register, bit by bit.
LEMMA FieldOf ==
    ASSUME NEW bits, NEW low \in Nat, NEW width \in 0 .. 16
    PROVE  LET v == FieldSums(bits, low, width) IN
           /\ Field(bits, low, width) = v[width + 1]
           /\ v[1] = 0
           /\ \A k \in 1 .. width : v[k + 1] = v[k] + 2^(k - 1) * Bit(bits, low + k - 1)
  <1> DEFINE numbers == [i \in 1 .. width |-> IF low + i - 1 \in bits THEN 2^(i - 1) ELSE 0]
  <1>1. Len(numbers) = width /\ Len(numbers) \in 0 .. 16
    BY SMT
  <1>2. \A k \in 1 .. width : numbers[k] = 2^(k - 1) * Bit(bits, low + k - 1)
    BY SMT DEF Bit
  <1>3. /\ Field(bits, low, width) = Sums(numbers)[width + 1]
        /\ FieldSums(bits, low, width) = Sums(numbers)
    BY DEF Field, FieldSums
  <1> HIDE DEF numbers
  <1>4. Sums(numbers)[1] = 0
        /\ \A k \in 1 .. Len(numbers) : Sums(numbers)[k + 1] = Sums(numbers)[k] + numbers[k]
    BY <1>1, SumsOf
  <1> QED
    BY <1>1, <1>2, <1>3, <1>4

\* The same, for every width that is used.
LEMMA Fields ==
    ASSUME NEW bits, NEW low \in Nat
    PROVE  LET b(i) == Bit(bits, low + i) IN
           /\ Field(bits, low, 1) = b(0)
           /\ Field(bits, low, 2) = b(0) + 2 * b(1)
           /\ Field(bits, low, 3) = b(0) + 2 * b(1) + 4 * b(2)
           /\ Field(bits, low, 4) = b(0) + 2 * b(1) + 4 * b(2) + 8 * b(3)
           /\ Field(bits, low, 6) = b(0) + 2 * b(1) + 4 * b(2) + 8 * b(3) + 16 * b(4) + 32 * b(5)
           /\ Field(bits, low, 16) =
                b(0) + 2 * b(1) + 4 * b(2) + 8 * b(3) + 16 * b(4) + 32 * b(5) + 64 * b(6) + 128 * b(7)
                + 256 * b(8) + 512 * b(9) + 1024 * b(10) + 2048 * b(11) + 4096 * b(12)
                + 8192 * b(13) + 16384 * b(14) + 32768 * b(15)
  <1> DEFINE widths == {1, 2, 3, 4, 6, 16}
             b(i) == Bit(bits, low + i)
             v(n) == FieldSums(bits, low, n)
  <1>1. \A i : b(i) \in Nat
    BY DEF Bit
  <1>2. ASSUME NEW n \in widths
        PROVE  /\ Field(bits, low, n) = v(n)[n + 1]
               /\ v(n)[1] = 0
               /\ \A k \in 1 .. n : v(n)[k + 1] = v(n)[k] + 2^(k - 1) * Bit(bits, low + k - 1)
    BY FieldOf, n \in 0 .. 16
  <1> HIDE DEF v
  <1>3. ASSUME NEW n \in widths, NEW k \in 0 .. n - 1
        PROVE  v(n)[k + 2] = v(n)[k + 1] + 2^k * b(k)
    <2>1. k + 1 \in 1 .. n /\ (k + 1) + 1 = k + 2 /\ (k + 1) - 1 = k /\ low + (k + 1) - 1 = low + k
      BY SMT
    <2> QED
      BY <1>2, <2>1
  <1> HIDE DEF b
  <1>4. \A n \in widths : v(n)[1] = 0 /\ v(n)[2] = b(0)
    BY <1>1, <1>2, <1>3, SMT
  <1>5. /\ \A n \in {2, 3, 4, 6, 16} : v(n)[3] = b(0) + 2 * b(1)
        /\ \A n \in {3, 4, 6, 16} : v(n)[4] = b(0) + 2 * b(1) + 4 * b(2)
        /\ \A n \in {4, 6, 16} : v(n)[5] = b(0) + 2 * b(1) + 4 * b(2) + 8 * b(3)
    BY <1>1, <1>3, <1>4, SMT
  <1>6. \A n \in {6, 16} : v(n)[7] = b(0) + 2 * b(1) + 4 * b(2) + 8 * b(3) + 16 * b(4) + 32 * b(5)
    BY <1>1, <1>3, <1>5, SMT
  <1>7. v(16)[17] = v(16)[7] + 64 * b(6) + 128 * b(7)
                + 256 * b(8) + 512 * b(9) + 1024 * b(10) + 2048 * b(11) + 4096 * b(12)
                + 8192 * b(13) + 16384 * b(14) + 32768 * b(15)
    BY <1>1, <1>3, <1>6, SMT
  <1>8. /\ Field(bits, low, 1) = v(1)[2] /\ Field(bits, low, 2) = v(2)[3]
        /\ Field(bits, low, 3) = v(3)[4] /\ Field(bits, low, 4) = v(4)[5]
        /\ Field(bits, low, 6) = v(6)[7] /\ Field(bits, low, 16) = v(16)[17]
    BY <1>2, SMT
  <1> QED
    BY <1>1, <1>4, <1>5, <1>6, <1>7, <1>8, SMT DEF b

LEMMA Powers ==
        /\ 2^0 = 1 /\ 2^1 = 2 /\ 2^2 = 4 /\ 2^3 = 8
        /\ 2^4 = 16 /\ 2^5 = 32 /\ 2^6 = 64 /\ 2^7 = 128
        /\ 2^8 = 256 /\ 2^9 = 512 /\ 2^10 = 1024 /\ 2^11 = 2048
        /\ 2^12 = 4096 /\ 2^13 = 8192 /\ 2^14 = 16384 /\ 2^15 = 32768
        /\ 2^16 = 65536 /\ 2^17 = 131072 /\ 2^18 = 262144 /\ 2^19 = 524288
        /\ 2^20 = 1048576 /\ 2^21 = 2097152 /\ 2^22 = 4194304 /\ 2^23 = 8388608
        /\ 2^24 = 16777216 /\ 2^25 = 33554432 /\ 2^26 = 67108864 /\ 2^27 = 134217728
        /\ 2^28 = 268435456 /\ 2^29 = 536870912 /\ 2^30 = 1073741824
  BY SMT

LEMMA Places == \A i \in 0 .. 30 :
        \/ i = 0 \/ i = 1 \/ i = 2 \/ i = 3 \/ i = 4 \/ i = 5 \/ i = 6 \/ i = 7
        \/ i = 8 \/ i = 9 \/ i = 10 \/ i = 11 \/ i = 12 \/ i = 13 \/ i = 14 \/ i = 15
        \/ i = 16 \/ i = 17 \/ i = 18 \/ i = 19 \/ i = 20 \/ i = 21 \/ i = 22 \/ i = 23
        \/ i = 24 \/ i = 25 \/ i = 26 \/ i = 27 \/ i = 28 \/ i = 29 \/ i = 30
  BY SMT

\* A set says of a bit, which counts for p, what a number says of it.
Says(set, n, i, p) == i \in set <=> (n \div p) % 2 = 1

SaysAll(set, n) ==
        /\ Says(set, n, 0, 1) /\ Says(set, n, 1, 2) /\ Says(set, n, 2, 4)
        /\ Says(set, n, 3, 8) /\ Says(set, n, 4, 16) /\ Says(set, n, 5, 32)
        /\ Says(set, n, 6, 64) /\ Says(set, n, 7, 128) /\ Says(set, n, 8, 256)
        /\ Says(set, n, 9, 512) /\ Says(set, n, 10, 1024) /\ Says(set, n, 11, 2048)
        /\ Says(set, n, 12, 4096) /\ Says(set, n, 13, 8192) /\ Says(set, n, 14, 16384)
        /\ Says(set, n, 15, 32768) /\ Says(set, n, 16, 65536) /\ Says(set, n, 17, 131072)
        /\ Says(set, n, 18, 262144) /\ Says(set, n, 19, 524288) /\ Says(set, n, 20, 1048576)
        /\ Says(set, n, 21, 2097152) /\ Says(set, n, 22, 4194304) /\ Says(set, n, 23, 8388608)
        /\ Says(set, n, 24, 16777216) /\ Says(set, n, 25, 33554432) /\ Says(set, n, 26, 67108864)
        /\ Says(set, n, 27, 134217728) /\ Says(set, n, 28, 268435456) /\ Says(set, n, 29, 536870912)
        /\ Says(set, n, 30, 1073741824)

\* The bits of a number, one by one.
LEMMA BitsAre ==
    ASSUME NEW n \in Nat, NEW set \in SUBSET (0 .. 30), SaysAll(set, n)
    PROVE  Bits(n) = set
  <1> DEFINE says(i) == Says(set, n, i, 2^i)
  <1>1. /\ says(0) /\ says(1) /\ says(2) /\ says(3) /\ says(4) /\ says(5) /\ says(6) /\ says(7)
        /\ says(8) /\ says(9) /\ says(10) /\ says(11) /\ says(12) /\ says(13) /\ says(14) /\ says(15)
        /\ says(16) /\ says(17) /\ says(18) /\ says(19) /\ says(20) /\ says(21) /\ says(22) /\ says(23)
        /\ says(24) /\ says(25) /\ says(26) /\ says(27) /\ says(28) /\ says(29) /\ says(30)
    BY Powers DEF SaysAll
  <1> HIDE DEF says
  <1>2. ASSUME NEW i \in 0 .. 30
        PROVE  says(i)
    BY <1>1, Places
  <1>3. \A i \in 0 .. 30 : i \in set <=> (n \div 2^i) % 2 = 1
    BY <1>2 DEF says, Says
  <1> QED
    BY <1>3 DEF Bits

\* The numbers that the boot writes.
LEMMA NumbersOfBoot ==
    /\ Bits(3 * 2^6 + 4 * 2^9) = {6, 7, 11}
    /\ Bits(UsartModel_GetBaudRateRegisterSetting) = {1, 3, 4}
    /\ Bits(11 * 2^8 + 4 * 2^16) = {8, 9, 11, 18}
    /\ Bits(\h10) = {4}
    /\ Bits(\h000CC004) = {2, 14, 15, 18, 19}
    /\ Bits(469) = {0, 2, 4, 6, 7, 8}
    /\ Bits(1) = {0}
  <1>1. 3 * 2^6 + 4 * 2^9 = 2240 /\ 11 * 2^8 + 4 * 2^16 = 264960
    BY SMT
  <1>2. UsartModel_GetBaudRateRegisterSetting = 26
    BY SMT DEF UsartModel_GetBaudRateRegisterSetting, BaudRateRegister
  <1>3. /\ SaysAll({6, 7, 11}, 2240)
        /\ SaysAll({1, 3, 4}, 26)
        /\ SaysAll({8, 9, 11, 18}, 264960)
        /\ SaysAll({4}, 16)
    BY SMT DEF SaysAll, Says
  <1>4. /\ SaysAll({2, 14, 15, 18, 19}, 835588)
        /\ SaysAll({0, 2, 4, 6, 7, 8}, 469)
        /\ SaysAll({0}, 1)
    BY SMT DEF SaysAll, Says
  <1>5. /\ {6, 7, 11} \in SUBSET (0 .. 30)
        /\ {1, 3, 4} \in SUBSET (0 .. 30)
        /\ {8, 9, 11, 18} \in SUBSET (0 .. 30)
        /\ {4} \in SUBSET (0 .. 30)
        /\ {2, 14, 15, 18, 19} \in SUBSET (0 .. 30)
        /\ {0, 2, 4, 6, 7, 8} \in SUBSET (0 .. 30)
        /\ {0} \in SUBSET (0 .. 30)
    BY SMT
  <1> QED
    BY <1>1, <1>2, <1>3, <1>4, <1>5, BitsAre

LEMMA Widths ==
    ASSUME NEW names
    PROVE  /\ Len(names) = 2 => Width(names) = 1
           /\ Len(names) = 4 => Width(names) = 2
           /\ Len(names) = 8 => Width(names) = 3
           /\ Len(names) = 16 => Width(names) = 4
  <1>1. 2^1 = 2 /\ 2^2 = 4 /\ 2^3 = 8 /\ 2^4 = 16
    BY SMT
  <1>2. \A w \in 1 .. 4 : w = 1 \/ w = 2 \/ w = 3 \/ w = 4
    BY SMT
  <1> DEFINE power(w) == 2^w
  <1>3. ASSUME NEW w \in 1 .. 4, power(w) = Len(names)
        PROVE  Width(names) = w
    <2>1. power(1) = 2 /\ power(2) = 4 /\ power(3) = 8 /\ power(4) = 16
      BY <1>1
    <2> HIDE DEF power
    <2>2. \A v \in 1 .. 4 : power(v) = Len(names) => v = w
      BY <1>2, <1>3, <2>1, SMT
    <2> QED
      BY <1>3, <2>2, Zenon DEF Width, power
  <1> QED
    BY <1>1, <1>3, SMT

\* A field all of whose bits are off.
Clear(bits, field) ==
    /\ field[1] \in Nat
    /\ Len(field[2]) \in {2, 4, 8, 16}
    /\ \A i \in bits : \/ i < field[1]
                       \/ /\ Len(field[2]) = 2 => i >= field[1] + 1
                          /\ Len(field[2]) = 4 => i >= field[1] + 2
                          /\ Len(field[2]) = 8 => i >= field[1] + 3
                          /\ Len(field[2]) = 16 => i >= field[1] + 4

\* Its value is the first one.
LEMMA ClearIsFirst ==
    ASSUME NEW bits \in SUBSET AllBits, NEW table, NEW f \in DOMAIN table, Clear(bits, table[f])
    PROVE  Decoded(table, bits)[f] = table[f][2][1]
  <1> DEFINE low == table[f][1]
             names == table[f][2]
             b(i) == Bit(bits, low + i)
  <1>1. low \in Nat /\ Len(names) \in {2, 4, 8, 16} /\ \A i \in bits : i \in Int
    BY DEF Clear, AllBits
  <1>2. /\ Len(names) = 2 => Field(bits, low, Width(names)) = b(0)
        /\ Len(names) = 4 => Field(bits, low, Width(names)) = b(0) + 2 * b(1)
        /\ Len(names) = 8 => Field(bits, low, Width(names)) = b(0) + 2 * b(1) + 4 * b(2)
        /\ Len(names) = 16 => Field(bits, low, Width(names)) = b(0) + 2 * b(1) + 4 * b(2) + 8 * b(3)
    <2> HIDE DEF low, names
    <2> QED
      BY <1>1, Fields, Widths
  <1>3. /\ low \notin bits
        /\ Len(names) \in {4, 8, 16} => low + 1 \notin bits
        /\ Len(names) \in {8, 16} => low + 2 \notin bits
        /\ Len(names) = 16 => low + 3 \notin bits
    BY <1>1, SMT DEF Clear
  <1>4. low + 0 = low
    BY <1>1, SMT
  <1>5. /\ b(0) = 0 /\ (Len(names) \in {4, 8, 16} => b(1) = 0)
        /\ (Len(names) \in {8, 16} => b(2) = 0) /\ (Len(names) = 16 => b(3) = 0)
    BY <1>3, <1>4, Zenon DEF Bit
  <1>6. Field(bits, low, Width(names)) = 0
    <2> HIDE DEF low, names, b
    <2> QED
      BY <1>1, <1>2, <1>5, SMT
  <1> QED
    BY <1>6 DEF Decoded


\* What the boot writes to the mode register of the timer means.
LEMMA TC_CMRMeans ==
    Decoded(TC_CMR, {2, 14, 15, 18, 19}) =
        [Defaults(TC_CMR) EXCEPT !.CLKS = "DIV5", !.WAVE = "ON",
                      !.WAVESEL = "UP_AUTO", !.ACPC = "TOGGLE"]
  <1> DEFINE bits == {2, 14, 15, 18, 19}
             intended == [Defaults(TC_CMR) EXCEPT !.CLKS = "DIV5", !.WAVE = "ON",
                                       !.WAVESEL = "UP_AUTO", !.ACPC = "TOGGLE"]
  <1>1. bits \in SUBSET AllBits
    BY SMT DEF AllBits
  <1>2. \A f \in DOMAIN TC_CMR :
           \/ f = "CLKS" \/ f = "CLKI" \/ f = "BURST" \/ f = "CPCSTOP" \/ f = "CPCDIS"
           \/ f = "EEVTEDG" \/ f = "EEVT" \/ f = "ENETRG" \/ f = "WAVESEL" \/ f = "WAVE"
           \/ f = "ACPA" \/ f = "ACPC" \/ f = "AEEVT" \/ f = "ASWTRG" \/ f = "BCPB"
           \/ f = "BCPC" \/ f = "BEEVT" \/ f = "BSWTRG"
    BY SMT DEF TC_CMR
  <1>3. /\ Clear(bits, TC_CMR["CLKI"])
        /\ Clear(bits, TC_CMR["BURST"])
        /\ Clear(bits, TC_CMR["CPCSTOP"])
        /\ Clear(bits, TC_CMR["CPCDIS"])
        /\ Clear(bits, TC_CMR["EEVTEDG"])
        /\ Clear(bits, TC_CMR["EEVT"])
        /\ Clear(bits, TC_CMR["ENETRG"])
        /\ Clear(bits, TC_CMR["ACPA"])
        /\ Clear(bits, TC_CMR["AEEVT"])
        /\ Clear(bits, TC_CMR["ASWTRG"])
        /\ Clear(bits, TC_CMR["BCPB"])
        /\ Clear(bits, TC_CMR["BCPC"])
        /\ Clear(bits, TC_CMR["BEEVT"])
        /\ Clear(bits, TC_CMR["BSWTRG"])
    <2>1. /\ Clear(bits, TC_CMR["CLKI"]) /\ Clear(bits, TC_CMR["BURST"])
          /\ Clear(bits, TC_CMR["CPCSTOP"]) /\ Clear(bits, TC_CMR["CPCDIS"])
      BY SMT DEF Clear, TC_CMR, Flag, Effects, Edges
    <2>2. /\ Clear(bits, TC_CMR["EEVTEDG"]) /\ Clear(bits, TC_CMR["EEVT"])
          /\ Clear(bits, TC_CMR["ENETRG"]) /\ Clear(bits, TC_CMR["ACPA"])
      BY SMT DEF Clear, TC_CMR, Flag, Effects, Edges
    <2>3. /\ Clear(bits, TC_CMR["AEEVT"]) /\ Clear(bits, TC_CMR["ASWTRG"])
          /\ Clear(bits, TC_CMR["BCPB"]) /\ Clear(bits, TC_CMR["BCPC"])
      BY SMT DEF Clear, TC_CMR, Flag, Effects, Edges
    <2>4. /\ Clear(bits, TC_CMR["BEEVT"]) /\ Clear(bits, TC_CMR["BSWTRG"])
      BY SMT DEF Clear, TC_CMR, Flag, Effects, Edges
    <2> QED
      BY <2>1, <2>2, <2>3, <2>4
  <1>4. {"CLKS", "WAVE", "WAVESEL", "ACPC"} \subseteq DOMAIN TC_CMR
    BY SMT DEF TC_CMR
  <1>5. Decoded(TC_CMR, bits)["CLKS"] = "DIV5"
    <2>1. Field(bits, 0, 3) = Bit(bits, 0 + 0) + 2 * Bit(bits, 0 + 1) + 4 * Bit(bits, 0 + 2)
      BY Fields
    <2>2. Field(bits, 0, 3) = 4
      BY <2>1, SMT DEF Bit
    <2>3. /\ TC_CMR["CLKS"][1] = 0 /\ Len(TC_CMR["CLKS"][2]) = 8
          /\ TC_CMR["CLKS"][2][1 + 4] = "DIV5"
      BY SMT DEF TC_CMR
    <2> QED
      BY <1>4, <2>2, <2>3, Widths DEF Decoded
  <1>6. Decoded(TC_CMR, bits)["WAVE"] = "ON"
    <2>1. Field(bits, 15, 1) = Bit(bits, 15 + 0)
      BY Fields
    <2>2. Field(bits, 15, 1) = 1
      BY <2>1, SMT DEF Bit
    <2>3. /\ TC_CMR["WAVE"][1] = 15 /\ Len(TC_CMR["WAVE"][2]) = 2
          /\ TC_CMR["WAVE"][2][1 + 1] = "ON"
      BY SMT DEF TC_CMR, Flag
    <2> QED
      BY <1>4, <2>2, <2>3, Widths DEF Decoded
  <1>7. Decoded(TC_CMR, bits)["WAVESEL"] = "UP_AUTO"
    <2>1. Field(bits, 13, 2) = Bit(bits, 13 + 0) + 2 * Bit(bits, 13 + 1)
      BY Fields
    <2>2. Field(bits, 13, 2) = 2
      BY <2>1, SMT DEF Bit
    <2>3. /\ TC_CMR["WAVESEL"][1] = 13 /\ Len(TC_CMR["WAVESEL"][2]) = 4
          /\ TC_CMR["WAVESEL"][2][1 + 2] = "UP_AUTO"
      BY SMT DEF TC_CMR
    <2> QED
      BY <1>4, <2>2, <2>3, Widths DEF Decoded
  <1>8. Decoded(TC_CMR, bits)["ACPC"] = "TOGGLE"
    <2>1. Field(bits, 18, 2) = Bit(bits, 18 + 0) + 2 * Bit(bits, 18 + 1)
      BY Fields
    <2>2. Field(bits, 18, 2) = 3
      BY <2>1, SMT DEF Bit
    <2>3. /\ TC_CMR["ACPC"][1] = 18 /\ Len(TC_CMR["ACPC"][2]) = 4
          /\ TC_CMR["ACPC"][2][1 + 3] = "TOGGLE"
      BY SMT DEF TC_CMR, Effects
    <2> QED
      BY <1>4, <2>2, <2>3, Widths DEF Decoded
  <1> HIDE DEF bits
  <1>9. ASSUME NEW f \in DOMAIN TC_CMR
        PROVE  Decoded(TC_CMR, bits)[f] = intended[f]
    <2>1. CASE f \in {"CLKS", "WAVE", "WAVESEL", "ACPC"}
      <3>1. /\ intended["CLKS"] = "DIV5" /\ intended["WAVE"] = "ON"
            /\ intended["WAVESEL"] = "UP_AUTO" /\ intended["ACPC"] = "TOGGLE"
        BY <1>4 DEF Defaults
      <3> QED
        BY <2>1, <3>1, <1>5, <1>6, <1>7, <1>8
    <2>2. CASE f \notin {"CLKS", "WAVE", "WAVESEL", "ACPC"}
      <3>1. Clear(bits, TC_CMR[f])
        BY <1>2, <1>3, <2>2
      <3>2. intended[f] = TC_CMR[f][2][1]
        BY <2>2 DEF Defaults
      <3> QED
        BY <1>1, <3>1, <3>2, ClearIsFirst
    <2> QED
      BY <2>1, <2>2
  <1>10. Decoded(TC_CMR, bits) = [f \in DOMAIN TC_CMR |-> Decoded(TC_CMR, bits)[f]]
    BY DEF Decoded
  <1>11. intended = [f \in DOMAIN TC_CMR |-> intended[f]]
    BY DEF Defaults
  <1> HIDE DEF intended
  <1>12. Decoded(TC_CMR, bits) = intended
    BY <1>9, <1>10, <1>11
  <1> QED
    BY <1>12 DEF bits, intended

\* What the boot writes to the mode register of the USART means.
LEMMA US_MRMeans ==
    Decoded(US_MR, {6, 7, 11}) =
        [Defaults(US_MR) EXCEPT !.CHRL = "8", !.PAR = "NONE"]
  <1> DEFINE bits == {6, 7, 11}
             intended == [Defaults(US_MR) EXCEPT !.CHRL = "8", !.PAR = "NONE"]
  <1>1. bits \in SUBSET AllBits
    BY SMT DEF AllBits
  <1>2. \A f \in DOMAIN US_MR :
           \/ f = "USMODE" \/ f = "CLKS" \/ f = "CHRL" \/ f = "SYNC" \/ f = "PAR"
           \/ f = "NBSTOP" \/ f = "MSBF" \/ f = "MODE9" \/ f = "CKLO" \/ f = "OVER"
           \/ f = "INACK" \/ f = "DSNACK" \/ f = "MAX_ITER" \/ f = "FILTER"
    BY SMT DEF US_MR
  <1>3. /\ Clear(bits, US_MR["USMODE"])
        /\ Clear(bits, US_MR["CLKS"])
        /\ Clear(bits, US_MR["SYNC"])
        /\ Clear(bits, US_MR["NBSTOP"])
        /\ Clear(bits, US_MR["MSBF"])
        /\ Clear(bits, US_MR["MODE9"])
        /\ Clear(bits, US_MR["CKLO"])
        /\ Clear(bits, US_MR["OVER"])
        /\ Clear(bits, US_MR["INACK"])
        /\ Clear(bits, US_MR["DSNACK"])
        /\ Clear(bits, US_MR["MAX_ITER"])
        /\ Clear(bits, US_MR["FILTER"])
    <2>1. /\ Clear(bits, US_MR["USMODE"]) /\ Clear(bits, US_MR["CLKS"])
          /\ Clear(bits, US_MR["SYNC"]) /\ Clear(bits, US_MR["NBSTOP"])
      BY SMT DEF Clear, US_MR, Flag
    <2>2. /\ Clear(bits, US_MR["MSBF"]) /\ Clear(bits, US_MR["MODE9"])
          /\ Clear(bits, US_MR["CKLO"]) /\ Clear(bits, US_MR["OVER"])
      BY SMT DEF Clear, US_MR, Flag
    <2>3. /\ Clear(bits, US_MR["INACK"]) /\ Clear(bits, US_MR["DSNACK"])
          /\ Clear(bits, US_MR["MAX_ITER"]) /\ Clear(bits, US_MR["FILTER"])
      BY SMT DEF Clear, US_MR, Flag
    <2> QED
      BY <2>1, <2>2, <2>3
  <1>4. {"CHRL", "PAR"} \subseteq DOMAIN US_MR
    BY SMT DEF US_MR
  <1>5. Decoded(US_MR, bits)["CHRL"] = "8"
    <2>1. Field(bits, 6, 2) = Bit(bits, 6 + 0) + 2 * Bit(bits, 6 + 1)
      BY Fields
    <2>2. Field(bits, 6, 2) = 3
      BY <2>1, SMT DEF Bit
    <2>3. /\ US_MR["CHRL"][1] = 6 /\ Len(US_MR["CHRL"][2]) = 4
          /\ US_MR["CHRL"][2][1 + 3] = "8"
      BY SMT DEF US_MR
    <2> QED
      BY <1>4, <2>2, <2>3, Widths DEF Decoded
  <1>6. Decoded(US_MR, bits)["PAR"] = "NONE"
    <2>1. Field(bits, 9, 3) = Bit(bits, 9 + 0) + 2 * Bit(bits, 9 + 1) + 4 * Bit(bits, 9 + 2)
      BY Fields
    <2>2. Field(bits, 9, 3) = 4
      BY <2>1, SMT DEF Bit
    <2>3. /\ US_MR["PAR"][1] = 9 /\ Len(US_MR["PAR"][2]) = 8
          /\ US_MR["PAR"][2][1 + 4] = "NONE"
      BY SMT DEF US_MR
    <2> QED
      BY <1>4, <2>2, <2>3, Widths DEF Decoded
  <1> HIDE DEF bits
  <1>7. ASSUME NEW f \in DOMAIN US_MR
        PROVE  Decoded(US_MR, bits)[f] = intended[f]
    <2>1. CASE f \in {"CHRL", "PAR"}
      <3>1. /\ intended["CHRL"] = "8" /\ intended["PAR"] = "NONE"
        BY <1>4 DEF Defaults
      <3> QED
        BY <2>1, <3>1, <1>5, <1>6
    <2>2. CASE f \notin {"CHRL", "PAR"}
      <3>1. Clear(bits, US_MR[f])
        BY <1>2, <1>3, <2>2
      <3>2. intended[f] = US_MR[f][2][1]
        BY <2>2 DEF Defaults
      <3> QED
        BY <1>1, <3>1, <3>2, ClearIsFirst
    <2> QED
      BY <2>1, <2>2
  <1>8. Decoded(US_MR, bits) = [f \in DOMAIN US_MR |-> Decoded(US_MR, bits)[f]]
    BY DEF Decoded
  <1>9. intended = [f \in DOMAIN US_MR |-> intended[f]]
    BY DEF Defaults
  <1> HIDE DEF intended
  <1>10. Decoded(US_MR, bits) = intended
    BY <1>7, <1>8, <1>9
  <1> QED
    BY <1>10 DEF bits, intended

\* What the boot writes to the mode register of the converter means.
LEMMA ADC_MRMeans ==
    Decoded(ADC_MR, {8, 9, 11, 18}) = Defaults(ADC_MR)
  <1> DEFINE bits == {8, 9, 11, 18}
             intended == Defaults(ADC_MR)
  <1>1. bits \in SUBSET AllBits
    BY SMT DEF AllBits
  <1>2. \A f \in DOMAIN ADC_MR :
           \/ f = "TRGEN" \/ f = "TRGSEL" \/ f = "LOWRES" \/ f = "SLEEP"
    BY SMT DEF ADC_MR
  <1>3. Clear(bits, ADC_MR["TRGEN"]) /\ Clear(bits, ADC_MR["TRGSEL"])
        /\ Clear(bits, ADC_MR["LOWRES"]) /\ Clear(bits, ADC_MR["SLEEP"])
    BY SMT DEF Clear, ADC_MR
  <1> HIDE DEF bits
  <1>4. ASSUME NEW f \in DOMAIN ADC_MR
        PROVE  Decoded(ADC_MR, bits)[f] = intended[f]
    <2>1. Clear(bits, ADC_MR[f])
      BY <1>2, <1>3
    <2> QED
      BY <1>1, <2>1, ClearIsFirst DEF Defaults
  <1>5. Decoded(ADC_MR, bits) = [f \in DOMAIN ADC_MR |-> Decoded(ADC_MR, bits)[f]]
    BY DEF Decoded
  <1>6. intended = [f \in DOMAIN ADC_MR |-> intended[f]]
    BY DEF Defaults
  <1> HIDE DEF intended
  <1>7. Decoded(ADC_MR, bits) = intended
    BY <1>4, <1>5, <1>6
  <1> QED
    BY <1>7 DEF bits, intended

\* What the boot writes to the mode register of the timer's interrupt means.
LEMMA AIC_SMRMeans ==
    Decoded(AIC_SMR, {0}) = Defaults(AIC_SMR)
  <1> DEFINE bits == {0}
             intended == Defaults(AIC_SMR)
  <1>1. bits \in SUBSET AllBits
    BY SMT DEF AllBits
  <1>2. \A f \in DOMAIN AIC_SMR :
           \/ f = "SRCTYPE"
    BY SMT DEF AIC_SMR
  <1>3. Clear(bits, AIC_SMR["SRCTYPE"])
    BY SMT DEF Clear, AIC_SMR
  <1> HIDE DEF bits
  <1>4. ASSUME NEW f \in DOMAIN AIC_SMR
        PROVE  Decoded(AIC_SMR, bits)[f] = intended[f]
    <2>1. Clear(bits, AIC_SMR[f])
      BY <1>2, <1>3
    <2> QED
      BY <1>1, <2>1, ClearIsFirst DEF Defaults
  <1>5. Decoded(AIC_SMR, bits) = [f \in DOMAIN AIC_SMR |-> Decoded(AIC_SMR, bits)[f]]
    BY DEF Decoded
  <1>6. intended = [f \in DOMAIN AIC_SMR |-> intended[f]]
    BY DEF Defaults
  <1> HIDE DEF intended
  <1>7. Decoded(AIC_SMR, bits) = intended
    BY <1>4, <1>5, <1>6
  <1> QED
    BY <1>7 DEF bits, intended

\* The numbers in the registers that hold one.
LEMMA NumbersMean ==
    /\ Field({0, 2, 4, 6, 7, 8}, 0, 16) = 469
    /\ Field({1, 3, 4}, 0, 16) = 26
    /\ PRESCAL({8, 9, 11, 18}) = 11
    /\ PRIOR({0}) = 1
  <1> DEFINE RC == {0, 2, 4, 6, 7, 8}
             BRGR == {1, 3, 4}
             MR == {8, 9, 11, 18}
             SMR == {0}
  <1>1. \A bits : Field(bits, 0, 16) =
             Bit(bits, 0 + 0) + 2 * Bit(bits, 0 + 1) + 4 * Bit(bits, 0 + 2) + 8 * Bit(bits, 0 + 3)
             + 16 * Bit(bits, 0 + 4) + 32 * Bit(bits, 0 + 5) + 64 * Bit(bits, 0 + 6)
             + 128 * Bit(bits, 0 + 7) + 256 * Bit(bits, 0 + 8) + 512 * Bit(bits, 0 + 9)
             + 1024 * Bit(bits, 0 + 10) + 2048 * Bit(bits, 0 + 11) + 4096 * Bit(bits, 0 + 12)
             + 8192 * Bit(bits, 0 + 13) + 16384 * Bit(bits, 0 + 14) + 32768 * Bit(bits, 0 + 15)
    BY Fields
  <1>2. Field(MR, 8, 6) =
             Bit(MR, 8 + 0) + 2 * Bit(MR, 8 + 1) + 4 * Bit(MR, 8 + 2) + 8 * Bit(MR, 8 + 3)
             + 16 * Bit(MR, 8 + 4) + 32 * Bit(MR, 8 + 5)
    BY Fields
  <1>3. Field(SMR, 0, 3) = Bit(SMR, 0 + 0) + 2 * Bit(SMR, 0 + 1) + 4 * Bit(SMR, 0 + 2)
    BY Fields
  <1>4. Field(RC, 0, 16) = 469
    BY <1>1, SMT DEF Bit
  <1>5. Field(BRGR, 0, 16) = 26
    BY <1>1, SMT DEF Bit
  <1>6. Field(MR, 8, 6) = 11 /\ Field(SMR, 0, 3) = 1
    BY <1>2, <1>3, SMT DEF Bit
  <1> QED
    BY <1>4, <1>5, <1>6 DEF PRESCAL, PRIOR

-----------------------------------------------------------------------------
(* The boot, step by step.                                                 *)

\* A write that lands on the register it names.
To(dev, reg, bits) == [op |-> "write", dev |-> dev, reg |-> reg, bits |-> bits]

LEMMA LandsAsNamed ==
    ASSUME NEW dev \in Devices, NEW reg \in DOMAIN Address[dev], NEW bits
    PROVE  Write(dev, reg, bits) = To(dev, reg, bits)
  BY LayoutHolds DEF LayoutAgrees, Write, To

LEMMA BootSequence ==
    LET s == Executor_Init IN
    /\ Len(s) = 33
    /\ s[1] = Do("scheduler")
    /\ s[2] = Do("filter")
    /\ s[3] = Write("PIOA", "ASR", {PinTXD0})
    /\ s[4] = Write("PIOA", "BSR", {})
    /\ s[5] = Write("PIOA", "PDR", {PinTXD0})
    /\ s[6] = Write("PMC", "PCER", {ID.US0})
    /\ s[7] = Write("US0", "IDR", AllBits)
    /\ s[8] = Write("US0", "CR", {US.RSTRX, US.RSTTX, US.RXDIS, US.TXDIS})
    /\ s[9] = Write("US0", "MR", Bits(3 * 2^6 + 4 * 2^9))
    /\ s[10] = Write("US0", "BRGR", Bits(UsartModel_GetBaudRateRegisterSetting))
    /\ s[11] = Write("US0", "CR", {US.TXEN})
    /\ s[12] = Do("wakeup")
    /\ s[13] = Write("ADC", "CR", {AD.SWRST})
    /\ s[14] = Write("ADC", "MR", Bits(11 * 2^8 + 4 * 2^16))
    /\ s[15] = Write("ADC", "CHER", Bits(\h10))
    /\ s[16] = Write("ADC", "CR", {AD.START})
    /\ s[17] = Write("PMC", "PCER", {ID.TC0, ID.PIOB})
    /\ s[18] = Write("TC0", "CCR", {TC.CLKDIS})
    /\ s[19] = Write("TC0", "IDR", AllBits)
    /\ s[20] = Do("status")
    /\ s[21] = Write("TC0", "CMR", Bits(\h000CC004))
    /\ s[22] = Write("TC0", "RC", Bits(469))
    /\ s[23] = Write("PIOB", "PDR", {PinTIOA0})
    /\ s[24] = Write("TC0", "CCR", {TC.CLKEN})
    /\ s[25] = Write("AIC", "IDCR", {ID.TC0})
    /\ s[26] = Do("time")
    /\ s[27] = Write("AIC", "SVR", Handler)
    /\ s[28] = Write("AIC", "SMR", Bits(1))
    /\ s[29] = Write("AIC", "ICCR", {ID.TC0})
    /\ s[30] = Write("TC0", "IER", {TC.CPCS})
    /\ s[31] = Write("AIC", "IECR", {ID.TC0})
    /\ s[32] = Write("TC0", "CCR", {TC.SWTRG})
    /\ s[33] = Do("enable")
<1> USE DEF Executor_Init, Model_Init, UsartConductor_Init, UsartHardware_Init,
           Usart_ConfigureUsartIO, Usart_EnablePeripheralClock, Usart_Reset, Usart_ConfigureMode,
           Usart_SetBaudRateRegister, Usart_Enable, AdcHardware_Init, Adc_Reset,
           Adc_ConfigureMode, Adc_EnableTemperatureChannel, Adc_StartTemperatureSensorConversion,
           TimerHardware_Init, Timer_EnablePeripheralClocks, Timer_Reset, Timer_ConfigureMode,
           Timer_ConfigurePeriod, Timer_EnableOutputPin, Timer_Enable,
           Timer_ConfigureInterruptHandler, Timer_DisableInterrupt, Timer_ResetSystemTime,
           Timer_ConfigureInterrupt, Timer_EnableInterrupt, Timer_Start
<1> DEFINE s == Executor_Init
<1>0. Len(s) = 33
  BY SMTT(60)
<1>1. /\ s[1] = Do("scheduler")
      /\ s[2] = Do("filter")
      /\ s[3] = Write("PIOA", "ASR", {PinTXD0})
      /\ s[4] = Write("PIOA", "BSR", {})
      /\ s[5] = Write("PIOA", "PDR", {PinTXD0})
  BY SMTT(60)
<1>2. /\ s[6] = Write("PMC", "PCER", {ID.US0})
      /\ s[7] = Write("US0", "IDR", AllBits)
      /\ s[8] = Write("US0", "CR", {US.RSTRX, US.RSTTX, US.RXDIS, US.TXDIS})
      /\ s[9] = Write("US0", "MR", Bits(3 * 2^6 + 4 * 2^9))
      /\ s[10] = Write("US0", "BRGR", Bits(UsartModel_GetBaudRateRegisterSetting))
      /\ s[11] = Write("US0", "CR", {US.TXEN})
  BY SMTT(60)
<1>3. /\ s[12] = Do("wakeup")
      /\ s[13] = Write("ADC", "CR", {AD.SWRST})
      /\ s[14] = Write("ADC", "MR", Bits(11 * 2^8 + 4 * 2^16))
      /\ s[15] = Write("ADC", "CHER", Bits(\h10))
      /\ s[16] = Write("ADC", "CR", {AD.START})
  BY SMTT(60)
<1>4. /\ s[17] = Write("PMC", "PCER", {ID.TC0, ID.PIOB})
      /\ s[18] = Write("TC0", "CCR", {TC.CLKDIS})
      /\ s[19] = Write("TC0", "IDR", AllBits)
      /\ s[20] = Do("status")
      /\ s[21] = Write("TC0", "CMR", Bits(\h000CC004))
      /\ s[22] = Write("TC0", "RC", Bits(469))
  BY SMTT(60)
<1>5. /\ s[23] = Write("PIOB", "PDR", {PinTIOA0})
      /\ s[24] = Write("TC0", "CCR", {TC.CLKEN})
      /\ s[25] = Write("AIC", "IDCR", {ID.TC0})
      /\ s[26] = Do("time")
  BY SMTT(60)
<1>6. /\ s[27] = Write("AIC", "SVR", Handler)
      /\ s[28] = Write("AIC", "SMR", Bits(1))
      /\ s[29] = Write("AIC", "ICCR", {ID.TC0})
      /\ s[30] = Write("TC0", "IER", {TC.CPCS})
      /\ s[31] = Write("AIC", "IECR", {ID.TC0})
      /\ s[32] = Write("TC0", "CCR", {TC.SWTRG})
      /\ s[33] = Do("enable")
  BY SMTT(60)
<1> HIDE DEF Executor_Init
<1> QED
  BY <1>0, <1>1, <1>2, <1>3, <1>4, <1>5, <1>6

\* The same, of writes to registers.
LEMMA BootWrites ==
    LET s == Executor_Init IN
    /\ s[3] = To("PIOA", "ASR", {PinTXD0}) /\ s[4] = To("PIOA", "BSR", {})
    /\ s[5] = To("PIOA", "PDR", {PinTXD0})
    /\ s[6] = To("PMC", "PCER", {ID.US0})
    /\ s[7] = To("US0", "IDR", AllBits)
    /\ s[8] = To("US0", "CR", {US.RSTRX, US.RSTTX, US.RXDIS, US.TXDIS})
    /\ s[9] = To("US0", "MR", {6, 7, 11})
    /\ s[10] = To("US0", "BRGR", {1, 3, 4})
    /\ s[11] = To("US0", "CR", {US.TXEN})
    /\ s[13] = To("ADC", "CR", {AD.SWRST})
    /\ s[14] = To("ADC", "MR", {8, 9, 11, 18})
    /\ s[15] = To("ADC", "CHER", {4})
    /\ s[16] = To("ADC", "CR", {AD.START})
    /\ s[17] = To("PMC", "PCER", {ID.TC0, ID.PIOB})
    /\ s[18] = To("TC0", "CCR", {TC.CLKDIS})
    /\ s[19] = To("TC0", "IDR", AllBits)
    /\ s[21] = To("TC0", "CMR", {2, 14, 15, 18, 19})
    /\ s[22] = To("TC0", "RC", {0, 2, 4, 6, 7, 8})
    /\ s[23] = To("PIOB", "PDR", {PinTIOA0})
    /\ s[24] = To("TC0", "CCR", {TC.CLKEN})
    /\ s[25] = To("AIC", "IDCR", {ID.TC0})
    /\ s[27] = To("AIC", "SVR", Handler)
    /\ s[28] = To("AIC", "SMR", {0})
    /\ s[29] = To("AIC", "ICCR", {ID.TC0})
    /\ s[30] = To("TC0", "IER", {TC.CPCS})
    /\ s[31] = To("AIC", "IECR", {ID.TC0})
    /\ s[32] = To("TC0", "CCR", {TC.SWTRG})
<1> DEFINE s == Executor_Init
           Lands(dev, names) ==
             \A reg \in names : \A bits : Write(dev, reg, bits) = To(dev, reg, bits)
<1>1. Lands("PIOA", {"ASR", "BSR", "PDR"})
  BY LandsAsNamed DEF Devices, Base, Address, AT91C_PIOA
<1>2. Lands("PIOB", {"PDR"}) /\ Lands("PMC", {"PCER"})
  BY LandsAsNamed DEF Devices, Base, Address, AT91C_PIOB, AT91C_PMC
<1>3. Lands("US0", {"IDR", "CR", "MR", "BRGR"})
  BY LandsAsNamed DEF Devices, Base, Address, AT91C_US0
<1>4. Lands("ADC", {"CR", "MR", "CHER"})
  BY LandsAsNamed DEF Devices, Base, Address, AT91C_ADC
<1>5. Lands("TC0", {"CCR", "IDR", "CMR", "RC", "IER"})
  BY LandsAsNamed DEF Devices, Base, Address, AT91C_TC0
<1>6. Lands("AIC", {"IDCR", "SVR", "SMR", "ICCR", "IECR"})
  BY LandsAsNamed DEF Devices, Base, Address, AT91C_AIC
<1> HIDE DEF Lands
<1>7. /\ s[3] = To("PIOA", "ASR", {PinTXD0}) /\ s[4] = To("PIOA", "BSR", {})
      /\ s[5] = To("PIOA", "PDR", {PinTXD0})
  <2>1. /\ s[3] = Write("PIOA", "ASR", {PinTXD0}) /\ s[4] = Write("PIOA", "BSR", {})
        /\ s[5] = Write("PIOA", "PDR", {PinTXD0})
    BY BootSequence
  <2> QED
    BY <1>1, <2>1 DEF Lands
<1>8. /\ s[7] = To("US0", "IDR", AllBits)
      /\ s[8] = To("US0", "CR", {US.RSTRX, US.RSTTX, US.RXDIS, US.TXDIS})
      /\ s[9] = To("US0", "MR", {6, 7, 11}) /\ s[10] = To("US0", "BRGR", {1, 3, 4})
      /\ s[11] = To("US0", "CR", {US.TXEN})
  <2>1. /\ s[7] = Write("US0", "IDR", AllBits)
        /\ s[8] = Write("US0", "CR", {US.RSTRX, US.RSTTX, US.RXDIS, US.TXDIS})
        /\ s[9] = Write("US0", "MR", Bits(3 * 2^6 + 4 * 2^9))
        /\ s[10] = Write("US0", "BRGR", Bits(UsartModel_GetBaudRateRegisterSetting))
        /\ s[11] = Write("US0", "CR", {US.TXEN})
    BY BootSequence
  <2>2. /\ Bits(3 * 2^6 + 4 * 2^9) = {6, 7, 11}
        /\ Bits(UsartModel_GetBaudRateRegisterSetting) = {1, 3, 4}
    BY NumbersOfBoot
  <2> QED
    BY <1>3, <2>1, <2>2 DEF Lands
<1>9. /\ s[13] = To("ADC", "CR", {AD.SWRST}) /\ s[14] = To("ADC", "MR", {8, 9, 11, 18})
      /\ s[15] = To("ADC", "CHER", {4}) /\ s[16] = To("ADC", "CR", {AD.START})
  <2>1. /\ s[13] = Write("ADC", "CR", {AD.SWRST})
        /\ s[14] = Write("ADC", "MR", Bits(11 * 2^8 + 4 * 2^16))
        /\ s[15] = Write("ADC", "CHER", Bits(\h10)) /\ s[16] = Write("ADC", "CR", {AD.START})
    BY BootSequence
  <2>2. /\ Bits(11 * 2^8 + 4 * 2^16) = {8, 9, 11, 18} /\ Bits(\h10) = {4}
    BY NumbersOfBoot
  <2> QED
    BY <1>4, <2>1, <2>2 DEF Lands
<1>10. /\ s[18] = To("TC0", "CCR", {TC.CLKDIS}) /\ s[19] = To("TC0", "IDR", AllBits)
       /\ s[21] = To("TC0", "CMR", {2, 14, 15, 18, 19})
       /\ s[22] = To("TC0", "RC", {0, 2, 4, 6, 7, 8}) /\ s[24] = To("TC0", "CCR", {TC.CLKEN})
       /\ s[30] = To("TC0", "IER", {TC.CPCS}) /\ s[32] = To("TC0", "CCR", {TC.SWTRG})
  <2>1. /\ s[18] = Write("TC0", "CCR", {TC.CLKDIS}) /\ s[19] = Write("TC0", "IDR", AllBits)
        /\ s[21] = Write("TC0", "CMR", Bits(\h000CC004))
        /\ s[22] = Write("TC0", "RC", Bits(469)) /\ s[24] = Write("TC0", "CCR", {TC.CLKEN})
        /\ s[30] = Write("TC0", "IER", {TC.CPCS}) /\ s[32] = Write("TC0", "CCR", {TC.SWTRG})
    BY BootSequence
  <2>2. /\ Bits(\h000CC004) = {2, 14, 15, 18, 19} /\ Bits(469) = {0, 2, 4, 6, 7, 8}
    BY NumbersOfBoot
  <2> QED
    BY <1>5, <2>1, <2>2 DEF Lands
<1>11. /\ s[25] = To("AIC", "IDCR", {ID.TC0}) /\ s[27] = To("AIC", "SVR", Handler)
       /\ s[28] = To("AIC", "SMR", {0}) /\ s[29] = To("AIC", "ICCR", {ID.TC0})
       /\ s[31] = To("AIC", "IECR", {ID.TC0})
  <2>1. /\ s[25] = Write("AIC", "IDCR", {ID.TC0}) /\ s[27] = Write("AIC", "SVR", Handler)
        /\ s[28] = Write("AIC", "SMR", Bits(1)) /\ s[29] = Write("AIC", "ICCR", {ID.TC0})
        /\ s[31] = Write("AIC", "IECR", {ID.TC0})
    BY BootSequence
  <2>2. Bits(1) = {0}
    BY NumbersOfBoot
  <2> QED
    BY <1>6, <2>1, <2>2 DEF Lands
<1>12. /\ s[6] = To("PMC", "PCER", {ID.US0}) /\ s[17] = To("PMC", "PCER", {ID.TC0, ID.PIOB})
       /\ s[23] = To("PIOB", "PDR", {PinTIOA0})
  <2>1. /\ s[6] = Write("PMC", "PCER", {ID.US0})
        /\ s[17] = Write("PMC", "PCER", {ID.TC0, ID.PIOB})
        /\ s[23] = Write("PIOB", "PDR", {PinTIOA0})
    BY BootSequence
  <2> QED
    BY <1>2, <2>1 DEF Lands
<1> QED
  BY <1>7, <1>8, <1>9, <1>10, <1>11, <1>12

\* Which steps concern the clock, the converter, the handler and the power.
LEMMA StepsOfBoot ==
    ASSUME NEW k \in 1 .. 33
    PROVE  LET now == Executor_Init[k] IN
           /\ now.op = "status" <=> k = 20
           /\ now.op = "time" <=> k = 26
           /\ now.op = "enable" <=> k = 33
           /\ now.op = "write" <=> k \notin {1, 2, 12, 20, 26, 33}
  BY BootSequence, BootWrites DEF Do, To

LEMMA WritesOfBoot ==
    ASSUME NEW k \in 1 .. 33, Executor_Init[k].op = "write"
    PROVE  LET now == Executor_Init[k] IN
           /\ now.dev = "TC0" /\ now.reg = "CCR" <=> k \in {18, 24, 32}
           /\ now.dev = "ADC" /\ now.reg = "CR" <=> k \in {13, 16}
           /\ now.dev = "AIC" /\ now.reg = "SVR" <=> k = 27
           /\ now.dev = "US0" => k > 6
           /\ now.dev = "TC0" => k > 17
  BY BootSequence, BootWrites DEF Do, To

-----------------------------------------------------------------------------
(* The clock.                                                              *)

Exact == (systemTime + (IF cpcs THEN Tick ELSE 0)) % TimeRange = elapsed

\* The boot stops the timer (step 18), reads its flag away (20), arms it (24),
\* sets the time to 0 (26), starts it (32) and lets interrupts in (33).
ClockStages ==
    /\ step \in 19 .. 24 => tc = "off"
    /\ step \in 25 .. 32 => tc = "armed"
    /\ step \in 21 .. 32 => ~cpcs
    /\ step \in 27 .. 32 => systemTime = 0
    /\ step < 34 => ~irq
    /\ step > 32 => Exact

ClockTypes ==
    /\ step \in 1 .. 34 /\ (at = "boot" <=> step < 34)
    /\ systemTime \in Times /\ elapsed \in Times
    /\ cpcs \in BOOLEAN /\ irq \in BOOLEAN

ClockInv == ClockTypes /\ ClockStages

\* Facts that every step of the boot rests on.
LEMMA BootAdvances ==
    ASSUME Boot, step \in 1 .. 34, at = "boot" <=> step < 34
    PROVE  /\ step \in 1 .. 33 /\ step' = step + 1
           /\ at' = "boot" <=> step' < 34
           /\ BootWrite <=> step \notin {1, 2, 12, 20, 26, 33}
           /\ BootWrite => Now.op = "write"
           /\ BootStatus <=> step = 20
           /\ BootTime <=> step = 26
           /\ BootEnable <=> step = 33
<1>1. at = "boot" /\ step \in 1 .. 33 /\ Advance /\ \E op : Now.op = op
  BY DEF Boot, BootWrite, BootStatus, BootModel, BootWakeup, BootTime, BootEnable, Booting
<1>2. step' = step + 1 /\ (at' = "boot" <=> step' < 34)
  BY <1>1, BootSequence DEF Advance
<1>3. /\ BootWrite => Now.op = "write"
      /\ BootStatus => Now.op = "status"
      /\ BootTime => Now.op = "time"
      /\ BootEnable => Now.op = "enable"
      /\ BootModel => Now.op \in {"scheduler", "filter"}
      /\ BootWakeup => Now.op = "wakeup"
  BY DEF BootWrite, BootStatus, BootModel, BootWakeup, BootTime, BootEnable, Booting
<1>4. /\ Now.op = "status" <=> step = 20
      /\ Now.op = "time" <=> step = 26
      /\ Now.op = "enable" <=> step = 33
      /\ Now.op = "write" <=> step \notin {1, 2, 12, 20, 26, 33}
  BY <1>1, StepsOfBoot DEF Now
<1>5. /\ BootWrite <=> step \notin {1, 2, 12, 20, 26, 33}
      /\ BootStatus <=> step = 20
      /\ BootTime <=> step = 26
      /\ BootEnable <=> step = 33
  BY <1>3, <1>4 DEF Boot
<1> QED
  BY <1>1, <1>2, <1>3, <1>5

LEMMA BootClock == ASSUME ClockInv, Boot PROVE ClockInv'
<1>1. /\ step \in 1 .. 33 /\ step' = step + 1
      /\ at' = "boot" <=> step' < 34
      /\ BootWrite <=> step \notin {1, 2, 12, 20, 26, 33}
      /\ BootWrite => Now.op = "write"
      /\ BootStatus <=> step = 20
      /\ BootTime <=> step = 26
      /\ BootEnable <=> step = 33
  BY BootAdvances DEF ClockInv, ClockTypes
<1>2. /\ systemTime \in Times /\ elapsed \in Times /\ 0 \in Times
      /\ cpcs \in BOOLEAN /\ irq \in BOOLEAN /\ ClockStages
  BY PeriodsAssumption DEF ClockInv, ClockTypes, Times
<1>3. ASSUME BootWrite PROVE ClockInv'
  <2>1. UNCHANGED <<systemTime, irq, cpcs>> /\ step # 33
    BY <1>1, <1>3 DEF BootWrite
  <2>2. elapsed' \in Times
    BY <1>2, <1>3 DEF BootWrite
  <2>t. ClockTypes'
    BY <1>1, <1>2, <2>1, <2>2 DEF ClockTypes
  <2>3. CASE step \notin {18, 24, 32}
    <3>1. tc' = tc /\ elapsed' = elapsed
      BY <1>1, <1>3, <2>3, WritesOfBoot DEF BootWrite, Now
    <3>2. Exact' <=> Exact
      BY <2>1, <3>1 DEF Exact
    <3>3. ClockStages'
      BY <1>1, <1>2, <1>3, <2>1, <2>3, <3>1, <3>2 DEF ClockStages
    <3> QED BY <2>t, <3>3 DEF ClockInv
  <2>4. CASE step = 18
    <3>1. tc' = "off"
      <4>1. Executor_Init[18] = To("TC0", "CCR", {TC.CLKDIS})
        BY BootWrites
      <4> QED
        BY <1>3, <2>4, <4>1 DEF BootWrite, Now, To, TimerAfter
    <3>3. ClockStages'
      BY <1>1, <1>2, <2>1, <2>4, <3>1 DEF ClockStages
    <3> QED BY <2>t, <3>3 DEF ClockInv
  <2>5. CASE step = 24
    <3>1. tc = "off"
      BY <1>2, <2>5 DEF ClockStages
    <3>2. tc' = "armed"
      <4>1. Executor_Init[24] = To("TC0", "CCR", {TC.CLKEN})
        BY BootWrites
      <4> QED
        BY <1>3, <2>5, <3>1, <4>1 DEF BootWrite, Now, To, TimerAfter, TC
    <3>3. ClockStages'
      BY <1>1, <1>2, <2>1, <2>5, <3>2 DEF ClockStages
    <3> QED BY <2>t, <3>3 DEF ClockInv
  <2>6. CASE step = 32
    <3>1. tc = "armed" /\ ~cpcs /\ systemTime = 0 /\ ~irq
      BY <1>2, <2>6 DEF ClockStages
    <3>2. tc' = "counting" /\ elapsed' = 0
      <4>1. Executor_Init[32] = To("TC0", "CCR", {TC.SWTRG})
        BY BootWrites
      <4> QED
        BY <1>3, <2>6, <3>1, <4>1 DEF BootWrite, Now, To, TimerAfter, TC
    <3>3. Exact'
      BY <2>1, <3>1, <3>2, PeriodsAssumption DEF Exact
    <3>4. step' = 33 /\ ~irq'
      BY <1>1, <2>1, <2>6, <3>1
    <3>5. ClockStages'
      BY <3>3, <3>4 DEF ClockStages
    <3> QED BY <2>t, <3>5 DEF ClockInv
  <2> QED BY <2>3, <2>4, <2>5, <2>6
<1>4. ASSUME ~BootWrite PROVE ClockInv'
  <2>0. cpcs' \in BOOLEAN /\ irq' \in BOOLEAN
    BY <1>2, <1>4, Zenon
       DEF Boot, BootStatus, BootModel, BootWakeup, BootTime, BootEnable, chip
  <2>1. /\ step \in {1, 2, 12, 20, 26, 33}
        /\ elapsed' = elapsed /\ tc' = tc
        /\ step = 26 => systemTime' = 0 /\ UNCHANGED <<cpcs, irq>>
        /\ step = 20 => ~cpcs' /\ UNCHANGED <<systemTime, irq>>
        /\ step = 33 => irq' /\ UNCHANGED <<systemTime, cpcs>>
        /\ step \notin {20, 26, 33} => UNCHANGED <<systemTime, cpcs, irq>>
    <3>1. CASE BootStatus
      BY <1>1, <3>1 DEF BootStatus, history
    <3>2. CASE BootTime
      BY <1>1, <3>2 DEF BootTime, history
    <3>3. CASE BootEnable
      <4>1. irq' /\ UNCHANGED <<systemTime, cpcs, elapsed, tc>>
        BY <3>3, Zenon DEF BootEnable, history
      <4> QED BY <1>1, <3>3, <4>1
    <3>4. CASE ~BootStatus /\ ~BootTime /\ ~BootEnable
      <4>1. BootModel \/ BootWakeup
        BY <1>4, <3>4 DEF Boot
      <4>2. UNCHANGED <<systemTime, cpcs, irq, tc, elapsed>>
        BY <4>1 DEF BootModel, BootWakeup, chip, history
      <4> QED BY <1>1, <1>4, <3>4, <4>2
    <3> QED BY <3>1, <3>2, <3>3, <3>4
  <2>2. ClockTypes'
    <3>1. systemTime' \in Times /\ elapsed' \in Times
      BY <1>2, <2>1
    <3> QED BY <1>1, <2>0, <3>1 DEF ClockTypes
  <2>3. step = 33 => (Exact' <=> Exact)
    BY <2>1 DEF Exact
  <2>4. ClockStages'
    BY <1>1, <1>2, <2>1, <2>3 DEF ClockStages
  <2> QED BY <2>2, <2>4 DEF ClockInv
<1> QED
  BY <1>3, <1>4

\* What is not the boot leaves the clock alone, but for a match of the timer
\* and the interrupt, which finds the boot over.
LEMMA RunClock ==
    ASSUME ClockInv, Executor_Run \/ Converted \/ Sent
    PROVE  ClockInv'
<1>1. UNCHANGED <<step, systemTime, irq, tc, cpcs, elapsed>> /\ (at' = "boot" <=> at = "boot")
  <2>1. CASE Executor_Run
    BY <2>1 DEF Executor_Run, PutChar, UsartConductor_Run, TimerConductor_Run,
                AdcConductor_Run, chip, history
  <2>2. CASE Converted \/ Sent
    BY <2>2 DEF Converted, Sent, program, history
  <2> QED BY <2>1, <2>2
<1>2. Exact' <=> Exact
  BY <1>1 DEF Exact
<1>3. ClockStages'
  BY <1>1, <1>2 DEF ClockInv, ClockStages
<1>4. ClockTypes'
  BY <1>1 DEF ClockInv, ClockTypes
<1> QED
  BY <1>3, <1>4 DEF ClockInv

LEMMA RemainderOfRemainder ==
    ASSUME NEW t \in Nat, NEW P \in Nat \ {0}
    PROVE  ((t % P) + 0) % P = t % P
<1>1. t % P \in 0 .. P - 1
  BY RemainderInRange
<1>2. ASSUME NEW r \in 0 .. P - 1 PROVE (r + 0) % P = r
  BY SMT
<1> QED
  BY <1>1, <1>2

LEMMA InterruptClock == ASSUME ClockInv, Interrupt PROVE ClockInv'
<1>1. /\ irq /\ cpcs /\ cpcs' = FALSE
      /\ systemTime' = (systemTime + Tick) % TimeRange
      /\ UNCHANGED <<at, step, irq, tc, elapsed>>
  BY DEF Interrupt, Timer_InterruptHandler, program, history
<1>2. step = 34 /\ Exact
  BY <1>1 DEF ClockInv, ClockTypes, ClockStages
<1>3. TimeRange \in Nat \ {0} /\ Tick \in Nat /\ systemTime \in Nat
  BY PeriodsAssumption, ClockAssumption DEF ClockInv, ClockTypes, Times
<1>4. systemTime' \in Times
  BY <1>1, <1>3, RemainderInRange DEF Times
<1>5. (systemTime + Tick) % TimeRange = elapsed
  BY <1>1, <1>2 DEF Exact
<1>6. Exact'
  <2>1. systemTime + Tick \in Nat
    BY <1>3
  <2>2. (systemTime' + 0) % TimeRange = systemTime'
    BY <1>1, <1>3, <2>1, RemainderOfRemainder
  <2> QED BY <1>1, <1>5, <2>2 DEF Exact
<1>7. ClockStages'
  BY <1>1, <1>2, <1>6 DEF ClockStages
<1>8. ClockTypes'
  BY <1>1, <1>4 DEF ClockInv, ClockTypes
<1> QED
  BY <1>7, <1>8 DEF ClockInv

LEMMA MatchClock == ASSUME ClockInv, Match PROVE ClockInv'
<1>1. /\ tc = "counting" /\ ~cpcs /\ cpcs' = TRUE
      /\ elapsed' = (elapsed + Tick) % TimeRange
      /\ UNCHANGED <<at, step, systemTime, irq, tc>>
  BY DEF Match, program
<1>2. step \notin 19 .. 32
  BY <1>1 DEF ClockInv, ClockTypes, ClockStages
<1>3. /\ TimeRange \in Nat \ {0} /\ Tick \in Nat
      /\ systemTime \in 0 .. TimeRange - 1 /\ elapsed \in Nat
  BY PeriodsAssumption, ClockAssumption DEF ClockInv, ClockTypes, Times
<1>4. elapsed' \in Times
  BY <1>1, <1>3, RemainderInRange DEF Times
<1>5. ASSUME step > 32 PROVE Exact'
  <2>1. (systemTime + 0) % TimeRange = elapsed
    BY <1>1, <1>5 DEF ClockInv, ClockStages, Exact
  <2>2. systemTime = elapsed
    BY <1>3, <2>1, SMT
  <2> QED BY <1>1, <2>2 DEF Exact
<1>6. cpcs'
  BY <1>1, Zenon
<1>7. step \in 1 .. 34 /\ (step < 34 => ~irq)
  BY DEF ClockInv, ClockTypes, ClockStages
<1>8. ClockStages'
  BY <1>1, <1>2, <1>5, <1>7 DEF ClockStages
<1>9. ClockTypes'
  BY <1>1, <1>4 DEF ClockInv, ClockTypes
<1> QED
  BY <1>8, <1>9 DEF ClockInv

LEMMA NextClock == ASSUME ClockInv, [Next]_vars PROVE ClockInv'
<1>1. ASSUME UNCHANGED vars PROVE ClockInv'
  BY <1>1 DEF vars, program, chip, history, ClockInv, ClockTypes, ClockStages, Exact
<1> QED
  BY <1>1, BootClock, RunClock, InterruptClock, MatchClock DEF Next

LEMMA InitClock == Init => ClockInv
<1> SUFFICES ASSUME Init PROVE ClockInv
  OBVIOUS
<1>1. at = "boot" /\ step = 1 /\ systemTime = 0 /\ elapsed = 0 /\ irq = FALSE
  BY DEF Init
<1>2. cpcs \in BOOLEAN
  BY Zenon DEF Init
<1>3. ClockStages
  BY <1>1 DEF ClockStages
<1>4. systemTime \in Times /\ elapsed \in Times
  BY <1>1, PeriodsAssumption DEF Times
<1>5. irq \in BOOLEAN
  BY <1>1, Zenon
<1> QED
  BY <1>1, <1>2, <1>3, <1>4, <1>5 DEF ClockInv, ClockTypes

\* Once the program runs, its clock is the time since the timer was started:
\* no match is lost, counted twice, or left over from an earlier run.
THEOREM ClockRight == Spec => []ClockIsExact
<1>1. Init => ClockInv
  BY InitClock
<1>2. ClockInv /\ [Next]_vars => ClockInv'
  BY NextClock
<1>3. ClockInv => ClockIsExact
  BY DEF ClockInv, ClockTypes, ClockStages, Exact, ClockIsExact
<1> QED
  BY <1>1, <1>2, <1>3, PTL DEF Spec

-----------------------------------------------------------------------------
(* The converter.                                                          *)

\* The boot resets the converter (step 13), and then starts it (16).
AdcStages ==
    /\ step \in 14 .. 16 => adc = AdcIdle
    /\ step > 16 => adc.own

AdcInv == ClockInv /\ CountInv /\ AdcStages

LEMMA OwnStep == ASSUME AdcInv, [Next]_vars PROVE AdcStages'
<1>1. /\ step \in 1 .. 34 /\ (at = "boot" <=> step < 34)
      /\ adc \in Held /\ AdcStages
  BY DEF AdcInv, ClockInv, ClockTypes, CountInv
<1>2. CASE Boot
  <2>1. /\ step \in 1 .. 33 /\ step' = step + 1
        /\ BootWrite <=> step \notin {1, 2, 12, 20, 26, 33}
        /\ BootWrite => Now.op = "write"
    BY <1>1, <1>2, BootAdvances
  <2>2. CASE step \notin {13, 16}
    <3>1. adc' = adc
      <4>1. CASE BootWrite
        <5>1. Now.op = "write" /\ ~(Now.dev = "ADC" /\ Now.reg = "CR")
          BY <2>1, <2>2, <4>1, WritesOfBoot DEF Now
        <5> QED BY <4>1, <5>1 DEF BootWrite
      <4>2. CASE ~BootWrite
        BY <1>2, <4>2 DEF Boot, BootStatus, BootModel, BootWakeup, BootTime, BootEnable, chip
      <4> QED BY <4>1, <4>2
    <3> QED BY <1>1, <2>1, <2>2, <3>1 DEF AdcStages
  <2>3. CASE step = 13
    <3>1. adc' = AdcIdle
      <4>1. Executor_Init[13] = To("ADC", "CR", {AD.SWRST})
        BY BootWrites
      <4> QED
        BY <2>1, <2>3, <4>1 DEF BootWrite, Now, To, AdcAfter
    <3> QED BY <2>1, <2>3, <3>1 DEF AdcStages
  <2>4. CASE step = 16
    <3>1. adc = AdcIdle
      BY <1>1, <2>4 DEF AdcStages
    <3>2. adc' = [adc EXCEPT !.busy = TRUE, !.own = ~adc.eoc]
      <4>1. Now.dev = "ADC" /\ Now.reg = "CR" /\ Now.bits = {AD.START}
        <5>1. Executor_Init[16] = To("ADC", "CR", {AD.START})
          BY BootWrites
        <5> QED
          BY <2>4, <5>1 DEF Now, To
      <4>2. adc' = AdcAfter(Now.bits)
        BY <2>1, <2>4, <4>1 DEF BootWrite
      <4>3. AD.START # AD.SWRST
        BY DEF AD
      <4>4. ~adc.busy
        BY <3>1 DEF AdcIdle
      <4> QED BY <4>1, <4>2, <4>3, <4>4, Zenon DEF AdcAfter
    <3>3. adc'.own
      BY <3>1, <3>2 DEF AdcIdle
    <3> QED BY <2>1, <2>4, <3>3 DEF AdcStages
  <2> QED BY <2>2, <2>3, <2>4
<1>3. CASE AdcConductor_Run
  <2>1. step > 33 /\ step' = step
    BY <1>1, <1>3 DEF AdcConductor_Run
  <2>2. adc' = adc \/ adc' = [busy |-> TRUE, eoc |-> FALSE, cdr4 |-> NoSample, own |-> TRUE]
    BY <1>3, Zenon DEF AdcConductor_Run
  <2> QED BY <1>1, <2>1, <2>2 DEF AdcStages
<1>4. CASE Converted
  <2>1. adc.busy /\ step' = step
    BY <1>4 DEF Converted, program
  <2>2. PICK c \in Samples : adc' = [adc EXCEPT !.busy = FALSE, !.eoc = TRUE, !.cdr4 = c]
    BY <1>4 DEF Converted
  <2>3. step \notin 14 .. 16
    BY <1>1, <2>1 DEF AdcStages, AdcIdle
  <2>4. adc'.own = adc.own
    BY <1>1, <2>2 DEF Held
  <2> QED BY <1>1, <2>1, <2>3, <2>4 DEF AdcStages
<1>5. CASE PutChar \/ UsartConductor_Run \/ TimerConductor_Run \/ Interrupt \/ Match \/ Sent
           \/ UNCHANGED vars
  <2>1. UNCHANGED <<adc, step>>
    BY <1>5 DEF PutChar, UsartConductor_Run, TimerConductor_Run, Interrupt, Match, Sent,
                vars, program, chip
  <2> QED BY <1>1, <2>1 DEF AdcStages
<1> QED
  BY <1>2, <1>3, <1>4, <1>5, Zenon DEF Next, Executor_Run

\* The samples that the program reads are conversions it has started itself.
THEOREM OwnSamplesRight == Spec => []OwnSamplesOnly
<1>1. ASSUME Init PROVE AdcStages
  <2>1. step = 1
    BY <1>1 DEF Init
  <2> QED BY <2>1 DEF AdcStages
<1>2. Init => CountInv
  BY InitCount
<1>3. Init => ClockInv
  BY InitClock
<1>4. ASSUME AdcInv, [Next]_vars PROVE AdcInv'
  <2>1. AdcStages'
    BY <1>4, OwnStep
  <2>2. CountInv' /\ ClockInv'
    BY <1>4, CountStep, NextClock DEF AdcInv
  <2> QED BY <2>1, <2>2 DEF AdcInv
<1>5. AdcInv => OwnSamplesOnly
  BY DEF AdcInv, ClockInv, ClockTypes, AdcStages, OwnSamplesOnly
<1>6. Init => AdcInv
  BY <1>1, <1>2, <1>3 DEF AdcInv
<1> QED
  BY <1>4, <1>5, <1>6, PTL DEF Spec

-----------------------------------------------------------------------------
(* The registers: what a write stores, and what every write of the boot     *)
(* does.                                                                   *)

\* A register holds a value.
Holds(dev, reg) == dev \in DOMAIN ResetRegs /\ reg \in DOMAIN ResetRegs[dev]

\* Every register that holds a value has one.
Full(r) ==
    /\ DOMAIN r = DOMAIN ResetRegs
    /\ \A d \in DOMAIN ResetRegs : DOMAIN r[d] = DOMAIN ResetRegs[d]

\* s is r with x in one register.
Puts(r, s, dev, reg, x) ==
    /\ Full(s)
    /\ s[dev][reg] = x
    /\ \A d, q : Holds(d, q) /\ ~(d = dev /\ q = reg) => s[d][q] = r[d][q]

LEMMA OneRegister ==
    ASSUME NEW r, Full(r), NEW dev, NEW reg, Holds(dev, reg), NEW x
    PROVE  Puts(r, [r EXCEPT ![dev][reg] = x], dev, reg, x)
  <1> DEFINE s == [r EXCEPT ![dev][reg] = x]
  <1>1. /\ DOMAIN s = DOMAIN r
        /\ s[dev] = [r[dev] EXCEPT ![reg] = x]
        /\ \A d \in DOMAIN r : d # dev => s[d] = r[d]
    BY DEF Full, Holds
  <1>2. /\ DOMAIN s[dev] = DOMAIN r[dev] /\ s[dev][reg] = x
        /\ \A q \in DOMAIN r[dev] : q # reg => s[dev][q] = r[dev][q]
    BY <1>1 DEF Full, Holds
  <1> HIDE DEF s
  <1>3. Full(s)
    BY <1>1, <1>2 DEF Full
  <1>4. ASSUME NEW d, NEW q, Holds(d, q), ~(d = dev /\ q = reg)
        PROVE  s[d][q] = r[d][q]
    BY <1>1, <1>2, <1>4 DEF Full, Holds
  <1>5. Puts(r, s, dev, reg, x)
    BY <1>2, <1>3, <1>4 DEF Puts
  <1> QED
    BY <1>5 DEF s

LEMMA HeldRegisters ==
    /\ Holds("AIC", "SMR") /\ Holds("AIC", "SVR") /\ Holds("AIC", "IMR")
    /\ Holds("PIOA", "PSR") /\ Holds("PIOA", "ABSR") /\ Holds("PIOB", "PSR")
    /\ Holds("PMC", "PCSR")
    /\ Holds("US0", "MR") /\ Holds("US0", "BRGR") /\ Holds("US0", "IMR")
    /\ Holds("TC0", "CMR") /\ Holds("TC0", "RC") /\ Holds("TC0", "IMR")
    /\ Holds("ADC", "MR") /\ Holds("ADC", "CHSR")
    /\ ~Holds("US0", "CR") /\ ~Holds("ADC", "CR") /\ ~Holds("TC0", "CCR")
    /\ ~Holds("AIC", "ICCR")
    /\ {"US0", "ADC", "TC0", "AIC"} \subseteq DOMAIN ResetRegs
  BY SMT DEF Holds, ResetRegs

\* A register whose writes set or clear bits of another one.
Lists(table, dev, reg) == dev \in DOMAIN table /\ reg \in DOMAIN table[dev]

LEMMA Switches ==
    /\ Lists(SetBy, "AIC", "IECR") /\ SetBy.AIC.IECR = "IMR"
    /\ Lists(SetBy, "PMC", "PCER") /\ SetBy.PMC.PCER = "PCSR"
    /\ Lists(SetBy, "TC0", "IER") /\ SetBy.TC0.IER = "IMR"
    /\ Lists(SetBy, "ADC", "CHER") /\ SetBy.ADC.CHER = "CHSR"
    /\ Lists(SetBy, "PIOA", "BSR") /\ SetBy.PIOA.BSR = "ABSR"
    /\ Lists(ClearedBy, "AIC", "IDCR") /\ ClearedBy.AIC.IDCR = "IMR"
    /\ Lists(ClearedBy, "TC0", "IDR") /\ ClearedBy.TC0.IDR = "IMR"
    /\ Lists(ClearedBy, "US0", "IDR") /\ ClearedBy.US0.IDR = "IMR"
    /\ Lists(ClearedBy, "PIOA", "PDR") /\ ClearedBy.PIOA.PDR = "PSR"
    /\ Lists(ClearedBy, "PIOA", "ASR") /\ ClearedBy.PIOA.ASR = "ABSR"
    /\ Lists(ClearedBy, "PIOB", "PDR") /\ ClearedBy.PIOB.PDR = "PSR"
    /\ ~Lists(SetBy, "AIC", "IDCR") /\ ~Lists(SetBy, "TC0", "IDR") /\ ~Lists(SetBy, "US0", "IDR")
    /\ ~Lists(SetBy, "PIOA", "PDR") /\ ~Lists(SetBy, "PIOA", "ASR") /\ ~Lists(SetBy, "PIOB", "PDR")
  BY SMT DEF Lists, SetBy, ClearedBy

LEMMA NoSwitches ==
    \A table \in {SetBy, ClearedBy} :
       /\ \A reg \in {"MR", "BRGR", "CR"} : ~Lists(table, "US0", reg)
       /\ \A reg \in {"CR", "MR"} : ~Lists(table, "ADC", reg)
       /\ \A reg \in {"CCR", "CMR", "RC"} : ~Lists(table, "TC0", reg)
       /\ \A reg \in {"SVR", "SMR", "ICCR"} : ~Lists(table, "AIC", reg)
  BY SMT DEF Lists, SetBy, ClearedBy

\* A register that sets bits of another.
LEMMA SetsBits ==
    ASSUME NEW r, Full(r), NEW dev, NEW reg, NEW bits,
           NEW to, Lists(SetBy, dev, reg), SetBy[dev][reg] = to, Holds(dev, to)
    PROVE  Puts(r, Stored(r, To(dev, reg, bits)), dev, to, r[dev][to] \cup bits)
  <1> DEFINE w == To(dev, reg, bits)
             s == Stored(r, w)
  <1>1. w.dev = dev /\ w.reg = reg /\ w.bits = bits
    BY DEF To
  <1> DEFINE x == r[dev][to] \cup bits
  <1>2. ListedIn(SetBy, w)
    BY <1>1 DEF ListedIn, Lists
  <1> HIDE DEF w
  <1>3. s = [r EXCEPT ![dev][to] = x]
    BY <1>1, <1>2 DEF Stored
  <1> HIDE DEF s, x
  <1>4. Puts(r, s, dev, to, x)
    BY <1>3, OneRegister, Zenon
  <1> QED
    BY <1>4 DEF s, x, w

\* A register that clears bits of another.
LEMMA ClearsBits ==
    ASSUME NEW r, Full(r), NEW dev, NEW reg, NEW bits,
           NEW to, ~Lists(SetBy, dev, reg), Lists(ClearedBy, dev, reg),
           ClearedBy[dev][reg] = to, Holds(dev, to)
    PROVE  Puts(r, Stored(r, To(dev, reg, bits)), dev, to, r[dev][to] \ bits)
  <1> DEFINE w == To(dev, reg, bits)
             s == Stored(r, w)
  <1>1. w.dev = dev /\ w.reg = reg /\ w.bits = bits
    BY DEF To
  <1> DEFINE x == r[dev][to] \ bits
  <1>2. ~ListedIn(SetBy, w) /\ ListedIn(ClearedBy, w)
    BY <1>1 DEF ListedIn, Lists
  <1> HIDE DEF w
  <1>3. s = [r EXCEPT ![dev][to] = x]
    BY <1>1, <1>2 DEF Stored
  <1> HIDE DEF s, x
  <1>4. Puts(r, s, dev, to, x)
    BY <1>3, OneRegister, Zenon
  <1> QED
    BY <1>4 DEF s, x, w

\* A register that takes the value.
LEMMA StoresValue ==
    ASSUME NEW r, Full(r), NEW dev, NEW reg, NEW bits,
           ~Lists(SetBy, dev, reg), ~Lists(ClearedBy, dev, reg), Holds(dev, reg), reg # "CR"
    PROVE  Puts(r, Stored(r, To(dev, reg, bits)), dev, reg, bits)
  <1> DEFINE w == To(dev, reg, bits)
             s == Stored(r, w)
  <1>1. w.dev = dev /\ w.reg = reg /\ w.bits = bits
    BY DEF To
  <1>2. ~ListedIn(SetBy, w) /\ ~ListedIn(ClearedBy, w)
    BY <1>1 DEF ListedIn, Lists
  <1>3. reg \in DOMAIN r[dev]
    BY DEF Holds, Full
  <1> HIDE DEF w
  <1>4. s = [r EXCEPT ![dev][reg] = bits]
    BY <1>1, <1>2, <1>3 DEF Stored
  <1> HIDE DEF s
  <1>5. Puts(r, s, dev, reg, bits)
    BY <1>4, OneRegister, Zenon
  <1> QED
    BY <1>5 DEF s, w

\* A register that holds no value.
LEMMA StoresNothing ==
    ASSUME NEW r, Full(r), NEW dev, NEW reg, NEW bits,
           ~Lists(SetBy, dev, reg), ~Lists(ClearedBy, dev, reg),
           dev \in DOMAIN ResetRegs, ~Holds(dev, reg), AD.SWRST \notin bits \/ dev # "ADC"
    PROVE  Stored(r, To(dev, reg, bits)) = r
  <1> DEFINE w == To(dev, reg, bits)
             s == Stored(r, w)
  <1>1. w.dev = dev /\ w.reg = reg /\ w.bits = bits
    BY DEF To
  <1>2. ~ListedIn(SetBy, w) /\ ~ListedIn(ClearedBy, w)
    BY <1>1 DEF ListedIn, Lists
  <1>3. reg \notin DOMAIN r[dev]
    BY DEF Holds, Full
  <1> HIDE DEF w
  <1>4. s = r
    BY <1>1, <1>2, <1>3 DEF Stored
  <1> QED
    BY <1>4 DEF w

LEMMA AdcReset ==
    ASSUME NEW r, Full(r)
    PROVE  LET s == Stored(r, To("ADC", "CR", {AD.SWRST})) IN
           /\ Full(s)
           /\ s.ADC.MR = {} /\ s.ADC.CHSR = {}
           /\ \A d, q : Holds(d, q) /\ d # "ADC" => s[d][q] = r[d][q]
  <1> DEFINE w == To("ADC", "CR", {AD.SWRST})
             s == Stored(r, w)
  <1>1. w.dev = "ADC" /\ w.reg = "CR" /\ w.bits = {AD.SWRST}
    BY DEF To
  <1>2. ~ListedIn(SetBy, w) /\ ~ListedIn(ClearedBy, w)
    BY <1>1, NoSwitches DEF ListedIn, Lists
  <1> HIDE DEF w
  <1>3. s = [r EXCEPT !.ADC = ResetRegs.ADC]
    BY <1>1, <1>2 DEF Stored
  <1>4. "ADC" \in DOMAIN ResetRegs /\ ResetRegs.ADC.MR = {} /\ ResetRegs.ADC.CHSR = {}
    BY SMT DEF ResetRegs
  <1>5. /\ DOMAIN s = DOMAIN r /\ s.ADC = ResetRegs.ADC
        /\ \A d \in DOMAIN r : d # "ADC" => s[d] = r[d]
    BY <1>3, <1>4 DEF Full
  <1> HIDE DEF s
  <1>6. Full(s)
    BY <1>5 DEF Full
  <1>7. \A d, q : Holds(d, q) /\ d # "ADC" => s[d][q] = r[d][q]
    BY <1>5 DEF Full, Holds
  <1>8. /\ Full(s)
        /\ s.ADC.MR = {} /\ s.ADC.CHSR = {}
        /\ \A d, q : Holds(d, q) /\ d # "ADC" => s[d][q] = r[d][q]
    BY <1>4, <1>5, <1>6, <1>7
  <1> QED
    BY <1>8 DEF s, w

\* What the writes of the boot store, register by register.
Changes(r, s, k) ==
    /\ Full(s)
    /\ k # 28 => s.AIC.SMR = r.AIC.SMR
    /\ k = 28 => s.AIC.SMR = {0}
    /\ k # 27 => s.AIC.SVR = r.AIC.SVR
    /\ k = 27 => s.AIC.SVR = Handler
    /\ k \notin {25, 31} => s.AIC.IMR = r.AIC.IMR
    /\ k = 25 => s.AIC.IMR = r.AIC.IMR \ {ID.TC0}
    /\ k = 31 => s.AIC.IMR = r.AIC.IMR \cup {ID.TC0}
    /\ k # 5 => s.PIOA.PSR = r.PIOA.PSR
    /\ k = 5 => s.PIOA.PSR = r.PIOA.PSR \ {PinTXD0}
    /\ k \notin {3, 4} => s.PIOA.ABSR = r.PIOA.ABSR
    /\ k = 3 => s.PIOA.ABSR = r.PIOA.ABSR \ {PinTXD0}
    /\ k = 4 => s.PIOA.ABSR = r.PIOA.ABSR \cup {}
    /\ k # 23 => s.PIOB.PSR = r.PIOB.PSR
    /\ k = 23 => s.PIOB.PSR = r.PIOB.PSR \ {PinTIOA0}
    /\ k \notin {6, 17} => s.PMC.PCSR = r.PMC.PCSR
    /\ k = 6 => s.PMC.PCSR = r.PMC.PCSR \cup {ID.US0}
    /\ k = 17 => s.PMC.PCSR = r.PMC.PCSR \cup {ID.TC0, ID.PIOB}
    /\ k # 9 => s.US0.MR = r.US0.MR
    /\ k = 9 => s.US0.MR = {6, 7, 11}
    /\ k # 10 => s.US0.BRGR = r.US0.BRGR
    /\ k = 10 => s.US0.BRGR = {1, 3, 4}
    /\ k # 7 => s.US0.IMR = r.US0.IMR
    /\ k = 7 => s.US0.IMR = r.US0.IMR \ AllBits
    /\ k # 21 => s.TC0.CMR = r.TC0.CMR
    /\ k = 21 => s.TC0.CMR = {2, 14, 15, 18, 19}
    /\ k # 22 => s.TC0.RC = r.TC0.RC
    /\ k = 22 => s.TC0.RC = {0, 2, 4, 6, 7, 8}
    /\ k \notin {19, 30} => s.TC0.IMR = r.TC0.IMR
    /\ k = 19 => s.TC0.IMR = r.TC0.IMR \ AllBits
    /\ k = 30 => s.TC0.IMR = r.TC0.IMR \cup {TC.CPCS}
    /\ k \notin {13, 14} => s.ADC.MR = r.ADC.MR
    /\ k = 13 => s.ADC.MR = {}
    /\ k = 14 => s.ADC.MR = {8, 9, 11, 18}
    /\ k \notin {13, 15} => s.ADC.CHSR = r.ADC.CHSR
    /\ k = 13 => s.ADC.CHSR = {}
    /\ k = 15 => s.ADC.CHSR = r.ADC.CHSR \cup {4}

\* A register is written to: the others keep their values.
LEMMA OthersKeep ==
    ASSUME NEW r, NEW s, NEW dev, NEW reg, NEW x, Puts(r, s, dev, reg, x)
    PROVE  /\ Full(s)
           /\ s[dev][reg] = x
           /\ ~(dev = "AIC" /\ reg = "SMR") => s.AIC.SMR = r.AIC.SMR
           /\ ~(dev = "AIC" /\ reg = "SVR") => s.AIC.SVR = r.AIC.SVR
           /\ ~(dev = "AIC" /\ reg = "IMR") => s.AIC.IMR = r.AIC.IMR
           /\ ~(dev = "PIOA" /\ reg = "PSR") => s.PIOA.PSR = r.PIOA.PSR
           /\ ~(dev = "PIOA" /\ reg = "ABSR") => s.PIOA.ABSR = r.PIOA.ABSR
           /\ ~(dev = "PIOB" /\ reg = "PSR") => s.PIOB.PSR = r.PIOB.PSR
           /\ ~(dev = "PMC" /\ reg = "PCSR") => s.PMC.PCSR = r.PMC.PCSR
           /\ ~(dev = "US0" /\ reg = "MR") => s.US0.MR = r.US0.MR
           /\ ~(dev = "US0" /\ reg = "BRGR") => s.US0.BRGR = r.US0.BRGR
           /\ ~(dev = "US0" /\ reg = "IMR") => s.US0.IMR = r.US0.IMR
           /\ ~(dev = "TC0" /\ reg = "CMR") => s.TC0.CMR = r.TC0.CMR
           /\ ~(dev = "TC0" /\ reg = "RC") => s.TC0.RC = r.TC0.RC
           /\ ~(dev = "TC0" /\ reg = "IMR") => s.TC0.IMR = r.TC0.IMR
           /\ ~(dev = "ADC" /\ reg = "MR") => s.ADC.MR = r.ADC.MR
           /\ ~(dev = "ADC" /\ reg = "CHSR") => s.ADC.CHSR = r.ADC.CHSR
  BY HeldRegisters DEF Puts

LEMMA StoresOfBoot ==
    ASSUME NEW r, Full(r), NEW k \in 1 .. 33, Executor_Init[k].op = "write"
    PROVE  Changes(r, Stored(r, Executor_Init[k]), k)
  <1> DEFINE s(j) == Stored(r, Executor_Init[j])
  <1>3. Changes(r, s(3), 3)
    <2> DEFINE w == To("PIOA", "ASR", {PinTXD0})
    <2>1. s(3) = Stored(r, w)
      BY BootWrites
    <2>2. Puts(r, Stored(r, w), "PIOA", "ABSR", r.PIOA.ABSR \ {PinTXD0})
      BY ClearsBits, Switches, HeldRegisters
    <2> HIDE DEF s, w
    <2> QED
      BY <2>1, <2>2, OthersKeep, SMT DEF Changes
  <1>4. Changes(r, s(4), 4)
    <2> DEFINE w == To("PIOA", "BSR", {})
    <2>1. s(4) = Stored(r, w)
      BY BootWrites
    <2>2. Puts(r, Stored(r, w), "PIOA", "ABSR", r.PIOA.ABSR \cup {})
      BY SetsBits, Switches, HeldRegisters
    <2> HIDE DEF s, w
    <2> QED
      BY <2>1, <2>2, OthersKeep, SMT DEF Changes
  <1>5. Changes(r, s(5), 5)
    <2> DEFINE w == To("PIOA", "PDR", {PinTXD0})
    <2>1. s(5) = Stored(r, w)
      BY BootWrites
    <2>2. Puts(r, Stored(r, w), "PIOA", "PSR", r.PIOA.PSR \ {PinTXD0})
      BY ClearsBits, Switches, HeldRegisters
    <2> HIDE DEF s, w
    <2> QED
      BY <2>1, <2>2, OthersKeep, SMT DEF Changes
  <1>6. Changes(r, s(6), 6)
    <2> DEFINE w == To("PMC", "PCER", {ID.US0})
    <2>1. s(6) = Stored(r, w)
      BY BootWrites
    <2>2. Puts(r, Stored(r, w), "PMC", "PCSR", r.PMC.PCSR \cup {ID.US0})
      BY SetsBits, Switches, HeldRegisters
    <2> HIDE DEF s, w
    <2> QED
      BY <2>1, <2>2, OthersKeep, SMT DEF Changes
  <1>7. Changes(r, s(7), 7)
    <2> DEFINE w == To("US0", "IDR", AllBits)
    <2>1. s(7) = Stored(r, w)
      BY BootWrites
    <2>2. Puts(r, Stored(r, w), "US0", "IMR", r.US0.IMR \ AllBits)
      BY ClearsBits, Switches, HeldRegisters
    <2> HIDE DEF s, w
    <2> QED
      BY <2>1, <2>2, OthersKeep, SMT DEF Changes
  <1>8. Changes(r, s(8), 8)
    <2> DEFINE w == To("US0", "CR", {US.RSTRX, US.RSTTX, US.RXDIS, US.TXDIS})
    <2>1. s(8) = Stored(r, w)
      BY BootWrites
    <2>2. Stored(r, w) = r
      BY StoresNothing, NoSwitches, HeldRegisters
    <2> HIDE DEF s, w
    <2> QED
      BY <2>1, <2>2, SMT DEF Changes
  <1>9. Changes(r, s(9), 9)
    <2> DEFINE w == To("US0", "MR", {6, 7, 11})
    <2>1. s(9) = Stored(r, w)
      BY BootWrites
    <2>2. Puts(r, Stored(r, w), "US0", "MR", {6, 7, 11})
      BY StoresValue, NoSwitches, HeldRegisters
    <2> HIDE DEF s, w
    <2> QED
      BY <2>1, <2>2, OthersKeep, SMT DEF Changes
  <1>10. Changes(r, s(10), 10)
    <2> DEFINE w == To("US0", "BRGR", {1, 3, 4})
    <2>1. s(10) = Stored(r, w)
      BY BootWrites
    <2>2. Puts(r, Stored(r, w), "US0", "BRGR", {1, 3, 4})
      BY StoresValue, NoSwitches, HeldRegisters
    <2> HIDE DEF s, w
    <2> QED
      BY <2>1, <2>2, OthersKeep, SMT DEF Changes
  <1>11. Changes(r, s(11), 11)
    <2> DEFINE w == To("US0", "CR", {US.TXEN})
    <2>1. s(11) = Stored(r, w)
      BY BootWrites
    <2>2. Stored(r, w) = r
      BY StoresNothing, NoSwitches, HeldRegisters
    <2> HIDE DEF s, w
    <2> QED
      BY <2>1, <2>2, SMT DEF Changes
  <1>13. Changes(r, s(13), 13)
    <2> DEFINE w == To("ADC", "CR", {AD.SWRST})
    <2>1. s(13) = Stored(r, w)
      BY BootWrites
    <2>2. /\ Full(Stored(r, w))
          /\ Stored(r, w).ADC.MR = {} /\ Stored(r, w).ADC.CHSR = {}
          /\ \A d, q : Holds(d, q) /\ d # "ADC" => Stored(r, w)[d][q] = r[d][q]
      BY AdcReset
    <2> HIDE DEF s, w
    <2> QED
      BY <2>1, <2>2, HeldRegisters, SMT DEF Changes
  <1>14. Changes(r, s(14), 14)
    <2> DEFINE w == To("ADC", "MR", {8, 9, 11, 18})
    <2>1. s(14) = Stored(r, w)
      BY BootWrites
    <2>2. Puts(r, Stored(r, w), "ADC", "MR", {8, 9, 11, 18})
      BY StoresValue, NoSwitches, HeldRegisters
    <2> HIDE DEF s, w
    <2> QED
      BY <2>1, <2>2, OthersKeep, SMT DEF Changes
  <1>15. Changes(r, s(15), 15)
    <2> DEFINE w == To("ADC", "CHER", {4})
    <2>1. s(15) = Stored(r, w)
      BY BootWrites
    <2>2. Puts(r, Stored(r, w), "ADC", "CHSR", r.ADC.CHSR \cup {4})
      BY SetsBits, Switches, HeldRegisters
    <2> HIDE DEF s, w
    <2> QED
      BY <2>1, <2>2, OthersKeep, SMT DEF Changes
  <1>16. Changes(r, s(16), 16)
    <2> DEFINE w == To("ADC", "CR", {AD.START})
    <2>1. s(16) = Stored(r, w)
      BY BootWrites
    <2>2. Stored(r, w) = r
      BY StoresNothing, NoSwitches, HeldRegisters DEF AD
    <2> HIDE DEF s, w
    <2> QED
      BY <2>1, <2>2, SMT DEF Changes
  <1>17. Changes(r, s(17), 17)
    <2> DEFINE w == To("PMC", "PCER", {ID.TC0, ID.PIOB})
    <2>1. s(17) = Stored(r, w)
      BY BootWrites
    <2>2. Puts(r, Stored(r, w), "PMC", "PCSR", r.PMC.PCSR \cup {ID.TC0, ID.PIOB})
      BY SetsBits, Switches, HeldRegisters
    <2> HIDE DEF s, w
    <2> QED
      BY <2>1, <2>2, OthersKeep, SMT DEF Changes
  <1>18. Changes(r, s(18), 18)
    <2> DEFINE w == To("TC0", "CCR", {TC.CLKDIS})
    <2>1. s(18) = Stored(r, w)
      BY BootWrites
    <2>2. Stored(r, w) = r
      BY StoresNothing, NoSwitches, HeldRegisters
    <2> HIDE DEF s, w
    <2> QED
      BY <2>1, <2>2, SMT DEF Changes
  <1>19. Changes(r, s(19), 19)
    <2> DEFINE w == To("TC0", "IDR", AllBits)
    <2>1. s(19) = Stored(r, w)
      BY BootWrites
    <2>2. Puts(r, Stored(r, w), "TC0", "IMR", r.TC0.IMR \ AllBits)
      BY ClearsBits, Switches, HeldRegisters
    <2> HIDE DEF s, w
    <2> QED
      BY <2>1, <2>2, OthersKeep, SMT DEF Changes
  <1>21. Changes(r, s(21), 21)
    <2> DEFINE w == To("TC0", "CMR", {2, 14, 15, 18, 19})
    <2>1. s(21) = Stored(r, w)
      BY BootWrites
    <2>2. Puts(r, Stored(r, w), "TC0", "CMR", {2, 14, 15, 18, 19})
      BY StoresValue, NoSwitches, HeldRegisters
    <2> HIDE DEF s, w
    <2> QED
      BY <2>1, <2>2, OthersKeep, SMT DEF Changes
  <1>22. Changes(r, s(22), 22)
    <2> DEFINE w == To("TC0", "RC", {0, 2, 4, 6, 7, 8})
    <2>1. s(22) = Stored(r, w)
      BY BootWrites
    <2>2. Puts(r, Stored(r, w), "TC0", "RC", {0, 2, 4, 6, 7, 8})
      BY StoresValue, NoSwitches, HeldRegisters
    <2> HIDE DEF s, w
    <2> QED
      BY <2>1, <2>2, OthersKeep, SMT DEF Changes
  <1>23. Changes(r, s(23), 23)
    <2> DEFINE w == To("PIOB", "PDR", {PinTIOA0})
    <2>1. s(23) = Stored(r, w)
      BY BootWrites
    <2>2. Puts(r, Stored(r, w), "PIOB", "PSR", r.PIOB.PSR \ {PinTIOA0})
      BY ClearsBits, Switches, HeldRegisters
    <2> HIDE DEF s, w
    <2> QED
      BY <2>1, <2>2, OthersKeep, SMT DEF Changes
  <1>24. Changes(r, s(24), 24)
    <2> DEFINE w == To("TC0", "CCR", {TC.CLKEN})
    <2>1. s(24) = Stored(r, w)
      BY BootWrites
    <2>2. Stored(r, w) = r
      BY StoresNothing, NoSwitches, HeldRegisters
    <2> HIDE DEF s, w
    <2> QED
      BY <2>1, <2>2, SMT DEF Changes
  <1>25. Changes(r, s(25), 25)
    <2> DEFINE w == To("AIC", "IDCR", {ID.TC0})
    <2>1. s(25) = Stored(r, w)
      BY BootWrites
    <2>2. Puts(r, Stored(r, w), "AIC", "IMR", r.AIC.IMR \ {ID.TC0})
      BY ClearsBits, Switches, HeldRegisters
    <2> HIDE DEF s, w
    <2> QED
      BY <2>1, <2>2, OthersKeep, SMT DEF Changes
  <1>27. Changes(r, s(27), 27)
    <2> DEFINE w == To("AIC", "SVR", Handler)
    <2>1. s(27) = Stored(r, w)
      BY BootWrites
    <2>2. Puts(r, Stored(r, w), "AIC", "SVR", Handler)
      BY StoresValue, NoSwitches, HeldRegisters
    <2> HIDE DEF s, w
    <2> QED
      BY <2>1, <2>2, OthersKeep, SMT DEF Changes
  <1>28. Changes(r, s(28), 28)
    <2> DEFINE w == To("AIC", "SMR", {0})
    <2>1. s(28) = Stored(r, w)
      BY BootWrites
    <2>2. Puts(r, Stored(r, w), "AIC", "SMR", {0})
      BY StoresValue, NoSwitches, HeldRegisters
    <2> HIDE DEF s, w
    <2> QED
      BY <2>1, <2>2, OthersKeep, SMT DEF Changes
  <1>29. Changes(r, s(29), 29)
    <2> DEFINE w == To("AIC", "ICCR", {ID.TC0})
    <2>1. s(29) = Stored(r, w)
      BY BootWrites
    <2>2. Stored(r, w) = r
      BY StoresNothing, NoSwitches, HeldRegisters
    <2> HIDE DEF s, w
    <2> QED
      BY <2>1, <2>2, SMT DEF Changes
  <1>30. Changes(r, s(30), 30)
    <2> DEFINE w == To("TC0", "IER", {TC.CPCS})
    <2>1. s(30) = Stored(r, w)
      BY BootWrites
    <2>2. Puts(r, Stored(r, w), "TC0", "IMR", r.TC0.IMR \cup {TC.CPCS})
      BY SetsBits, Switches, HeldRegisters
    <2> HIDE DEF s, w
    <2> QED
      BY <2>1, <2>2, OthersKeep, SMT DEF Changes
  <1>31. Changes(r, s(31), 31)
    <2> DEFINE w == To("AIC", "IECR", {ID.TC0})
    <2>1. s(31) = Stored(r, w)
      BY BootWrites
    <2>2. Puts(r, Stored(r, w), "AIC", "IMR", r.AIC.IMR \cup {ID.TC0})
      BY SetsBits, Switches, HeldRegisters
    <2> HIDE DEF s, w
    <2> QED
      BY <2>1, <2>2, OthersKeep, SMT DEF Changes
  <1>32. Changes(r, s(32), 32)
    <2> DEFINE w == To("TC0", "CCR", {TC.SWTRG})
    <2>1. s(32) = Stored(r, w)
      BY BootWrites
    <2>2. Stored(r, w) = r
      BY StoresNothing, NoSwitches, HeldRegisters
    <2> HIDE DEF s, w
    <2> QED
      BY <2>1, <2>2, SMT DEF Changes
  <1>34. k \in 1 .. 33 /\ k \notin {1, 2, 12, 20, 26, 33}
    BY StepsOfBoot
  <1> HIDE DEF s
  <1>35. Changes(r, s(k), k)
    BY <1>34, <1>3, <1>4, <1>5, <1>6, <1>7, <1>8, <1>9, <1>10, <1>11, <1>13, <1>14, <1>15,
       <1>16, <1>17, <1>18, <1>19, <1>21, <1>22, <1>23, <1>24, <1>25, <1>27, <1>28, <1>29,
       <1>30, <1>31, <1>32
  <1> QED
    BY <1>35 DEF s

-----------------------------------------------------------------------------
(* What the boot has put into the registers, step by step.                 *)

\* Every write is to one of the controllers.
LEMMA DevicesOfBoot ==
    ASSUME NEW k \in 1 .. 33, Executor_Init[k].op = "write"
    PROVE  Executor_Init[k].dev \in Devices
  <1>1. Executor_Init[k].dev \in {"AIC", "PIOA", "PIOB", "PMC", "US0", "TC0", "ADC"}
    BY BootSequence, BootWrites DEF Do, To
  <1> QED
    BY <1>1 DEF Devices, Base

\* What the boot has put into the registers so far, each after the step that
\* writes it; and what the masks can hold at most, also before.
RegStages ==
    /\ step > 3 => PinTXD0 \notin regs.PIOA.ABSR
    /\ step > 5 => PinTXD0 \notin regs.PIOA.PSR
    /\ step > 6 => ID.US0 \in regs.PMC.PCSR
    /\ step > 9 => regs.US0.MR = {6, 7, 11}
    /\ step > 10 => regs.US0.BRGR = {1, 3, 4}
    /\ step > 14 => regs.ADC.MR = {8, 9, 11, 18}
    /\ step > 15 => regs.ADC.CHSR = {4}
    /\ step > 17 => ID.TC0 \in regs.PMC.PCSR
    /\ step > 21 => regs.TC0.CMR = {2, 14, 15, 18, 19}
    /\ step > 22 => regs.TC0.RC = {0, 2, 4, 6, 7, 8}
    /\ step > 23 => PinTIOA0 \notin regs.PIOB.PSR
    /\ step > 27 => regs.AIC.SVR = Handler
    /\ step > 28 => regs.AIC.SMR = {0}
    /\ step > 30 => regs.TC0.IMR = {TC.CPCS}
    /\ step > 31 => regs.AIC.IMR = {ID.TC0}
    /\ regs.ADC.CHSR \subseteq {4} /\ regs.US0.IMR = {}
    /\ regs.TC0.IMR \subseteq {TC.CPCS} /\ regs.AIC.IMR \subseteq {ID.TC0}

\* The timer counts once it was started (step 32).
Counting == step > 32 => tc = "counting"

RegInv == ClockInv /\ Full(regs) /\ RegStages /\ Counting

\* What the writes of the boot store takes the stages one further.
LEMMA StagesAdvance ==
    ASSUME NEW r, NEW s, NEW k \in 1 .. 33, Changes(r, s, k), regs = r, regs' = s,
           step = k, step' = k + 1, RegStages
    PROVE  RegStages'
  <1>1. /\ step' > 3 => PinTXD0 \notin regs'.PIOA.ABSR
        /\ step' > 5 => PinTXD0 \notin regs'.PIOA.PSR
        /\ step' > 6 => ID.US0 \in regs'.PMC.PCSR
        /\ step' > 17 => ID.TC0 \in regs'.PMC.PCSR
        /\ step' > 23 => PinTIOA0 \notin regs'.PIOB.PSR
    BY SMT DEF Changes, RegStages
  <1>2. /\ step' > 9 => regs'.US0.MR = {6, 7, 11}
        /\ step' > 10 => regs'.US0.BRGR = {1, 3, 4}
        /\ step' > 14 => regs'.ADC.MR = {8, 9, 11, 18}
        /\ step' > 15 => regs'.ADC.CHSR = {4}
        /\ regs'.ADC.CHSR \subseteq {4} /\ regs'.US0.IMR = {}
    BY SMT DEF Changes, RegStages
  <1>3. /\ step' > 21 => regs'.TC0.CMR = {2, 14, 15, 18, 19}
        /\ step' > 22 => regs'.TC0.RC = {0, 2, 4, 6, 7, 8}
        /\ step' > 27 => regs'.AIC.SVR = Handler
        /\ step' > 28 => regs'.AIC.SMR = {0}
    BY SMT DEF Changes, RegStages
  <1>4. /\ step' > 30 => regs'.TC0.IMR = {TC.CPCS}
        /\ step' > 31 => regs'.AIC.IMR = {ID.TC0}
        /\ regs'.TC0.IMR \subseteq {TC.CPCS} /\ regs'.AIC.IMR \subseteq {ID.TC0}
    BY SMT DEF Changes, RegStages
  <1> QED
    BY <1>1, <1>2, <1>3, <1>4 DEF RegStages

LEMMA RegStep == ASSUME RegInv, [Next]_vars PROVE RegInv'
  <1>1. /\ step \in 1 .. 34 /\ (at = "boot" <=> step < 34)
        /\ Full(regs) /\ RegStages /\ Counting
    BY DEF RegInv, ClockInv, ClockTypes
  <1>2. ClockInv'
    BY NextClock DEF RegInv
  <1>3. ASSUME BootWrite PROVE Full(regs)' /\ RegStages' /\ Counting'
    <2>1. /\ step \in 1 .. 33 /\ step' = step + 1
          /\ Now.op = "write"
      BY <1>1, <1>3, BootAdvances DEF Boot
    <2>2. regs' = Stored(regs, Executor_Init[step]) /\ Executor_Init[step].op = "write"
      BY <1>3, <2>1 DEF BootWrite, Now
    <2>3. Changes(regs, regs', step)
      BY <1>1, <2>1, <2>2, StoresOfBoot
    <2>4. RegStages'
      BY <1>1, <2>1, <2>3, StagesAdvance
    <2>5. CASE step = 32
      <3>1. Executor_Init[32] = To("TC0", "CCR", {TC.SWTRG})
        BY BootWrites
      <3>2. Now.dev = "TC0" /\ Now.reg = "CCR" /\ Now.bits = {TC.SWTRG}
        BY <2>5, <3>1 DEF Now, To
      <3>3. tc = "armed"
        BY <2>5 DEF RegInv, ClockInv, ClockStages
      <3>4. TimerAfter({TC.SWTRG}) = "counting"
        BY <3>3 DEF TimerAfter, TC
      <3> QED
        BY <1>3, <2>3, <2>4, <3>2, <3>4 DEF BootWrite, Counting, Changes
    <2>6. CASE step # 32
      <3>1. step' <= 32
        BY <1>1, <1>3, <2>1, <2>6, BootAdvances DEF Boot
      <3> QED
        BY <2>1, <2>3, <2>4, <3>1 DEF Counting, Changes
    <2> QED
      BY <2>5, <2>6
  <1>4. ASSUME ~BootWrite PROVE Full(regs)' /\ RegStages' /\ Counting'
    <2>1. regs' = regs /\ tc' = tc
      BY <1>4 DEF Next, Boot, BootStatus, BootModel, BootWakeup, BootTime, BootEnable,
         Executor_Run, PutChar, UsartConductor_Run, TimerConductor_Run, AdcConductor_Run,
         Interrupt, Match, Converted, Sent, vars, chip
    <2>2. CASE Boot
      <3>1. step \in {1, 2, 12, 20, 26, 33} /\ step' = step + 1
        BY <1>1, <1>4, <2>2, BootAdvances
      <3>2. RegStages'
        BY <1>1, <2>1, <3>1, SMT DEF RegStages
      <3> QED
        BY <1>1, <2>1, <3>1, <3>2 DEF Full, Counting
    <2>3. CASE ~Boot
      <3>1. step' = step
        BY <2>3 DEF Next, Executor_Run, PutChar, UsartConductor_Run, TimerConductor_Run,
           AdcConductor_Run, Interrupt, Match, Converted, Sent, vars, program
      <3> QED
        BY <1>1, <2>1, <3>1 DEF RegStages, Full, Counting
    <2> QED
      BY <2>2, <2>3
  <1> QED
    BY <1>2, <1>3, <1>4 DEF RegInv

LEMMA InitReg == Init => RegInv
  <1> SUFFICES ASSUME Init PROVE RegInv
    OBVIOUS
  <1>1. step = 1 /\ (regs = ResetRegs \/ regs = UsedRegs)
    BY DEF Init
  <1> DEFINE masks(r) ==
               /\ r.ADC.CHSR \subseteq {4} /\ r.US0.IMR = {}
               /\ r.TC0.IMR \subseteq {TC.CPCS} /\ r.AIC.IMR \subseteq {ID.TC0}
  <1>2. Full(ResetRegs) /\ masks(ResetRegs)
    BY SMT DEF Full, ResetRegs
  <1>3. Full(UsedRegs) /\ masks(UsedRegs)
    <2>1. /\ DOMAIN UsedRegs = DOMAIN ResetRegs
          /\ UsedRegs.AIC = [ResetRegs.AIC EXCEPT !.IMR = {ID.TC0}]
          /\ UsedRegs.TC0 = [ResetRegs.TC0 EXCEPT !.IMR = {TC.CPCS}]
          /\ UsedRegs.PMC = [ResetRegs.PMC EXCEPT !.PCSR = {ID.US0, ID.TC0, ID.PIOB}]
          /\ UsedRegs.ADC = [ResetRegs.ADC EXCEPT !.CHSR = {AD.CH4}]
          /\ UsedRegs.PIOA = ResetRegs.PIOA /\ UsedRegs.PIOB = ResetRegs.PIOB
          /\ UsedRegs.US0 = ResetRegs.US0
      BY SMT DEF UsedRegs, ResetRegs
    <2>2. \A d \in DOMAIN ResetRegs :
             d \in {"AIC", "TC0", "PMC", "ADC", "PIOA", "PIOB", "US0"}
      BY SMT DEF ResetRegs
    <2>3. Full(UsedRegs)
      BY <2>1, <2>2, SMT DEF Full
    <2>4. /\ "IMR" \in DOMAIN ResetRegs.AIC /\ "IMR" \in DOMAIN ResetRegs.TC0
          /\ "CHSR" \in DOMAIN ResetRegs.ADC /\ ResetRegs.US0.IMR = {}
      BY SMT DEF ResetRegs
    <2>5. /\ UsedRegs.AIC.IMR = {ID.TC0} /\ UsedRegs.TC0.IMR = {TC.CPCS}
          /\ UsedRegs.ADC.CHSR = {AD.CH4} /\ UsedRegs.US0.IMR = {}
      BY <2>1, <2>4
    <2> QED
      BY <2>3, <2>5 DEF AD
  <1>4. Full(regs) /\ masks(regs)
    BY <1>1, <1>2, <1>3
  <1> QED
    BY <1>1, <1>4, InitClock DEF RegInv, RegStages, Counting

\* Within, of numbers; a set of so many is not for the provers to list.
LEMMA WithinBounds ==
    ASSUME NEW a \in Int, NEW b \in Int, NEW parts \in Int,
           (a - b) * parts <= b, -b <= (a - b) * parts
    PROVE  Within(a, b, parts)
  BY DEF Within

\* Once the program runs, the registers mean what the comments and the tests of
\* its configurators say, whatever an earlier run has left in them: every mode
\* is decoded field by field.
THEOREM PeripheralsRight == Spec => []PeripheralsAsIntended
  <1>1. RegInv => PeripheralsAsIntended
    <2> SUFFICES ASSUME RegInv, at # "boot"
                 PROVE  /\ TimerAsIntended /\ UsartAsIntended /\ AdcAsIntended
                        /\ PinTXD0 \notin regs.PIOA.PSR /\ PinTXD0 \notin regs.PIOA.ABSR
                        /\ PinTIOA0 \notin regs.PIOB.PSR
      BY DEF PeripheralsAsIntended
    <2>1. step = 34 /\ tc = "counting" /\ RegStages
      BY DEF RegInv, ClockInv, ClockTypes, Counting
    <2>2. /\ regs.TC0.CMR = {2, 14, 15, 18, 19} /\ regs.TC0.RC = {0, 2, 4, 6, 7, 8}
          /\ regs.TC0.IMR = {TC.CPCS} /\ regs.AIC.IMR = {ID.TC0} /\ regs.AIC.SMR = {0}
          /\ regs.US0.MR = {6, 7, 11} /\ regs.US0.BRGR = {1, 3, 4} /\ regs.US0.IMR = {}
          /\ regs.ADC.MR = {8, 9, 11, 18} /\ regs.ADC.CHSR = {4}
          /\ PinTXD0 \notin regs.PIOA.PSR /\ PinTXD0 \notin regs.PIOA.ABSR
          /\ PinTIOA0 \notin regs.PIOB.PSR
      BY <2>1 DEF RegStages
    <2>3. TimerAsIntended
      <3>1. Decoded(TC_CMR, regs.TC0.CMR) =
               [Defaults(TC_CMR) EXCEPT !.CLKS = "DIV5", !.WAVE = "ON", !.WAVESEL = "UP_AUTO",
                                        !.ACPC = "TOGGLE"]
        BY <2>2, TC_CMRMeans, Zenon DEF Defaults
      <3>2. Within(Field(regs.TC0.RC, 0, 16) * 1024 * 100, 48054857, 1000)
        <4>1. Field(regs.TC0.RC, 0, 16) = 469
          BY <2>2, NumbersMean
        <4>2. Within(469 * 1024 * 100, 48054857, 1000)
          BY WithinBounds, SMT
        <4> QED
          BY <4>1, <4>2, SMT
      <3>3. Decoded(AIC_SMR, regs.AIC.SMR).SRCTYPE = "INT_HIGH_LEVEL" /\ PRIOR(regs.AIC.SMR) > 0
        <4>1. Defaults(AIC_SMR).SRCTYPE = "INT_HIGH_LEVEL"
          BY SMT DEF Defaults, AIC_SMR
        <4>2. PRIOR(regs.AIC.SMR) = 1
          BY <2>2, NumbersMean
        <4> QED
          BY <2>2, <4>1, <4>2, AIC_SMRMeans
      <3> QED
        BY <2>1, <2>2, <3>1, <3>2, <3>3 DEF TimerAsIntended
    <2>4. UsartAsIntended
      <3>1. Decoded(US_MR, regs.US0.MR) = [Defaults(US_MR) EXCEPT !.CHRL = "8", !.PAR = "NONE"]
        BY <2>2, US_MRMeans, Zenon DEF Defaults
      <3>2. Within(Field(regs.US0.BRGR, 0, 16) * 16 * 1152, 480548, 200)
        <4>1. Field(regs.US0.BRGR, 0, 16) = 26
          BY <2>2, NumbersMean
        <4>2. Within(26 * 16 * 1152, 480548, 200)
          BY WithinBounds, SMT
        <4> QED
          BY <4>1, <4>2, SMT
      <3> QED
        BY <2>2, <3>1, <3>2 DEF UsartAsIntended
    <2>5. AdcAsIntended
      <3>1. Decoded(ADC_MR, regs.ADC.MR) = Defaults(ADC_MR) /\ regs.ADC.CHSR = {AD.CH4}
        BY <2>2, ADC_MRMeans, Zenon DEF Defaults, AD
      <3>2. Within(2000000 * 2 * (PRESCAL(regs.ADC.MR) + 1), 48054857, 200)
        <4>1. PRESCAL(regs.ADC.MR) = 11
          BY <2>2, NumbersMean
        <4>2. Within(2000000 * 2 * (11 + 1), 48054857, 200)
          BY WithinBounds, SMT
        <4> QED
          BY <4>1, <4>2, SMT
      <3> QED
        BY <3>1, <3>2 DEF AdcAsIntended
    <2> QED
      BY <2>2, <2>3, <2>4, <2>5
  <1> QED
    BY InitReg, RegStep, <1>1, PTL DEF Spec

\* Every write of the boot is to a controller whose struct puts each member at
\* the address that the list of its registers has.
THEOREM WritesRight == Spec => []WritesLandAsNamed
  <1>1. ClockInv => WritesLandAsNamed
    <2> SUFFICES ASSUME ClockInv, Booting("write") PROVE LayoutAgrees(Now.dev)
      BY DEF WritesLandAsNamed
    <2>1. step \in 1 .. 33 /\ Now.op = "write"
      BY DEF ClockInv, ClockTypes, Booting
    <2>2. Executor_Init[step].dev \in Devices
      BY <2>1, DevicesOfBoot DEF Now
    <2> QED
      BY <2>2, LayoutHolds DEF Now
  <1> QED
    BY InitClock, NextClock, <1>1, PTL DEF Spec

\* The USART and the timer are written to only while their clocks are on, and
\* an interrupt that can be taken finds its handler installed.
THEOREM BootOrderRight == Spec => BootInOrder
  <1> DEFINE InOrder ==
               /\ BootWrite /\ Now.dev \in {"US0", "TC0"} => ID[Now.dev] \in regs.PMC.PCSR
               /\ irq' /\ ID.TC0 \in regs'.AIC.IMR => regs'.AIC.SVR = Handler
  <1>1. RegInv /\ RegInv' /\ [Next]_vars => InOrder
    <2> SUFFICES ASSUME RegInv, RegInv', [Next]_vars PROVE InOrder
      OBVIOUS
    <2>1. ASSUME BootWrite, Now.dev \in {"US0", "TC0"} PROVE ID[Now.dev] \in regs.PMC.PCSR
      <3>1. step \in 1 .. 34 /\ (at = "boot" <=> step < 34) /\ RegStages
        BY DEF RegInv, ClockInv, ClockTypes
      <3>2. step \in 1 .. 33 /\ Now.op = "write"
        BY <2>1, <3>1, BootAdvances DEF Boot
      <3>3. /\ Now.dev = "US0" => step > 6
            /\ Now.dev = "TC0" => step > 17
        BY <3>2, WritesOfBoot DEF Now
      <3> QED
        BY <2>1, <3>1, <3>3 DEF RegStages
    <2>2. irq' => regs'.AIC.SVR = Handler
      <3>1. step' \in 1 .. 34 /\ (step' < 34 => ~irq') /\ (step' > 27 => regs'.AIC.SVR = Handler)
        BY DEF RegInv, RegStages, ClockInv, ClockTypes, ClockStages
      <3> QED
        BY <3>1
    <2> QED
      BY <2>1, <2>2
  <1>2. RegInv /\ RegInv' /\ [Next]_vars => [InOrder]_vars
    BY <1>1
  <1> QED
    BY InitReg, RegStep, <1>2, PTL DEF Spec, BootInOrder

-----------------------------------------------------------------------------
(* Types.                                                                  *)

Filters == [initialized : BOOLEAN, temperature : Int]

LEMMA FilteredType ==
    ASSUME NEW f \in Filters, NEW t \in Int
    PROVE  Filtered(f, t) \in Filters
<1>1. CASE ~f.initialized
  BY <1>1 DEF Filtered, Filters
<1>2. CASE f.initialized /\ ~Finite(t)
  BY <1>2 DEF Filtered, Filters, TemperatureFilter_Init, NegInf
<1>3. CASE f.initialized /\ Finite(t)
  <2>1. Smooth(f.temperature, t) \in Int
    BY DEF Smooth, Filters
  <2>2. Filtered(f, t) = [f EXCEPT !.temperature = Smooth(f.temperature, t)]
    BY <1>3 DEF Filtered
  <2> QED BY <2>1, <2>2 DEF Filters
<1> QED
  BY <1>1, <1>2, <1>3 DEF Filters

LEMMA ReadingType ==
    ASSUME NEW c \in Counts
    PROVE  TemperatureCalculator_Calculate(Millivolts(c)) \in Int
<1>1. ASSUME NEW mv \in Int PROVE TemperatureCalculator_Calculate(mv) \in Int
  <2>1. mv \in 1 .. 2999 => mv \div TempUnit \in Int
    BY UnitAssumption
  <2> QED BY <2>1 DEF TemperatureCalculator_Calculate, NegInf, PosInf, NaN
<1>2. Millivolts(c) \in Int
  BY DEF Counts, Millivolts
<1> QED
  BY <1>1, <1>2

\* Where the program is: the boot is over after its last step.
Place ==
    /\ at \in {"boot", "usart", "timer", "adc"}
    /\ step \in 1 .. 34 /\ (at = "boot" <=> step < 34)

Texts == {"", "wakeup", "failure", "reading"}
Messages == left \in 0 .. TextLength /\ text \in Texts

Readings ==
    /\ filter \in Filters
    /\ last \in {"none", "good", "bad"}

Controllers ==
    /\ irq \in BOOLEAN /\ cpcs \in BOOLEAN
    /\ tc \in {"off", "armed", "counting"}
    /\ tx \in {"off", "busy", "ready"}
    /\ stall \in 0 .. MaxStall
    /\ elapsed \in Times

TypeInv == Place /\ Messages /\ Readings /\ Controllers /\ CountInv

LEMMA PlaceStep == ASSUME Place, [Next]_vars PROVE Place'
<1>1. CASE Boot
  <2>1. at = "boot" /\ Advance
    BY <1>1 DEF Boot, BootWrite, BootStatus, BootModel, BootWakeup, BootTime, BootEnable, Booting
  <2> QED BY <2>1, BootSequence DEF Place, Advance
<1>2. CASE Executor_Run
  BY <1>2 DEF Executor_Run, PutChar, UsartConductor_Run, TimerConductor_Run, AdcConductor_Run, Place
<1>3. CASE Interrupt \/ Match \/ Converted \/ Sent \/ UNCHANGED vars
  BY <1>3 DEF Interrupt, Match, Converted, Sent, vars, program, Place
<1> QED
  BY <1>1, <1>2, <1>3 DEF Next

LEMMA MessagesStep == ASSUME Messages, [Next]_vars PROVE Messages'
<1>0. TextLength \in Nat /\ TextLength \in 0 .. TextLength
  BY ClockAssumption
<1>1. CASE BootWakeup
  <2>1. left' = TextLength
    BY <1>1 DEF BootWakeup
  <2>2. text' \in Texts
    BY <1>1, Zenon DEF BootWakeup, Texts
  <2> QED BY <1>0, <2>1, <2>2 DEF Messages
<1>2. CASE PutChar
  <2>1. left > 0 /\ left' = left - 1
    BY <1>2, Zenon DEF PutChar
  <2>2. text' \in Texts
    BY <1>2, Zenon DEF PutChar, Texts, Messages
  <2> QED BY <1>0, <2>1, <2>2 DEF Messages
<1>3. CASE UsartConductor_Run
  <2>1. left' = TextLength \/ left' = left
    BY <1>3, Zenon DEF UsartConductor_Run
  <2>2. text' \in Texts
    BY <1>3, Zenon DEF UsartConductor_Run, UsartModel_GetFormattedTemperature, Texts, Messages
  <2> QED BY <1>0, <2>1, <2>2 DEF Messages
<1>4. CASE UNCHANGED <<left, text>>
  BY <1>4 DEF Messages
<1>5. \/ BootWakeup \/ PutChar \/ UsartConductor_Run
      \/ UNCHANGED <<left, text>>
  BY DEF Next, Boot, BootWrite, BootStatus, BootModel, BootTime, BootEnable, Executor_Run,
     TimerConductor_Run, AdcConductor_Run, Interrupt, Match, Converted, Sent, vars, program
<1> QED
  BY <1>1, <1>2, <1>3, <1>4, <1>5

LEMMA ReadingsStep == ASSUME Readings, CountInv, [Next]_vars PROVE Readings'
<1>1. CASE BootModel
  <2>1. filter' \in {TemperatureFilter_Init, filter} /\ last' = last
    BY <1>1 DEF BootModel, history
  <2>2. TemperatureFilter_Init \in Filters
    BY DEF TemperatureFilter_Init, Filters, NegInf
  <2> QED BY <2>1, <2>2 DEF Readings
<1>2. CASE AdcConductor_Run
  <2> DEFINE t == TemperatureCalculator_Calculate(Millivolts(adc.cdr4))
  <2>1. t \in Int
    BY ReadingType DEF CountInv, Held
  <2>2. \/ filter' = Filtered(filter, t) /\ last' \in {"good", "bad"}
        \/ UNCHANGED <<filter, last>>
    BY <1>2 DEF AdcConductor_Run
  <2> HIDE DEF t
  <2>3. filter' \in Filters
    BY <2>1, <2>2, FilteredType DEF Readings
  <2> QED BY <2>2, <2>3 DEF Readings
<1>3. CASE UNCHANGED <<filter, last>>
  BY <1>3 DEF Readings
<1>4. BootModel \/ AdcConductor_Run \/ UNCHANGED <<filter, last>>
  BY DEF Next, Boot, BootWrite, BootStatus, BootWakeup, BootTime, BootEnable, Executor_Run,
     PutChar, UsartConductor_Run, TimerConductor_Run, Interrupt, Match, Converted, Sent,
     vars, program, history
<1> QED
  BY <1>1, <1>2, <1>3, <1>4

LEMMA ControllersStep == ASSUME Controllers, [Next]_vars PROVE Controllers'
<1>0. 0 \in Times /\ MaxStall \in Nat /\ TimeRange \in Nat \ {0} /\ Tick \in Nat
  BY PeriodsAssumption, ClockAssumption DEF Times
<1>1. CASE BootWrite
  <2>1. /\ tc' \in {"off", "armed", "counting"}
        /\ tx' \in {"off", "ready", tx}
    BY <1>1 DEF BootWrite, TimerAfter, Controllers
  <2>2. elapsed' \in {0, elapsed} /\ stall' \in {0, stall}
    BY <1>1 DEF BootWrite
  <2>3. UNCHANGED <<irq, cpcs>>
    BY <1>1 DEF BootWrite
  <2>4. elapsed' \in Times /\ stall' \in 0 .. MaxStall
    BY <1>0, <2>2 DEF Controllers
  <2> QED BY <2>1, <2>3, <2>4 DEF Controllers
<1>2. CASE BootStatus \/ BootEnable \/ Interrupt
  <2>1. cpcs' \in BOOLEAN /\ irq' \in BOOLEAN
    BY <1>2, Zenon DEF BootStatus, BootEnable, Interrupt, Timer_InterruptHandler, Controllers
  <2>2. UNCHANGED <<tc, tx, stall, elapsed>>
    BY <1>2 DEF BootStatus, BootEnable, Interrupt, history
  <2> QED BY <2>1, <2>2 DEF Controllers
<1>3. CASE PutChar \/ Sent
  <2>1. tx' \in {"busy", "ready"} /\ UNCHANGED <<irq, cpcs, tc, stall, elapsed>>
    BY <1>3 DEF PutChar, Sent, history
  <2> QED BY <2>1 DEF Controllers
<1>4. CASE TimerConductor_Run
  <2>1. stall' = 0 /\ UNCHANGED <<irq, cpcs, tc, tx, elapsed>>
    BY <1>4 DEF TimerConductor_Run
  <2> QED BY <1>0, <2>1 DEF Controllers
<1>5. CASE Match
  <2>1. /\ stall < MaxStall /\ stall' = stall + 1
        /\ elapsed' = (elapsed + Tick) % TimeRange
        /\ UNCHANGED <<irq, tc, tx>>
    BY <1>5 DEF Match
  <2>2. cpcs' \in BOOLEAN
    BY <1>5, Zenon DEF Match
  <2>3. stall' \in 0 .. MaxStall
    BY <1>0, <2>1 DEF Controllers
  <2>4. elapsed + Tick \in Nat
    BY <1>0 DEF Controllers, Times
  <2>5. elapsed' \in Times
    BY <1>0, <2>1, <2>4, RemainderInRange DEF Times
  <2> QED BY <2>1, <2>2, <2>3, <2>5 DEF Controllers
<1>6. CASE \/ BootModel \/ BootWakeup \/ BootTime
           \/ UsartConductor_Run \/ AdcConductor_Run \/ Converted \/ UNCHANGED vars
  <2>1. UNCHANGED <<irq, cpcs, tc, tx, stall, elapsed>>
    BY <1>6 DEF BootModel, BootWakeup, BootTime, UsartConductor_Run, AdcConductor_Run,
                Converted, vars, chip, history
  <2> QED BY <2>1 DEF Controllers
<1> QED
  BY <1>1, <1>2, <1>3, <1>4, <1>5, <1>6 DEF Next, Boot, Executor_Run

\* For any clock, periods, tick, samples and messages, no variable leaves its
\* type: the boot ends after its last step, and the count of matches between two
\* updates keeps to its bound.  Infinite and undefined temperatures are integers.
THEOREM TypeCorrect == Spec => []TypeOK
<1>1. Init => TypeInv
  <2> SUFFICES ASSUME Init PROVE TypeInv
    OBVIOUS
  <2>0. /\ at = "boot" /\ step = 1 /\ left = 0 /\ last = "none"
        /\ filter = [initialized |-> FALSE, temperature |-> 0]
    BY DEF Init
  <2>5. text \in Texts
    BY Zenon DEF Init, Texts
  <2>1. Place
    BY <2>0 DEF Place
  <2>2. Messages
    BY <2>0, <2>5, ClockAssumption DEF Messages
  <2>3. Readings
    BY <2>0 DEF Readings, Filters
  <2>4. Controllers
    <3>1. irq \in BOOLEAN /\ cpcs \in BOOLEAN
      BY Zenon DEF Init
    <3>2. 0 \in Times /\ 0 \in 0 .. MaxStall
      BY PeriodsAssumption, ClockAssumption DEF Times
    <3>3. elapsed = 0 /\ stall = 0 /\ tc \in {"off", "counting"} /\ tx \in {"off", "busy", "ready"}
      BY DEF Init
    <3> QED BY <3>1, <3>2, <3>3 DEF Controllers
  <2> QED BY <2>1, <2>2, <2>3, <2>4, InitCount DEF TypeInv
<1>2. TypeInv /\ [Next]_vars => TypeInv'
  <2> SUFFICES ASSUME TypeInv, [Next]_vars PROVE TypeInv'
    OBVIOUS
  <2>1. Place' /\ Messages' /\ Readings'
    BY PlaceStep, MessagesStep, ReadingsStep DEF TypeInv
  <2>2. Controllers' /\ CountInv'
    BY ControllersStep, CountStep DEF TypeInv
  <2> QED BY <2>1, <2>2 DEF TypeInv
<1>3. TypeInv /\ ScheduleInv => TypeOK
  <2> SUFFICES ASSUME TypeInv, ScheduleInv PROVE TypeOK
    OBVIOUS
  <2>1. step \in 1 .. Len(Executor_Init) + 1
    BY BootSequence DEF TypeInv, Place
  <2>2. filter.initialized \in BOOLEAN /\ filter.temperature \in Int
    BY DEF TypeInv, Readings, Filters
  <2>3. adc \in [busy : BOOLEAN, eoc : BOOLEAN, cdr4 : Counts, own : BOOLEAN]
    BY Zenon DEF TypeInv, CountInv, Held
  <2> QED
    BY <2>1, <2>2, <2>3, Zenon
       DEF TypeInv, Place, Messages, Texts, Readings, Controllers, ScheduleInv, TypeOK
<1> QED
  BY <1>1, <1>2, <1>3, ScheduleInvariance, PTL DEF Spec
=============================================================================
