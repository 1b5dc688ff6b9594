----------------------------- MODULE TempSensor -----------------------------
(***************************************************************************)
(* The program of examples/temp_sensor: AppMain runs Executor_Init, here   *)
(* one register access per step, and then Executor_Run for ever, next to   *)
(* the timer interrupt and the controllers of the chip.  It may start on a *)
(* chip that another run has left as it was (a restart without a reset).   *)
(*                                                                         *)
(* The controllers are modelled from how the program uses them.  Two       *)
(* assumptions about real time: an interrupt is served before the next     *)
(* match of the timer, and at most MaxStall matches pass between two       *)
(* updates of the scheduler.                                               *)
(*                                                                         *)
(* History variables: seen, the time of the last update; elapsed, the time *)
(* since the timer was started; last, what the last reading was.           *)
(***************************************************************************)
EXTENDS TaskScheduler, SensorMath, Registers

CONSTANTS
    Tick,           \* 10: milliseconds that the handler counts per match
    MaxStall,       \* bound on matches between two updates
    Samples,        \* counts that the converter may return
    TextLength      \* characters of a message

ASSUME ClockAssumption ==
    /\ Tick \in 1 .. AdcPeriod
    /\ MaxStall \in Nat \ {0}
    /\ MaxStall * Tick + UsartPeriod <= TimeRange
    /\ Samples \subseteq Counts
    /\ TextLength \in Nat \ {0}

VARIABLES
    at,             \* "boot" or the conductor whose turn it is
    step,           \* the next step of the boot
    left, text,     \* characters to send, and of which message
    tasks, filter,
    systemTime,
    irq,            \* the processor takes interrupts
    regs,           \* registers that hold a value: [device -> [register -> bits]]
    tc, cpcs,       \* timer: "off", "armed" or "counting"; the match flag
    stall,          \* matches since the last update
    tx,             \* transmitter: "off", "busy" or "ready"
    adc,            \* converter
    seen, elapsed, last

program == <<at, step, left, text, tasks, filter>>
history == <<seen, elapsed, last>>
chip == <<systemTime, irq, regs, tc, cpcs, stall, tx, adc>>
vars == <<program, chip, history>>

-----------------------------------------------------------------------------
(* The boot: statements in order. *)

Do(op) == [op |-> op]
Write(dev, member, bits) ==
    [op |-> "write", dev |-> dev, reg |-> Target(dev, member), bits |-> bits]

Model_Init == <<Do("scheduler"), Do("filter")>>

Usart_ConfigureUsartIO ==
    <<Write("PIOA", "ASR", {PinTXD0}), Write("PIOA", "BSR", {}), Write("PIOA", "PDR", {PinTXD0})>>
Usart_EnablePeripheralClock == <<Write("PMC", "PCER", {ID.US0})>>
Usart_Reset ==
    <<Write("US0", "IDR", AllBits),
      Write("US0", "CR", {US.RSTRX, US.RSTTX, US.RXDIS, US.TXDIS})>>
Usart_ConfigureMode == <<Write("US0", "MR", Bits(3 * 2^6 + 4 * 2^9))>>
UsartModel_GetBaudRateRegisterSetting == BaudRateRegister(48054857, 115200)
Usart_SetBaudRateRegister == <<Write("US0", "BRGR", Bits(UsartModel_GetBaudRateRegisterSetting))>>
Usart_Enable == <<Write("US0", "CR", {US.TXEN})>>
\* Mutant: the clock of the USART is switched on after it was reset.
UsartHardware_InitUnclocked ==
    Usart_ConfigureUsartIO \o Usart_Reset \o Usart_EnablePeripheralClock
    \o Usart_ConfigureMode \o Usart_SetBaudRateRegister \o Usart_Enable
UsartHardware_Init ==
    Usart_ConfigureUsartIO \o Usart_EnablePeripheralClock \o Usart_Reset
    \o Usart_ConfigureMode \o Usart_SetBaudRateRegister \o Usart_Enable
UsartConductor_Init == UsartHardware_Init \o <<Do("wakeup")>>

Adc_Reset == <<Write("ADC", "CR", {AD.SWRST})>>
Adc_ConfigureMode == <<Write("ADC", "MR", Bits(11 * 2^8 + 4 * 2^16))>>
Adc_EnableTemperatureChannel == <<Write("ADC", "CHER", Bits(\h10))>>
Adc_StartTemperatureSensorConversion == <<Write("ADC", "CR", {AD.START})>>
\* Mutant: the converter is not reset.
AdcHardware_InitWarm ==
    Adc_ConfigureMode \o Adc_EnableTemperatureChannel \o Adc_StartTemperatureSensorConversion
AdcHardware_Init ==
    Adc_Reset \o Adc_ConfigureMode \o Adc_EnableTemperatureChannel
    \o Adc_StartTemperatureSensorConversion

Timer_EnablePeripheralClocks == <<Write("PMC", "PCER", {ID.TC0, ID.PIOB})>>
\* Mutant: the flag of an earlier match is not read away.
Timer_ResetUnread == <<Write("TC0", "CCR", {TC.CLKDIS}), Write("TC0", "IDR", AllBits)>>
Timer_Reset ==
    <<Write("TC0", "CCR", {TC.CLKDIS}), Write("TC0", "IDR", AllBits), Do("status")>>
\* Mutant: the channel does not start over at a match.
Timer_ConfigureModeOnce == <<Write("TC0", "CMR", Bits(\h00088004))>>
Timer_ConfigureMode == <<Write("TC0", "CMR", Bits(\h000CC004))>>
Timer_ConfigurePeriod == <<Write("TC0", "RC", Bits(469))>>
Timer_EnableOutputPin == <<Write("PIOB", "PDR", {PinTIOA0})>>
Timer_Enable == <<Write("TC0", "CCR", {TC.CLKEN})>>
Timer_DisableInterrupt == <<Write("AIC", "IDCR", {ID.TC0})>>
Timer_ResetSystemTime == <<Do("time")>>
\* Of the arrays SMR and SVR, the elements of TC0; Handler is the address of
\* Timer_InterruptHandler.
Handler == {0}
Timer_ConfigureInterrupt ==
    <<Write("AIC", "SVR", Handler), Write("AIC", "SMR", Bits(1)),
      Write("AIC", "ICCR", {ID.TC0}), Write("TC0", "IER", {TC.CPCS})>>
Timer_EnableInterrupt == <<Write("AIC", "IECR", {ID.TC0})>>
Timer_ConfigureInterruptHandler ==
    Timer_DisableInterrupt \o Timer_ResetSystemTime \o Timer_ConfigureInterrupt
    \o Timer_EnableInterrupt
Timer_Start == <<Write("TC0", "CCR", {TC.SWTRG})>>
TimerHardware_Init ==
    Timer_EnablePeripheralClocks \o Timer_Reset \o Timer_ConfigureMode \o Timer_ConfigurePeriod
    \o Timer_EnableOutputPin \o Timer_Enable \o Timer_ConfigureInterruptHandler \o Timer_Start

Executor_Init ==
    Model_Init \o UsartConductor_Init \o AdcHardware_Init \o TimerHardware_Init \o <<Do("enable")>>

-----------------------------------------------------------------------------
(* What a write does to a controller. *)

\* Registers that set or clear bits of another.
SetBy ==
  [ AIC |-> [IECR |-> "IMR"], PMC |-> [PCER |-> "PCSR"], TC0 |-> [IER |-> "IMR"],
    ADC |-> [CHER |-> "CHSR"], PIOA |-> [BSR |-> "ABSR"] ]
ClearedBy ==
  [ AIC |-> [IDCR |-> "IMR"], TC0 |-> [IDR |-> "IMR"], US0 |-> [IDR |-> "IMR"],
    PIOA |-> [PDR |-> "PSR", ASR |-> "ABSR"], PIOB |-> [PDR |-> "PSR"] ]

ResetRegs ==
  [ AIC |-> [SMR |-> {}, SVR |-> {}, IMR |-> {}], PIOA |-> [PSR |-> AllBits, ABSR |-> {}],
    PIOB |-> [PSR |-> AllBits], PMC |-> [PCSR |-> {}],
    US0 |-> [MR |-> {}, BRGR |-> {}, IMR |-> {}], TC0 |-> [CMR |-> {}, RC |-> {}, IMR |-> {}],
    ADC |-> [MR |-> {}, CHSR |-> {}] ]

\* The interrupt and the clocks are on, the converter's channel is enabled.
UsedRegs ==
  [ResetRegs EXCEPT !.AIC.IMR = {ID.TC0}, !.TC0.IMR = {TC.CPCS},
                    !.PMC.PCSR = {ID.US0, ID.TC0, ID.PIOB}, !.ADC.CHSR = {AD.CH4}]

ListedIn(table, w) == w.dev \in DOMAIN table /\ w.reg \in DOMAIN table[w.dev]

Stored(r, w) ==
    IF ListedIn(SetBy, w) THEN [r EXCEPT ![w.dev][SetBy[w.dev][w.reg]] = @ \cup w.bits]
    ELSE IF ListedIn(ClearedBy, w) THEN [r EXCEPT ![w.dev][ClearedBy[w.dev][w.reg]] = @ \ w.bits]
    ELSE IF w.dev = "ADC" /\ w.reg = "CR" /\ AD.SWRST \in w.bits
         THEN [r EXCEPT !.ADC = ResetRegs.ADC]
    ELSE IF w.reg \in DOMAIN r[w.dev] THEN [r EXCEPT ![w.dev][w.reg] = w.bits]
    ELSE r

TimerAfter(bits) ==
    IF TC.CLKDIS \in bits THEN "off"
    ELSE IF TC.CLKEN \in bits /\ tc = "off" THEN "armed"
    ELSE IF TC.SWTRG \in bits /\ tc # "off" THEN "counting"
    ELSE tc

NoSample == 0
AdcIdle == [busy |-> FALSE, eoc |-> FALSE, cdr4 |-> NoSample, own |-> FALSE]

\* own: the conversion was started by this run of the program.
AdcAfter(bits) ==
    IF AD.SWRST \in bits THEN AdcIdle
    ELSE IF AD.START \in bits /\ ~adc.busy THEN [adc EXCEPT !.busy = TRUE, !.own = ~adc.eoc]
    ELSE adc

-----------------------------------------------------------------------------
Init ==
    /\ at = "boot"
    /\ step = 1
    /\ left = 0 /\ text = ""
    /\ tasks = TaskScheduler_Init
    /\ filter = [initialized |-> FALSE, temperature |-> 0]
    /\ systemTime = 0
    /\ irq = FALSE
    /\ stall = 0
    /\ seen = 0 /\ elapsed = 0 /\ last = "none"
    /\ \/ regs = ResetRegs /\ tc = "off" /\ cpcs = FALSE /\ tx = "off" /\ adc = AdcIdle
       \/ /\ regs = UsedRegs /\ tc = "counting" /\ cpcs \in BOOLEAN
          /\ tx \in {"busy", "ready"}
          /\ adc \in [busy : BOOLEAN, eoc : BOOLEAN, cdr4 : {NoSample}, own : {FALSE}]

Now == Executor_Init[step]

Booting(op) == at = "boot" /\ left = 0 /\ Now.op = op

Advance ==
    /\ step' = step + 1
    /\ at' = IF step = Len(Executor_Init) THEN "usart" ELSE "boot"

BootWrite ==
    /\ Booting("write")
    /\ Advance
    /\ regs' = Stored(regs, Now)
    /\ LET to(dev, reg) == Now.dev = dev /\ Now.reg = reg IN
       /\ tc' = IF to("TC0", "CCR") THEN TimerAfter(Now.bits) ELSE tc
       /\ elapsed' = IF tc' # tc THEN 0 ELSE elapsed
       /\ stall' = IF tc' # tc THEN 0 ELSE stall
       /\ tx' = IF ~to("US0", "CR") THEN tx
                ELSE IF US.TXDIS \in Now.bits THEN "off"
                ELSE IF US.TXEN \in Now.bits THEN "ready" ELSE tx
       /\ adc' = IF to("ADC", "CR") THEN AdcAfter(Now.bits) ELSE adc
    /\ UNCHANGED <<left, text, tasks, filter, systemTime, irq, cpcs, seen, last>>

\* Reading the status register of the timer clears its flags.
BootStatus ==
    /\ Booting("status")
    /\ Advance
    /\ cpcs' = FALSE
    /\ UNCHANGED <<left, text, tasks, filter, systemTime, irq, regs, tc, stall, tx, adc, history>>

BootModel ==
    /\ Booting("scheduler") \/ Booting("filter")
    /\ Advance
    /\ tasks' = IF Now.op = "scheduler" THEN TaskScheduler_Init ELSE tasks
    /\ filter' = IF Now.op = "filter" THEN TemperatureFilter_Init ELSE filter
    /\ UNCHANGED <<left, text, chip, history>>

BootWakeup ==
    /\ Booting("wakeup")
    /\ Advance
    /\ left' = TextLength /\ text' = "wakeup"
    /\ UNCHANGED <<tasks, filter, chip, history>>

BootTime ==
    /\ Booting("time")
    /\ Advance
    /\ systemTime' = 0
    /\ UNCHANGED <<left, text, tasks, filter, irq, regs, tc, cpcs, stall, tx, adc, history>>

BootEnable ==
    /\ Booting("enable")
    /\ Advance
    /\ irq' = TRUE
    /\ UNCHANGED <<left, text, tasks, filter, systemTime, regs, tc, cpcs, stall, tx, adc, history>>

-----------------------------------------------------------------------------
(* The main loop: Executor_Run. *)

\* Mutant: the end of the text is looked for after a character was sent.
PutCharFirst ==
    /\ tx = "ready"
    /\ tx' = "busy"
    /\ left' = left - 1
    /\ text' = IF left = 1 THEN "" ELSE text
    /\ UNCHANGED <<at, step, tasks, filter, systemTime, irq, regs, tc, cpcs, stall, adc, history>>
\* Usart_PutChar waits until the transmitter is ready.
PutChar ==
    /\ left > 0
    /\ tx = "ready"
    /\ tx' = "busy"
    /\ left' = left - 1
    /\ text' = IF left = 1 THEN "" ELSE text
    /\ UNCHANGED <<at, step, tasks, filter, systemTime, irq, regs, tc, cpcs, stall, adc, history>>

UsartModel_GetFormattedTemperature ==
    IF filter.temperature = NegInf THEN "failure" ELSE "reading"

UsartConductor_Run ==
    /\ at = "usart" /\ left = 0
    /\ at' = "timer"
    /\ IF tasks["usart"].doIt
       THEN /\ tasks' = Taken(tasks, "usart")
            /\ left' = TextLength
            /\ text' = UsartModel_GetFormattedTemperature
       ELSE UNCHANGED <<tasks, left, text>>
    /\ UNCHANGED <<step, filter, chip, history>>

TimerConductor_Run ==
    /\ at = "timer" /\ left = 0
    /\ at' = "adc"
    /\ tasks' = TaskScheduler_Update(tasks, systemTime)
    /\ seen' = systemTime
    /\ stall' = 0
    /\ UNCHANGED <<step, left, text, filter, systemTime, irq, regs, tc, cpcs, tx, adc, elapsed, last>>

\* Mutant: the next conversion is not started.
AdcConductor_RunOnce ==
    /\ at = "adc"
    /\ at' = "usart"
    /\ tasks' = Taken(tasks, "adc")
    /\ IF tasks["adc"].doIt /\ adc.eoc
       THEN LET t == TemperatureCalculator_Calculate(Millivolts(adc.cdr4)) IN
            /\ filter' = Filtered(filter, t)
            /\ last' = IF Finite(t) THEN "good" ELSE "bad"
            /\ adc' = [adc EXCEPT !.eoc = FALSE]
       ELSE UNCHANGED <<filter, last, adc>>
    /\ UNCHANGED <<step, left, text, systemTime, irq, regs, tc, cpcs, stall, tx, seen, elapsed>>
\* The flag is taken, the sample only if there is one: then it is processed,
\* which clears the converter's flag, and the next conversion is started.
AdcConductor_Run ==
    /\ at = "adc"
    /\ at' = "usart"
    /\ tasks' = Taken(tasks, "adc")
    /\ IF tasks["adc"].doIt /\ adc.eoc
       THEN LET t == TemperatureCalculator_Calculate(Millivolts(adc.cdr4)) IN
            /\ filter' = Filtered(filter, t)
            /\ last' = IF Finite(t) THEN "good" ELSE "bad"
            /\ adc' = [busy |-> TRUE, eoc |-> FALSE, cdr4 |-> NoSample, own |-> TRUE]
       ELSE UNCHANGED <<filter, last, adc>>
    /\ UNCHANGED <<step, left, text, systemTime, irq, regs, tc, cpcs, stall, tx, seen, elapsed>>

-----------------------------------------------------------------------------
(* The interrupt and the controllers. *)

Timer_InterruptHandler ==
    /\ systemTime' = (systemTime + Tick) % TimeRange
    /\ cpcs' = FALSE

Interrupt ==
    /\ irq
    /\ cpcs /\ TC.CPCS \in regs.TC0.IMR /\ ID.TC0 \in regs.AIC.IMR
    /\ Timer_InterruptHandler
    /\ UNCHANGED <<program, irq, regs, tc, stall, tx, adc, history>>

Match ==
    /\ tc = "counting" /\ ~cpcs
    /\ stall < MaxStall
    /\ stall' = stall + 1
    /\ cpcs' = TRUE
    /\ elapsed' = (elapsed + Tick) % TimeRange
    /\ UNCHANGED <<program, systemTime, irq, regs, tc, tx, adc, seen, last>>

Converted ==
    /\ adc.busy /\ AD.CH4 \in regs.ADC.CHSR
    /\ \E c \in Samples : adc' = [adc EXCEPT !.busy = FALSE, !.eoc = TRUE, !.cdr4 = c]
    /\ UNCHANGED <<program, systemTime, irq, regs, tc, cpcs, stall, tx, history>>

Sent ==
    /\ tx = "busy"
    /\ tx' = "ready"
    /\ UNCHANGED <<program, systemTime, irq, regs, tc, cpcs, stall, adc, history>>

Boot == BootWrite \/ BootStatus \/ BootModel \/ BootWakeup \/ BootTime \/ BootEnable
Executor_Run == PutChar \/ UsartConductor_Run \/ TimerConductor_Run \/ AdcConductor_Run

Next == Boot \/ Executor_Run \/ Interrupt \/ Match \/ Converted \/ Sent

Fairness ==
    /\ WF_vars(Boot \/ Executor_Run)
    /\ WF_vars(Interrupt)
    /\ WF_vars(Match)
    /\ WF_vars(Converted)
    /\ WF_vars(Sent)

Spec == Init /\ [][Next]_vars /\ Fairness

-----------------------------------------------------------------------------
TypeOK ==
    /\ at \in {"boot", "usart", "timer", "adc"}
    /\ step \in 1 .. Len(Executor_Init) + 1
    /\ left \in 0 .. TextLength
    /\ text \in {"", "wakeup", "failure", "reading"}
    /\ tasks \in [Names -> Tasks]
    /\ filter.initialized \in BOOLEAN /\ filter.temperature \in Int
    /\ systemTime \in Times /\ seen \in Times /\ elapsed \in Times
    /\ irq \in BOOLEAN /\ cpcs \in BOOLEAN
    /\ tc \in {"off", "armed", "counting"}
    /\ tx \in {"off", "busy", "ready"}
    /\ stall \in 0 .. MaxStall
    /\ adc \in [busy : BOOLEAN, eoc : BOOLEAN, cdr4 : Counts, own : BOOLEAN]
    /\ last \in {"none", "good", "bad"}

\* After every update of the scheduler, a task's period began at a multiple of
\* its period and is not over, also when the clock has wrapped in between.
OnSchedule ==
    \A k \in Names :
        /\ tasks[k].startTime % Period[k] = 0
        /\ Elapsed(seen, tasks[k].startTime) < Period[k]

\* Each task keeps the promise of PeriodicTask: due once for each period the
\* clock has entered, and never moved by being served late.
UsartTask == INSTANCE PeriodicTask
    WITH Period <- UsartPeriod, due <- tasks["usart"].doIt,
         aligned <- tasks["usart"].startTime <= seen
AdcTask == INSTANCE PeriodicTask
    WITH Period <- AdcPeriod, due <- tasks["adc"].doIt,
         aligned <- tasks["adc"].startTime <= seen
TasksArePeriodic == UsartTask!Spec /\ AdcTask!Spec

\* Once the program runs, its clock is the time since the timer was started:
\* no match is lost, counted twice, or left over from an earlier run.
ClockIsExact ==
    at # "boot" => (systemTime + (IF cpcs THEN Tick ELSE 0)) % TimeRange = elapsed

\* A mode that has every field of its table at its first value; and what is
\* within one part in so many of what it should be.
Defaults(table) == [f \in DOMAIN table |-> table[f][2][1]]

Within(a, b, parts) == (a - b) * parts \in -b .. b

\* The timer counts MCK/1024 up to RC, starts over there and toggles TIOA: a
\* match every 10 ms, within 0.1 %. Its interrupt alone is on.
TimerAsIntended ==
    /\ Decoded(TC_CMR, regs.TC0.CMR) =
         [Defaults(TC_CMR) EXCEPT !.CLKS = "DIV5", !.WAVE = "ON", !.WAVESEL = "UP_AUTO",
                                  !.ACPC = "TOGGLE"]
    /\ Within(Field(regs.TC0.RC, 0, 16) * 1024 * 100, 48054857, 1000)
    /\ tc = "counting" /\ regs.TC0.IMR = {TC.CPCS} /\ regs.AIC.IMR = {ID.TC0}
    /\ Decoded(AIC_SMR, regs.AIC.SMR).SRCTYPE = "INT_HIGH_LEVEL" /\ PRIOR(regs.AIC.SMR) > 0

\* The USART sends 8 bits without parity, within 0.5 % of 115200 baud.
UsartAsIntended ==
    /\ Decoded(US_MR, regs.US0.MR) = [Defaults(US_MR) EXCEPT !.CHRL = "8", !.PAR = "NONE"]
    /\ Within(Field(regs.US0.BRGR, 0, 16) * 16 * 1152, 480548, 200)
    /\ regs.US0.IMR = {}

\* The converter has 10 bits, runs at 2 MHz within 0.5 % and is started by the
\* program only.
AdcAsIntended ==
    /\ Decoded(ADC_MR, regs.ADC.MR) = Defaults(ADC_MR) /\ regs.ADC.CHSR = {AD.CH4}
    /\ Within(2000000 * 2 * (PRESCAL(regs.ADC.MR) + 1), 48054857, 200)

\* Once the program runs, the controllers do what its comments and the tests of
\* its configurators say, and the pins are the peripherals'.
PeripheralsAsIntended ==
    at # "boot" =>
        /\ TimerAsIntended /\ UsartAsIntended /\ AdcAsIntended
        /\ PinTXD0 \notin regs.PIOA.PSR /\ PinTXD0 \notin regs.PIOA.ABSR
        /\ PinTIOA0 \notin regs.PIOB.PSR

\* The USART and the timer are written to only while their clocks are on, and
\* an interrupt that can be taken finds its handler installed.
BootInOrder ==
    [][ /\ BootWrite /\ Now.dev \in {"US0", "TC0"} => ID[Now.dev] \in regs.PMC.PCSR
        /\ irq' /\ ID.TC0 \in regs'.AIC.IMR => regs'.AIC.SVR = Handler ]_vars

\* The samples that the program reads are conversions it has started itself.
OwnSamplesOnly == at # "boot" /\ adc.eoc => adc.own

\* Every write of the boot is to a controller whose struct, through which the
\* program writes, agrees with the list of its addresses.
WritesLandAsNamed == Booting("write") => LayoutAgrees(Now.dev)

\* What is made of the sample the converter holds is the voltage nearest to it
\* and a temperature, but for the count of a sensor that fails.
ReadingsInRange == adc.eoc => ReadingInRange(adc.cdr4)

\* While the sensor fails, the reports say so.
FailureIsReported == <>[](last = "bad") => []<>(text = "failure")

\* Reports are sent and samples are taken for ever, also after the clock has
\* wrapped and after a sample was not ready in time.
KeepsReporting ==
    /\ []<>(text \in {"failure", "reading"})
    /\ []<>adc.eoc /\ []<>~adc.eoc
=============================================================================
