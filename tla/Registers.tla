----------------------------- MODULE Registers -----------------------------
(***************************************************************************)
(* The memory map of the microcontroller that the example temp_sensor runs *)
(* on (examples/temp_sensor/src/AT91SAM7X256.h), as far as the program     *)
(* uses it.  The header describes each controller twice: as a C struct,    *)
(* which the program writes through, and as a list of register addresses.  *)
(* A write lands on the register whose address the struct member has       *)
(* (Target), so the two descriptions are both part of what the program     *)
(* does.  Addresses are offsets from 0xFFFA0000, registers sets of bits.   *)
(***************************************************************************)
EXTENDS Integers, Sequences

\* A struct is a sequence of <<names, n>>: members of a word each, then n
\* more words, reserved or the rest of an array.  US_IF is IRF here: IF is a
\* word of TLA+.

AT91S_AIC ==
  << <<<<"SMR">>, 31>>, <<<<"SVR">>, 31>>, <<<<"IVR", "FVR", "ISR",
     "IPR", "IMR", "CISR">>, 2>>, <<<<"IECR", "IDCR", "ICCR", "ISCR",
     "EOICR", "SPU", "DCR">>, 1>>, <<<<"FFER", "FFDR", "FFSR">>, 0>> >>

AT91S_PIO ==
  << <<<<"PER", "PDR", "PSR">>, 1>>, <<<<"OER", "ODR", "OSR">>, 1>>,
     <<<<"IFER", "IFDR", "IFSR">>, 1>>, <<<<"SODR", "CODR", "ODSR",
     "PDSR", "IER", "IDR", "IMR", "ISR", "MDER", "MDDR", "MDSR">>, 1>>,
     <<<<"PPUDR", "PPUER", "PPUSR">>, 1>>, <<<<"ASR", "BSR", "ABSR">>,
     9>>, <<<<"OWER", "OWDR", "OWSR">>, 0>> >>

\* Mutant: a reserved word after the oscillator's registers is forgotten.
AT91S_PMCShort ==
  << <<<<"SCER", "SCDR", "SCSR">>, 1>>, <<<<"PCER", "PCDR", "PCSR">>,
     1>>, <<<<"MOR", "MCFR">>, 0>>, <<<<"PLLR", "MCKR">>, 3>>,
     <<<<"PCKR">>, 7>>, <<<<"IER", "IDR", "SR", "IMR">>, 0>> >>

AT91S_PMC ==
  << <<<<"SCER", "SCDR", "SCSR">>, 1>>, <<<<"PCER", "PCDR", "PCSR">>,
     1>>, <<<<"MOR", "MCFR">>, 1>>, <<<<"PLLR", "MCKR">>, 3>>,
     <<<<"PCKR">>, 7>>, <<<<"IER", "IDR", "SR", "IMR">>, 0>> >>

AT91S_USART ==
  << <<<<"CR", "MR", "IER", "IDR", "IMR", "CSR", "RHR", "THR", "BRGR",
     "RTOR", "TTGR">>, 5>>, <<<<"FIDI", "NER">>, 1>>, <<<<"IRF">>, 44>>,
     <<<<"RPR", "RCR", "TPR", "TCR", "RNPR", "RNCR", "TNPR", "TNCR",
     "PTCR", "PTSR">>, 0>> >>

AT91S_TC ==
  << <<<<"CCR", "CMR">>, 2>>, <<<<"CV", "RA", "RB", "RC", "SR", "IER",
     "IDR", "IMR">>, 0>> >>

AT91S_ADC ==
  << <<<<"CR", "MR">>, 2>>, <<<<"CHER", "CHDR", "CHSR", "SR", "LCDR",
     "IER", "IDR", "IMR", "CDR0", "CDR1", "CDR2", "CDR3", "CDR4",
     "CDR5", "CDR6", "CDR7">>, 44>>, <<<<"RPR", "RCR", "TPR", "TCR",
     "RNPR", "RNCR", "TNPR", "TNCR", "PTCR", "PTSR">>, 0>> >>

AT91S_DBGU ==
  << <<<<"CR", "MR", "IER", "IDR", "IMR", "CSR", "RHR", "THR", "BRGR">>,
     7>>, <<<<"CIDR", "EXID", "FNTR">>, 45>>, <<<<"RPR", "RCR", "TPR",
     "TCR", "RNPR", "RNCR", "TNPR", "TNCR", "PTCR", "PTSR">>, 0>> >>

\* All system controllers in one struct, at AT91C_BASE_SYS: the structs of the
\* controllers in order, each with the words up to the next.
AT91S_SYS ==
  << <<AT91S_AIC, 45>>, <<AT91S_DBGU, 54>>, <<AT91S_PIO, 85>>, <<AT91S_PIO, 341>>,
     <<AT91S_PMC, 36>>,
     <<<< <<<<"RCR", "RSR", "RMR">>, 5>>,
          <<<<"RTMR", "RTAR", "RTVR", "RTSR", "PIMR", "PISR", "PIVR", "PIIR",
              "WDCR", "WDMR", "WDSR">>, 5>>, <<<<"VREG">>, 0>> >>, 0>> >>

\* Which of them a controller is.
PartOfSYS == [ AIC |-> 1, PIOA |-> 3, PIOB |-> 4, PMC |-> 5 ]

AT91C_AIC ==
  [ ICCR |-> \h5F128, IECR |-> \h5F120, SMR |-> \h5F000, ISCR |-> \h5F12C,
    EOICR |-> \h5F130, DCR |-> \h5F138, FFER |-> \h5F140, SVR |-> \h5F080,
    SPU |-> \h5F134, FFDR |-> \h5F144, FVR |-> \h5F104, FFSR |-> \h5F148,
    IMR |-> \h5F110, ISR |-> \h5F108, IVR |-> \h5F100, IDCR |-> \h5F124,
    CISR |-> \h5F114, IPR |-> \h5F10C ]

AT91C_PIOA ==
  [ IMR |-> \h5F448, IER |-> \h5F440, OWDR |-> \h5F4A4, ISR |-> \h5F44C,
    PPUDR |-> \h5F460, MDSR |-> \h5F458, MDER |-> \h5F450,
    PER |-> \h5F400, PSR |-> \h5F408, OER |-> \h5F410, BSR |-> \h5F474,
    PPUER |-> \h5F464, MDDR |-> \h5F454, PDR |-> \h5F404, ODR |-> \h5F414,
    IFDR |-> \h5F424, ABSR |-> \h5F478, ASR |-> \h5F470,
    PPUSR |-> \h5F468, ODSR |-> \h5F438, SODR |-> \h5F430,
    IFSR |-> \h5F428, IFER |-> \h5F420, OSR |-> \h5F418, IDR |-> \h5F444,
    PDSR |-> \h5F43C, CODR |-> \h5F434, OWSR |-> \h5F4A8, OWER |-> \h5F4A0 ]

AT91C_PIOB ==
  [ OWSR |-> \h5F6A8, PPUSR |-> \h5F668, PPUDR |-> \h5F660,
    MDSR |-> \h5F658, MDER |-> \h5F650, IMR |-> \h5F648, OSR |-> \h5F618,
    OER |-> \h5F610, PSR |-> \h5F608, PER |-> \h5F600, BSR |-> \h5F674,
    PPUER |-> \h5F664, IFDR |-> \h5F624, ODR |-> \h5F614,
    ABSR |-> \h5F678, ASR |-> \h5F670, IFER |-> \h5F620, IFSR |-> \h5F628,
    SODR |-> \h5F630, ODSR |-> \h5F638, CODR |-> \h5F634,
    PDSR |-> \h5F63C, OWER |-> \h5F6A0, IER |-> \h5F640, OWDR |-> \h5F6A4,
    MDDR |-> \h5F654, ISR |-> \h5F64C, IDR |-> \h5F644, PDR |-> \h5F604 ]

AT91C_PMC ==
  [ SCSR |-> \h5FC08, SCER |-> \h5FC00, IMR |-> \h5FC6C, IDR |-> \h5FC64,
    PCDR |-> \h5FC14, SCDR |-> \h5FC04, SR |-> \h5FC68, IER |-> \h5FC60,
    MCKR |-> \h5FC30, MOR |-> \h5FC20, PCER |-> \h5FC10, PCSR |-> \h5FC18,
    PLLR |-> \h5FC2C, MCFR |-> \h5FC24, PCKR |-> \h5FC40 ]

AT91C_US0 ==
  [ PTCR |-> \h20120, TNPR |-> \h20118, RNPR |-> \h20110, TPR |-> \h20108,
    RPR |-> \h20100, PTSR |-> \h20124, TNCR |-> \h2011C, RNCR |-> \h20114,
    TCR |-> \h2010C, RCR |-> \h20104, TTGR |-> \h20028, BRGR |-> \h20020,
    RHR |-> \h20018, IMR |-> \h20010, NER |-> \h20044, RTOR |-> \h20024,
    FIDI |-> \h20040, CR |-> \h20000, IER |-> \h20008, IRF |-> \h2004C,
    MR |-> \h20004, IDR |-> \h2000C, CSR |-> \h20014, THR |-> \h2001C ]

AT91C_TC0 ==
  [ IMR |-> \h0002C, IER |-> \h00024, RC |-> \h0001C, RA |-> \h00014,
    CMR |-> \h00004, IDR |-> \h00028, SR |-> \h00020, RB |-> \h00018,
    CV |-> \h00010, CCR |-> \h00000 ]

AT91C_ADC ==
  [ PTCR |-> \h38120, TNPR |-> \h38118, RNPR |-> \h38110, TPR |-> \h38108,
    RPR |-> \h38100, PTSR |-> \h38124, TNCR |-> \h3811C, RNCR |-> \h38114,
    TCR |-> \h3810C, RCR |-> \h38104, IMR |-> \h3802C, CDR4 |-> \h38040,
    CDR2 |-> \h38038, CDR0 |-> \h38030, CDR7 |-> \h3804C,
    CDR1 |-> \h38034, CDR3 |-> \h3803C, CDR5 |-> \h38044, MR |-> \h38004,
    CDR6 |-> \h38048, CR |-> \h38000, CHER |-> \h38010, CHSR |-> \h38018,
    IER |-> \h38024, SR |-> \h3801C, CHDR |-> \h38014, IDR |-> \h38028,
    LCDR |-> \h38020 ]

\* The controllers, where they are, and the struct of each.
Base ==
  [ AIC |-> \h5F000, PIOA |-> \h5F400, PIOB |-> \h5F600, PMC |-> \h5FC00,
    US0 |-> \h20000, TC0 |-> \h00000, ADC |-> \h38000 ]

Devices == DOMAIN Base

Struct ==
  [ AIC |-> AT91S_AIC, PIOA |-> AT91S_PIO, PIOB |-> AT91S_PIO,
    PMC |-> AT91S_PMC, US0 |-> AT91S_USART, TC0 |-> AT91S_TC,
    ADC |-> AT91S_ADC ]

Address ==
  [ AIC |-> AT91C_AIC, PIOA |-> AT91C_PIOA, PIOB |-> AT91C_PIOB,
    PMC |-> AT91C_PMC, US0 |-> AT91C_US0, TC0 |-> AT91C_TC0,
    ADC |-> AT91C_ADC ]

\* Numbers of the peripherals, for the interrupt and the power controller.
ID == [ PIOA |-> 2, PIOB |-> 3, US0 |-> 6, TC0 |-> 12, ADC |-> 17 ]

-----------------------------------------------------------------------------
(* Where a write through a struct lands. *)

\* What comes before each element of a sequence of numbers, and then in all.
Sums(numbers) ==
    LET sum[k \in 1 .. Len(numbers) + 1] ==
            IF k = 1 THEN 0 ELSE sum[k - 1] + numbers[k - 1]
    IN  sum

\* The word at which each chunk of a struct starts, and its size.
ChunkSizes(struct) == [k \in 1 .. Len(struct) |-> Len(struct[k][1]) + struct[k][2]]

ChunkStarts(struct) == Sums(ChunkSizes(struct))

SysStarts ==
    Sums([n \in 1 .. Len(AT91S_SYS) |->
               ChunkStarts(AT91S_SYS[n][1])[Len(AT91S_SYS[n][1]) + 1] + AT91S_SYS[n][2]])

\* A member is at this offset of a struct.
IsAt(struct, member, offset) ==
    \E k \in 1 .. Len(struct) : \E i \in 1 .. Len(struct[k][1]) :
        /\ struct[k][1][i] = member
        /\ offset = 4 * (ChunkStarts(struct)[k] + i - 1)

\* The register at the address of a member, "" if none is.
Target(dev, member) ==
    LET there == {r \in DOMAIN Address[dev] :
                      IsAt(Struct[dev], member, Address[dev][r] - Base[dev])}
    IN  IF there = {} THEN "" ELSE CHOOSE r \in there : TRUE

-----------------------------------------------------------------------------
(* What a value means to a controller. *)

\* The bits of a number below 2^31.
Bits(n) == {i \in 0 .. 30 : (n \div 2^i) % 2 = 1}

AllBits == 0 .. 31

Field(bits, low, width) ==
    Sums([i \in 1 .. width |-> IF low + i - 1 \in bits THEN 2^(i - 1) ELSE 0])[width + 1]

\* A mode register as a table: for each field its lowest bit and the names of
\* its values, as many as it has values.
Width(names) == CHOOSE w \in 1 .. 4 : 2^w = Len(names)

Decoded(table, bits) ==
    [f \in DOMAIN table |->
        table[f][2][1 + Field(bits, table[f][1], Width(table[f][2]))]]

Flag == <<"OFF", "ON">>
Effects == <<"NONE", "SET", "CLEAR", "TOGGLE">>
Edges == <<"NONE", "RISING", "FALLING", "BOTH">>

\* The mode of a timer channel in waveform mode.
TC_CMR ==
  [ CLKS |-> <<0, <<"DIV1", "DIV2", "DIV3", "DIV4", "DIV5", "XC0", "XC1", "XC2">>>>,
    CLKI |-> <<3, Flag>>, BURST |-> <<4, <<"NONE", "XC0", "XC1", "XC2">>>>,
    CPCSTOP |-> <<6, Flag>>, CPCDIS |-> <<7, Flag>>, EEVTEDG |-> <<8, Edges>>,
    EEVT |-> <<10, <<"TIOB", "XC0", "XC1", "XC2">>>>, ENETRG |-> <<12, Flag>>,
    WAVESEL |-> <<13, <<"UP", "UPDOWN", "UP_AUTO", "UPDOWN_AUTO">>>>,
    WAVE |-> <<15, Flag>>, ACPA |-> <<16, Effects>>, ACPC |-> <<18, Effects>>,
    AEEVT |-> <<20, Effects>>, ASWTRG |-> <<22, Effects>>, BCPB |-> <<24, Effects>>,
    BCPC |-> <<26, Effects>>, BEEVT |-> <<28, Effects>>, BSWTRG |-> <<30, Effects>> ]

\* The mode of a USART; "" is a value without a name.
US_MR ==
  [ USMODE |-> <<0, <<"NORMAL", "RS485", "HWHSH", "MODEM", "ISO7816_0", "", "ISO7816_1",
                      "", "IRDA", "", "", "", "SWHSH", "", "", "">>>>,
    CLKS |-> <<4, <<"CLOCK", "FDIV1", "SLOW", "EXT">>>>,
    CHRL |-> <<6, <<"5", "6", "7", "8">>>>, SYNC |-> <<8, Flag>>,
    PAR |-> <<9, <<"EVEN", "ODD", "SPACE", "MARK", "NONE", "", "MULTI_DROP", "">>>>,
    NBSTOP |-> <<12, <<"1", "1.5", "2", "">>>>, MSBF |-> <<16, Flag>>,
    MODE9 |-> <<17, Flag>>, CKLO |-> <<18, Flag>>, OVER |-> <<19, Flag>>,
    INACK |-> <<20, Flag>>, DSNACK |-> <<21, Flag>>, MAX_ITER |-> <<24, Flag>>,
    FILTER |-> <<28, Flag>> ]

\* The mode of the converter, but for its numbers PRESCAL, STARTUP and SHTIM.
ADC_MR ==
  [ TRGEN |-> <<0, <<"DIS", "EN">>>>,
    TRGSEL |-> <<1, <<"TIOA0", "TIOA1", "TIOA2", "TIOA3", "TIOA4", "TIOA5", "EXT", "">>>>,
    LOWRES |-> <<4, <<"10_BIT", "8_BIT">>>>, SLEEP |-> <<5, <<"NORMAL", "SLEEP">>>> ]

PRESCAL(bits) == Field(bits, 8, 6)

\* The mode of an interrupt source inside the chip.
PRIOR(bits) == Field(bits, 0, 3)
AIC_SMR == [ SRCTYPE |-> <<5, <<"INT_HIGH_LEVEL", "INT_POSITIVE_EDGE", "HIGH_LEVEL", "POSITIVE_EDGE">>>> ]

\* Bits of commands, masks and states, by their names.
US == [ RSTRX |-> 2, RSTTX |-> 3, RXEN |-> 4, RXDIS |-> 5, TXEN |-> 6, TXDIS |-> 7 ]
TC == [ CLKEN |-> 0, CLKDIS |-> 1, SWTRG |-> 2, CPCS |-> 4 ]
AD == [ SWRST |-> 0, START |-> 1, CH4 |-> 4 ]
PinTXD0 == 1
PinTIOA0 == 23

-----------------------------------------------------------------------------
(* Both descriptions of a controller agree: every member of its struct lies *)
(* at the address that the list gives to its name, and so it does in the    *)
(* struct of all system controllers, if it is one of them.                  *)
LayoutAgrees(dev) ==
    /\ \A r \in DOMAIN Address[dev] : Target(dev, r) = r
    /\ dev \in DOMAIN PartOfSYS =>
           Base[dev] = Base.AIC + 4 * SysStarts[PartOfSYS[dev]]
=============================================================================
