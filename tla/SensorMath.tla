----------------------------- MODULE SensorMath -----------------------------
(***************************************************************************)
(* The arithmetic of examples/temp_sensor: a count of the converter to     *)
(* millivolts, millivolts to a temperature, the filter over temperatures   *)
(* and the divisor of the baud rate.  A temperature is the logarithm of a  *)
(* resistance; only its order and whether it is a number matter here, so   *)
(* the temperature of a voltage is the voltage in units of TempUnit.       *)
(***************************************************************************)
EXTENDS Integers

CONSTANT TempUnit       \* millivolts that make the next temperature

ASSUME UnitAssumption == TempUnit \in 1 .. 3000

\* What a float may be besides a number, as numbers that no temperature is.
NegInf == -10000
PosInf == 10000
NaN == 20000
Finite(t) == t \notin {NegInf, PosInf, NaN}

Counts == 0 .. 1023

\* Mutant: the fraction of a microvolt per count is left out.
MillivoltsCoarse(counts) == (counts * 2929 + 500) \div 1000

\* (counts * 2929688 + 500000) / 1000000, in steps that stay below 2^31.
Millivolts(counts) == (counts * 2929 + (counts * 688 + 500000) \div 1000) \div 1000

\* The reference is 3 V: there the resistance is 0, beyond it negative.
TemperatureCalculator_Calculate(millivolts) ==
    CASE millivolts = 0    -> NegInf
      [] millivolts \in 1 .. 2999 -> millivolts \div TempUnit
      [] millivolts = 3000 -> PosInf
      [] OTHER             -> NaN

TemperatureFilter_Init == [initialized |-> FALSE, temperature |-> NegInf]

\* A float that is no number stays what it is when it is smoothed.
Smooth(old, new) == IF Finite(old) THEN (3 * old + new) \div 4 ELSE old

\* Mutant: what is no number is smoothed like the rest.
FilteredBlindly(filter, t) ==
    IF ~filter.initialized
    THEN [initialized |-> TRUE, temperature |-> t]
    ELSE [filter EXCEPT !.temperature = Smooth(@, IF Finite(t) THEN t ELSE 0)]

Filtered(filter, t) ==
    IF ~filter.initialized
    THEN [initialized |-> TRUE, temperature |-> t]
    ELSE IF ~Finite(t)
         THEN TemperatureFilter_Init
         ELSE [filter EXCEPT !.temperature = Smooth(@, t)]

\* masterClock / (16 * baudRate), rounded, as a uint8.
BaudRateRegister(masterClock, baudRate) ==
    LET tenths == (masterClock * 10) \div (baudRate * 16) IN
    (tenths \div 10 + (IF tenths % 10 >= 5 THEN 1 ELSE 0)) % 256

\* A count becomes the voltage nearest to it (1024 counts are 3 V), a larger
\* one than the count before, and one that the calculation of the temperature
\* has a number for, but 0, the failure.
ReadingInRange(c) ==
    LET mv == Millivolts(c) IN
    /\ 1024 * mv - 3000 * c \in -512 .. 512
    /\ c > 0 => mv > Millivolts(c - 1)
    /\ TemperatureCalculator_Calculate(mv) = NegInf <=> c = 0
    /\ c > 0 => Finite(TemperatureCalculator_Calculate(mv))
=============================================================================
