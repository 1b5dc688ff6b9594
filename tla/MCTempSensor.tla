---------------------------- MODULE MCTempSensor ----------------------------
(***************************************************************************)
(* A small instance of TempSensor: a clock that wraps after 20 and does    *)
(* not divide into ticks or periods, a failing sensor and two readings.    *)
(***************************************************************************)
EXTENDS TempSensor
=============================================================================
