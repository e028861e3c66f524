---------------------------- MODULE MCWaterLevel ----------------------------
(***************************************************************************)
(* An instance of WaterLevel for TLC: a clock of few bits, and distances   *)
(* at both edges of the band.                                              *)
(***************************************************************************)
EXTENDS WaterLevel

MCDistances == {126, 127, 253, 254}
=============================================================================
