---------------------------- MODULE MCAxisFilter ----------------------------
(* The lengths of ts_ns2009_probe, and three readings one of which stands for *)
(* the 0 that a failed bus read leaves.                                       *)
EXTENDS AxisFilter
=============================================================================
