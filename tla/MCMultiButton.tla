---------------------------- MODULE MCMultiButton ---------------------------
(* Model checking of one button with the thresholds of multi_button.h. *)
EXTENDS MultiButton
=============================================================================
