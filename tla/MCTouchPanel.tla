---------------------------- MODULE MCTouchPanel ----------------------------
(* Two readings per axis and filters of two samples; the calibration swaps   *)
(* and inverts the axes and divides, as the one in drv_touchscreen.c does.   *)
EXTENDS TouchPanel

MCPoints == {1, 5} \X {1, 5}
MCCalibration == <<-1, -3, 20, 3, 1, -2, 2>>
MCCal == [i \in 0..6 |-> MCCalibration[i + 1]]
=============================================================================
