--------------------------- MODULE MCCameraBuffer ---------------------------
(* Model checking of the camera hand-over. *)
EXTENDS CameraBuffer
=============================================================================
