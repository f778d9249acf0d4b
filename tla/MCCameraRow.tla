----------------------------- MODULE MCCameraRow -----------------------------
(* CameraRow for TLC: three takes in one run.                              *)
EXTENDS CameraRow

CONSTANTS t1, t2, t3

MCTake == {t1, t2, t3}
=============================================================================
