----------------------- MODULE MCFalconStopManagement -----------------------
(* Instances of FalconStopManagement.                                          *)
EXTENDS FalconStopManagement, TLC

CONSTANTS w1, w2

MCSymmetry == Permutations({w1, w2})
=============================================================================
