----------------------------- MODULE MCStepRunner -----------------------------
(* Instances of StepRunner for TLC.                                          *)
EXTENDS StepRunner
=============================================================================
