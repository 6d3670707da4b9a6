-------------------------- MODULE MCContinuousOutput --------------------------
(* Two threads, a ring of three frames and periods of two: a call of four     *)
(* frames always has to wait, and the ring wraps.                              *)
EXTENDS ContinuousOutput, TLC

Symmetry == Permutations(Callers)
===============================================================================
