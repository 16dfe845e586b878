----------------------------- MODULE MCMdriver ------------------------------
(* Mdriver for TLC. *)
EXTENDS Mdriver

(* The run's heap ends so high that a block of 12 bytes would wrap; none   *)
(* that the run asks for does.                                             *)
ASSUME RunAssumption == NoRequestWraps
=============================================================================
