----------------------------- MODULE MCJobList ------------------------------
(* JobList for TLC: process ids are model values and interchangeable.      *)
EXTENDS JobList, TLC

PidSymmetry == Permutations(PID)
=============================================================================
