------------------------------- MODULE MCTsh --------------------------------
(* Tsh for TLC: process ids are model values and interchangeable.          *)
EXTENDS Tsh, TLC

PidSymmetry == Permutations(PID)
=============================================================================
