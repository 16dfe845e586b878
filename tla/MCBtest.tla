------------------------------ MODULE MCBtest -------------------------------
(* The checker with ints of eight bits and floats of 1, 4 and 3 bits.      *)
EXTENDS Btest
MCRandoms == {-77, 5}
=============================================================================
