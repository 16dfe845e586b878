------------------------------ MODULE MCFsecs -------------------------------
(* The timing package with two-bit counter words and short measurements.   *)
EXTENDS Fsecs
=============================================================================
