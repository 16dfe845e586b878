------------------------------ MODULE MCCache -------------------------------
(* CacheLru for TLC. *)
EXTENDS CacheLru
=============================================================================
