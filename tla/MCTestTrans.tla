---------------------------- MODULE MCTestTrans -----------------------------
(* The three graded shapes, and others: rows that do not fill a block, one *)
(* block only, a width without code, and dimensions that are refused.  The *)
(* shapes with rows shorter than a block, where cells of one block meet,   *)
(* are all there are.                                                      *)
EXTENDS TestTrans
NarrowShapes == {32, 64} \X (1 .. 7)
MCShapes == {<<32, 32>>, <<64, 64>>, <<61, 67>>, <<32, 20>>, <<64, 8>>, <<61, 5>>,
             <<16, 16>>, <<0, 8>>, <<257, 8>>} \union NarrowShapes
=============================================================================
