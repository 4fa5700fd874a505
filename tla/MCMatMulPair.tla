---------------------------- MODULE MCMatMulPair ----------------------------
(* Small worlds for MatMulPair: the constants are given in the .cfg files. *)
EXTENDS MatMulPair
==============================================================================
