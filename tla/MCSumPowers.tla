----------------------------- MODULE MCSumPowers -----------------------------
(***************************************************************************)
(* Every graph on N nodes and every T up to MaxT.  T = 5 recurses through  *)
(* an odd, two even and the base invocation (5, 4, 2, 1); T = 3 is odd     *)
(* above even.                                                             *)
(***************************************************************************)
EXTENDS SumPowers
==============================================================================
