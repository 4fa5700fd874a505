--------------------------- MODULE DepthEstimates ---------------------------
(***************************************************************************)
(* The formulas that say, before a closure is computed, how many levels of *)
(* multiplication its parameters must allow: one function per levelled     *)
(* backend, for a matrix of dimension dim and walks of length t.           *)
(***************************************************************************)
EXTENDS Integers, FiniteSetsExt

HalvingLevels(dim) ==
  LET H[r \in Nat] == IF r <= 1 THEN 0 ELSE 1 + H[(r + 1) \div 2] IN H[dim]

\* BGVMatmulDepth, matmul_depth, BGVBatchedMatmulDepth, BGVRowColMatmulDepth
FormulaMatMulDepth(b, dim) ==
  CASE b \in {"bgv", "dghv"} -> 1 + HalvingLevels(dim)
    [] b = "batched"         -> 3 + HalvingLevels(dim)
    [] b = "rowcol"          -> 2 + 2 * HalvingLevels(dim)

Callee(t) == IF t % 2 = 0 THEN t \div 2 ELSE t - 1

\* Faulty variant: an odd T is halved, which makes it ceil(log2 T) levels.
RecursionLevels_Ceil(t) ==
  LET L[r \in Nat] == IF r <= 1 THEN 0 ELSE 1 + L[(r + 1) \div 2] IN L[t]

RecursionLevels(t) ==
  LET L[r \in Nat] == IF r <= 1 THEN 0 ELSE 1 + L[Callee(r)] IN L[t]

\* EstimateBGVDepth, transitive_closure_depth; EstimateBGVRowColDepth and
\* EstimateBGVBatchedDepth do not go below 1.
Estimate(b, dim, t) ==
  LET levels == RecursionLevels(t) * (FormulaMatMulDepth(b, dim) + 1)
  IN IF b \in {"bgv", "dghv"} THEN levels ELSE Max({1, levels})
==============================================================================
