---------------------------- MODULE MCClosureDepth ----------------------------
(***************************************************************************)
(* Every backend, every dimension up to MaxN (powers of two for the        *)
(* row/column backend) and every T up to MaxT.  The DGHV keys are, for     *)
(* every depth up to 20, the shortest that supports it and the longest     *)
(* that does not.                                                          *)
(*                                                                         *)
(* The profiles live in a small world: int has 9 bits, and the rings that  *)
(* OpenFHE asks for are 64 to 512 where the real ones are 2 ^ 15 and more. *)
(***************************************************************************)
EXTENDS ClosureDepth

Shortest(rho, levels) == noise_bits_after_depth(rho, levels) + 2

BoundaryKeys ==
  {<<Shortest(rho, levels) - short, rho>> : rho \in 1 .. 2, levels \in 1 .. 20, short \in 0 .. 1}

\* A later version asks for more.
Rings(v, levels) == CASE levels <= 12          -> 64
                      [] levels \in 13 .. 21   -> 64 * v
                      [] levels \in 22 .. 45   -> 128
                      [] OTHER                 -> 256 * v

Profile(levels, dimension, modulus) ==
  [depth_capacity |-> levels, ring_dimension |-> dimension,
   plaintext_modulus |-> modulus, validated |-> TRUE]

\* The first two of the four profiles in config/bgv_batched_profiles.json, for
\* four and eight nodes.
Shipped      == {Profile(12, 64, 257), Profile(21, 64, 257)}
ShippedNodes == {4, 8}

\* One node whose T is odd, two that share a ring, one that no ring below the
\* ceiling holds, one that turns negative as an int and whose slots have no
\* power of two above them in a word, and one whose slots overflow.
Lists == {<<7>>, <<8, 3>>, <<17, 2>>, <<400, 1>>, <<512>>}

JustEight == {<<8>>}

\* One matmul adds exactly the levels that the formula charges for it.
ASSUME MatMulFormulaExact ==
  \A b \in Backends, x \in 0 .. 3, y \in 0 .. 3, dim \in 1 .. 20 :
    (b = "rowcol" => IsPowerOfTwo(dim))
    => MatMulDepth(b, dim, x, y) = Max({x, y}) + FormulaMatMulDepth(b, dim)
==============================================================================
