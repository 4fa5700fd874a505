--------------------------- MODULE MCRowColBackend ---------------------------
(* Sixteen pairs of 4 x 4 matrices in whose products every pair of 4-bit   *)
(* vectors is multiplied.                                                  *)
EXTENDS RowColBackend

Bit(code, k) == (code \div 2 ^ k) % 2

\* Each of four matrices has four of the sixteen vectors as its rows.
FourRows(q) == [i \in Window |-> [k \in Window |-> Bit(4 * q + i, k)]]
FourCols(q) == [k \in Window |-> [j \in Window |-> Bit(4 * q + j, k)]]

AllVectorPairs == {<<FourRows(p), FourCols(q)>> : p \in 0 .. 3, q \in 0 .. 3}
==============================================================================
