--------------------------- MODULE MCBatchedPacking ---------------------------
(***************************************************************************)
(* Dimension 3: every first operand against a second that has an empty, a  *)
(* full and a mixed row and one that has an empty column, in ciphertexts   *)
(* that are one slot too small, exactly full, and have slots to spare.     *)
(***************************************************************************)
EXTENDS BatchedPacking

AllMatrices == Matrices

MatrixOf(pairs) == [i \in Index |-> [j \in Index |-> IF <<i, j>> \in pairs THEN 1 ELSE 0]]

SomeMatrices == {MatrixOf({<<0, 0>>, <<0, 1>>, <<0, 2>>, <<2, 1>>}),
                 MatrixOf({<<0, 1>>, <<1, 2>>, <<2, 2>>})}
==============================================================================
