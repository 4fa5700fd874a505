---------------------------- MODULE MCGridMatMul ----------------------------
(* Bounds for GridMatMul: a cycle, whose closure the three calls complete, *)
(* so that every cell is 1 in the end, and a path with a loop at its end.  *)
EXTENDS GridMatMul

Of(E) == [i \in Slots |-> [j \in Slots |-> IF <<i, j>> \in E THEN 1 ELSE 0]]

Graphs == { Of({<<0, 1>>, <<1, 2>>, <<2, 0>>}), Of({<<0, 1>>, <<1, 2>>, <<2, 2>>}) }

ThreeCalls == <<"matmul", "or_mat", "matmul">>
==============================================================================
