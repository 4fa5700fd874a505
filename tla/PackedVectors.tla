---------------------------- MODULE PackedVectors ----------------------------
(***************************************************************************)
(* The operations of BGVRowColBackend on packed rows and columns, on the N *)
(* slots of the window (module RowColSlots shows that what they leave in   *)
(* the physical slots beyond it is zero), and the plain Boolean matrices   *)
(* their results are compared with.                                        *)
(***************************************************************************)
EXTENDS Integers, Functions

CONSTANT N  \* matrix dimension

ASSUME DimensionAssumption == N \in Nat \ {0}

Slots    == 0 .. N - 1
Matrices == [Slots -> [Slots -> {0, 1}]]

Zero                == [k \in Slots |-> 0]
EvalAdd(u, v)       == [k \in Slots |-> u[k] + v[k]]
Or(a, b)            == (a + b) - a * b
EvalBooleanOR(u, v) == [k \in Slots |-> Or(u[k], v[k])]
MaskMult(c, pos)    == [k \in Slots |-> IF k = pos THEN c ELSE 0]

\* The value that BooleanDotProduct replicates to every slot.
BooleanDotProduct(row, col) == FoldFunction(Or, 0, [k \in Slots |-> row[k] * col[k]])

Column(M, j) == [k \in Slots |-> M[k][j]]

\* The reference: the Boolean product and union of plain matrices.
Product(X, Y) == [i \in Slots |-> [j \in Slots |->
                    IF \E k \in Slots : X[i][k] = 1 /\ Y[k][j] = 1 THEN 1 ELSE 0]]
Union(X, Y)   == [i \in Slots |-> [j \in Slots |->
                    IF X[i][j] = 1 \/ Y[i][j] = 1 THEN 1 ELSE 0]]
==============================================================================
