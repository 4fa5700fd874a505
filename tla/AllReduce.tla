------------------------------ MODULE AllReduce ------------------------------
(***************************************************************************)
(* What AssembleRows/AssembleCols promise to the ranks of one communicator *)
(* (row_comm or col_comm): every rank brings a partial ciphertext for each *)
(* of the same global indices, and every rank leaves with the same sum, in *)
(* which each rank's partial ciphertext was added exactly once.            *)
(*                                                                         *)
(* A ciphertext is the bag of the pieces EvalAdd'ed into it; a piece names *)
(* the rank that computed it, the call it was computed for and the global  *)
(* row (or column) index it belongs to.                                    *)
(***************************************************************************)
EXTENDS Integers, Bags

CONSTANTS Ranks,    \* the ranks of the communicator
          Indices,  \* the global indices of the block the ranks share
          Calls     \* bound: successive calls made on the communicator

VARIABLES arrived,   \* arrived[r]: calls rank r has entered
          returned,  \* returned[r]: calls rank r has returned from
          result     \* result[r]: what the last of them returned

vars == <<arrived, returned, result>>

Piece(r, k, g) == [rank |-> r, call |-> k, index |-> g]

\* The sum of the pieces of the ranks in S for call k and index g.
PiecesOf(S, k, g) == SetToBag({Piece(r, k, g) : r \in S})

FullSum(k) == [g \in Indices |-> PiecesOf(Ranks, k, g)]

NoResult == [g \in Indices |-> EmptyBag]

Init == /\ arrived = [r \in Ranks |-> 0]
        /\ returned = [r \in Ranks |-> 0]
        /\ result = [r \in Ranks |-> NoResult]

Enter(r) == /\ arrived[r] = returned[r]
            /\ arrived[r] < Calls
            /\ arrived' = [arrived EXCEPT ![r] = @ + 1]
            /\ UNCHANGED <<returned, result>>

\* No rank leaves a call that some rank has not entered yet.
Return(r) == /\ returned[r] < arrived[r]
             /\ \A s \in Ranks : arrived[s] >= arrived[r]
             /\ returned' = [returned EXCEPT ![r] = arrived[r]]
             /\ result' = [result EXCEPT ![r] = FullSum(arrived[r])]
             /\ UNCHANGED arrived

Next == \E r \in Ranks : Enter(r) \/ Return(r)

Spec == Init /\ [][Next]_vars
==============================================================================
