---------------------------- MODULE RowColBackend ----------------------------
(***************************************************************************)
(* One matmul of BGVRowColBackend down to the slots.  MatMulSerial computes *)
(* its dot products with the actions of RowColSlots, one cell after the    *)
(* other; the two OpenMP variants are those of RowColMatMul, which takes a *)
(* dot product in one step.  The serial variant on slots is shown to       *)
(* implement the one of RowColMatMul on windows, which is why a dot        *)
(* product may be taken in one step there.                                 *)
(***************************************************************************)
EXTENDS RowColSlots, FiniteSetsExt

CONSTANTS Threads,  \* omp_get_max_threads()
          Inputs    \* bound: the pairs of operands considered

VARIABLES variant, A, B, stage, todo, inner, acc, slot, thread_cols, out_rows, out_cols

MM == INSTANCE RowColMatMul

ASSUME ThreadsAssumption == Threads \in Nat \ {0}
ASSUME InputsAssumption  == Inputs \subseteq MM!Matrices \X MM!Matrices

matmulVars  == <<variant, A, B, stage, todo, inner, acc, slot, thread_cols, out_rows, out_cols>>
backendVars == <<row, col, pc, ct, shift, piece, variant, A, B, stage, todo, inner, acc, slot,
                 thread_cols, out_rows, out_cols>>

\* encrypt_packed of the entries of a row or column, and its window back.
encrypt_packed(v) == [i \in Physical |-> IF i \in Window THEN v[i] ELSE 0]
WindowOf(ct_)     == [k \in Window |-> ct_[k]]

\* The operands of the cell that the loops of MatMulSerial are at.
LoadCell(i, j) == /\ row' = encrypt_packed(A[i])
                  /\ col' = encrypt_packed(MM!Column(B, j))

BackendInit == /\ MM!Init
               /\ row = encrypt_packed(A[0]) /\ col = encrypt_packed(MM!Column(B, 0))
               /\ pc = "and"
               /\ ct = Zero /\ shift = 1 /\ piece = Zero

DotProductStep == /\ stage = "serial"
                  /\ \/ And
                     \/ SumORStep
                     \/ SumOREnd
                  /\ UNCHANGED matmulVars

\* Faulty variant: the piece of a row goes to the slot of its row index.
AddPieces_SlotsSwapped ==
  LET i == Min(todo[0])
      j == inner[0]
  IN
  /\ stage = "serial"
  /\ Mask
  /\ piece' = MaskMult(ct, i)
  /\ out_rows' = [out_rows EXCEPT ![i] = MM!EvalAdd(@, WindowOf(MaskMult(ct, i)))]
  /\ out_cols' = [out_cols EXCEPT ![j] = MM!EvalAdd(@, WindowOf(MaskMult(ct, j)))]
  /\ MM!Advance(0)
  /\ UNCHANGED <<variant, A, B, stage, acc, slot, thread_cols>>

\* The dot product is masked twice, for its row and for its column.
AddPieces ==
  LET i == Min(todo[0])
      j == inner[0]
  IN
  /\ stage = "serial"
  /\ Mask
  /\ piece' = MaskMult(ct, j)
  /\ out_rows' = [out_rows EXCEPT ![i] = MM!EvalAdd(@, WindowOf(MaskMult(ct, j)))]
  /\ out_cols' = [out_cols EXCEPT ![j] = MM!EvalAdd(@, WindowOf(MaskMult(ct, i)))]
  /\ MM!Advance(0)
  /\ UNCHANGED <<variant, A, B, stage, acc, slot, thread_cols>>

NextCell == /\ stage = "serial" /\ todo[0] # {}
            /\ pc = "done"
            /\ LoadCell(Min(todo[0]), inner[0])
            /\ pc' = "and"
            /\ ct' = Zero /\ shift' = 1 /\ piece' = Zero
            /\ UNCHANGED matmulVars

LoopStep == /\ \/ MM!EndLoop
               \/ MM!Reduce
               \/ \E t \in MM!Team : MM!ThreadStep(t)
            /\ UNCHANGED vars

BackendNext == DotProductStep \/ AddPieces \/ NextCell \/ LoopStep

BackendSpec == BackendInit /\ [][BackendNext]_backendVars

------------------------------------------------------------------------------

\* Whichever implementation runs and however its threads interleave, the
\* accumulators hold bits at every step, for the pieces added to one never
\* overlap, and the rows and columns returned both describe the Boolean
\* product: the cross-check of Decrypt cannot fail.
RowsAndColsAreProduct == MM!TypeOK /\ MM!RowsAndColsAreProduct

\* matmul on physical slots implements matmul on windows: rotations and
\* masks, padding included, amount to a dot product taken in one step.
ImplementsMatMul == MM!Spec
==============================================================================
