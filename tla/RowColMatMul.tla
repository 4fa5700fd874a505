---------------------------- MODULE RowColMatMul ----------------------------
(***************************************************************************)
(* BGVRowColBackend::matmul: the three implementations MatMulSerial,       *)
(* MatMulOpenMPTwoPass and MatMulOpenMPOptimized of one Boolean product,   *)
(* whose result must not depend on which of them runs nor on how the       *)
(* threads of an OpenMP loop interleave.                                   *)
(***************************************************************************)
EXTENDS PackedVectors, FiniteSetsExt

CONSTANTS Threads,  \* omp_get_max_threads()
          Inputs    \* bound: the pairs of operands considered

Team     == 0 .. Threads - 1
Variants == {"Serial", "OpenMPTwoPass", "OpenMPOptimized"}

\* schedule(static): the iterations of a loop over N that thread t runs.
StaticShare(t) == {i \in Slots : i \div ((N + Threads - 1) \div Threads) = t}

VARIABLES
  variant,      \* the implementation the backend was constructed with
  A, B,         \* the operands
  stage,        \* "serial", "pass1", "pass2", "rows", "reduce" or "done"
  todo,         \* todo[t]: the iterations of the loop thread t has not finished
  inner,        \* inner[t]: the inner loop variable of thread t
  acc,          \* acc[t]: the accumulator local to its iteration
  slot,         \* slot[t]: the accumulator it read but has not written back
  thread_cols,  \* thread_cols[t][j]: thread-local column accumulators
  out_rows, out_cols

vars == <<variant, A, B, stage, todo, inner, acc, slot, thread_cols, out_rows, out_cols>>

inputs == <<variant, A, B>>
NoRead == << >>
Zeros  == [j \in Slots |-> Zero]
Loop   == [t \in Team |-> StaticShare(t)]

Init == /\ variant \in Variants
        /\ \E pair \in Inputs : A = pair[1] /\ B = pair[2]
        /\ stage = CASE variant = "Serial" -> "serial"
                     [] variant = "OpenMPTwoPass" -> "pass1"
                     [] variant = "OpenMPOptimized" -> "rows"
        /\ todo = IF variant = "Serial"
                  THEN [t \in Team |-> IF t = 0 THEN Slots ELSE {}] ELSE Loop
        /\ inner = [t \in Team |-> 0]
        /\ acc = [t \in Team |-> Zero]
        /\ slot = [t \in Team |-> NoRead]
        /\ thread_cols = [t \in Team |-> Zeros]
        /\ out_rows = Zeros
        /\ out_cols = Zeros

Cij(i, j) == BooleanDotProduct(A[i], Column(B, j))

\* The inner loop goes on, or the iteration ends and the next one begins.
Advance(t) ==
  IF inner[t] < N - 1
  THEN /\ inner' = [inner EXCEPT ![t] = @ + 1]
       /\ UNCHANGED todo
  ELSE /\ inner' = [inner EXCEPT ![t] = 0]
       /\ todo' = [todo EXCEPT ![t] = @ \ {Min(@)}]

SerialStep ==
  LET i == Min(todo[0])
      j == inner[0]
  IN
  /\ stage = "serial" /\ todo[0] # {}
  /\ out_rows' = [out_rows EXCEPT ![i] = EvalAdd(@, MaskMult(Cij(i, j), j))]
  /\ out_cols' = [out_cols EXCEPT ![j] = EvalAdd(@, MaskMult(Cij(i, j), i))]
  /\ Advance(0)
  /\ UNCHANGED <<inputs, stage, acc, slot, thread_cols>>

\* Stage 1 of the two-pass variant: thread t owns row i.
Pass1Step(t) ==
  LET i   == Min(todo[t])
      j   == inner[t]
      sum == EvalAdd(acc[t], MaskMult(Cij(i, j), j))
  IN
  /\ stage = "pass1" /\ todo[t] # {}
  /\ acc' = [acc EXCEPT ![t] = IF j = N - 1 THEN Zero ELSE sum]
  /\ out_rows' = IF j = N - 1 THEN [out_rows EXCEPT ![i] = sum] ELSE out_rows
  /\ Advance(t)
  /\ UNCHANGED <<inputs, stage, slot, thread_cols, out_cols>>

\* Stage 2: thread t owns column j and computes every dot product again.
Pass2Step(t) ==
  LET j   == Min(todo[t])
      i   == inner[t]
      sum == EvalAdd(acc[t], MaskMult(Cij(i, j), i))
  IN
  /\ stage = "pass2" /\ todo[t] # {}
  /\ acc' = [acc EXCEPT ![t] = IF i = N - 1 THEN Zero ELSE sum]
  /\ out_cols' = IF i = N - 1 THEN [out_cols EXCEPT ![j] = sum] ELSE out_cols
  /\ Advance(t)
  /\ UNCHANGED <<inputs, stage, slot, thread_cols, out_rows>>

\* Faulty variant: one set of column accumulators for all threads.
ColumnsOf_Shared(t) == 0

\* thread_cols[tid]: the column accumulators that thread t adds to.
ColumnsOf(t) == t

\* The optimized variant: a thread adds cij to its row accumulator and reads
\* its accumulator of column j, ...
RowsReadSlot(t) ==
  LET i == Min(todo[t])
      j == inner[t]
  IN
  /\ stage = "rows" /\ todo[t] # {} /\ slot[t] = NoRead
  /\ acc' = [acc EXCEPT ![t] = EvalAdd(@, MaskMult(Cij(i, j), j))]
  /\ slot' = [slot EXCEPT ![t] = thread_cols[ColumnsOf(t)][j]]
  /\ UNCHANGED <<inputs, stage, todo, inner, thread_cols, out_rows, out_cols>>

\* ... and writes it back; at the end of the row it stores the row.
RowsWriteSlot(t) ==
  LET i == Min(todo[t])
      j == inner[t]
  IN
  /\ stage = "rows" /\ slot[t] # NoRead
  /\ thread_cols' = [thread_cols EXCEPT ![ColumnsOf(t)][j] = EvalAdd(slot[t], MaskMult(Cij(i, j), i))]
  /\ slot' = [slot EXCEPT ![t] = NoRead]
  /\ out_rows' = IF j = N - 1 THEN [out_rows EXCEPT ![i] = acc[t]] ELSE out_rows
  /\ acc' = [acc EXCEPT ![t] = IF j = N - 1 THEN Zero ELSE @]
  /\ Advance(t)
  /\ UNCHANGED <<inputs, stage, out_cols>>

\* The implicit barrier at the end of a parallel loop.
EndLoop ==
  /\ stage \in {"serial", "pass1", "pass2", "rows"}
  /\ \A t \in Team : todo[t] = {}
  /\ stage' = CASE stage = "pass1" -> "pass2"
                [] stage = "rows"  -> "reduce"
                [] OTHER           -> "done"
  /\ todo' = IF stage = "pass1" THEN Loop ELSE todo
  /\ UNCHANGED <<inputs, inner, acc, slot, thread_cols, out_rows, out_cols>>

\* The thread-local column accumulators are added up by one thread.
Reduce ==
  /\ stage = "reduce"
  /\ out_cols' = [j \in Slots |-> FoldFunction(EvalAdd, Zero, [t \in Team |-> thread_cols[t][j]])]
  /\ stage' = "done"
  /\ UNCHANGED <<inputs, todo, inner, acc, slot, thread_cols, out_rows>>

ThreadStep(t) == Pass1Step(t) \/ Pass2Step(t) \/ RowsReadSlot(t) \/ RowsWriteSlot(t)

Next == SerialStep \/ EndLoop \/ Reduce \/ \E t \in Team : ThreadStep(t)

Spec == Init /\ [][Next]_vars

------------------------------------------------------------------------------

Vectors == [Slots -> {0, 1}]

\* Every accumulator holds bits at every step: the pieces added to one never
\* overlap.
TypeOK ==
  /\ variant \in Variants
  /\ stage \in {"serial", "pass1", "pass2", "rows", "reduce", "done"}
  /\ todo \in [Team -> SUBSET Slots]
  /\ inner \in [Team -> Slots]
  /\ acc \in [Team -> Vectors]
  /\ slot \in [Team -> Vectors \cup {NoRead}]
  /\ thread_cols \in [Team -> [Slots -> Vectors]]
  /\ out_rows \in [Slots -> Vectors] /\ out_cols \in [Slots -> Vectors]

\* Whichever implementation runs and however its threads interleave, the
\* rows and the columns it returns both describe the Boolean product: the
\* cross-check of Decrypt cannot fail.
RowsAndColsAreProduct ==
  stage = "done" =>
    /\ out_rows = Product(A, B)
    /\ out_cols = [j \in Slots |-> Column(Product(A, B), j)]
==============================================================================
