----------------------------- MODULE GridMatMul -----------------------------
(***************************************************************************)
(* MatMulOnGrid and or_mat of bgv_distributed_rowcol_backend.hpp on the    *)
(* whole Pr x Pc process grid: a rank owns the rows of its row block and   *)
(* the columns of its column block, computes one cell C[i][j] per (row,    *)
(* column) pair of the two in an OpenMP loop, and assembles its rows over  *)
(* row_comm and its columns over col_comm.  The ranks run Program, a       *)
(* sequence of matmul(X, X) and or_mat(X, A) calls on the current matrix X *)
(* and the input A, as the recursion of sum_powers_recursive does.         *)
(*                                                                         *)
(* A ciphertext is the vector of its N slots.  The two assemblies are taken *)
(* at the contract that module AllReduce states and AssembleOwned is shown *)
(* to implement: a rank returns once every rank of the communicator has    *)
(* entered the call.                                                       *)
(***************************************************************************)
EXTENDS PackedVectors, ProcessGrid, Sequences

CONSTANTS P,        \* world_size
          Threads,  \* OpenMP threads of a rank
          Program,  \* bound: the calls made, each "matmul" or "or_mat"
          Inputs    \* bound: the input matrices considered

ASSUME SizesAssumption   == P \in Nat \ {0} /\ Threads \in Nat \ {0}
ASSUME ProgramAssumption == Program \in Seq({"matmul", "or_mat"})
ASSUME InputsAssumption  == Inputs \subseteq Matrices

Ranks == 0 .. P - 1
Teams == 0 .. Threads - 1

------------------------------------------------------------------------------

row_comm == [r \in Ranks |-> {s \in Ranks : process_row(P, s) = process_row(P, r)}]
col_comm == [r \in Ranks |-> {s \in Ranks : process_col(P, s) = process_col(P, r)}]
Rows     == [r \in Ranks |-> RowBlock(N, P, r)]
Cols     == [r \in Ranks |-> ColBlock(N, P, r)]

\* The blocks of matrix M that rank r holds: a DistributedRowColMatrix.
Distributed(M, r) == [rows |-> [i \in Rows[r] |-> M[i]],
                      cols |-> [j \in Cols[r] |-> Column(M, j)]]

\* The cells of rank r in the order of the collapsed double loop, and the
\* iterations of it that schedule(static) gives each thread.
Cells == [r \in Ranks |->
  LET width == Cardinality(Cols[r]) IN
  [n \in 0 .. Cardinality(Rows[r]) * width - 1 |->
     [i |-> Offset(N, Pr(P), process_row(P, r)) + (n \div width),
      j |-> Offset(N, Pc(P), process_col(P, r)) + (n % width)]]]

Share == [r \in Ranks |-> [t \in Teams |->
            Block(Cardinality(DOMAIN Cells[r]), Threads, t)]]

------------------------------------------------------------------------------

VARIABLES
  A,          \* the input matrix
  op,         \* op[r]: the call rank r is in, or the last it returned from
  phase,      \* phase[r]: "idle", "compute", "rows" or "cols"
  mat,        \* mat[r]: the current matrix X, as rank r holds it
  todo,       \* todo[r][t]: the iterations thread t has not finished
  step,       \* step[r][t]: "dot", or the accumulator its critical section writes
  acc,        \* acc[r][t]: the accumulator as the critical section read it
  critical,   \* critical[r]: the threads inside the critical section
  partial,    \* partial[r]: partial_rows and partial_cols
  rowIn,      \* rowIn[r][k]: what r brought to the row assembly of call k
  colIn,      \* colIn[r][k]: what r brought to the column assembly of call k
  rows        \* rows[r]: assembled_rows

threadVars == <<todo, step, acc, critical, partial>>
vars == <<A, op, phase, mat, rowIn, colIn, rows, threadVars>>

Kind(r) == Program[op[r]]

Init == /\ A \in Inputs
        /\ op = [r \in Ranks |-> 0]
        /\ phase = [r \in Ranks |-> "idle"]
        /\ mat = [r \in Ranks |-> Distributed(A, r)]
        /\ todo = [r \in Ranks |-> [t \in Teams |-> {}]]
        /\ step = [r \in Ranks |-> [t \in Teams |-> "dot"]]
        /\ acc = [r \in Ranks |-> [t \in Teams |-> Zero]]
        /\ critical = [r \in Ranks |-> {}]
        /\ partial = [r \in Ranks |-> Distributed([i \in Slots |-> Zero], r)]
        /\ rowIn = [r \in Ranks |-> << >>]
        /\ colIn = [r \in Ranks |-> << >>]
        /\ rows = [r \in Ranks |-> << >>]

\* MatMulOnGrid zeroes its accumulators and opens the parallel loop.
BeginMatMul(r) ==
  /\ phase[r] = "idle"
  /\ op[r] < Len(Program)
  /\ Program[op[r] + 1] = "matmul"
  /\ op' = [op EXCEPT ![r] = @ + 1]
  /\ phase' = [phase EXCEPT ![r] = "compute"]
  /\ partial' = [partial EXCEPT ![r] = Distributed([i \in Slots |-> Zero], r)]
  /\ todo' = [todo EXCEPT ![r] = Share[r]]
  /\ UNCHANGED <<A, mat, step, acc, critical, rowIn, colIn, rows>>

\* Faulty variant: the critical pragma is missing.
EnterCritical_Unguarded(r, t) ==
  /\ phase[r] = "compute"
  /\ todo[r][t] # {}
  /\ step[r][t] = "dot"
  /\ LET c == Cells[r][Min(todo[r][t])] IN
       acc' = [acc EXCEPT ![r][t] = partial[r].rows[c.i]]
  /\ critical' = [critical EXCEPT ![r] = @ \cup {t}]
  /\ step' = [step EXCEPT ![r][t] = "row"]
  /\ UNCHANGED <<A, op, phase, mat, todo, partial, rowIn, colIn, rows>>

\* A thread has its cij and both pieces, enters the critical section and
\* reads the row accumulator.
EnterCritical(r, t) ==
  /\ phase[r] = "compute"
  /\ todo[r][t] # {}
  /\ step[r][t] = "dot"
  /\ critical[r] = {}
  /\ LET c == Cells[r][Min(todo[r][t])] IN
       acc' = [acc EXCEPT ![r][t] = partial[r].rows[c.i]]
  /\ critical' = [critical EXCEPT ![r] = @ \cup {t}]
  /\ step' = [step EXCEPT ![r][t] = "row"]
  /\ UNCHANGED <<A, op, phase, mat, todo, partial, rowIn, colIn, rows>>

DotProduct(r, c) == BooleanDotProduct(mat[r].rows[c.i], mat[r].cols[c.j])

\* It writes the row accumulator back and reads the column accumulator.
AccumulateRow(r, t) ==
  LET c == Cells[r][Min(todo[r][t])] IN
  /\ step[r][t] = "row"
  /\ partial' = [partial EXCEPT ![r].rows[c.i] =
                   EvalAdd(acc[r][t], MaskMult(DotProduct(r, c), c.j))]
  /\ acc' = [acc EXCEPT ![r][t] = partial[r].cols[c.j]]
  /\ step' = [step EXCEPT ![r][t] = "col"]
  /\ UNCHANGED <<A, op, phase, mat, todo, critical, rowIn, colIn, rows>>

\* It writes the column accumulator back, leaves the critical section and
\* goes on to its next iteration.
AccumulateCol(r, t) ==
  LET n == Min(todo[r][t])
      c == Cells[r][n]
  IN
  /\ step[r][t] = "col"
  /\ partial' = [partial EXCEPT ![r].cols[c.j] =
                   EvalAdd(acc[r][t], MaskMult(DotProduct(r, c), c.i))]
  /\ critical' = [critical EXCEPT ![r] = @ \ {t}]
  /\ todo' = [todo EXCEPT ![r][t] = @ \ {n}]
  /\ acc' = [acc EXCEPT ![r][t] = Zero]
  /\ step' = [step EXCEPT ![r][t] = "dot"]
  /\ UNCHANGED <<A, op, phase, mat, rowIn, colIn, rows>>

\* The parallel region has joined: the rank enters AssembleRows.
EnterRows(r) ==
  /\ phase[r] = "compute"
  /\ \A t \in Teams : todo[r][t] = {}
  /\ phase' = [phase EXCEPT ![r] = "rows"]
  /\ rowIn' = [rowIn EXCEPT ![r] = Append(@, partial[r].rows)]
  /\ UNCHANGED <<A, op, mat, colIn, rows, threadVars>>

\* or_mat: the owner of a row (in row_comm) or a column (in col_comm) ORs it.
OwnedRows(r) == {i \in Rows[r] : i % Pc(P) = process_col(P, r)}
OwnedCols(r) == {j \in Cols[r] : j % Pr(P) = process_row(P, r)}

OrCols(r) == LET B == Distributed(A, r) IN
  [j \in OwnedCols(r) |-> EvalBooleanOR(mat[r].cols[j], B.cols[j])]

\* Faulty variant: a rank that owns none of the rows returns at once.
BeginOrMat_SkipIfEmpty(r) ==
  LET B == Distributed(A, r) IN
  /\ phase[r] = "idle"
  /\ op[r] < Len(Program)
  /\ Program[op[r] + 1] = "or_mat"
  /\ op' = [op EXCEPT ![r] = @ + 1]
  /\ IF OwnedRows(r) = {}
     THEN UNCHANGED <<phase, rowIn>>
     ELSE /\ phase' = [phase EXCEPT ![r] = "rows"]
          /\ rowIn' = [rowIn EXCEPT ![r] = Append(@,
               [i \in OwnedRows(r) |-> EvalBooleanOR(mat[r].rows[i], B.rows[i])])]
  /\ UNCHANGED <<A, mat, colIn, rows, threadVars>>

\* or_mat ORs the rows this rank owns and broadcasts them on row_comm.
BeginOrMat(r) ==
  LET B == Distributed(A, r) IN
  /\ phase[r] = "idle"
  /\ op[r] < Len(Program)
  /\ Program[op[r] + 1] = "or_mat"
  /\ op' = [op EXCEPT ![r] = @ + 1]
  /\ phase' = [phase EXCEPT ![r] = "rows"]
  /\ rowIn' = [rowIn EXCEPT ![r] = Append(@,
       [i \in OwnedRows(r) |-> EvalBooleanOR(mat[r].rows[i], B.rows[i])])]
  /\ UNCHANGED <<A, mat, colIn, rows, threadVars>>

\* Faulty variant: a message of a rank that is already in the next call is
\* taken for one of this call.
Assemble_Newest(comm, in, k, g) ==
  [slot \in Slots |->
     MapThenSumSet(LAMBDA s : in[s][Len(in[s])][g][slot],
                   {s \in comm : g \in DOMAIN in[s][Len(in[s])]})]

\* The vector for index g that the members of a communicator assemble from
\* what they brought: the sum of all their vectors after a matmul, the one
\* vector of g's owner after an or_mat.
Assemble(comm, in, k, g) ==
  [slot \in Slots |->
     MapThenSumSet(LAMBDA s : in[s][k][g][slot], {s \in comm : g \in DOMAIN in[s][k]})]

\* Faulty variant: a rank does not wait for the rest of row_comm.
ReturnRows_NoWait(r) ==
  LET there == {s \in row_comm[r] : Len(rowIn[s]) >= op[r]} IN
  /\ phase[r] = "rows"
  /\ rows' = [rows EXCEPT ![r] =
                [i \in Rows[r] |-> Assemble(there, rowIn, op[r], i)]]
  /\ phase' = [phase EXCEPT ![r] = "cols"]
  /\ colIn' = [colIn EXCEPT ![r] =
                 Append(@, IF Kind(r) = "matmul" THEN partial[r].cols ELSE OrCols(r))]
  /\ UNCHANGED <<A, op, mat, rowIn, threadVars>>

\* AssembleRows (or the row broadcasts of or_mat) returns and the rank enters
\* AssembleCols (ORs the columns it owns and enters their broadcasts).
ReturnRows(r) ==
  /\ phase[r] = "rows"
  /\ \A s \in row_comm[r] : Len(rowIn[s]) >= op[r]
  /\ rows' = [rows EXCEPT ![r] =
                [i \in Rows[r] |-> Assemble(row_comm[r], rowIn, op[r], i)]]
  /\ phase' = [phase EXCEPT ![r] = "cols"]
  /\ colIn' = [colIn EXCEPT ![r] =
                 Append(@, IF Kind(r) = "matmul" THEN partial[r].cols ELSE OrCols(r))]
  /\ UNCHANGED <<A, op, mat, rowIn, threadVars>>

\* AssembleCols (or the column broadcasts) returns: the result is complete.
ReturnCols(r) ==
  /\ phase[r] = "cols"
  /\ \A s \in col_comm[r] : Len(colIn[s]) >= op[r]
  /\ mat' = [mat EXCEPT ![r] =
       [rows |-> rows[r],
        cols |-> [j \in Cols[r] |-> Assemble(col_comm[r], colIn, op[r], j)]]]
  /\ rows' = [rows EXCEPT ![r] = << >>]
  /\ phase' = [phase EXCEPT ![r] = "idle"]
  /\ UNCHANGED <<A, op, rowIn, colIn, threadVars>>

ThreadStep(r, t) == EnterCritical(r, t) \/ AccumulateRow(r, t) \/ AccumulateCol(r, t)

RankStep(r) == BeginMatMul(r) \/ BeginOrMat(r) \/ EnterRows(r)
                 \/ ReturnRows(r) \/ ReturnCols(r)

Next == \E r \in Ranks : RankStep(r) \/ \E t \in Teams : ThreadStep(r, t)

Spec == Init /\ [][Next]_vars

\* A rank is a process that keeps running, and some thread of it that can
\* step does; which one enters the critical section is left open, because a
\* thread that is passed over only waits for the finite shares of the others.
FairSpec == /\ Spec
            /\ \A r \in Ranks : WF_vars(RankStep(r))
            /\ \A r \in Ranks : WF_vars(\E t \in Teams : ThreadStep(r, t))

------------------------------------------------------------------------------

\* The reference: what the calls compute on plain Boolean matrices.
After[k \in 0 .. Len(Program)] ==
  IF k = 0 THEN A
  ELSE IF Program[k] = "matmul" THEN Product(After[k - 1], After[k - 1])
  ELSE Union(After[k - 1], A)

TypeOK ==
  /\ A \in Inputs
  /\ op \in [Ranks -> 0 .. Len(Program)]
  /\ phase \in [Ranks -> {"idle", "compute", "rows", "cols"}]
  /\ \A r \in Ranks :
       /\ mat[r].rows \in [Rows[r] -> [Slots -> {0, 1}]]
       /\ mat[r].cols \in [Cols[r] -> [Slots -> {0, 1}]]
       /\ partial[r].rows \in [Rows[r] -> [Slots -> {0, 1}]]
       /\ partial[r].cols \in [Cols[r] -> [Slots -> {0, 1}]]
       /\ todo[r] \in [Teams -> SUBSET DOMAIN Cells[r]]
       /\ step[r] \in [Teams -> {"dot", "row", "col"}]
       /\ critical[r] \subseteq Teams
       /\ Len(colIn[r]) <= Len(rowIn[r]) /\ Len(rowIn[r]) <= op[r]

\* When a rank has returned from a call, the rows and the columns it holds
\* are those of the Boolean matrix the calls so far compute, although every
\* slot of them was computed by another rank or thread: no cell is lost
\* between two threads, between two blocks or in an assembly, none is added
\* twice, and the row-packed and column-packed copies describe one matrix.
BlocksMatchProduct ==
  \A r \in Ranks : phase[r] = "idle" => mat[r] = Distributed(After[op[r]], r)

Whole == INSTANCE AllReduce
           WITH Ranks    <- Ranks,
                Indices  <- {},
                Calls    <- Len(Program),
                arrived  <- op,
                returned <- [r \in Ranks |-> IF phase[r] = "idle" THEN op[r] ELSE op[r] - 1],
                result   <- [r \in Ranks |-> << >>]

\* A call is a barrier of the whole grid although a rank only ever waits for
\* its own row_comm and col_comm: no rank returns from a call that some rank
\* has not begun.
ImplementsBarrier == Whole!Spec

\* Every rank returns from every call, also one that owns no row of its block.
Termination == <>[](\A r \in Ranks : phase[r] = "idle" /\ op[r] = Len(Program))
==============================================================================
