----------------------------- MODULE ProcessGrid -----------------------------
(***************************************************************************)
(* The geometry of bgv_distributed_rowcol_backend.hpp: how the ranks of a  *)
(* communicator form a process grid (BuildProcessGrid2D) and how n rows or *)
(* columns are cut into consecutive blocks (ComputeBlockPartition).        *)
(***************************************************************************)
EXTENDS Integers, FiniteSetsExt

\* ComputeBlockPartition: block k of n indices cut into `parts` blocks; the
\* first n % parts blocks take one index more, and a block may be empty.
Offset(n, parts, k) == k * (n \div parts) + Min({k, n % parts})
Count(n, parts, k)  == n \div parts + (IF k < n % parts THEN 1 ELSE 0)
Block(n, parts, k)  == Offset(n, parts, k) .. Offset(n, parts, k) + Count(n, parts, k) - 1

\* MPI_Dims_create gives the most square factorization of the communicator's
\* size; BuildProcessGrid2D puts the smaller factor first.
Pr(size) == Max({d \in 1 .. size : size % d = 0 /\ d * d <= size})
Pc(size) == size \div Pr(size)

\* MPI_Cart_create without reordering numbers the grid row by row.
process_row(size, r) == r \div Pc(size)
process_col(size, r) == r % Pc(size)

\* The global rows and columns that rank r owns.
RowBlock(n, size, r) == Block(n, Pr(size), process_row(size, r))
ColBlock(n, size, r) == Block(n, Pc(size), process_col(size, r))
==============================================================================
