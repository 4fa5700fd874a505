---------------------------- MODULE BatchedPacking ----------------------------
(***************************************************************************)
(* BGVBatchedBackend: a whole N x N matrix in one ciphertext, row after    *)
(* row, in the first N * N of its slots.  matmul spreads column k of A     *)
(* over every column and row k of B over every row by rotations, ANDs the  *)
(* two for each k and ORs the N terms in a balanced tree.  A rotation is   *)
(* cyclic over all slots of the ciphertext, and needs a key made in the    *)
(* constructor.                                                            *)
(***************************************************************************)
EXTENDS Integers, Sequences

CONSTANTS N,           \* dimension the backend is constructed for
          Capacities,  \* slots a ciphertext may have
          Left, Right  \* matrices that occur as first and second operand

Index    == 0 .. N - 1
Bits     == {0, 1}
Matrices == [Index -> [Index -> Bits]]

ASSUME BatchedAssumption == /\ N \in Nat \ {0}
                            /\ Capacities \subseteq Nat \ {0}
                            /\ Left \subseteq Matrices /\ Right \subseteq Matrices

VARIABLES
  slots,    \* available_slots of the context
  op,       \* "matmul" or "or_mat"
  A, B,     \* the plain operands
  pc,       \* "construct", "or", "column", "spread_column", "spread_row",
            \* "reduce", "done" or "failed"
  k,        \* term being computed
  next,     \* loop variable of the broadcast
  masked,   \* column or row k alone
  acc,      \* sum of its rotations
  column,   \* L_k
  terms,    \* L_k AND Q_k for the values of k done, then the levels of the tree
  result

vars == <<slots, op, A, B, pc, k, next, masked, acc, column, terms, result>>

------------------------------------------------------------------------------

Slots  == 0 .. slots - 1
Region == 0 .. N * N - 1

Row(s) == s \div N
Col(s) == s % N

PackMatrix(M) == [s \in Slots |-> IF s \in Region THEN M[Row(s)][Col(s)] ELSE 0]

add(u, v)           == [s \in Slots |-> u[s] + v[s]]
encrypted_and(u, v) == [s \in Slots |-> u[s] * v[s]]
encrypted_or(u, v)  == [s \in Slots |-> (u[s] + v[s]) - u[s] * v[s]]
mask_mult(u, where) == [s \in Slots |-> IF s \in where THEN u[s] ELSE 0]

\* The masks, by the slots in which they are 1.
ColumnMask(c) == {s \in Region : Col(s) = c}
RowMask(r)    == {s \in Region : Row(s) = r}

\* EvalRotate, a left rotation for a positive offset.
rotateToOffset(u, offset) == [s \in Slots |-> u[(s + offset) % slots]]

\* Faulty variant: keys only for the rotations to the left.
GenerateRequiredRotationKeys_LeftOnly == UNION {{d, d * N} : d \in 1 .. N - 1}

GenerateRequiredRotationKeys == UNION {{d, -d, d * N, -d * N} : d \in 1 .. N - 1}

------------------------------------------------------------------------------

Blank == [s \in Slots |-> 0]

Init == /\ slots \in Capacities
        /\ op \in {"matmul", "or_mat"}
        /\ A \in Left /\ B \in Right
        /\ pc = "construct"
        /\ k = 0 /\ next = 0
        /\ masked = Blank /\ acc = Blank /\ column = Blank
        /\ terms = << >>
        /\ result = Blank

\* The constructor refuses a matrix that does not fit in one ciphertext.
Construct == /\ pc = "construct"
             /\ pc' = IF N * N > slots THEN "failed"
                      ELSE IF op = "matmul" THEN "column" ELSE "or"
             /\ UNCHANGED <<slots, op, A, B, k, next, masked, acc, column, terms, result>>

OrMat == /\ pc = "or"
         /\ result' = encrypted_or(PackMatrix(A), PackMatrix(B))
         /\ pc' = "done"
         /\ UNCHANGED <<slots, op, A, B, k, next, masked, acc, column, terms>>

\* Both broadcasts begin with the masked operand itself, the term of offset 0.
BeginSpread(part, at) == /\ masked' = part
                         /\ acc' = part
                         /\ next' = 0
                         /\ pc' = at

\* Faulty variant: the masked operand is added for next = k once more.
Spread_NoSkip(offset) ==
  /\ next < N
  /\ acc' = add(acc, rotateToOffset(masked, offset))
  /\ next' = next + 1
  /\ UNCHANGED <<slots, op, A, B, pc, k, masked, column, terms, result>>

\* One iteration of the loop of a broadcast: nothing for next = k; EvalRotate
\* throws without a key.
Spread(offset) ==
  /\ next < N
  /\ IF next = k
       THEN /\ next' = next + 1
            /\ UNCHANGED <<acc, pc>>
       ELSE IF offset \in GenerateRequiredRotationKeys
         THEN /\ acc' = add(acc, rotateToOffset(masked, offset))
              /\ next' = next + 1
              /\ UNCHANGED pc
         ELSE /\ pc' = "failed"
              /\ UNCHANGED <<acc, next>>
  /\ UNCHANGED <<slots, op, A, B, k, masked, column, terms, result>>

MaskColumn == /\ pc = "column"
              /\ BeginSpread(mask_mult(PackMatrix(A), ColumnMask(k)), "spread_column")
              /\ UNCHANGED <<slots, op, A, B, k, column, terms, result>>

\* Faulty variant: the rotation goes the other way.
SpreadColumn_Right == pc = "spread_column" /\ Spread(next - k)

SpreadColumn == pc = "spread_column" /\ Spread(k - next)

\* BroadcastColumnHorizontally returns; BroadcastRowVertically begins.
MaskRow == /\ pc = "spread_column"
           /\ next = N
           /\ column' = mask_mult(acc, Region)
           /\ BeginSpread(mask_mult(PackMatrix(B), RowMask(k)), "spread_row")
           /\ UNCHANGED <<slots, op, A, B, k, terms, result>>

\* Faulty variant: rotates by columns instead of rows.
SpreadRow_ByColumns == pc = "spread_row" /\ Spread(k - next)

SpreadRow == pc = "spread_row" /\ Spread((k - next) * N)

\* Q_k is complete: one more term.
AndTerm == /\ pc = "spread_row"
           /\ next = N
           /\ terms' = Append(terms, encrypted_and(column, mask_mult(acc, Region)))
           /\ k' = k + 1
           /\ pc' = IF k + 1 < N THEN "column" ELSE "reduce"
           /\ UNCHANGED <<slots, op, A, B, next, masked, acc, column, result>>

\* Faulty variant: an odd last term is forgotten.
OrReduceTree_DropsLast ==
  /\ pc = "reduce"
  /\ Len(terms) > 1
  /\ terms' = [i \in 1 .. Len(terms) \div 2 |-> encrypted_or(terms[2 * i - 1], terms[2 * i])]
  /\ UNCHANGED <<slots, op, A, B, pc, k, next, masked, acc, column, result>>

\* One level of the tree: neighbours are ORed, an odd last term carried over.
OrReduceTree ==
  /\ pc = "reduce"
  /\ Len(terms) > 1
  /\ terms' = [i \in 1 .. (Len(terms) + 1) \div 2 |->
                 IF 2 * i <= Len(terms) THEN encrypted_or(terms[2 * i - 1], terms[2 * i])
                                        ELSE terms[2 * i - 1]]
  /\ UNCHANGED <<slots, op, A, B, pc, k, next, masked, acc, column, result>>

Reduced == /\ pc = "reduce"
           /\ Len(terms) = 1
           /\ result' = terms[1]
           /\ pc' = "done"
           /\ UNCHANGED <<slots, op, A, B, k, next, masked, acc, column, terms>>

Next == \/ Construct \/ OrMat
        \/ MaskColumn \/ SpreadColumn \/ MaskRow \/ SpreadRow \/ AndTerm
        \/ OrReduceTree \/ Reduced

Spec == Init /\ [][Next]_vars

------------------------------------------------------------------------------

\* Every slot of every intermediate ciphertext, those outside the matrix
\* included, holds a bit: the rotations that are added never meet.
Vectors == [Slots -> Bits]
TypeOK == /\ slots \in Capacities /\ op \in {"matmul", "or_mat"}
          /\ A \in Left /\ B \in Right
          /\ pc \in {"construct", "or", "column", "spread_column", "spread_row",
                     "reduce", "done", "failed"}
          /\ k \in 0 .. N /\ next \in 0 .. N
          /\ masked \in Vectors /\ acc \in Vectors /\ column \in Vectors
          /\ terms \in Seq(Vectors) /\ Len(terms) <= N
          /\ result \in Vectors

Product(X, Y) == [i \in Index |-> [j \in Index |->
                    IF \E m \in Index : X[i][m] = 1 /\ Y[m][j] = 1 THEN 1 ELSE 0]]
Union(X, Y)   == [i \in Index |-> [j \in Index |->
                    IF X[i][j] = 1 \/ Y[i][j] = 1 THEN 1 ELSE 0]]

\* A call whose matrix fits in one ciphertext never fails for want of a
\* rotation key, and leaves the packed Boolean product (or union) of its
\* operands with clean slots beyond it, however tightly the matrix fills the
\* ciphertext; a matrix that does not fit is refused before anything else.
MultipliesOrRefuses ==
  /\ pc = "done" => result = PackMatrix(IF op = "matmul" THEN Product(A, B) ELSE Union(A, B))
  /\ pc = "failed" <=> (N * N > slots /\ pc # "construct")
==============================================================================
