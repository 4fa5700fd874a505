------------------------ MODULE BatchedPackingProofs ------------------------
(***************************************************************************)
(* Proofs about BatchedPacking, for every dimension, every number of slots *)
(* and all operands: the rotations that are added never meet, neither in   *)
(* the matrix nor round the end of the ciphertext, every rotation asked    *)
(* for has a key, and the tree over the N terms is the Boolean product.    *)
(***************************************************************************)
EXTENDS BatchedPacking, TLAPS

\* The matrix fits.
Fits == N * N =< slots

\* Term m of the product, L_m AND Q_m.
Term(m) == [s \in Slots |-> IF s \in Region /\ A[Row(s)][m] = 1 /\ B[m][Col(s)] = 1 THEN 1 ELSE 0]

\* Column c of A spread over a set of columns, and row r of B over one of rows.
ColumnOver(c, over) == [s \in Slots |-> IF s \in Region /\ Col(s) \in over THEN A[Row(s)][c] ELSE 0]
RowOver(r, over)    == [s \in Slots |-> IF s \in Region /\ Row(s) \in over THEN B[r][Col(s)] ELSE 0]

\* Where the loop of a broadcast has put its part.
Passed == {x \in Index : x < next \/ x = k}

\* What a call has done where it stands.
PhaseInv ==
  /\ pc \notin {"construct", "failed"} => Fits
  /\ pc = "failed" => ~ Fits
  /\ pc = "or" => op = "or_mat"
  /\ pc \in {"column", "spread_column", "spread_row", "reduce"} => op = "matmul"

\* The terms done, before they are reduced.
TermsInv ==
  pc \in {"column", "spread_column", "spread_row"} =>
    k < N /\ Len(terms) = k /\ \A m \in 1 .. k : terms[m] = Term(m - 1)

\* A broadcast: the masked operand, and its sum over the columns (rows) that
\* the loop has passed.
SpreadInv ==
  /\ pc = "spread_column" =>
       /\ masked = ColumnOver(k, {k})
       /\ acc = ColumnOver(k, Passed)
  /\ pc = "spread_row" =>
       /\ masked = RowOver(k, {k})
       /\ acc = RowOver(k, Passed)
       /\ column = ColumnOver(k, Index)

\* The levels of the tree keep the OR of the terms.
ReduceInv ==
  pc = "reduce" =>
    /\ Len(terms) >= 1
    /\ \A s \in Slots : (\E i \in 1 .. Len(terms) : terms[i][s] = 1)
                          <=> \E m \in Index : Term(m)[s] = 1

ResultInv ==
  pc = "done" => result = PackMatrix(IF op = "matmul" THEN Product(A, B) ELSE Union(A, B))

\* The first term is still to come.
StartInv == pc = "construct" => k = 0 /\ terms = << >>

BatchedInv == TypeOK /\ StartInv /\ PhaseInv /\ TermsInv /\ SpreadInv /\ ReduceInv /\ ResultInv

------------------------------------------------------------------------------
(* Slots.                                                                  *)

\* Integer division.
LEMMA DivMod ==
  ASSUME NEW n \in Int, NEW d \in Nat \ {0}
  PROVE  /\ n \div d \in Int /\ n % d \in 0 .. d - 1
         /\ n = (n \div d) * d + (n % d)
  OBVIOUS

\* A number has one quotient and one remainder.
LEMMA DivModUnique ==
  ASSUME NEW d \in Nat \ {0}, NEW q \in Int, NEW r \in 0 .. d - 1
  PROVE  (q * d + r) \div d = q /\ (q * d + r) % d = r
<1> DEFINE n == q * d + r
           p == n \div d
           m == n % d
<1>1. n \in Int
  OBVIOUS
<1>2. p \in Int /\ m \in 0 .. d - 1 /\ n = p * d + m
  <2> HIDE DEF n
  <2> QED BY <1>1, DivMod
<1>3. q * d + r = p * d + m
  BY <1>2
<1> HIDE DEF n, p, m
<1>4. CASE p < q
  <2>1. (p + 1) * d =< q * d
    BY <1>2, <1>4
  <2>2. (p + 1) * d = p * d + d
    BY <1>2
  <2> QED BY <1>2, <1>3, <2>1, <2>2
<1>5. CASE q < p
  <2>1. (q + 1) * d =< p * d
    BY <1>2, <1>5
  <2>2. (q + 1) * d = q * d + d
    BY <1>2
  <2> QED BY <1>2, <1>3, <2>1, <2>2
<1>6. CASE p = q
  BY <1>2, <1>3, <1>6 DEF n, p, m
<1> QED BY <1>2, <1>4, <1>5, <1>6

\* The slot of an entry, and the entry of a slot.
LEMMA Packing ==
  /\ \A s \in Region : Row(s) \in Index /\ Col(s) \in Index /\ s = Row(s) * N + Col(s) /\ s \in Int
  /\ \A r, c \in Index : /\ r * N + c \in Region
                         /\ Row(r * N + c) = r /\ Col(r * N + c) = c
<1>0. N \in Nat \ {0}
  BY BatchedAssumption
<1>1. ASSUME NEW s \in Region
      PROVE  Row(s) \in Index /\ Col(s) \in Index /\ s = Row(s) * N + Col(s) /\ s \in Int
  <2> DEFINE q == Row(s)
             m == Col(s)
  <2>1. s \in Int /\ 0 =< s /\ s < N * N
    <3>1. N * N \in Int
      BY <1>0
    <3> QED BY <3>1 DEF Region
  <2>2. q \in Int /\ m \in 0 .. N - 1 /\ s = q * N + m
    BY <1>0, <2>1, DivMod DEF Row, Col
  <2> HIDE DEF q, m
  <2>3. q < N
    <3> SUFFICES ASSUME N =< q PROVE FALSE
      BY <1>0, <2>2
    <3>1. N * N =< q * N
      BY <1>0, <2>2
    <3> QED BY <1>0, <2>1, <2>2, <3>1
  <2>4. 0 =< q
    <3> SUFFICES ASSUME q + 1 =< 0 PROVE FALSE
      BY <1>0, <2>2
    <3>1. (q + 1) * N =< 0 /\ (q + 1) * N = q * N + N
      BY <1>0, <2>2
    <3> QED BY <1>0, <2>1, <2>2, <3>1
  <2> QED BY <1>0, <2>1, <2>2, <2>3, <2>4 DEF q, m, Index
<1>2. ASSUME NEW r \in Index, NEW c \in Index
      PROVE  /\ r * N + c \in Region
             /\ Row(r * N + c) = r /\ Col(r * N + c) = c
  <2>1. r \in Int /\ c \in 0 .. N - 1 /\ 0 =< r /\ r + 1 =< N
    BY <1>0 DEF Index
  <2>2. Row(r * N + c) = r /\ Col(r * N + c) = c
    BY <1>0, <2>1, DivModUnique DEF Row, Col
  <2>3. (r + 1) * N =< N * N /\ (r + 1) * N = r * N + N /\ 0 =< r * N
    BY <1>0, <2>1
  <2> QED BY <1>0, <2>1, <2>2, <2>3 DEF Region
<1> QED BY <1>1, <1>2

\* EvalRotate is a plain shift of what does not go round the end.
LEMMA RotationShifts ==
  ASSUME slots \in Nat \ {0}, NEW u \in Vectors, NEW d \in Int, - slots < d, d < slots,
         \A x \in Slots : u[x] # 0 => x - d \in Slots,
         NEW s \in Slots
  PROVE  rotateToOffset(u, d)[s] = IF s + d \in Slots THEN u[s + d] ELSE 0
<1> DEFINE x == (s + d) % slots
<1>1. s \in Int /\ 0 =< s /\ s < slots
  BY DEF Slots
<1>2. rotateToOffset(u, d)[s] = u[x]
  BY DEF rotateToOffset
<1>3. x \in Slots /\ (s + d) \div slots \in Int /\ s + d = ((s + d) \div slots) * slots + x
  <2> DEFINE n == s + d
  <2>1. n \in Int
    BY <1>1
  <2> HIDE DEF n
  <2>2. n \div slots \in Int /\ n % slots \in 0 .. slots - 1 /\ n = (n \div slots) * slots + (n % slots)
    BY <2>1, DivMod
  <2> QED BY <2>2 DEF n, Slots
<1>4. CASE s + d \in Slots
  <2> DEFINE n == s + d
  <2>1. n \in 0 .. slots - 1
    BY <1>4 DEF Slots
  <2>2. x = n % slots
    OBVIOUS
  <2> HIDE DEF n, x
  <2>3. (0 * slots + n) % slots = n /\ 0 * slots + n = n
    BY <2>1, DivModUnique
  <2>4. x = s + d
    BY <2>2, <2>3 DEF n
  <2> QED BY <1>2, <1>4, <2>4
<1>5. CASE s + d \notin Slots
  <2>1. s + d < 0 \/ s + d >= slots
    BY <1>1, <1>5 DEF Slots
  <2> DEFINE q == (s + d) \div slots
  <2>2. x \in Int /\ 0 =< x /\ x < slots /\ q \in Int /\ s + d = q * slots + x
    BY <1>3 DEF Slots
  <2> HIDE DEF q, x
  <2>3. q # 0
    BY <1>1, <2>1, <2>2
  <2>4. x - d = s - q * slots
    BY <1>1, <2>2
  <2>5. q >= 1 => q * slots >= slots
    BY <2>2
  <2>6. q =< -1 => q * slots =< - slots
    BY <2>2
  <2>7. x - d \notin Slots
    BY <1>1, <2>2, <2>3, <2>4, <2>5, <2>6 DEF Slots
  <2>8. u[x] = 0
    BY <1>3, <2>7
  <2> QED BY <1>2, <1>5, <2>8
<1> QED BY <1>4, <1>5

------------------------------------------------------------------------------
(* Broadcasts.                                                             *)

\* What the type invariant and a fitting matrix give.
LEMMA Basics ==
  ASSUME TypeOK
  PROVE  /\ N \in Nat \ {0} /\ slots \in Nat \ {0}
         /\ A \in Matrices /\ B \in Matrices
         /\ \A r, c \in Index : A[r][c] \in Bits /\ B[r][c] \in Bits
         /\ Fits => Region \subseteq Slots
<1>1. N \in Nat \ {0} /\ slots \in Nat \ {0} /\ A \in Matrices /\ B \in Matrices
  BY BatchedAssumption DEF TypeOK
<1>2. N * N \in Int
  BY <1>1
<1> QED BY <1>1, <1>2 DEF Matrices, Fits, Region, Slots

\* The masked operands and their broadcasts are bit vectors.
LEMMA OversAreVectors ==
  ASSUME TypeOK, NEW i \in Index, NEW over
  PROVE  /\ ColumnOver(i, over) \in Vectors /\ RowOver(i, over) \in Vectors
         /\ Term(i) \in Vectors
<1>1. \A s \in Region : Row(s) \in Index /\ Col(s) \in Index
  BY Packing
<1>2. /\ \A r, c \in Index : A[r][c] \in Bits /\ B[r][c] \in Bits
      /\ 0 \in Bits /\ 1 \in Bits
  BY Basics DEF Bits
<1>3. ColumnOver(i, over) \in Vectors
  BY <1>1, <1>2 DEF ColumnOver, Vectors
<1>4. RowOver(i, over) \in Vectors
  BY <1>1, <1>2 DEF RowOver, Vectors
<1>5. Term(i) \in Vectors
  BY <1>1, <1>2 DEF Term, Vectors
<1> QED BY <1>3, <1>4, <1>5

\* Masking leaves one column, or one row.
LEMMA MasksLeaveOne ==
  ASSUME TypeOK, NEW i \in Index
  PROVE  /\ mask_mult(PackMatrix(A), ColumnMask(i)) = ColumnOver(i, {i})
         /\ mask_mult(PackMatrix(B), RowMask(i)) = RowOver(i, {i})
<1>1. ASSUME NEW s \in Slots
      PROVE  /\ mask_mult(PackMatrix(A), ColumnMask(i))[s] = ColumnOver(i, {i})[s]
             /\ mask_mult(PackMatrix(B), RowMask(i))[s] = RowOver(i, {i})[s]
  BY DEF mask_mult, PackMatrix, ColumnMask, RowMask, ColumnOver, RowOver
<1>2. /\ mask_mult(PackMatrix(A), ColumnMask(i)) = [s \in Slots |-> ColumnOver(i, {i})[s]]
      /\ mask_mult(PackMatrix(B), RowMask(i)) = [s \in Slots |-> RowOver(i, {i})[s]]
  BY <1>1 DEF mask_mult
<1> QED BY <1>2 DEF ColumnOver, RowOver

\* A rotation by less than a row moves a column, and only that.
LEMMA ColumnRotates ==
  ASSUME TypeOK, Fits, NEW i \in Index, NEW j \in Index
  PROVE  rotateToOffset(ColumnOver(i, {i}), i - j)
           = [s \in Slots |-> IF s \in Region /\ Col(s) = j THEN A[Row(s)][i] ELSE 0]
<1> DEFINE u == ColumnOver(i, {i})
           d == i - j
<1>0. N \in Nat \ {0} /\ slots \in Nat \ {0} /\ Region \subseteq Slots /\ N =< slots
  <2>1. N =< N * N /\ N * N =< slots
    BY Basics DEF Fits
  <2> QED BY <2>1, Basics
<1>1. d \in Int /\ - slots < d /\ d < slots /\ u \in Vectors
  BY <1>0, OversAreVectors DEF Index
<1>2. ASSUME NEW x \in Slots, u[x] # 0
      PROVE  x - d \in Region /\ Row(x - d) = Row(x) /\ Col(x - d) = j
  <2>1. x \in Region /\ Col(x) = i
    BY <1>2 DEF ColumnOver
  <2>2. x = Row(x) * N + i /\ Row(x) \in Index /\ x \in Int
    BY <2>1, Packing
  <2>3. x - d = Row(x) * N + j
    BY <1>0, <2>2 DEF Index
  <2> QED BY <2>2, <2>3, Packing
<1>3. ASSUME NEW s \in Region, Col(s) = j
      PROVE  s + d \in Region /\ Row(s + d) = Row(s) /\ Col(s + d) = i
  <2>1. s = Row(s) * N + j /\ Row(s) \in Index /\ s \in Int
    BY <1>3, Packing
  <2>2. s + d = Row(s) * N + i
    BY <1>0, <2>1 DEF Index
  <2> QED BY <2>1, <2>2, Packing
<1>4. ASSUME NEW s \in Slots
      PROVE  rotateToOffset(u, d)[s] = IF s \in Region /\ Col(s) = j THEN A[Row(s)][i] ELSE 0
  <2>1. rotateToOffset(u, d)[s] = IF s + d \in Slots THEN u[s + d] ELSE 0
    BY <1>0, <1>1, <1>2, RotationShifts
  <2>2. CASE s \in Region /\ Col(s) = j
    <3>1. s + d \in Region /\ Row(s + d) = Row(s) /\ Col(s + d) = i /\ s + d \in Slots
      BY <1>0, <1>3, <2>2
    <3>2. u[s + d] = A[Row(s)][i]
      BY <3>1 DEF ColumnOver
    <3> QED BY <2>1, <2>2, <3>1, <3>2
  <2>3. CASE ~ (s \in Region /\ Col(s) = j)
    <3>1. s + d \in Slots => u[s + d] = 0
      <4> SUFFICES ASSUME s + d \in Slots, u[s + d] # 0 PROVE FALSE
        OBVIOUS
      <4>1. (s + d) - d \in Region /\ Col((s + d) - d) = j
        BY <1>2
      <4>2. (s + d) - d = s
        BY <1>0, <1>1 DEF Slots
      <4> HIDE DEF d
      <4> QED BY <2>3, <4>1, <4>2
    <3> QED BY <2>1, <2>3, <3>1
  <2> QED BY <2>2, <2>3
<1>5. rotateToOffset(u, d) = [s \in Slots |-> rotateToOffset(u, d)[s]]
  BY DEF rotateToOffset
<1> QED BY <1>4, <1>5

\* A rotation by whole rows moves a row.
LEMMA RowRotates ==
  ASSUME TypeOK, Fits, NEW i \in Index, NEW j \in Index
  PROVE  rotateToOffset(RowOver(i, {i}), (i - j) * N)
           = [s \in Slots |-> IF s \in Region /\ Row(s) = j THEN B[i][Col(s)] ELSE 0]
<1> DEFINE u == RowOver(i, {i})
           d == (i - j) * N
<1>0. /\ N \in Nat \ {0} /\ slots \in Nat \ {0} /\ Region \subseteq Slots /\ N * N =< slots
      /\ i \in 0 .. N - 1 /\ j \in 0 .. N - 1
  BY Basics DEF Fits, Index
<1>1. d \in Int /\ - slots < d /\ d < slots /\ u \in Vectors /\ d = i * N - j * N
  <2>1. i * N \in Nat /\ j * N \in Nat /\ d = i * N - j * N
    BY <1>0
  <2>2. (i + 1) * N =< N * N /\ (i + 1) * N = i * N + N
    BY <1>0
  <2>3. (j + 1) * N =< N * N /\ (j + 1) * N = j * N + N
    BY <1>0
  <2>4. u \in Vectors
    BY OversAreVectors
  <2> HIDE DEF d, u
  <2> QED BY <1>0, <2>1, <2>2, <2>3, <2>4
<1>2. ASSUME NEW x \in Slots, u[x] # 0
      PROVE  x - d \in Region /\ Col(x - d) = Col(x) /\ Row(x - d) = j
  <2>1. x \in Region /\ Row(x) = i
    BY <1>2 DEF RowOver
  <2>2. x = i * N + Col(x) /\ Col(x) \in Index /\ x \in Int /\ Col(x) \in Int
    BY <1>0, <2>1, Packing DEF Index
  <2>3. x - d = j * N + Col(x)
    <3> HIDE DEF d
    <3> QED BY <1>0, <1>1, <2>2
  <2> QED BY <2>2, <2>3, Packing
<1>3. ASSUME NEW s \in Region, Row(s) = j
      PROVE  s + d \in Region /\ Col(s + d) = Col(s) /\ Row(s + d) = i
  <2>1. s = j * N + Col(s) /\ Col(s) \in Index /\ s \in Int /\ Col(s) \in Int
    BY <1>0, <1>3, Packing DEF Index
  <2>2. s + d = i * N + Col(s)
    <3> HIDE DEF d
    <3> QED BY <1>0, <1>1, <2>1
  <2> QED BY <2>1, <2>2, Packing
<1>4. ASSUME NEW s \in Slots
      PROVE  rotateToOffset(u, d)[s] = IF s \in Region /\ Row(s) = j THEN B[i][Col(s)] ELSE 0
  <2>1. rotateToOffset(u, d)[s] = IF s + d \in Slots THEN u[s + d] ELSE 0
    <3>1. \A x \in Slots : u[x] # 0 => x - d \in Slots
      BY <1>0, <1>2
    <3> HIDE DEF u, d
    <3> QED BY <1>0, <1>1, <3>1, RotationShifts
  <2>2. CASE s \in Region /\ Row(s) = j
    <3>1. s + d \in Region /\ Col(s + d) = Col(s) /\ Row(s + d) = i /\ s + d \in Slots
      BY <1>0, <1>3, <2>2
    <3>2. u[s + d] = B[i][Col(s)]
      BY <3>1 DEF RowOver
    <3> QED BY <2>1, <2>2, <3>1, <3>2
  <2>3. CASE ~ (s \in Region /\ Row(s) = j)
    <3>1. s + d \in Slots => u[s + d] = 0
      <4> SUFFICES ASSUME s + d \in Slots, u[s + d] # 0 PROVE FALSE
        OBVIOUS
      <4>1. (s + d) - d \in Region /\ Row((s + d) - d) = j
        BY <1>2
      <4>2. s \in Int
        BY <1>0 DEF Slots
      <4>3. (s + d) - d = s
        <5> HIDE DEF d
        <5> QED BY <1>1, <4>2
      <4> HIDE DEF d
      <4> QED BY <2>3, <4>1, <4>3
    <3> QED BY <2>1, <2>3, <3>1
  <2> QED BY <2>2, <2>3
<1>5. rotateToOffset(u, d) = [s \in Slots |-> rotateToOffset(u, d)[s]]
  BY DEF rotateToOffset
<1> QED BY <1>4, <1>5

\* One iteration of a broadcast puts the part where the loop has got to,
\* unless it is there from the start.
LEMMA SpreadAdds ==
  ASSUME TypeOK, Fits, k \in Index, next \in Index, next # k
  PROVE  LET more == {x \in Index : x < next + 1 \/ x = k}
         IN  /\ add(ColumnOver(k, Passed), rotateToOffset(ColumnOver(k, {k}), k - next))
                  = ColumnOver(k, more)
             /\ add(RowOver(k, Passed), rotateToOffset(RowOver(k, {k}), (k - next) * N))
                  = RowOver(k, more)
<1> DEFINE more == {x \in Index : x < next + 1 \/ x = k}
           cols == [s \in Slots |-> IF s \in Region /\ Col(s) = next THEN A[Row(s)][k] ELSE 0]
           rows == [s \in Slots |-> IF s \in Region /\ Row(s) = next THEN B[k][Col(s)] ELSE 0]
<1>1. /\ rotateToOffset(ColumnOver(k, {k}), k - next) = cols
      /\ rotateToOffset(RowOver(k, {k}), (k - next) * N) = rows
  BY ColumnRotates, RowRotates
<1>2. \A x \in Index : /\ x \in more <=> x \in Passed \/ x = next
                       /\ x = next => x \notin Passed
  BY Basics DEF Index, Passed
<1>3. \A s \in Region : Row(s) \in Index /\ Col(s) \in Index
  BY Packing
<1>4. \A s \in Region : A[Row(s)][k] \in {0, 1} /\ B[k][Col(s)] \in {0, 1}
  BY <1>3, Basics DEF Bits
<1> HIDE DEF more
<1>5. ASSUME NEW s \in Slots
      PROVE  /\ ColumnOver(k, Passed)[s] + cols[s] = ColumnOver(k, more)[s]
             /\ RowOver(k, Passed)[s] + rows[s] = RowOver(k, more)[s]
  <2>1. CASE s \notin Region
    BY <2>1 DEF ColumnOver, RowOver
  <2>2. CASE s \in Region
    BY <1>2, <1>3, <1>4, <2>2 DEF ColumnOver, RowOver
  <2> QED BY <2>1, <2>2
<1>6. /\ add(ColumnOver(k, Passed), cols) = [s \in Slots |-> ColumnOver(k, more)[s]]
      /\ add(RowOver(k, Passed), rows) = [s \in Slots |-> RowOver(k, more)[s]]
  <2> HIDE DEF cols, rows
  <2> QED BY <1>5 DEF add
<1>7. /\ add(ColumnOver(k, Passed), cols) = ColumnOver(k, more)
      /\ add(RowOver(k, Passed), rows) = RowOver(k, more)
  BY <1>6 DEF ColumnOver, RowOver
<1> QED BY <1>1, <1>7 DEF more

\* A broadcast has a key for each of its rotations.
LEMMA KeysMade ==
  ASSUME k \in Index, next \in Index, next # k
  PROVE  k - next \in GenerateRequiredRotationKeys /\ (k - next) * N \in GenerateRequiredRotationKeys
<1>1. N \in Nat \ {0} /\ k \in Nat /\ next \in Nat /\ k < N /\ next < N
  BY BatchedAssumption DEF Index
<1>2. CASE next < k
  <2>1. k - next \in 1 .. N - 1
    BY <1>1, <1>2
  <2> QED BY <2>1 DEF GenerateRequiredRotationKeys
<1>3. CASE k < next
  <2> DEFINE d == next - k
  <2>1. d \in 1 .. N - 1 /\ k - next = - d /\ (k - next) * N = - d * N
    BY <1>1, <1>3
  <2> HIDE DEF d
  <2> QED BY <2>1 DEF GenerateRequiredRotationKeys
<1> QED BY <1>1, <1>2, <1>3

\* The end of a broadcast: the part is everywhere, and nothing is left to mask.
LEMMA SpreadEnds ==
  ASSUME TypeOK, k \in Index, next = N
  PROVE  /\ mask_mult(ColumnOver(k, Passed), Region) = ColumnOver(k, Index)
         /\ mask_mult(RowOver(k, Passed), Region) = RowOver(k, Index)
<1>1. Passed = Index
  BY Basics DEF Passed, Index
<1>2. ASSUME NEW s \in Slots
      PROVE  /\ mask_mult(ColumnOver(k, Index), Region)[s] = ColumnOver(k, Index)[s]
             /\ mask_mult(RowOver(k, Index), Region)[s] = RowOver(k, Index)[s]
  BY DEF mask_mult, ColumnOver, RowOver
<1>3. /\ mask_mult(ColumnOver(k, Index), Region) = [s \in Slots |-> ColumnOver(k, Index)[s]]
      /\ mask_mult(RowOver(k, Index), Region) = [s \in Slots |-> RowOver(k, Index)[s]]
  BY <1>2 DEF mask_mult
<1> QED BY <1>1, <1>3 DEF ColumnOver, RowOver

\* The AND of the two broadcasts is a term of the product.
LEMMA AndIsTerm ==
  ASSUME TypeOK, k \in Index
  PROVE  encrypted_and(ColumnOver(k, Index), RowOver(k, Index)) = Term(k)
<1>1. \A s \in Region : Row(s) \in Index /\ Col(s) \in Index
  BY Packing
<1>2. ASSUME NEW s \in Slots
      PROVE  ColumnOver(k, Index)[s] * RowOver(k, Index)[s] = Term(k)[s]
  <2>1. CASE s \notin Region
    BY <2>1 DEF ColumnOver, RowOver, Term
  <2>2. CASE s \in Region
    <3>1. /\ ColumnOver(k, Index)[s] = A[Row(s)][k]
          /\ RowOver(k, Index)[s] = B[k][Col(s)]
          /\ Term(k)[s] = IF A[Row(s)][k] = 1 /\ B[k][Col(s)] = 1 THEN 1 ELSE 0
      BY <1>1, <2>2 DEF ColumnOver, RowOver, Term
    <3>2. /\ A[Row(s)][k] = 0 \/ A[Row(s)][k] = 1
          /\ B[k][Col(s)] = 0 \/ B[k][Col(s)] = 1
      BY <1>1, <2>2, Basics DEF Bits
    <3> QED BY <3>1, <3>2
  <2> QED BY <2>1, <2>2
<1>3. encrypted_and(ColumnOver(k, Index), RowOver(k, Index)) = [s \in Slots |-> Term(k)[s]]
  BY <1>2 DEF encrypted_and
<1> QED BY <1>3 DEF Term

\* encrypted_or is the OR of bits.
LEMMA OrOfVectors ==
  ASSUME NEW u \in Vectors, NEW v \in Vectors
  PROVE  /\ encrypted_or(u, v) \in Vectors
         /\ \A s \in Slots : encrypted_or(u, v)[s] = 1 <=> u[s] = 1 \/ v[s] = 1
<1>1. ASSUME NEW s \in Slots
      PROVE  /\ (u[s] + v[s]) - u[s] * v[s] \in Bits
             /\ (u[s] + v[s]) - u[s] * v[s] = 1 <=> u[s] = 1 \/ v[s] = 1
  <2>1. (u[s] = 0 \/ u[s] = 1) /\ (v[s] = 0 \/ v[s] = 1)
    BY DEF Vectors, Bits
  <2> QED BY <2>1 DEF Bits
<1> QED BY <1>1 DEF encrypted_or, Vectors

\* The entries of the product are the OR of its terms.
LEMMA TermsAreProduct ==
  ASSUME TypeOK, NEW v \in Vectors,
         \A s \in Slots : v[s] = 1 <=> \E m \in Index : Term(m)[s] = 1
  PROVE  v = PackMatrix(Product(A, B))
<1>1. \A s \in Region : Row(s) \in Index /\ Col(s) \in Index
  BY Packing
<1>2. ASSUME NEW s \in Slots PROVE v[s] = PackMatrix(Product(A, B))[s]
  <2>1. v[s] = 0 \/ v[s] = 1
    BY DEF Vectors, Bits
  <2>2. \A m : Term(m)[s] = 1 <=> s \in Region /\ A[Row(s)][m] = 1 /\ B[m][Col(s)] = 1
    BY DEF Term
  <2>3. PackMatrix(Product(A, B))[s] = IF s \in Region THEN Product(A, B)[Row(s)][Col(s)] ELSE 0
    BY DEF PackMatrix
  <2>4. CASE s \notin Region
    BY <2>1, <2>2, <2>3, <2>4
  <2>5. CASE s \in Region
    <3>1. Product(A, B)[Row(s)][Col(s)]
            = IF \E m \in Index : A[Row(s)][m] = 1 /\ B[m][Col(s)] = 1 THEN 1 ELSE 0
      BY <1>1, <2>5 DEF Product
    <3> QED BY <2>1, <2>2, <2>3, <2>5, <3>1
  <2> QED BY <2>4, <2>5
<1> QED BY <1>2 DEF PackMatrix, Vectors

\* or_mat in one step.
LEMMA OrIsUnion ==
  ASSUME TypeOK
  PROVE  /\ encrypted_or(PackMatrix(A), PackMatrix(B)) = PackMatrix(Union(A, B))
         /\ encrypted_or(PackMatrix(A), PackMatrix(B)) \in Vectors
<1>1. \A s \in Region : Row(s) \in Index /\ Col(s) \in Index
  BY Packing
<1>2. /\ \A s \in Region : A[Row(s)][Col(s)] \in Bits /\ B[Row(s)][Col(s)] \in Bits
      /\ 0 \in Bits
  BY <1>1, Basics DEF Bits
<1>3. PackMatrix(A) \in Vectors /\ PackMatrix(B) \in Vectors
  BY <1>2 DEF PackMatrix, Vectors
<1>4. ASSUME NEW s \in Slots
      PROVE  encrypted_or(PackMatrix(A), PackMatrix(B))[s] = PackMatrix(Union(A, B))[s]
  <2>1. /\ encrypted_or(PackMatrix(A), PackMatrix(B))[s] \in {0, 1}
        /\ encrypted_or(PackMatrix(A), PackMatrix(B))[s] = 1
             <=> PackMatrix(A)[s] = 1 \/ PackMatrix(B)[s] = 1
    BY <1>3, OrOfVectors DEF Vectors, Bits
  <2>2. CASE s \notin Region
    BY <2>1, <2>2 DEF PackMatrix
  <2>3. CASE s \in Region
    <3>1. /\ PackMatrix(A)[s] = A[Row(s)][Col(s)] /\ PackMatrix(B)[s] = B[Row(s)][Col(s)]
          /\ PackMatrix(Union(A, B))[s] = Union(A, B)[Row(s)][Col(s)]
      BY <2>3 DEF PackMatrix
    <3>2. Union(A, B)[Row(s)][Col(s)]
            = IF A[Row(s)][Col(s)] = 1 \/ B[Row(s)][Col(s)] = 1 THEN 1 ELSE 0
      BY <1>1, <2>3 DEF Union
    <3> QED BY <2>1, <3>1, <3>2
  <2> QED BY <2>2, <2>3
<1>5. encrypted_or(PackMatrix(A), PackMatrix(B)) \in Vectors
  BY <1>3, OrOfVectors
<1> QED BY <1>4, <1>5 DEF encrypted_or, PackMatrix

------------------------------------------------------------------------------
(* Steps.                                                                  *)

\* No step touches the operands or the size of the ciphertexts.
LEMMA OperandsStay ==
  ASSUME slots' = slots, A' = A, B' = B
  PROVE  /\ Slots' = Slots /\ Vectors' = Vectors /\ Fits' <=> Fits
         /\ \A m : Term(m)' = Term(m)
         /\ \A i, over : ColumnOver(i, over)' = ColumnOver(i, over) /\ RowOver(i, over)' = RowOver(i, over)
BY DEF Slots, Vectors, Fits, Term, ColumnOver, RowOver

\* The invariant holds before the constructor has run.
LEMMA InitBatchedInv == Init => BatchedInv
<1> SUFFICES ASSUME Init PROVE BatchedInv
  OBVIOUS
<1>1. N \in Nat \ {0}
  BY BatchedAssumption
<1>2. Blank \in Vectors
  BY DEF Blank, Vectors, Bits
<1>3. TypeOK
  BY <1>1, <1>2 DEF Init, TypeOK
<1>4. StartInv /\ PhaseInv /\ TermsInv /\ SpreadInv /\ ReduceInv /\ ResultInv
  BY DEF Init, StartInv, PhaseInv, TermsInv, SpreadInv, ReduceInv, ResultInv
<1> QED BY <1>3, <1>4 DEF BatchedInv

\* The constructor lets only a matrix that fits through.
LEMMA ConstructKeeps == BatchedInv /\ Construct => BatchedInv'
<1> SUFFICES ASSUME BatchedInv, Construct PROVE BatchedInv'
  OBVIOUS
<1>1. /\ TypeOK
      /\ pc' = IF N * N > slots THEN "failed" ELSE IF op = "matmul" THEN "column" ELSE "or"
      /\ UNCHANGED <<slots, op, A, B, k, next, masked, acc, column, terms, result>>
  BY DEF Construct, BatchedInv
<1>2. N \in Nat \ {0} /\ N * N \in Nat /\ slots \in Nat
  BY <1>1, Basics
<1>3. PhaseInv'
  BY <1>1, <1>2 DEF PhaseInv, Fits, TypeOK
<1>4. TypeOK'
  <2>1. pc' \in {"failed", "column", "or"}
    BY <1>1
  <2>2. slots' = slots
    BY <1>1
  <2>3. Vectors' = Vectors
    BY <2>2 DEF Vectors, Slots
  <2> QED BY <1>1, <2>1, <2>3 DEF TypeOK
<1>5. pc = "construct" /\ k = 0 /\ terms = << >>
  BY DEF Construct, BatchedInv, StartInv
<1>6. TermsInv'
  BY <1>1, <1>2, <1>5 DEF TermsInv
<1>7. SpreadInv' /\ ReduceInv' /\ ResultInv' /\ StartInv'
  BY <1>1 DEF SpreadInv, ReduceInv, ResultInv, StartInv
<1> QED BY <1>3, <1>4, <1>6, <1>7 DEF BatchedInv

\* or_mat leaves the packed union.
LEMMA OrMatKeeps == BatchedInv /\ OrMat => BatchedInv'
<1> SUFFICES ASSUME BatchedInv, OrMat PROVE BatchedInv'
  OBVIOUS
<1>1. /\ TypeOK /\ Fits /\ op = "or_mat" /\ pc' = "done"
      /\ result' = encrypted_or(PackMatrix(A), PackMatrix(B))
      /\ UNCHANGED <<slots, op, A, B, k, next, masked, acc, column, terms>>
  BY DEF OrMat, BatchedInv, PhaseInv
<1>2. result' = PackMatrix(Union(A, B)) /\ result' \in Vectors
  BY <1>1, OrIsUnion
<1>3. TypeOK'
  BY <1>1, <1>2, OperandsStay DEF TypeOK
<1>4. PhaseInv' /\ TermsInv' /\ SpreadInv' /\ ReduceInv' /\ StartInv'
  BY <1>1 DEF PhaseInv, Fits, TermsInv, SpreadInv, ReduceInv, StartInv
<1>5. ResultInv'
  <2>1. op' = "or_mat" /\ A' = A /\ B' = B /\ slots' = slots
    BY <1>1
  <2>2. Union(A, B)' = Union(A, B)
    BY <2>1 DEF Union
  <2>3. \A M : PackMatrix(M)' = PackMatrix(M)
    BY <2>1 DEF PackMatrix, Slots
  <2>4. (IF op = "matmul" THEN Product(A, B) ELSE Union(A, B))' = Union(A, B)
    BY <2>1, <2>2
  <2> QED BY <1>2, <2>1, <2>2, <2>3, <2>4 DEF ResultInv
<1> QED BY <1>3, <1>4, <1>5 DEF BatchedInv

\* BroadcastColumnHorizontally begins with the column where it is.
LEMMA MaskColumnKeeps == BatchedInv /\ MaskColumn => BatchedInv'
<1> SUFFICES ASSUME BatchedInv, MaskColumn PROVE BatchedInv'
  OBVIOUS
<1>1. /\ TypeOK /\ Fits /\ op = "matmul" /\ pc = "column" /\ pc' = "spread_column" /\ next' = 0
      /\ masked' = mask_mult(PackMatrix(A), ColumnMask(k)) /\ acc' = masked'
      /\ k < N /\ Len(terms) = k /\ \A m \in 1 .. k : terms[m] = Term(m - 1)
      /\ UNCHANGED <<slots, op, A, B, k, column, terms, result>>
  BY DEF MaskColumn, BeginSpread, BatchedInv, PhaseInv, TermsInv
<1>2. k \in Index /\ N \in Nat
  BY <1>1, Basics DEF TypeOK, Index
<1>3. masked' = ColumnOver(k, {k}) /\ masked' \in Vectors
  BY <1>1, <1>2, MasksLeaveOne, OversAreVectors
<1>4. TypeOK'
  BY <1>1, <1>2, <1>3, OperandsStay DEF TypeOK
<1>5. PhaseInv' /\ ReduceInv' /\ ResultInv' /\ StartInv'
  BY <1>1 DEF PhaseInv, Fits, ReduceInv, ResultInv, StartInv
<1>6. TermsInv'
  BY <1>1, OperandsStay DEF TermsInv
<1>7. SpreadInv'
  <2>1. Passed' = {k}
    BY <1>1, <1>2 DEF Passed, Index
  <2> QED BY <1>1, <1>3, <2>1, OperandsStay DEF SpreadInv
<1> QED BY <1>4, <1>5, <1>6, <1>7 DEF BatchedInv

\* An iteration of a broadcast whose offset is as it should be.
LEMMA SpreadGoesOn ==
  ASSUME BatchedInv, NEW offset, Spread(offset),
         \/ pc = "spread_column" /\ offset = k - next
         \/ pc = "spread_row" /\ offset = (k - next) * N
  PROVE  BatchedInv'
<1>1. /\ TypeOK /\ Fits /\ op = "matmul" /\ next < N
      /\ pc = "spread_column" \/ pc = "spread_row"
      /\ k < N /\ Len(terms) = k /\ \A m \in 1 .. k : terms[m] = Term(m - 1)
      /\ UNCHANGED <<slots, op, A, B, k, masked, column, terms, result>>
  BY DEF Spread, BatchedInv, PhaseInv, TermsInv
<1>2. k \in Index /\ next \in Index /\ N \in Nat \ {0} /\ next \in Nat
  BY <1>1, Basics DEF TypeOK, Index
<1> DEFINE more == {x \in Index : x < next + 1 \/ x = k}
<1>3. /\ next' = next + 1 /\ pc' = pc
      /\ next = k => acc' = acc
      /\ next # k => acc' = add(acc, rotateToOffset(masked, offset))
  <2>1. next # k => offset \in GenerateRequiredRotationKeys
    BY <1>2, KeysMade
  <2> QED BY <2>1 DEF Spread
<1>4. Passed' = more /\ (next = k => Passed = more)
  BY <1>1, <1>2, <1>3 DEF Passed, Index
<1>5. ASSUME pc = "spread_column"
      PROVE  acc' = ColumnOver(k, more)
  <2>1. acc = ColumnOver(k, Passed) /\ masked = ColumnOver(k, {k}) /\ offset = k - next
    BY <1>5 DEF BatchedInv, SpreadInv
  <2> QED BY <1>1, <1>2, <1>3, <1>4, <2>1, SpreadAdds
<1>6. ASSUME pc = "spread_row"
      PROVE  acc' = RowOver(k, more)
  <2>1. acc = RowOver(k, Passed) /\ masked = RowOver(k, {k}) /\ offset = (k - next) * N
    BY <1>6 DEF BatchedInv, SpreadInv
  <2> QED BY <1>1, <1>2, <1>3, <1>4, <2>1, SpreadAdds
<1> HIDE DEF more
<1>7. acc' \in Vectors
  BY <1>1, <1>2, <1>5, <1>6, OversAreVectors
<1>8. TypeOK'
  BY <1>1, <1>2, <1>3, <1>7, OperandsStay DEF TypeOK
<1>9. PhaseInv' /\ ReduceInv' /\ ResultInv' /\ StartInv'
  BY <1>1, <1>3 DEF PhaseInv, Fits, ReduceInv, ResultInv, StartInv
<1>10. TermsInv'
  BY <1>1, OperandsStay DEF TermsInv
<1>11. SpreadInv'
  <2>1. CASE pc = "spread_column"
    <3>1. masked = ColumnOver(k, {k})
      BY <2>1 DEF BatchedInv, SpreadInv
    <3> QED BY <1>1, <1>3, <1>4, <1>5, <2>1, <3>1, OperandsStay DEF SpreadInv
  <2>2. CASE pc = "spread_row"
    <3>1. masked = RowOver(k, {k}) /\ column = ColumnOver(k, Index)
      BY <2>2 DEF BatchedInv, SpreadInv
    <3> QED BY <1>1, <1>3, <1>4, <1>6, <2>2, <3>1, OperandsStay DEF SpreadInv
  <2> QED BY <1>1, <2>1, <2>2
<1> QED BY <1>8, <1>9, <1>10, <1>11 DEF BatchedInv

\* The iterations of both broadcasts keep the invariant.
LEMMA SpreadKeeps == BatchedInv /\ (SpreadColumn \/ SpreadRow) => BatchedInv'
<1> SUFFICES ASSUME BatchedInv, SpreadColumn \/ SpreadRow PROVE BatchedInv'
  OBVIOUS
<1>1. CASE SpreadColumn
  <2>1. pc = "spread_column" /\ Spread(k - next)
    BY <1>1 DEF SpreadColumn
  <2> QED BY <2>1, SpreadGoesOn
<1>2. CASE SpreadRow
  <2>1. pc = "spread_row" /\ Spread((k - next) * N)
    BY <1>2 DEF SpreadRow
  <2> QED BY <2>1, SpreadGoesOn
<1> QED BY <1>1, <1>2

\* The column is everywhere when BroadcastRowVertically begins.
LEMMA MaskRowKeeps == BatchedInv /\ MaskRow => BatchedInv'
<1> SUFFICES ASSUME BatchedInv, MaskRow PROVE BatchedInv'
  OBVIOUS
<1>1. /\ TypeOK /\ Fits /\ op = "matmul" /\ pc = "spread_column" /\ pc' = "spread_row"
      /\ next = N /\ next' = 0
      /\ column' = mask_mult(acc, Region) /\ acc = ColumnOver(k, Passed)
      /\ masked' = mask_mult(PackMatrix(B), RowMask(k)) /\ acc' = masked'
      /\ k < N /\ Len(terms) = k /\ \A m \in 1 .. k : terms[m] = Term(m - 1)
      /\ UNCHANGED <<slots, op, A, B, k, terms, result>>
  BY DEF MaskRow, BeginSpread, BatchedInv, PhaseInv, TermsInv, SpreadInv
<1>2. k \in Index /\ N \in Nat
  BY <1>1, Basics DEF TypeOK, Index
<1>3. /\ masked' = RowOver(k, {k}) /\ masked' \in Vectors
      /\ column' = ColumnOver(k, Index) /\ column' \in Vectors
  BY <1>1, <1>2, MasksLeaveOne, SpreadEnds, OversAreVectors
<1>4. TypeOK'
  BY <1>1, <1>2, <1>3, OperandsStay DEF TypeOK
<1>5. PhaseInv' /\ ReduceInv' /\ ResultInv' /\ StartInv'
  BY <1>1 DEF PhaseInv, Fits, ReduceInv, ResultInv, StartInv
<1>6. TermsInv'
  BY <1>1, OperandsStay DEF TermsInv
<1>7. SpreadInv'
  <2>1. Passed' = {k}
    BY <1>1, <1>2 DEF Passed, Index
  <2> QED BY <1>1, <1>3, <2>1, OperandsStay DEF SpreadInv
<1> QED BY <1>4, <1>5, <1>6, <1>7 DEF BatchedInv

\* The AND of a column and a row, both everywhere, is one more term.
LEMMA AndTermKeeps == BatchedInv /\ AndTerm => BatchedInv'
<1> SUFFICES ASSUME BatchedInv, AndTerm PROVE BatchedInv'
  OBVIOUS
<1>1. /\ TypeOK /\ Fits /\ op = "matmul" /\ next = N
      /\ terms' = Append(terms, encrypted_and(column, mask_mult(acc, Region)))
      /\ k' = k + 1 /\ pc' = IF k + 1 < N THEN "column" ELSE "reduce"
      /\ column = ColumnOver(k, Index) /\ acc = RowOver(k, Passed)
      /\ k < N /\ Len(terms) = k /\ \A m \in 1 .. k : terms[m] = Term(m - 1)
      /\ UNCHANGED <<slots, op, A, B, next, masked, acc, column, result>>
  BY DEF AndTerm, BatchedInv, PhaseInv, TermsInv, SpreadInv
<1>2. k \in Index /\ k \in Nat /\ N \in Nat /\ terms \in Seq(Vectors)
  BY <1>1, Basics DEF TypeOK, Index
<1>3. terms' = Append(terms, Term(k)) /\ Term(k) \in Vectors
  <2>1. mask_mult(acc, Region) = RowOver(k, Index)
    BY <1>1, <1>2, SpreadEnds
  <2> QED BY <1>1, <1>2, <2>1, AndIsTerm, OversAreVectors
<1>4. /\ terms' \in Seq(Vectors) /\ Len(terms') = k + 1
      /\ \A m \in 1 .. k : terms'[m] = terms[m]
      /\ terms'[k + 1] = Term(k)
  BY <1>1, <1>2, <1>3
<1>5. \A m \in 1 .. k + 1 : terms'[m] = Term(m - 1)
  <2> SUFFICES ASSUME NEW m \in 1 .. k + 1 PROVE terms'[m] = Term(m - 1)
    OBVIOUS
  <2>1. CASE m \in 1 .. k
    BY <1>1, <1>4, <2>1
  <2>2. CASE m = k + 1
    <3>1. m - 1 = k
      BY <1>2, <2>2
    <3> QED BY <1>4, <2>2, <3>1
  <2> QED BY <1>2, <2>1, <2>2
<1>6. TypeOK'
  BY <1>1, <1>2, <1>4, OperandsStay DEF TypeOK
<1>7. PhaseInv' /\ SpreadInv' /\ ResultInv' /\ StartInv'
  BY <1>1 DEF PhaseInv, Fits, SpreadInv, ResultInv, StartInv
<1>8. TermsInv'
  BY <1>1, <1>2, <1>4, <1>5, OperandsStay DEF TermsInv
<1>9. ReduceInv'
  <2> SUFFICES ASSUME k + 1 = N, NEW s \in Slots
               PROVE  (\E i \in 1 .. N : terms'[i][s] = 1) <=> \E m \in Index : Term(m)[s] = 1
    BY <1>1, <1>2, <1>4, OperandsStay DEF ReduceInv
  <2>1. ASSUME NEW i \in 1 .. N, terms'[i][s] = 1 PROVE \E m \in Index : Term(m)[s] = 1
    <3>1. i - 1 \in Index /\ i \in 1 .. k + 1
      BY <1>2 DEF Index
    <3>2. terms'[i] = Term(i - 1)
      BY <1>5, <3>1
    <3> QED BY <2>1, <3>1, <3>2
  <2>2. ASSUME NEW m \in Index, Term(m)[s] = 1 PROVE \E i \in 1 .. N : terms'[i][s] = 1
    <3> DEFINE i == m + 1
    <3>1. i \in 1 .. N /\ i - 1 = m
      BY <1>2 DEF Index
    <3> HIDE DEF i
    <3>2. terms'[i] = Term(m)
      BY <1>5, <3>1
    <3> QED BY <2>2, <3>1, <3>2
  <2> QED BY <2>1, <2>2
<1> QED BY <1>6, <1>7, <1>8, <1>9 DEF BatchedInv

\* A level of the tree loses no term, not an odd last one either.
LEMMA OrReduceTreeKeeps == BatchedInv /\ OrReduceTree => BatchedInv'
<1> SUFFICES ASSUME BatchedInv, OrReduceTree PROVE BatchedInv'
  OBVIOUS
<1> DEFINE n == Len(terms)
           h == (n + 1) \div 2
           at(i) == IF 2 * i <= n THEN encrypted_or(terms[2 * i - 1], terms[2 * i])
                                  ELSE terms[2 * i - 1]
<1>1. /\ TypeOK /\ Fits /\ op = "matmul" /\ pc = "reduce" /\ n > 1
      /\ terms' = [i \in 1 .. h |-> at(i)]
      /\ UNCHANGED <<slots, op, A, B, pc, k, next, masked, acc, column, result>>
  BY DEF OrReduceTree, BatchedInv, PhaseInv
<1>2. n \in Nat /\ n =< N /\ N \in Nat /\ \A i \in 1 .. n : terms[i] \in Vectors
  BY <1>1, Basics DEF TypeOK
<1> HIDE DEF n
<1>3. h \in Nat /\ 1 =< h /\ h =< n /\ n =< 2 * h /\ 2 * h =< n + 1
  BY <1>1, <1>2
<1> HIDE DEF h
<1>4. ASSUME NEW i \in 1 .. h
      PROVE  /\ at(i) \in Vectors /\ 2 * i - 1 \in 1 .. n
             /\ \A s \in Slots : at(i)[s] = 1 <=> \/ terms[2 * i - 1][s] = 1
                                                  \/ 2 * i <= n /\ terms[2 * i][s] = 1
  <2>1. 2 * i - 1 \in 1 .. n /\ (2 * i <= n => 2 * i \in 1 .. n)
    BY <1>2, <1>3
  <2>2. terms[2 * i - 1] \in Vectors /\ (2 * i <= n => terms[2 * i] \in Vectors)
    BY <1>2, <2>1
  <2>3. CASE 2 * i <= n
    <3>1. at(i) = encrypted_or(terms[2 * i - 1], terms[2 * i])
      BY <2>3
    <3> HIDE DEF at
    <3> QED BY <2>1, <2>2, <2>3, <3>1, OrOfVectors
  <2>4. CASE ~ (2 * i <= n)
    BY <2>1, <2>2, <2>4
  <2> QED BY <2>3, <2>4
<1> HIDE DEF at
<1>5. terms' \in Seq(Vectors) /\ Len(terms') = h /\ \A i \in 1 .. h : terms'[i] = at(i)
  BY <1>1, <1>3, <1>4
<1>6. TypeOK'
  BY <1>1, <1>2, <1>3, <1>5, OperandsStay DEF TypeOK
<1>7. PhaseInv' /\ TermsInv' /\ SpreadInv' /\ ResultInv' /\ StartInv'
  BY <1>1 DEF PhaseInv, Fits, TermsInv, SpreadInv, ResultInv, StartInv
<1>8. ReduceInv'
  <2> SUFFICES ASSUME NEW s \in Slots
               PROVE  (\E i \in 1 .. h : terms'[i][s] = 1) <=> \E m \in Index : Term(m)[s] = 1
    BY <1>1, <1>3, <1>5, OperandsStay DEF ReduceInv
  <2>1. (\E i \in 1 .. n : terms[i][s] = 1) <=> \E m \in Index : Term(m)[s] = 1
    BY <1>1 DEF BatchedInv, ReduceInv, n
  <2>2. ASSUME NEW i \in 1 .. h, terms'[i][s] = 1 PROVE \E j \in 1 .. n : terms[j][s] = 1
    <3>1. \/ terms[2 * i - 1][s] = 1
          \/ 2 * i <= n /\ terms[2 * i][s] = 1
      BY <1>4, <1>5, <2>2
    <3>2. 2 * i - 1 \in 1 .. n /\ (2 * i <= n => 2 * i \in 1 .. n)
      BY <1>2, <1>4
    <3> QED BY <3>1, <3>2
  <2>3. ASSUME NEW j \in 1 .. n, terms[j][s] = 1 PROVE \E i \in 1 .. h : terms'[i][s] = 1
    <3> DEFINE i == (j + 1) \div 2
    <3>1. i \in 1 .. h /\ (j = 2 * i - 1 \/ j = 2 * i)
      BY <1>2, <1>3
    <3> HIDE DEF i
    <3>2. at(i)[s] = 1
      BY <1>2, <1>4, <2>3, <3>1
    <3> QED BY <1>5, <3>1, <3>2
  <2> QED BY <2>1, <2>2, <2>3
<1> QED BY <1>6, <1>7, <1>8 DEF BatchedInv

\* The root of the tree is the product.
LEMMA ReducedKeeps == BatchedInv /\ Reduced => BatchedInv'
<1> SUFFICES ASSUME BatchedInv, Reduced PROVE BatchedInv'
  OBVIOUS
<1>1. /\ TypeOK /\ Fits /\ op = "matmul" /\ pc = "reduce" /\ pc' = "done"
      /\ Len(terms) = 1 /\ result' = terms[1]
      /\ UNCHANGED <<slots, op, A, B, k, next, masked, acc, column, terms>>
  BY DEF Reduced, BatchedInv, PhaseInv
<1>2. result' \in Vectors
  <2>1. terms \in Seq(Vectors) /\ 1 \in 1 .. Len(terms)
    BY <1>1 DEF TypeOK
  <2>2. terms[1] \in Vectors
    BY <2>1
  <2> QED BY <1>1, <2>2
<1>3. \A s \in Slots : result'[s] = 1 <=> \E m \in Index : Term(m)[s] = 1
  BY <1>1 DEF BatchedInv, ReduceInv
<1>4. result' = PackMatrix(Product(A, B))
  BY <1>1, <1>2, <1>3, TermsAreProduct
<1>5. TypeOK'
  BY <1>1, <1>2, OperandsStay DEF TypeOK
<1>6. PhaseInv' /\ TermsInv' /\ SpreadInv' /\ ReduceInv' /\ StartInv'
  BY <1>1 DEF PhaseInv, Fits, TermsInv, SpreadInv, ReduceInv, StartInv
<1>7. ResultInv'
  BY <1>1, <1>4 DEF ResultInv, PackMatrix, Slots, Product
<1> QED BY <1>5, <1>6, <1>7 DEF BatchedInv

\* The invariant reads no variable outside vars.
LEMMA StutterKeeps == BatchedInv /\ UNCHANGED vars => BatchedInv'
<1> SUFFICES ASSUME BatchedInv, UNCHANGED vars PROVE BatchedInv'
  OBVIOUS
<1>1. /\ slots' = slots /\ op' = op /\ A' = A /\ B' = B /\ pc' = pc /\ k' = k /\ next' = next
      /\ masked' = masked /\ acc' = acc /\ column' = column /\ terms' = terms /\ result' = result
  BY DEF vars
<1>2. Vectors' = Vectors /\ Passed' = Passed /\ (Fits' <=> Fits)
  BY <1>1 DEF Vectors, Slots, Passed, Fits
<1>3. TypeOK'
  BY <1>1, <1>2 DEF BatchedInv, TypeOK
<1>4. PhaseInv' /\ TermsInv' /\ StartInv'
  BY <1>1, <1>2, OperandsStay DEF BatchedInv, PhaseInv, TermsInv, StartInv
<1>5. SpreadInv'
  BY <1>1, <1>2, OperandsStay DEF BatchedInv, SpreadInv
<1>6. ReduceInv'
  <2>1. Slots' = Slots /\ \A m \in Index : Term(m)' = Term(m)
    BY <1>1 DEF Term, Slots
  <2> SUFFICES ASSUME pc = "reduce"
               PROVE  /\ Len(terms) >= 1
                      /\ \A s \in Slots : (\E i \in 1 .. Len(terms) : terms[i][s] = 1)
                                            <=> \E m \in Index : Term(m)[s] = 1
    BY <1>1, <2>1 DEF ReduceInv
  <2> QED BY DEF BatchedInv, ReduceInv
<1>7. ResultInv'
  <2>1. /\ PackMatrix(Product(A, B))' = PackMatrix(Product(A, B))
        /\ PackMatrix(Union(A, B))' = PackMatrix(Union(A, B))
    BY <1>1 DEF PackMatrix, Slots, Product, Union
  <2>2. CASE op = "matmul"
    BY <1>1, <2>1, <2>2 DEF BatchedInv, ResultInv
  <2>3. CASE op # "matmul"
    BY <1>1, <2>1, <2>3 DEF BatchedInv, ResultInv
  <2> QED BY <2>2, <2>3
<1> QED BY <1>3, <1>4, <1>5, <1>6, <1>7 DEF BatchedInv

\* Every step keeps the invariant.
LEMMA NextBatchedInv == BatchedInv /\ [Next]_vars => BatchedInv'
BY ConstructKeeps, OrMatKeeps, MaskColumnKeeps, SpreadKeeps, MaskRowKeeps, AndTermKeeps,
   OrReduceTreeKeeps, ReducedKeeps, StutterKeeps DEF Next

------------------------------------------------------------------------------

\* The conjunction of the invariants is an invariant of the specification.
THEOREM Invariance == Spec => []BatchedInv
BY InitBatchedInv, NextBatchedInv, PTL DEF Spec

\* Every slot of every intermediate ciphertext holds a bit: the rotations
\* that a broadcast adds up never meet, and none goes round the end of the
\* ciphertext into the matrix.
THEOREM TypeCorrect == Spec => []TypeOK
<1>1. BatchedInv => TypeOK
  BY DEF BatchedInv
<1> QED BY <1>1, Invariance, PTL

\* A matrix that fits is multiplied (or united) without want of a key, into
\* the packed product with clean slots beyond it; one that does not fit is
\* refused.
THEOREM Multiplies == Spec => []MultipliesOrRefuses
<1>1. BatchedInv => MultipliesOrRefuses
  <2> SUFFICES ASSUME BatchedInv PROVE MultipliesOrRefuses
    OBVIOUS
  <2>1. N * N \in Int /\ slots \in Int
    BY Basics DEF BatchedInv
  <2> QED BY <2>1 DEF BatchedInv, PhaseInv, ResultInv, MultipliesOrRefuses, Fits
<1> QED BY <1>1, Invariance, PTL
==============================================================================
