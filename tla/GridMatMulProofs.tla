-------------------------- MODULE GridMatMulProofs --------------------------
(***************************************************************************)
(* Proofs for GridMatMul, for every dimension, number of ranks and of      *)
(* threads, program and set of inputs.  The inductive invariant IInv says  *)
(* of every rank what it has brought to each assembly so far (RowPiece,    *)
(* ColPiece), what its accumulators hold while the threads run (the cells  *)
(* in RowDone and ColDone), and of every pair of ranks of a row_comm that  *)
(* one is in the columns of a call only when the other is in its rows.     *)
(***************************************************************************)
EXTENDS GridMatMul, TLAPS, FiniteSetTheorems, WellFoundedInduction

\* Arithmetic.  A nonempty set of numbers has a least element: the induction
\* principle of the proofs below.
LEMMA LeastNat ==
  ASSUME NEW X, X \subseteq Nat, X # {}
  PROVE  \E x \in X : \A y \in X : ~(y < x)
<1>1. \E x \in X : \A y \in X : <<y, x>> \notin OpToRel(<, Nat)
  BY NatLessThanWellFounded, WFMin, Zenon
<1> QED BY <1>1 DEF OpToRel

\* Integer division, as the loops and the block partition use it.
LEMMA DivMod ==
  ASSUME NEW n \in Nat, NEW d \in Nat \ {0}
  PROVE  /\ n \div d \in Nat /\ n % d \in 0 .. d - 1
         /\ n = (n \div d) * d + (n % d)
  OBVIOUS

\* Quotient and remainder are determined by the number.
LEMMA DivModUnique ==
  ASSUME NEW d \in Nat \ {0}, NEW q \in Nat, NEW m \in 0 .. d - 1
  PROVE  (q * d + m) \div d = q /\ (q * d + m) % d = m
  OBVIOUS

\* A whole multiple below another leaves room for one more.
LEMMA MulMono ==
  ASSUME NEW a \in Nat, NEW b \in Nat, NEW q \in Nat, a < b
  PROVE  a * q + q <= b * q
  OBVIOUS

\* The maximum of a bounded nonempty set (Max is a CHOOSE).
LEMMA MaxOf ==
  ASSUME NEW X, NEW n \in Nat, X \subseteq 0 .. n, X # {}
  PROVE  Max(X) \in X /\ \A y \in X : Max(X) >= y
<1> DEFINE Y == {n - x : x \in X}
<1>1. PICK y \in Y : \A z \in Y : ~(z < y)
  <2>0. \A x \in X : x \in Nat /\ n - x \in Nat
    OBVIOUS
  <2>1. Y \subseteq Nat /\ Y # {}
    BY <2>0
  <2> HIDE DEF Y
  <2> QED BY <2>1, LeastNat
<1>2. n - y \in X /\ \A z \in X : n - y >= z
  BY <1>1
<1> QED BY <1>2, Zenon DEF Max

\* The minimum of a nonempty set of numbers.
LEMMA MinOf ==
  ASSUME NEW X, X \subseteq Nat, X # {}
  PROVE  Min(X) \in X /\ \A y \in X : Min(X) =< y
<1>1. PICK x \in X : \A z \in X : ~(z < x)
  BY LeastNat
<1>2. x \in X /\ \A z \in X : x =< z
  BY <1>1
<1> QED BY <1>2, Zenon DEF Min

\* std::min of two numbers.
LEMMA MinPair ==
  ASSUME NEW a \in Nat, NEW b \in Nat
  PROVE  Min({a, b}) = IF a <= b THEN a ELSE b
<1>1. {a, b} \subseteq Nat /\ {a, b} # {}
  OBVIOUS
<1>2. Min({a, b}) \in {a, b} /\ \A y \in {a, b} : Min({a, b}) =< y
  BY <1>1, MinOf
<1> QED BY <1>2

\* BuildProcessGrid2D: the factors of the grid multiply to the world size.
LEMMA GridFactors ==
  /\ Pr(P) \in Nat \ {0} /\ Pc(P) \in Nat \ {0}
  /\ Pr(P) * Pc(P) = P
<1> DEFINE D == {d \in 1 .. P : P % d = 0 /\ d * d <= P}
<1>1. P \in Nat \ {0}
  BY SizesAssumption
<1>2. D \subseteq 0 .. P /\ D # {}
  <2>1. 1 \in D
    BY <1>1
  <2> QED BY <1>1, <2>1
<1>3. Pr(P) \in D
  <2>1. Max(D) \in D
    <3> HIDE DEF D
    <3> QED BY <1>1, <1>2, MaxOf
  <2> QED BY <2>1 DEF Pr
<1>4. Pr(P) \in Nat \ {0} /\ P % Pr(P) = 0
  BY <1>3, <1>1
<1>5. P = (P \div Pr(P)) * Pr(P) + (P % Pr(P)) /\ P \div Pr(P) \in Nat
  BY <1>1, <1>4, DivMod
<1>6. P = Pc(P) * Pr(P) /\ Pc(P) \in Nat
  BY <1>4, <1>5 DEF Pc
<1>7. Pc(P) # 0
  BY <1>6, <1>1, <1>4
<1> QED BY <1>4, <1>6, <1>7

\* MPI_Cart_coords: the coordinates of a rank lie on the grid.
LEMMA Coordinates ==
  ASSUME NEW r \in Ranks
  PROVE  /\ process_row(P, r) \in 0 .. Pr(P) - 1
         /\ process_col(P, r) \in 0 .. Pc(P) - 1
<1>1. r \in Nat /\ r < P /\ P \in Nat
  BY SizesAssumption DEF Ranks
<1> DEFINE a == r \div Pc(P)
           b == r % Pc(P)
<1>2. a \in Nat /\ b \in 0 .. Pc(P) - 1 /\ r = a * Pc(P) + b
  BY <1>1, GridFactors, DivMod
<1>3. a < Pr(P)
  <2> HIDE DEF a, b
  <2>1. SUFFICES ASSUME Pr(P) <= a PROVE FALSE
    BY <1>2, GridFactors
  <2>2. Pr(P) * Pc(P) <= a * Pc(P)
    BY <2>1, <1>2, GridFactors
  <2> QED BY <2>2, <1>1, <1>2, GridFactors
<1>4. a \in 0 .. Pr(P) - 1 /\ b \in 0 .. Pc(P) - 1
  BY <1>2, <1>3, GridFactors
<1> QED BY <1>4 DEF process_row, process_col

\* Every pair of coordinates is a rank's: MPI_Cart_create covers the grid.
LEMMA RankAt ==
  ASSUME NEW a \in 0 .. Pr(P) - 1, NEW b \in 0 .. Pc(P) - 1
  PROVE  \E r \in Ranks : process_row(P, r) = a /\ process_col(P, r) = b
<1> DEFINE r == a * Pc(P) + b
<1>1. a \in Nat /\ b \in Nat /\ a < Pr(P) /\ b < Pc(P)
  BY GridFactors
<1>2. r \in Nat
  BY <1>1, GridFactors
<1>3. a * Pc(P) + Pc(P) <= Pr(P) * Pc(P)
  BY <1>1, GridFactors, MulMono
<1>4. r < P
  BY <1>1, <1>3, GridFactors
<1>5. r \div Pc(P) = a /\ r % Pc(P) = b
  BY <1>1, GridFactors, DivModUnique
<1>6. r \in Ranks
  BY <1>2, <1>4, SizesAssumption DEF Ranks
<1> QED BY <1>5, <1>6 DEF process_row, process_col

\* ComputeBlockPartition: a block starts where the one before it ends, the
\* first at 0, and the last ends at n.
LEMMA Offsets ==
  ASSUME NEW n \in Nat, NEW parts \in Nat \ {0}, NEW k \in Nat
  PROVE  /\ Offset(n, parts, k) \in Nat /\ Count(n, parts, k) \in Nat
         /\ Offset(n, parts, 0) = 0 /\ Offset(n, parts, parts) = n
         /\ Offset(n, parts, k + 1) = Offset(n, parts, k) + Count(n, parts, k)
<1> DEFINE q == n \div parts
           m == n % parts
<1>1. q \in Nat /\ m \in 0 .. parts - 1 /\ n = q * parts + m
  BY DivMod
<1> HIDE DEF q, m
<1>2. Count(n, parts, k) = q + (IF k < m THEN 1 ELSE 0)
  BY DEF Count, q, m
<1>3. ASSUME NEW j \in Nat
      PROVE  Offset(n, parts, j) = j * q + (IF j <= m THEN j ELSE m)
  BY <1>1, MinPair DEF Offset, q, m
<1>4. Offset(n, parts, k) \in Nat /\ Count(n, parts, k) \in Nat
  BY <1>1, <1>2, <1>3
<1>5. Offset(n, parts, 0) = 0 /\ Offset(n, parts, parts) = n
  BY <1>1, <1>3
<1>6. (k + 1) * q = k * q + q
  BY <1>1
<1>7. Offset(n, parts, k + 1) = Offset(n, parts, k) + Count(n, parts, k)
  BY <1>1, <1>2, <1>3, <1>6
<1> QED BY <1>4, <1>5, <1>7

\* ComputeBlockPartition: consecutive blocks, in order.
LEMMA BlocksAreOrdered ==
  ASSUME NEW n \in Nat, NEW parts \in Nat \ {0}, NEW k \in Nat, NEW l \in Nat, k < l
  PROVE  Offset(n, parts, k) + Count(n, parts, k) <= Offset(n, parts, l)
<1> DEFINE Bad == {j \in Nat : k < j /\ ~(Offset(n, parts, k + 1) <= Offset(n, parts, j))}
<1>1. Bad = {}
  <2> SUFFICES ASSUME Bad # {} PROVE FALSE
    OBVIOUS
  <2>1. PICK j \in Bad : \A x \in Bad : ~(x < j)
    <3>1. Bad \subseteq Nat
      OBVIOUS
    <3> HIDE DEF Bad
    <3> QED BY <3>1, LeastNat
  <2>2. j # k + 1
    BY <2>1, Offsets
  <2>3. j - 1 \in Nat /\ k < j - 1 /\ j - 1 < j
    BY <2>1, <2>2
  <2>4. Offset(n, parts, k + 1) <= Offset(n, parts, j - 1)
    BY <2>1, <2>3
  <2>5. Offset(n, parts, (j - 1) + 1) = Offset(n, parts, j - 1) + Count(n, parts, j - 1)
    BY <2>3, Offsets
  <2>6. (j - 1) + 1 = j
    BY <2>1
  <2>7. Offset(n, parts, j - 1) <= Offset(n, parts, j)
    BY <2>3, <2>5, <2>6, Offsets
  <2>8. Offset(n, parts, j) \in Nat /\ Offset(n, parts, j - 1) \in Nat /\ Offset(n, parts, k + 1) \in Nat
    <3>1. k + 1 \in Nat /\ j \in Nat
      BY <2>1
    <3> QED BY <3>1, <2>3, Offsets
  <2> QED BY <2>1, <2>4, <2>7, <2>8
<1>2. Offset(n, parts, k + 1) <= Offset(n, parts, l)
  BY <1>1
<1> QED BY <1>2, Offsets

\* No index is lost between two blocks and none is in two.
LEMMA BlocksTile ==
  ASSUME NEW n \in Nat, NEW parts \in Nat \ {0}
  PROVE  /\ \A k \in 0 .. parts - 1 : Block(n, parts, k) \subseteq 0 .. n - 1
         /\ \A i \in 0 .. n - 1 : \E k \in 0 .. parts - 1 : i \in Block(n, parts, k)
         /\ \A k, l \in 0 .. parts - 1 : \A i \in Block(n, parts, k) :
                i \in Block(n, parts, l) => k = l
<1>1. ASSUME NEW k \in 0 .. parts - 1, NEW i \in Block(n, parts, k)
      PROVE  i \in 0 .. n - 1
  <2>1. k \in Nat /\ k < parts
    OBVIOUS
  <2>2. Offset(n, parts, k) + Count(n, parts, k) <= n /\ Offset(n, parts, k) \in Nat /\ Count(n, parts, k) \in Nat
    BY <2>1, Offsets, BlocksAreOrdered
  <2> QED BY <2>2 DEF Block
<1>2. ASSUME NEW i \in 0 .. n - 1
      PROVE  \E k \in 0 .. parts - 1 : i \in Block(n, parts, k)
  <2> DEFINE After_(j) == i < Offset(n, parts, j + 1)
             Ks == {j \in Nat : After_(j)}
  <2>1. parts - 1 \in Ks
    <3>1. Offset(n, parts, (parts - 1) + 1) = n
      <4>1. (parts - 1) + 1 = parts
        OBVIOUS
      <4> QED BY <4>1, Offsets
    <3> QED BY <3>1
  <2>2. PICK k \in Ks : \A x \in Ks : ~(x < k)
    <3>1. Ks \subseteq Nat
      OBVIOUS
    <3> HIDE DEF Ks
    <3> QED BY <3>1, <2>1, LeastNat
  <2>3. k \in 0 .. parts - 1
    BY <2>1, <2>2
  <2>4. Offset(n, parts, k) <= i
    <3>1. CASE k = 0
      BY <3>1, Offsets
    <3>2. CASE k # 0
      <4>1. k - 1 \in Nat /\ k - 1 < k /\ (k - 1) + 1 = k
        BY <2>3, <3>2
      <4>2. ~(i < Offset(n, parts, k))
        BY <4>1, <2>2
      <4> QED BY <4>2, <2>3, Offsets
    <3> QED BY <3>1, <3>2
  <2>5. i < Offset(n, parts, k) + Count(n, parts, k)
    BY <2>2, Offsets
  <2>6. i \in Block(n, parts, k)
    <3>1. Offset(n, parts, k) \in Nat /\ Count(n, parts, k) \in Nat
      BY <2>3, Offsets
    <3> QED BY <2>4, <2>5, <3>1 DEF Block
  <2> QED BY <2>3, <2>6
<1>3. ASSUME NEW k \in 0 .. parts - 1, NEW l \in 0 .. parts - 1, NEW i,
             i \in Block(n, parts, k), i \in Block(n, parts, l), k < l
      PROVE  FALSE
  <2>1. k \in Nat /\ l \in Nat
    OBVIOUS
  <2>2. Offset(n, parts, k) + Count(n, parts, k) <= Offset(n, parts, l)
    BY <2>1, <1>3, BlocksAreOrdered
  <2>3. Offset(n, parts, k) \in Nat /\ Count(n, parts, k) \in Nat /\ Offset(n, parts, l) \in Nat
    BY <2>1, Offsets
  <2>4. i \in Int /\ i < Offset(n, parts, k) + Count(n, parts, k) /\ Offset(n, parts, l) <= i
    BY <1>3, <2>3 DEF Block
  <2> QED BY <2>2, <2>3, <2>4
<1>4. ASSUME NEW k \in 0 .. parts - 1, NEW l \in 0 .. parts - 1, NEW i \in Block(n, parts, k),
             i \in Block(n, parts, l)
      PROVE  k = l
  <2>1. ~(k < l) /\ ~(l < k)
    BY <1>3, <1>4
  <2> QED BY <2>1
<1> QED BY <1>1, <1>2, <1>4

\* The rows and the columns of a rank are blocks of the N indices.
LEMMA RowsAreABlock ==
  ASSUME NEW r \in Ranks
  PROVE  /\ Rows[r] \subseteq Slots /\ Cols[r] \subseteq Slots
         /\ Rows[r] = Block(N, Pr(P), process_row(P, r))
         /\ Cols[r] = Block(N, Pc(P), process_col(P, r))
<1>1. /\ Rows[r] = Block(N, Pr(P), process_row(P, r))
      /\ Cols[r] = Block(N, Pc(P), process_col(P, r))
  BY DEF Rows, Cols, RowBlock, ColBlock
<1>2. \A k \in 0 .. Pr(P) - 1 : Block(N, Pr(P), k) \subseteq Slots
  BY BlocksTile, GridFactors, DimensionAssumption DEF Slots
<1>3. \A k \in 0 .. Pc(P) - 1 : Block(N, Pc(P), k) \subseteq Slots
  BY BlocksTile, GridFactors, DimensionAssumption DEF Slots
<1> QED BY <1>1, <1>2, <1>3, Coordinates

\* A block has as many indices as ComputeBlockPartition counts.
LEMMA BlockSize ==
  ASSUME NEW n \in Nat, NEW parts \in Nat \ {0}, NEW k \in Nat
  PROVE  Cardinality(Block(n, parts, k)) = Count(n, parts, k)
<1>1. Offset(n, parts, k) \in Nat /\ Count(n, parts, k) \in Nat
  BY Offsets
<1> DEFINE a == Offset(n, parts, k)
           b == Offset(n, parts, k) + Count(n, parts, k) - 1
<1>2. a \in Int /\ b \in Int /\ (IF a > b THEN 0 ELSE b - a + 1) = Count(n, parts, k)
  BY <1>1
<1>3. Cardinality(a .. b) = IF a > b THEN 0 ELSE b - a + 1
  BY <1>2, FS_Interval
<1> QED BY <1>2, <1>3 DEF Block

\* The collapsed loop visits every cell of the rank once.
LEMMA CellsAreEnumerated ==
  ASSUME NEW r \in Ranks
  PROVE  /\ DOMAIN Cells[r] \subseteq Nat
         /\ \E size \in Nat : DOMAIN Cells[r] = 0 .. size - 1
         /\ \A n \in DOMAIN Cells[r] : Cells[r][n] \in [i : Rows[r], j : Cols[r]]
         /\ \A i \in Rows[r], j \in Cols[r] :
               \E n \in DOMAIN Cells[r] : Cells[r][n] = [i |-> i, j |-> j]
         /\ \A n, m \in DOMAIN Cells[r] : Cells[r][n] = Cells[r][m] => n = m
<1> DEFINE a == process_row(P, r)
           b == process_col(P, r)
           h == Count(N, Pr(P), a)
           w == Count(N, Pc(P), b)
           u == Offset(N, Pr(P), a)
           v == Offset(N, Pc(P), b)
<1>1. N \in Nat /\ a \in Nat /\ b \in Nat
  BY Coordinates, GridFactors, DimensionAssumption
<1>2. h \in Nat /\ w \in Nat /\ u \in Nat /\ v \in Nat
  BY <1>1, Offsets, GridFactors
<1>3. Rows[r] = u .. u + h - 1 /\ Cols[r] = v .. v + w - 1
  BY RowsAreABlock DEF Block
<1>4. Cardinality(Rows[r]) = h /\ Cardinality(Cols[r]) = w
  BY <1>1, RowsAreABlock, BlockSize, GridFactors
<1>5. Cells[r] = [n \in 0 .. h * w - 1 |-> [i |-> u + (n \div w), j |-> v + (n % w)]]
  BY <1>4 DEF Cells
<1> HIDE DEF a, b, h, w, u, v
<1>6. h * w \in Nat
  BY <1>2
<1>7. ASSUME NEW n \in 0 .. h * w - 1
      PROVE  /\ n \div w \in 0 .. h - 1 /\ n % w \in 0 .. w - 1
             /\ n = (n \div w) * w + (n % w)
  <2>1. w # 0
    BY <1>2, <1>7
  <2>2. n \in Nat /\ w \in Nat \ {0} /\ n < h * w
    BY <1>2, <1>6, <2>1
  <2>3. n \div w \in Nat /\ n % w \in 0 .. w - 1 /\ n = (n \div w) * w + (n % w)
    BY <2>2, DivMod
  <2>4. n \div w < h
    <3> DEFINE q == n \div w
               m == n % w
    <3>1. q \in Nat /\ m \in Nat /\ n = q * w + m
      BY <2>3
    <3> HIDE DEF q, m
    <3>2. SUFFICES ASSUME h <= q PROVE FALSE
      BY <1>2, <3>1 DEF q
    <3>3. h * w <= q * w
      BY <3>1, <3>2, <1>2
    <3> QED BY <3>1, <3>3, <2>2, <1>6, <1>2
  <2> QED BY <2>3, <2>4, <1>2
<1>8. ASSUME NEW i \in Rows[r], NEW j \in Cols[r]
      PROVE  \E n \in 0 .. h * w - 1 : u + (n \div w) = i /\ v + (n % w) = j
  <2> DEFINE q == i - u
             m == j - v
  <2>1. q \in Nat /\ q < h /\ m \in 0 .. w - 1 /\ w \in Nat \ {0}
    BY <1>2, <1>3
  <2>2. u + q = i /\ v + m = j
    BY <1>2, <1>3
  <2> HIDE DEF q, m
  <2>3. (q * w + m) \div w = q /\ (q * w + m) % w = m
    BY <2>1, DivModUnique
  <2>4. q * w + w <= h * w
    BY <2>1, <1>2, MulMono
  <2>5. q * w \in Nat
    BY <2>1
  <2>6. q * w + m \in 0 .. h * w - 1
    BY <2>1, <2>4, <2>5, <1>6
  <2> QED BY <2>2, <2>3, <2>6
<1>9. ASSUME NEW n \in 0 .. h * w - 1, NEW m \in 0 .. h * w - 1,
             u + (n \div w) = u + (m \div w), v + (n % w) = v + (m % w)
      PROVE  n = m
  <2>1. n \div w = m \div w /\ n % w = m % w
    BY <1>2, <1>7, <1>9
  <2> QED BY <1>7, <2>1
<1>10. DOMAIN Cells[r] = 0 .. h * w - 1
  BY <1>5
<1>11. ASSUME NEW n \in DOMAIN Cells[r] PROVE Cells[r][n] \in [i : Rows[r], j : Cols[r]]
  <2>1. u + (n \div w) \in Rows[r] /\ v + (n % w) \in Cols[r]
    <3>1. \A q \in 0 .. h - 1, m \in 0 .. w - 1 : u + q \in Rows[r] /\ v + m \in Cols[r]
      BY <1>2, <1>3
    <3> QED BY <3>1, <1>7, <1>10
  <2> QED BY <1>5, <1>10, <2>1
<1>12. ASSUME NEW i \in Rows[r], NEW j \in Cols[r]
       PROVE  \E n \in DOMAIN Cells[r] : Cells[r][n] = [i |-> i, j |-> j]
  BY <1>5, <1>8, <1>10
<1>13. ASSUME NEW n \in DOMAIN Cells[r], NEW m \in DOMAIN Cells[r], Cells[r][n] = Cells[r][m]
       PROVE  n = m
  <2>1. u + (n \div w) = u + (m \div w) /\ v + (n % w) = v + (m % w)
    <3>1. Cells[r][n].i = Cells[r][m].i /\ Cells[r][n].j = Cells[r][m].j
      BY <1>13
    <3> QED BY <3>1, <1>5, <1>10
  <2> QED BY <2>1, <1>9, <1>10
<1> QED BY <1>6, <1>10, <1>11, <1>12, <1>13

\* schedule(static): every iteration is one thread's.
LEMMA SharesTile ==
  ASSUME NEW r \in Ranks
  PROVE  /\ \A t \in Teams : Share[r][t] \subseteq DOMAIN Cells[r]
         /\ \A n \in DOMAIN Cells[r] : \E t \in Teams : n \in Share[r][t]
         /\ \A t, s \in Teams : \A n \in Share[r][t] : n \in Share[r][s] => t = s
<1>1. PICK size \in Nat : DOMAIN Cells[r] = 0 .. size - 1
  BY CellsAreEnumerated
<1>2. Cardinality(DOMAIN Cells[r]) = size
  <2>1. Cardinality(0 .. size - 1) = IF 0 > size - 1 THEN 0 ELSE (size - 1) - 0 + 1
    BY FS_Interval
  <2> QED BY <1>1, <2>1
<1>3. \A t \in Teams : Share[r][t] = Block(size, Threads, t)
  BY <1>2 DEF Share
<1>4. Threads \in Nat \ {0} /\ Teams = 0 .. Threads - 1
  BY SizesAssumption DEF Teams
<1>5. /\ \A t \in Teams : Block(size, Threads, t) \subseteq 0 .. size - 1
      /\ \A n \in 0 .. size - 1 : \E t \in Teams : n \in Block(size, Threads, t)
      /\ \A t, s \in Teams : \A n \in Block(size, Threads, t) :
            n \in Block(size, Threads, s) => t = s
  BY <1>4, BlocksTile
<1> QED BY <1>1, <1>3, <1>5

------------------------------------------------------------------------------

\* Every nonempty set of subsets of a finite set has a minimal one.
LEMMA LeastSubset ==
  ASSUME NEW S, IsFiniteSet(S), NEW X, X \subseteq SUBSET S, X # {}
  PROVE  \E T \in X : \A U \in X : ~(U \subseteq T /\ U # T)
<1>1. X \subseteq FiniteSubsetsOf(S)
  BY FS_Subset DEF FiniteSubsetsOf
<1>2. \E T \in X : \A U \in X : ~(<<U, T>> \in StrictSubsetOrdering(S))
  BY <1>1, FS_StrictSubsetOrderingWellFounded, WFMin
<1> QED BY <1>2 DEF StrictSubsetOrdering

\* What the folds compute on the subsets of S, one element after the other.
OrsUp(it, f, S)  == it[{}] = 0 /\ \A s \in SUBSET S : s # {} =>
                                     \E x \in s : it[s] = Or(f[x], it[s \ {x}])
SumsUp(it, f, S) == it[{}] = 0 /\ \A s \in SUBSET S : s # {} =>
                                     \E x \in s : it[s] = f[x] + it[s \ {x}]

\* The OR of bits is 1 when one of them is.
LEMMA OrOverSet ==
  ASSUME NEW S, IsFiniteSet(S), NEW f \in [S -> {0, 1}],
         NEW it, OrsUp(it, f, S)
  PROVE  it[S] = IF \E x \in S : f[x] = 1 THEN 1 ELSE 0
<1> DEFINE Any(s) == IF \E x \in s : f[x] = 1 THEN 1 ELSE 0
           Bad == {s \in SUBSET S : it[s] # Any(s)}
<1>1. Bad = {}
  <2> SUFFICES ASSUME Bad # {} PROVE FALSE
    OBVIOUS
  <2>1. PICK s \in Bad : \A U \in Bad : ~(U \subseteq s /\ U # s)
    <3>1. Bad \subseteq SUBSET S
      OBVIOUS
    <3> HIDE DEF Bad
    <3> QED BY <3>1, LeastSubset
  <2>2. CASE s = {}
    BY <2>1, <2>2 DEF OrsUp
  <2>3. CASE s # {}
    <3>2. PICK x \in s : it[s] = Or(f[x], it[s \ {x}])
      BY <2>1, <2>3 DEF OrsUp
    <3>1. x \in s
      OBVIOUS
    <3>3. it[s \ {x}] = Any(s \ {x})
      <4>1. s \ {x} \in SUBSET S /\ s \ {x} \subseteq s /\ s \ {x} # s
        BY <2>1, <3>1
      <4>2. s \ {x} \notin Bad
        BY <2>1, <4>1
      <4> QED BY <4>1, <4>2
    <3>4. f[x] \in {0, 1}
      BY <2>1, <3>1
    <3>5. Or(f[x], Any(s \ {x})) = Any(s)
      BY <3>1, <3>4 DEF Or
    <3> QED BY <2>1, <3>2, <3>3, <3>5
  <2> QED BY <2>2, <2>3
<1> QED BY <1>1

\* A sum in which at most the term of p is not 0.
LEMMA SumOverSet ==
  ASSUME NEW S, IsFiniteSet(S), NEW f, NEW p, NEW v \in Nat,
         \A x \in S : f[x] = IF x = p THEN v ELSE 0,
         NEW it, SumsUp(it, f, S)
  PROVE  it[S] = IF p \in S THEN v ELSE 0
<1> DEFINE Here(s) == IF p \in s THEN v ELSE 0
           Bad == {s \in SUBSET S : it[s] # Here(s)}
<1>1. Bad = {}
  <2> SUFFICES ASSUME Bad # {} PROVE FALSE
    OBVIOUS
  <2>1. PICK s \in Bad : \A U \in Bad : ~(U \subseteq s /\ U # s)
    <3>1. Bad \subseteq SUBSET S
      OBVIOUS
    <3> HIDE DEF Bad
    <3> QED BY <3>1, LeastSubset
  <2>2. CASE s = {}
    BY <2>1, <2>2 DEF SumsUp
  <2>3. CASE s # {}
    <3>2. PICK x \in s : it[s] = f[x] + it[s \ {x}]
      BY <2>1, <2>3 DEF SumsUp
    <3>1. x \in s
      OBVIOUS
    <3>3. it[s \ {x}] = Here(s \ {x})
      <4>1. s \ {x} \in SUBSET S /\ s \ {x} \subseteq s /\ s \ {x} # s
        BY <2>1, <3>1
      <4>2. s \ {x} \notin Bad
        BY <2>1, <4>1
      <4> QED BY <4>1, <4>2
    <3>4. f[x] = IF x = p THEN v ELSE 0
      BY <2>1, <3>1
    <3>5. f[x] + Here(s \ {x}) = Here(s)
      BY <3>1, <3>4
    <3> QED BY <2>1, <3>2, <3>3, <3>5
  <2> QED BY <2>2, <2>3
<1> QED BY <1>1

\* BooleanDotProduct of bits.
LEMMA DotProductOfBits ==
  ASSUME NEW u \in [Slots -> {0, 1}], NEW w \in [Slots -> {0, 1}]
  PROVE  BooleanDotProduct(u, w) = IF \E k \in Slots : u[k] = 1 /\ w[k] = 1 THEN 1 ELSE 0
<1> DEFINE f == [k \in Slots |-> u[k] * w[k]]
           Rec(g) == [s \in SUBSET Slots |-> IF s = {} THEN 0
                       ELSE Or(f[CHOOSE x \in s : TRUE], g[s \ {CHOOSE x \in s : TRUE}])]
           it == CHOOSE g : g = Rec(g)
<1>1. f \in [Slots -> {0, 1}]
  <2>1. \A k \in Slots : u[k] \in {0, 1} /\ w[k] \in {0, 1}
    OBVIOUS
  <2> QED BY <2>1
<1>2. DOMAIN f = Slots /\ IsFiniteSet(Slots)
  BY FS_Interval, DimensionAssumption DEF Slots
<1>3. BooleanDotProduct(u, w) = it[Slots]
  BY <1>2 DEF BooleanDotProduct, FoldFunction, FoldFunctionOnSet, MapThenFoldSet
<1>4. it = Rec(it)
  <2> DEFINE any == [s \in SUBSET Slots |-> IF \E x \in s : f[x] = 1 THEN 1 ELSE 0]
  <2> HIDE DEF f
  <2>1. ASSUME NEW s \in SUBSET Slots PROVE any[s] = Rec(any)[s]
    <3>1. CASE s = {}
      BY <3>1
    <3>2. CASE s # {}
      <4> DEFINE x == CHOOSE y \in s : TRUE
      <4>1. x \in s /\ Rec(any)[s] = Or(f[x], any[s \ {x}])
        BY <3>2
      <4> HIDE DEF x
      <4>2. f[x] \in {0, 1} /\ s \ {x} \in SUBSET Slots
        BY <1>1, <4>1
      <4>3. Or(f[x], any[s \ {x}]) = any[s]
        BY <4>1, <4>2 DEF Or
      <4> QED BY <4>1, <4>3
    <3> QED BY <3>1, <3>2
  <2>2. any = Rec(any)
    BY <2>1
  <2> HIDE DEF any, Rec
  <2> QED BY <2>2, Zenon
<1>5. it[Slots] = IF \E x \in Slots : f[x] = 1 THEN 1 ELSE 0
  <2> HIDE DEF f, it
  <2>1. it[{}] = 0
    BY <1>4
  <2>2. \A s \in SUBSET Slots : s # {} => \E x \in s : it[s] = Or(f[x], it[s \ {x}])
    <3>1. ASSUME NEW s \in SUBSET Slots, s # {}
          PROVE  \E x \in s : it[s] = Or(f[x], it[s \ {x}])
      <4> DEFINE x == CHOOSE y \in s : TRUE
      <4>1. x \in s
        BY <3>1
      <4>2. it[s] = Or(f[x], it[s \ {x}])
        BY <1>4, <3>1
      <4> QED BY <4>1, <4>2
    <3> QED BY <3>1
  <2>3. OrsUp(it, f, Slots)
    BY <2>1, <2>2 DEF OrsUp
  <2> HIDE DEF Rec
  <2> QED BY <1>1, <1>2, <2>3, OrOverSet
<1>6. \A k \in Slots : f[k] = 1 <=> u[k] = 1 /\ w[k] = 1
  <2>1. \A k \in Slots : u[k] \in {0, 1} /\ w[k] \in {0, 1}
    OBVIOUS
  <2> QED BY <2>1
<1> QED BY <1>3, <1>5, <1>6

\* What an assembly computes for one slot when one member has a vector for
\* the index that is not 0 there.
LEMMA AssembleOne ==
  ASSUME NEW comm, IsFiniteSet(comm), NEW in, NEW k, NEW g, NEW slot \in Slots,
         NEW p \in comm, g \in DOMAIN in[p][k], NEW v \in Nat,
         \A s \in comm : g \in DOMAIN in[s][k] => in[s][k][g][slot] = IF s = p THEN v ELSE 0
  PROVE  Assemble(comm, in, k, g)[slot] = v
<1> DEFINE T == {s \in comm : g \in DOMAIN in[s][k]}
           f == [s \in T |-> in[s][k][g][slot]]
           Rec(h) == [s \in SUBSET T |-> IF s = {} THEN 0
                        ELSE in[CHOOSE x \in s : TRUE][k][g][slot] + h[s \ {CHOOSE x \in s : TRUE}]]
           it == CHOOSE h : h = Rec(h)
<1>1. IsFiniteSet(T) /\ p \in T
  BY FS_Subset
<1>2. \A s \in T : f[s] = IF s = p THEN v ELSE 0
  OBVIOUS
<1>3. Assemble(comm, in, k, g)[slot] = it[T]
  BY DEF Assemble, MapThenSumSet, MapThenFoldSet
<1>4. it = Rec(it)
  <2> DEFINE here == [s \in SUBSET T |-> IF p \in s THEN v ELSE 0]
  <2>1. ASSUME NEW s \in SUBSET T PROVE here[s] = Rec(here)[s]
    <3>1. CASE s = {}
      BY <3>1
    <3>2. CASE s # {}
      <4> DEFINE x == CHOOSE y \in s : TRUE
      <4>1. x \in s /\ Rec(here)[s] = in[x][k][g][slot] + here[s \ {x}]
        BY <3>2
      <4> HIDE DEF x
      <4>2. in[x][k][g][slot] = IF x = p THEN v ELSE 0
        BY <4>1
      <4>3. s \ {x} \in SUBSET T
        BY <4>1
      <4>4. here[s \ {x}] = IF p \in s \ {x} THEN v ELSE 0
        BY <4>3
      <4> QED BY <4>1, <4>2, <4>4
    <3> QED BY <3>1, <3>2
  <2>2. here = Rec(here)
    BY <2>1
  <2> HIDE DEF here, Rec
  <2> QED BY <2>2, Zenon
<1>5. SumsUp(it, f, T)
  <2>1. it[{}] = 0
    BY <1>4
  <2>2. ASSUME NEW s \in SUBSET T, s # {}
        PROVE  \E x \in s : it[s] = f[x] + it[s \ {x}]
    <3> DEFINE x == CHOOSE y \in s : TRUE
    <3>1. x \in s
      BY <2>2
    <3>2. it[s] = in[x][k][g][slot] + it[s \ {x}]
      BY <1>4, <2>2
    <3> QED BY <3>1, <3>2
  <2> HIDE DEF it, f
  <2> QED BY <2>1, <2>2 DEF SumsUp
<1>6. it[T] = IF p \in T THEN v ELSE 0
  <2> HIDE DEF it, f, T
  <2> QED BY <1>1, <1>2, <1>5, SumOverSet
<1> QED BY <1>1, <1>3, <1>6

\* A function on 1 .. m is a sequence of m values.
LEMMA AsSequence ==
  ASSUME NEW S, NEW m \in Nat, NEW h \in [1 .. m -> S]
  PROVE  h \in Seq(S) /\ Len(h) = m
OBVIOUS

\* Appending the next value of g to its first n values.
LEMMA AppendNext ==
  ASSUME NEW n \in Nat, NEW g, NEW f, f = [k \in 1 .. n |-> g[k]],
         g = [k \in 1 .. n + 1 |-> g[k]]
  PROVE  Append(f, g[n + 1]) = g
<1> DEFINE S == {g[k] : k \in 1 .. n + 1}
<1>1. f \in Seq(S) /\ Len(f) = n /\ g \in Seq(S) /\ Len(g) = n + 1 /\ g[n + 1] \in S
  <2>1. \A k \in 1 .. n + 1 : g[k] \in S
    OBVIOUS
  <2> HIDE DEF S
  <2>2. n + 1 \in Nat /\ n + 1 \in 1 .. n + 1 /\ 1 .. n \subseteq 1 .. n + 1
    OBVIOUS
  <2>3. f \in [1 .. n -> S]
    BY <2>1, <2>2
  <2>4. g \in [1 .. n + 1 -> S]
    BY <2>1
  <2>5. f \in Seq(S) /\ Len(f) = n
    BY <2>3, AsSequence
  <2>6. g \in Seq(S) /\ Len(g) = n + 1
    BY <2>2, <2>4, AsSequence
  <2> QED BY <2>1, <2>2, <2>5, <2>6
<1>2. Append(f, g[n + 1]) \in Seq(S) /\ Len(Append(f, g[n + 1])) = n + 1
  BY <1>1
<1>3. \A k \in 1 .. n + 1 : Append(f, g[n + 1])[k] = g[k]
  BY <1>1
<1> QED BY <1>1, <1>2, <1>3

------------------------------------------------------------------------------

\* What rank r brings to the row and to the column assembly of call k: of a
\* matmul its cells of the product, of an or_mat the vectors it owns.
RowPiece(r, k) ==
  IF Program[k] = "matmul"
  THEN [i \in Rows[r] |-> [s \in Slots |-> IF s \in Cols[r] THEN After[k][i][s] ELSE 0]]
  ELSE [i \in OwnedRows(r) |-> After[k][i]]

ColPiece(r, k) ==
  IF Program[k] = "matmul"
  THEN [j \in Cols[r] |-> [s \in Slots |-> IF s \in Rows[r] THEN After[k][s][j] ELSE 0]]
  ELSE [j \in OwnedCols(r) |-> Column(After[k], j)]

\* The iteration thread t of rank r is at, and those of which the rank has
\* added the piece for the row, and the piece for the column.
At(r, t)   == Min(todo[r][t])
RowDone(r) == {n \in DOMAIN Cells[r] : \A t \in Teams :
                 n \in todo[r][t] => step[r][t] = "col" /\ n = At(r, t)}
ColDone(r) == {n \in DOMAIN Cells[r] : \A t \in Teams : n \notin todo[r][t]}

\* The vectors to which the cells D of matrix M have been added.
RowsWith(r, M, D) == [i \in Rows[r] |-> [s \in Slots |->
  IF \E n \in D : Cells[r][n] = [i |-> i, j |-> s] THEN M[i][s] ELSE 0]]
ColsWith(r, M, D) == [j \in Cols[r] |-> [s \in Slots |->
  IF \E n \in D : Cells[r][n] = [i |-> s, j |-> j] THEN M[s][j] ELSE 0]]

\* The threads of a rank: one at a time is in the critical section, and what
\* it has read there is what the accumulator still holds.
ThreadInv(r) ==
  /\ todo[r] \in [Teams -> SUBSET DOMAIN Cells[r]]
  /\ step[r] \in [Teams -> {"dot", "row", "col"}]
  /\ DOMAIN acc[r] = Teams
  /\ phase[r] # "compute" => \A t \in Teams : todo[r][t] = {}
  /\ critical[r] = {t \in Teams : step[r][t] # "dot"}
  /\ \A t, u \in critical[r] : t = u
  /\ \A t \in Teams :
       /\ todo[r][t] \subseteq Share[r][t]
       /\ step[r][t] # "dot" => todo[r][t] # {}
       /\ step[r][t] = "row" => acc[r][t] = partial[r].rows[Cells[r][At(r, t)].i]
       /\ step[r][t] = "col" => acc[r][t] = partial[r].cols[Cells[r][At(r, t)].j]

Vectors == [Slots -> {0, 1}]

\* The accumulators hold the pieces added so far, each at its own slot.
PartialInv(r) ==
  /\ partial[r] \in [rows : [Rows[r] -> Vectors], cols : [Cols[r] -> Vectors]]
  /\ phase[r] \in {"compute", "rows"} /\ Kind(r) = "matmul" =>
       partial[r] = [rows |-> RowsWith(r, After[op[r]], RowDone(r)),
                     cols |-> ColsWith(r, After[op[r]], ColDone(r))]

RowCalls(r) == IF phase[r] = "compute" THEN op[r] - 1 ELSE op[r]
ColCalls(r) == IF phase[r] \in {"compute", "rows"} THEN op[r] - 1 ELSE op[r]

\* What a rank has brought to the assemblies of all its calls, and the matrix
\* it holds: the operand until the call returns.
CallInv(r) ==
  /\ op[r] \in 0 .. Len(Program)
  /\ phase[r] \in {"idle", "compute", "rows", "cols"}
  /\ phase[r] # "idle" => op[r] > 0
  /\ phase[r] = "compute" => Kind(r) = "matmul"
  /\ rowIn[r] = [k \in 1 .. RowCalls(r) |-> RowPiece(r, k)]
  /\ colIn[r] = [k \in 1 .. ColCalls(r) |-> ColPiece(r, k)]
  /\ mat[r] = Distributed(After[IF phase[r] = "idle" THEN op[r] ELSE op[r] - 1], r)
  /\ phase[r] = "cols" => rows[r] = [i \in Rows[r] |-> After[op[r]][i]]

RankInv(r) == ThreadInv(r) /\ PartialInv(r) /\ CallInv(r)

\* A rank is in the columns of a call only when its row_comm is in the rows.
WaitInv == \A r \in Ranks : \A s \in row_comm[r] : ColCalls(r) <= RowCalls(s)

Shape == /\ op = [r \in Ranks |-> op[r]] /\ phase = [r \in Ranks |-> phase[r]]
         /\ DOMAIN mat = Ranks /\ DOMAIN todo = Ranks /\ DOMAIN step = Ranks /\ DOMAIN acc = Ranks
         /\ DOMAIN critical = Ranks /\ DOMAIN partial = Ranks
         /\ DOMAIN rowIn = Ranks /\ DOMAIN colIn = Ranks /\ DOMAIN rows = Ranks

IInv == A \in Inputs /\ Shape /\ WaitInv /\ \A r \in Ranks : RankInv(r)

------------------------------------------------------------------------------

\* The reference operations stay inside the Boolean matrices.
LEMMA ProductIsMatrix ==
  ASSUME NEW X \in Matrices, NEW Y \in Matrices
  PROVE  Product(X, Y) \in Matrices /\ Union(X, Y) \in Matrices
BY DEF Product, Union, Matrices

\* The reference computation is what its recursive definition says.
LEMMA AfterFacts ==
  ASSUME A \in Inputs
  PROVE  /\ After[0] = A
         /\ \A k \in 1 .. Len(Program) :
              After[k] = IF Program[k] = "matmul" THEN Product(After[k - 1], After[k - 1])
                                                  ELSE Union(After[k - 1], A)
         /\ \A k \in 0 .. Len(Program) : After[k] \in Matrices
<1> DEFINE L == Len(Program)
           Next_(k, M) == IF Program[k] = "matmul" THEN Product(M, M) ELSE Union(M, A)
           Rec(n, g) == [k \in 0 .. n |-> IF k = 0 THEN A ELSE Next_(k, g[k - 1])]
<1>0. L \in Nat /\ A \in Matrices
  BY ProgramAssumption, InputsAssumption
<1>1. \E g : g = Rec(L, g)
  <2> DEFINE Bad == {n \in Nat : ~ \E g : g = Rec(n, g)}
  <2>1. Bad = {}
    <3> SUFFICES ASSUME Bad # {} PROVE FALSE
      OBVIOUS
    <3>1. PICK n \in Bad : \A x \in Bad : ~(x < n)
      <4>1. Bad \subseteq Nat
        OBVIOUS
      <4> HIDE DEF Bad
      <4> QED BY <4>1, LeastNat
    <3>2. CASE n = 0
      <4> DEFINE g == [k \in 0 .. 0 |-> A]
      <4>1. g = Rec(0, g)
        OBVIOUS
      <4> QED BY <3>1, <3>2, <4>1
    <3>3. CASE n # 0
      <4>1. n - 1 \in Nat /\ n - 1 < n /\ n \in Nat
        BY <3>1, <3>3
      <4>2. PICK g : g = Rec(n - 1, g)
        BY <3>1, <4>1
      <4> DEFINE h == [k \in 0 .. n |-> IF k < n THEN g[k] ELSE Next_(n, g[n - 1])]
      <4>3. ASSUME NEW k \in 0 .. n PROVE h[k] = Rec(n, h)[k]
        <5> HIDE DEF Next_
        <5>1. CASE k = 0
          BY <4>1, <4>2, <5>1
        <5>2. CASE k # 0 /\ k < n
          <6>1. k \in 0 .. n - 1 /\ k - 1 \in 0 .. n /\ k - 1 < n
            BY <4>1, <5>2
          <6>2. h[k] = g[k] /\ h[k - 1] = g[k - 1]
            BY <6>1, <5>2
          <6>3. g[k] = Next_(k, g[k - 1])
            BY <4>2, <6>1, <5>2
          <6> QED BY <6>2, <6>3, <5>2
        <5>3. CASE k # 0 /\ k = n
          <6>1. h[k] = Next_(n, g[n - 1])
            BY <5>3, <4>1
          <6>2. h[n - 1] = g[n - 1]
            BY <4>1
          <6> QED BY <6>1, <6>2, <5>3
        <5> QED BY <5>1, <5>2, <5>3, <4>1
      <4>4. h = Rec(n, h)
        <5> HIDE DEF Next_
        <5> QED BY <4>3
      <4> QED BY <4>4, <3>1
    <3> QED BY <3>2, <3>3
  <2> QED BY <1>0, <2>1
<1>2. After = Rec(L, After)
  <2>1. After = CHOOSE g : g = Rec(L, g)
    BY DEF After
  <2> HIDE DEF Rec
  <2> QED BY <1>1, <2>1, Zenon
<1>3. After[0] = A
  BY <1>0, <1>2
<1>4. ASSUME NEW k \in 1 .. L PROVE After[k] = Next_(k, After[k - 1])
  <2> HIDE DEF Next_
  <2>1. k \in 0 .. L /\ k # 0
    BY <1>0
  <2> QED BY <1>2, <2>1
<1>5. \A k \in 0 .. L : After[k] \in Matrices
  <2> DEFINE Bad == {n \in 0 .. L : After[n] \notin Matrices}
  <2> SUFFICES ASSUME Bad # {} PROVE FALSE
    OBVIOUS
  <2>1. PICK n \in Bad : \A x \in Bad : ~(x < n)
    <3>1. Bad \subseteq Nat
      BY <1>0
    <3> HIDE DEF Bad
    <3> QED BY <3>1, LeastNat
  <2>2. n # 0
    BY <2>1, <1>3, <1>0
  <2>3. n \in 1 .. L /\ n - 1 \in 0 .. L /\ n - 1 < n
    BY <2>1, <2>2, <1>0
  <2>4. After[n - 1] \in Matrices
    BY <2>1, <2>3
  <2>5. Next_(n, After[n - 1]) \in Matrices
    BY <2>4, <1>0, ProductIsMatrix
  <2> QED BY <2>1, <2>3, <2>5, <1>4
<1> QED BY <1>3, <1>4, <1>5

\* The reference depends on the input matrix alone.
LEMMA AfterConstant == ASSUME A' = A PROVE After' = After
BY DEF After

\* A step that leaves the threads of rank r alone keeps their invariant, if it
\* leaves the phase alone too or they have no cell to do.
LEMMA ThreadsKept ==
  ASSUME NEW r \in Ranks, ThreadInv(r),
         todo'[r] = todo[r], step'[r] = step[r], acc'[r] = acc[r],
         critical'[r] = critical[r], partial'[r] = partial[r],
         phase'[r] = phase[r] \/ \A t \in Teams : todo[r][t] = {}
  PROVE  ThreadInv(r)'
<1>1. \A t : At(r, t)' = At(r, t)
  BY DEF At
<1>2. /\ todo'[r] \in [Teams -> SUBSET DOMAIN Cells[r]]
      /\ step'[r] \in [Teams -> {"dot", "row", "col"}]
      /\ DOMAIN acc'[r] = Teams
  BY DEF ThreadInv
<1>3. phase'[r] # "compute" => \A t \in Teams : todo'[r][t] = {}
  BY DEF ThreadInv
<1>4. critical'[r] = {t \in Teams : step'[r][t] # "dot"} /\ \A t, u \in critical'[r] : t = u
  BY DEF ThreadInv
<1>5. ASSUME NEW t \in Teams
      PROVE  /\ todo'[r][t] \subseteq Share[r][t]
             /\ step'[r][t] # "dot" => todo'[r][t] # {}
             /\ step'[r][t] = "row" => acc'[r][t] = partial'[r].rows[Cells[r][At(r, t)'].i]
             /\ step'[r][t] = "col" => acc'[r][t] = partial'[r].cols[Cells[r][At(r, t)'].j]
  <2>1. At(r, t)' = At(r, t)
    BY <1>1
  <2>2. /\ todo[r][t] \subseteq Share[r][t]
        /\ step[r][t] # "dot" => todo[r][t] # {}
        /\ step[r][t] = "row" => acc[r][t] = partial[r].rows[Cells[r][At(r, t)].i]
        /\ step[r][t] = "col" => acc[r][t] = partial[r].cols[Cells[r][At(r, t)].j]
    BY DEF ThreadInv
  <2> QED BY <2>1, <2>2
<1> QED BY <1>2, <1>3, <1>4, <1>5 DEF ThreadInv

\* A step in which rank s has no part leaves its invariant alone.
LEMMA Untouched ==
  ASSUME NEW s \in Ranks, RankInv(s), A' = A,
         op'[s] = op[s], phase'[s] = phase[s], mat'[s] = mat[s],
         todo'[s] = todo[s], step'[s] = step[s], acc'[s] = acc[s],
         critical'[s] = critical[s], partial'[s] = partial[s],
         rowIn'[s] = rowIn[s], colIn'[s] = colIn[s], rows'[s] = rows[s]
  PROVE  RankInv(s)' /\ RowCalls(s)' = RowCalls(s) /\ ColCalls(s)' = ColCalls(s)
<1>0. After' = After
  BY AfterConstant
<1>1. RowCalls(s)' = RowCalls(s) /\ ColCalls(s)' = ColCalls(s)
  BY DEF RowCalls, ColCalls
<1>2. ThreadInv(s)'
  BY ThreadsKept DEF RankInv
<1>3. RowDone(s)' = RowDone(s) /\ ColDone(s)' = ColDone(s)
  BY DEF RowDone, ColDone, At
<1>4. After[op[s]]' = After[op[s]]
  BY <1>0
<1>5. PartialInv(s)'
  BY <1>3, <1>4 DEF RankInv, PartialInv, Kind
<1>6. \A k : RowPiece(s, k)' = RowPiece(s, k) /\ ColPiece(s, k)' = ColPiece(s, k)
  BY <1>0 DEF RowPiece, ColPiece
<1>7. CallInv(s)'
  BY <1>0, <1>1, <1>6 DEF RankInv, CallInv, Kind
<1> QED BY <1>1, <1>2, <1>5, <1>7 DEF RankInv

\* A step of rank r leaves the input and the state of the others alone.
OnlyRank(r) ==
  /\ A' = A
  /\ \A s \in Ranks \ {r} :
       /\ op'[s] = op[s] /\ phase'[s] = phase[s] /\ mat'[s] = mat[s]
       /\ todo'[s] = todo[s] /\ step'[s] = step[s] /\ acc'[s] = acc[s]
       /\ critical'[s] = critical[s] /\ partial'[s] = partial[s]
       /\ rowIn'[s] = rowIn[s] /\ colIn'[s] = colIn[s] /\ rows'[s] = rows[s]

\* Every action is a step of one rank on its own state.
LEMMA StepsAreLocal ==
  ASSUME Shape, NEW r \in Ranks, RankStep(r) \/ \E t \in Teams : ThreadStep(r, t)
  PROVE  OnlyRank(r) /\ Shape'
<1> USE DEF Shape, OnlyRank, threadVars
<1>1. CASE BeginMatMul(r)
  BY <1>1 DEF BeginMatMul
<1>2. CASE BeginOrMat(r)
  BY <1>2 DEF BeginOrMat
<1>3. CASE EnterRows(r)
  BY <1>3 DEF EnterRows
<1>4. CASE ReturnRows(r)
  BY <1>4 DEF ReturnRows
<1>5. CASE ReturnCols(r)
  BY <1>5 DEF ReturnCols
<1>6. ASSUME NEW t \in Teams, EnterCritical(r, t) PROVE OnlyRank(r) /\ Shape'
  BY <1>6 DEF EnterCritical
<1>7. ASSUME NEW t \in Teams, AccumulateRow(r, t) PROVE OnlyRank(r) /\ Shape'
  BY <1>7 DEF AccumulateRow
<1>8. ASSUME NEW t \in Teams, AccumulateCol(r, t) PROVE OnlyRank(r) /\ Shape'
  BY <1>8 DEF AccumulateCol
<1> QED BY <1>1, <1>2, <1>3, <1>4, <1>5, <1>6, <1>7, <1>8 DEF RankStep, ThreadStep

\* The ranks of a row_comm share their rows, those of a col_comm their columns.
LEMMA Comms ==
  ASSUME NEW r \in Ranks
  PROVE  /\ row_comm[r] = {s \in Ranks : process_row(P, s) = process_row(P, r)}
         /\ col_comm[r] = {s \in Ranks : process_col(P, s) = process_col(P, r)}
         /\ IsFiniteSet(row_comm[r]) /\ IsFiniteSet(col_comm[r])
         /\ \A s \in row_comm[r] : s \in Ranks /\ Rows[s] = Rows[r] /\ r \in row_comm[s]
         /\ \A s \in col_comm[r] : s \in Ranks /\ Cols[s] = Cols[r] /\ r \in col_comm[s]
<1>1. /\ row_comm[r] = {s \in Ranks : process_row(P, s) = process_row(P, r)}
      /\ col_comm[r] = {s \in Ranks : process_col(P, s) = process_col(P, r)}
  BY DEF row_comm, col_comm
<1>2. IsFiniteSet(Ranks)
  BY FS_Interval, SizesAssumption DEF Ranks
<1>3. IsFiniteSet(row_comm[r]) /\ IsFiniteSet(col_comm[r])
  BY <1>1, <1>2, FS_Subset
<1>4. ASSUME NEW s \in row_comm[r] PROVE s \in Ranks /\ Rows[s] = Rows[r] /\ r \in row_comm[s]
  BY <1>1 DEF Rows, RowBlock, row_comm
<1>5. ASSUME NEW s \in col_comm[r] PROVE s \in Ranks /\ Cols[s] = Cols[r] /\ r \in col_comm[s]
  BY <1>1 DEF Cols, ColBlock, col_comm
<1> QED BY <1>1, <1>3, <1>4, <1>5

\* It is enough to look at the rank that steps.
LEMMA OneRank ==
  ASSUME IInv, NEW r \in Ranks, OnlyRank(r), Shape', RankInv(r)',
         RowCalls(r) <= RowCalls(r)',
         \A s \in row_comm[r] : ColCalls(r)' <= RowCalls(s)
  PROVE  IInv'
<1>1. \A s \in Ranks \ {r} : RankInv(s)' /\ RowCalls(s)' = RowCalls(s) /\ ColCalls(s)' = ColCalls(s)
  BY Untouched DEF IInv, OnlyRank
<1>2. \A s \in Ranks : /\ RowCalls(s) \in Int /\ ColCalls(s) \in Int
  <2>1. \A s \in Ranks : op[s] \in 0 .. Len(Program)
    BY DEF IInv, RankInv, CallInv
  <2> QED BY <2>1 DEF RowCalls, ColCalls
<1>3. RowCalls(r)' \in Int /\ ColCalls(r)' \in Int
  <2>1. op'[r] \in 0 .. Len(Program)
    BY DEF RankInv, CallInv
  <2> QED BY <2>1 DEF RowCalls, ColCalls
<1>4. ASSUME NEW s \in Ranks, NEW q \in row_comm[s] PROVE ColCalls(s)' <= RowCalls(q)'
  <2>0. q \in Ranks
    BY Comms
  <2>1. ColCalls(s) <= RowCalls(q)
    BY DEF IInv, WaitInv
  <2>2. CASE s # r
    <3>1. CASE q = r
      BY <1>1, <1>2, <1>3, <2>1, <2>2, <3>1
    <3>2. CASE q # r
      BY <1>1, <2>0, <2>1, <2>2, <3>2
    <3> QED BY <3>1, <3>2
  <2>3. CASE s = r
    <3>1. ColCalls(r)' <= RowCalls(q)
      BY <2>3
    <3>2. CASE q = r
      BY <1>2, <1>3, <2>3, <3>1, <3>2
    <3>3. CASE q # r
      BY <1>1, <2>0, <2>3, <3>1, <3>3
    <3> QED BY <3>2, <3>3
  <2> QED BY <2>2, <2>3
<1>5. WaitInv'
  BY <1>4 DEF WaitInv, row_comm
<1> QED BY <1>1, <1>5 DEF IInv, OnlyRank

\* The zeroed accumulators of MatMulOnGrid.
LEMMA ZeroBlocks ==
  ASSUME NEW r \in Ranks
  PROVE  Distributed([i \in Slots |-> Zero], r) =
           [rows |-> [i \in Rows[r] |-> [s \in Slots |-> 0]],
            cols |-> [j \in Cols[r] |-> [s \in Slots |-> 0]]]
<1> DEFINE M == [i \in Slots |-> Zero]
<1>1. [i \in Rows[r] |-> M[i]] = [i \in Rows[r] |-> [s \in Slots |-> 0]]
  BY RowsAreABlock DEF Zero
<1>2. ASSUME NEW j \in Cols[r] PROVE Column(M, j) = [s \in Slots |-> 0]
  BY RowsAreABlock DEF Zero, Column
<1>3. [j \in Cols[r] |-> Column(M, j)] = [j \in Cols[r] |-> [s \in Slots |-> 0]]
  BY <1>2
<1> QED BY <1>1, <1>3 DEF Distributed

\* The invariant holds at the start.
LEMMA InitIInv == Init => IInv
<1> SUFFICES ASSUME Init PROVE IInv
  OBVIOUS
<1>1. A \in Inputs /\ Shape
  BY DEF Init, Shape
<1>2. After[0] = A /\ Len(Program) \in Nat
  BY <1>1, AfterFacts, ProgramAssumption
<1>3. ASSUME NEW r \in Ranks PROVE RankInv(r)
  <2>1. op[r] = 0 /\ phase[r] = "idle" /\ RowCalls(r) = 0 /\ ColCalls(r) = 0
    BY DEF Init, RowCalls, ColCalls
  <2>2. ThreadInv(r)
    BY <2>1 DEF Init, ThreadInv
  <2>3. PartialInv(r)
    <3>1. partial[r] = Distributed([i \in Slots |-> Zero], r)
      BY DEF Init
    <3>2. ~(phase[r] \in {"compute", "rows"})
      BY <2>1
    <3>3. partial[r] = [rows |-> [i \in Rows[r] |-> [s \in Slots |-> 0]],
                        cols |-> [j \in Cols[r] |-> [s \in Slots |-> 0]]]
      BY <3>1, ZeroBlocks
    <3>4. partial[r] \in [rows : [Rows[r] -> Vectors], cols : [Cols[r] -> Vectors]]
      BY <3>3 DEF Vectors
    <3> QED BY <3>2, <3>4 DEF PartialInv
  <2>4. CallInv(r)
    <3>1. rowIn[r] = [k \in 1 .. RowCalls(r) |-> RowPiece(r, k)]
      BY <2>1 DEF Init
    <3>2. colIn[r] = [k \in 1 .. ColCalls(r) |-> ColPiece(r, k)]
      BY <2>1 DEF Init
    <3>3. mat[r] = Distributed(After[0], r)
      BY <1>2 DEF Init
    <3> QED BY <3>1, <3>2, <3>3, <2>1, <1>2 DEF CallInv
  <2> QED BY <2>2, <2>3, <2>4 DEF RankInv
<1>4. WaitInv
  BY Comms DEF WaitInv, Init, RowCalls, ColCalls
<1> QED BY <1>1, <1>3, <1>4 DEF IInv

\* A step of a thread does not touch what the rank brought and holds.
LEMMA CallsUntouched ==
  ASSUME NEW s \in Ranks, CallInv(s), A' = A,
         op'[s] = op[s], phase'[s] = phase[s], mat'[s] = mat[s],
         rowIn'[s] = rowIn[s], colIn'[s] = colIn[s], rows'[s] = rows[s]
  PROVE  CallInv(s)' /\ RowCalls(s)' = RowCalls(s) /\ ColCalls(s)' = ColCalls(s)
<1>0. After' = After
  BY AfterConstant
<1>1. RowCalls(s)' = RowCalls(s) /\ ColCalls(s)' = ColCalls(s)
  BY DEF RowCalls, ColCalls
<1>6. \A k : RowPiece(s, k)' = RowPiece(s, k) /\ ColPiece(s, k)' = ColPiece(s, k)
  BY <1>0 DEF RowPiece, ColPiece
<1>7. CallInv(s)'
  BY <1>0, <1>1, <1>6 DEF CallInv, Kind
<1> QED BY <1>1, <1>7

\* WaitInv when the step does not bring more to the columns.
LEMMA NoMoreCols ==
  ASSUME IInv, NEW r \in Ranks, ColCalls(r)' = ColCalls(r)
  PROVE  \A s \in row_comm[r] : ColCalls(r)' <= RowCalls(s)
BY DEF IInv, WaitInv

\* The inductive step, action by action.  Entering a matmul: the shares are
\* dealt out and nothing has been added yet.
LEMMA BeginMatMulKeeps ==
  ASSUME IInv, NEW r \in Ranks, BeginMatMul(r), Shape
  PROVE  IInv'
<1>1. OnlyRank(r) /\ Shape' /\ A' = A /\ RankInv(r)
  BY StepsAreLocal DEF IInv, RankStep, OnlyRank
<1>2. /\ phase[r] = "idle" /\ phase'[r] = "compute" /\ op'[r] = op[r] + 1
      /\ op[r] < Len(Program) /\ Program[op[r] + 1] = "matmul"
      /\ todo'[r] = Share[r] /\ step'[r] = step[r] /\ acc'[r] = acc[r]
      /\ critical'[r] = critical[r] /\ mat'[r] = mat[r]
      /\ partial'[r] = Distributed([i \in Slots |-> Zero], r)
      /\ rowIn'[r] = rowIn[r] /\ colIn'[r] = colIn[r]
  BY DEF BeginMatMul, Shape
<1>3. \A t \in Teams : step[r][t] = "dot"
  BY <1>1, <1>2 DEF RankInv, ThreadInv
<1>4. ThreadInv(r)'
  <2>1. Share[r] \in [Teams -> SUBSET DOMAIN Cells[r]]
    <3>1. \A t \in Teams : Share[r][t] \subseteq DOMAIN Cells[r]
      BY SharesTile
    <3>2. Share[r] = [t \in Teams |-> Share[r][t]]
      BY DEF Share
    <3> QED BY <3>1, <3>2
  <2> QED BY <1>1, <1>2, <1>3, <2>1 DEF RankInv, ThreadInv
<1>5. PartialInv(r)'
  <2>1. RowDone(r)' = {} /\ ColDone(r)' = {}
    <3>1. \A n \in DOMAIN Cells[r] : \E t \in Teams : n \in todo'[r][t] /\ step'[r][t] # "col"
      BY <1>2, <1>3, SharesTile
    <3> QED BY <3>1 DEF RowDone, ColDone
  <2>2. \A M : /\ RowsWith(r, M, {}) = [i \in Rows[r] |-> [s \in Slots |-> 0]]
              /\ ColsWith(r, M, {}) = [j \in Cols[r] |-> [s \in Slots |-> 0]]
    BY DEF RowsWith, ColsWith
  <2> QED BY <1>2, <2>1, <2>2, ZeroBlocks DEF PartialInv, Vectors
<1>6. RowCalls(r)' = RowCalls(r) /\ ColCalls(r)' = ColCalls(r) /\ op[r] \in Nat
  BY <1>1, <1>2 DEF RowCalls, ColCalls, RankInv, CallInv
<1>7. CallInv(r)'
  <2>0. After' = After
    BY <1>1, AfterConstant
  <2>1. \A k : RowPiece(r, k)' = RowPiece(r, k) /\ ColPiece(r, k)' = ColPiece(r, k)
    BY <2>0 DEF RowPiece, ColPiece
  <2>2. op'[r] - 1 = op[r] /\ op'[r] \in 0 .. Len(Program) /\ op'[r] > 0
    <3>1. Len(Program) \in Nat
      BY ProgramAssumption
    <3> QED BY <3>1, <1>2, <1>6
  <2> QED BY <1>1, <1>2, <1>6, <2>0, <2>1, <2>2 DEF RankInv, CallInv, Kind
<1> QED BY <1>1, <1>4, <1>5, <1>6, <1>7, NoMoreCols, OneRank DEF RankInv, RowCalls

\* An accumulator to which vector v has been added.
PlusVector(f, x, v) == [f EXCEPT ![x] = EvalAdd(@, v)]

\* Adding one cell to the row and to the column it lies in.
LEMMA AddCell ==
  ASSUME NEW r \in Ranks, NEW M \in Matrices, NEW n \in DOMAIN Cells[r],
         NEW D, D \subseteq DOMAIN Cells[r], n \notin D,
         NEW i \in Rows[r], NEW j \in Cols[r], Cells[r][n] = [i |-> i, j |-> j]
  PROVE  /\ RowsWith(r, M, D \cup {n}) =
              PlusVector(RowsWith(r, M, D), i, MaskMult(M[i][j], j))
         /\ ColsWith(r, M, D \cup {n}) =
              PlusVector(ColsWith(r, M, D), j, MaskMult(M[i][j], i))
<1> DEFINE has(E, a, b) == \E m \in E : Cells[r][m] = [i |-> a, j |-> b]
<1>1. \A a, b : has(D \cup {n}, a, b) <=> has(D, a, b) \/ (a = i /\ b = j)
  OBVIOUS
<1>2. ~has(D, i, j)
  BY CellsAreEnumerated
<1>3. i \in Slots /\ j \in Slots /\ Rows[r] \subseteq Slots /\ Cols[r] \subseteq Slots
  BY RowsAreABlock
<1>4. \A a, b \in Slots : M[a][b] \in {0, 1}
  BY DEF Matrices
<1>5. RowsWith(r, M, D \cup {n}) =
        [RowsWith(r, M, D) EXCEPT ![i] = EvalAdd(@, MaskMult(M[i][j], j))]
  <2> DEFINE R(E) == [a \in Rows[r] |-> [b \in Slots |-> IF has(E, a, b) THEN M[a][b] ELSE 0]]
  <2>1. RowsWith(r, M, D) = R(D) /\ RowsWith(r, M, D \cup {n}) = R(D \cup {n})
    BY DEF RowsWith
  <2> HIDE DEF has
  <2>2. R(D \cup {n})[i] = EvalAdd(R(D)[i], MaskMult(M[i][j], j))
    <3>1. ASSUME NEW b \in Slots
          PROVE  (IF has(D \cup {n}, i, b) THEN M[i][b] ELSE 0) =
                   (IF has(D, i, b) THEN M[i][b] ELSE 0) + (IF b = j THEN M[i][j] ELSE 0)
      <4>1. M[i][b] \in {0, 1}
        BY <1>3, <1>4
      <4> QED BY <4>1, <1>1, <1>2
    <3>2. R(D \cup {n})[i] = [b \in Slots |-> IF has(D \cup {n}, i, b) THEN M[i][b] ELSE 0]
      OBVIOUS
    <3>3. \A b \in Slots : R(D)[i][b] = IF has(D, i, b) THEN M[i][b] ELSE 0
      OBVIOUS
    <3> QED BY <3>1, <3>2, <3>3 DEF EvalAdd, MaskMult
  <2>3. \A a \in Rows[r] : a # i => R(D \cup {n})[a] = R(D)[a]
    BY <1>1
  <2>4. R(D \cup {n}) = [R(D) EXCEPT ![i] = EvalAdd(@, MaskMult(M[i][j], j))]
    BY <2>2, <2>3
  <2> QED BY <2>1, <2>4
<1>6. ColsWith(r, M, D \cup {n}) =
        [ColsWith(r, M, D) EXCEPT ![j] = EvalAdd(@, MaskMult(M[i][j], i))]
  <2> DEFINE C(E) == [b \in Cols[r] |-> [a \in Slots |-> IF has(E, a, b) THEN M[a][b] ELSE 0]]
  <2>1. ColsWith(r, M, D) = C(D) /\ ColsWith(r, M, D \cup {n}) = C(D \cup {n})
    BY DEF ColsWith
  <2> HIDE DEF has
  <2>2. C(D \cup {n})[j] = EvalAdd(C(D)[j], MaskMult(M[i][j], i))
    <3>1. ASSUME NEW a \in Slots
          PROVE  (IF has(D \cup {n}, a, j) THEN M[a][j] ELSE 0) =
                   (IF has(D, a, j) THEN M[a][j] ELSE 0) + (IF a = i THEN M[i][j] ELSE 0)
      <4>1. M[a][j] \in {0, 1}
        BY <1>3, <1>4
      <4> QED BY <4>1, <1>1, <1>2
    <3>2. C(D \cup {n})[j] = [a \in Slots |-> IF has(D \cup {n}, a, j) THEN M[a][j] ELSE 0]
      OBVIOUS
    <3>3. \A a \in Slots : C(D)[j][a] = IF has(D, a, j) THEN M[a][j] ELSE 0
      OBVIOUS
    <3> QED BY <3>1, <3>2, <3>3 DEF EvalAdd, MaskMult
  <2>3. \A b \in Cols[r] : b # j => C(D \cup {n})[b] = C(D)[b]
    BY <1>1
  <2>4. C(D \cup {n}) = [C(D) EXCEPT ![j] = EvalAdd(@, MaskMult(M[i][j], i))]
    BY <2>2, <2>3
  <2> QED BY <2>1, <2>4
<1> QED BY <1>5, <1>6 DEF PlusVector

\* The iteration a thread is at, while it has one left.
LEMMA CurrentCell ==
  ASSUME NEW r \in Ranks, ThreadInv(r), NEW t \in Teams, todo[r][t] # {}
  PROVE  /\ phase[r] = "compute"
         /\ At(r, t) \in todo[r][t] /\ At(r, t) \in DOMAIN Cells[r]
         /\ \A u \in Teams : u # t => At(r, t) \notin todo[r][u]
         /\ Cells[r][At(r, t)].i \in Rows[r] /\ Cells[r][At(r, t)].j \in Cols[r]
         /\ Cells[r][At(r, t)] = [i |-> Cells[r][At(r, t)].i, j |-> Cells[r][At(r, t)].j]
<1>1. phase[r] = "compute" /\ todo[r][t] \subseteq DOMAIN Cells[r] /\ todo[r][t] \subseteq Share[r][t]
  BY DEF ThreadInv
<1>2. At(r, t) \in todo[r][t]
  BY <1>1, CellsAreEnumerated, MinOf DEF At
<1>3. \A u \in Teams : u # t => At(r, t) \notin todo[r][u]
  BY <1>1, <1>2, SharesTile DEF ThreadInv
<1>4. Cells[r][At(r, t)] \in [i : Rows[r], j : Cols[r]]
  BY <1>1, <1>2, CellsAreEnumerated
<1> QED BY <1>1, <1>2, <1>3, <1>4

\* Entering the critical section: what is read there is still what is held.
LEMMA EnterCriticalKeeps ==
  ASSUME IInv, NEW r \in Ranks, NEW t \in Teams, EnterCritical(r, t), Shape
  PROVE  IInv'
<1>1. OnlyRank(r) /\ Shape' /\ A' = A /\ RankInv(r)
  BY StepsAreLocal DEF IInv, ThreadStep, OnlyRank
<1>2. DOMAIN acc[r] = Teams /\ DOMAIN step[r] = Teams
  BY <1>1 DEF RankInv, ThreadInv
<1>3. /\ todo[r][t] # {} /\ step[r][t] = "dot" /\ critical[r] = {}
      /\ op'[r] = op[r] /\ phase'[r] = phase[r] /\ mat'[r] = mat[r]
      /\ todo'[r] = todo[r] /\ partial'[r] = partial[r]
      /\ step'[r] = [step[r] EXCEPT ![t] = "row"]
      /\ acc'[r] = [acc[r] EXCEPT ![t] = partial[r].rows[Cells[r][At(r, t)].i]]
      /\ critical'[r] = {t}
      /\ rowIn'[r] = rowIn[r] /\ colIn'[r] = colIn[r] /\ rows'[r] = rows[r]
  BY DEF EnterCritical, Shape, At
<1>4. ThreadInv(r)'
  <2>1. \A u \in Teams : step[r][u] = "dot"
    BY <1>1, <1>3 DEF RankInv, ThreadInv
  <2>2. critical'[r] = {u \in Teams : step'[r][u] # "dot"}
    BY <1>2, <1>3, <2>1
  <2>3. \A u \in Teams :
          /\ todo'[r][u] \subseteq Share[r][u]
          /\ step'[r][u] # "dot" => todo'[r][u] # {}
          /\ step'[r][u] = "row" => acc'[r][u] = partial'[r].rows[Cells[r][At(r, u)'].i]
          /\ step'[r][u] = "col" => acc'[r][u] = partial'[r].cols[Cells[r][At(r, u)'].j]
    <3>1. ASSUME NEW u \in Teams
          PROVE  todo'[r][u] \subseteq Share[r][u] /\ todo'[r][t] # {} /\ step'[r][u] # "col"
      BY <1>1, <1>2, <1>3, <2>1 DEF RankInv, ThreadInv
    <3>2. \A u \in Teams : step'[r][u] # "dot" => u = t
      BY <1>2, <1>3, <2>1
    <3>3. acc'[r][t] = partial'[r].rows[Cells[r][At(r, t)'].i]
      BY <1>2, <1>3 DEF At
    <3> QED BY <3>1, <3>2, <3>3
  <2>4. step'[r] \in [Teams -> {"dot", "row", "col"}] /\ DOMAIN acc'[r] = Teams
    BY <1>1, <1>2, <1>3 DEF RankInv, ThreadInv
  <2>5. /\ todo'[r] \in [Teams -> SUBSET DOMAIN Cells[r]]
        /\ phase'[r] # "compute" => \A u \in Teams : todo'[r][u] = {}
    BY <1>1, <1>3 DEF RankInv, ThreadInv
  <2> QED BY <1>3, <2>2, <2>3, <2>4, <2>5 DEF ThreadInv
<1>5. PartialInv(r)'
  <2>1. RowDone(r)' = RowDone(r) /\ ColDone(r)' = ColDone(r)
    BY <1>2, <1>3 DEF RowDone, ColDone, At
  <2>2. After[op[r]]' = After[op[r]]
    BY <1>1, <1>3, AfterConstant
  <2> QED BY <1>1, <1>3, <2>1, <2>2 DEF RankInv, PartialInv, Kind
<1>6. CallInv(r)' /\ RowCalls(r)' = RowCalls(r) /\ ColCalls(r)' = ColCalls(r)
  BY <1>1, <1>3, CallsUntouched DEF RankInv
<1>7. RowCalls(r) \in Int
  <2>1. op[r] \in 0 .. Len(Program)
    BY <1>1 DEF RankInv, CallInv
  <2> QED BY <2>1 DEF RowCalls
<1> QED BY <1>1, <1>4, <1>5, <1>6, <1>7, NoMoreCols, OneRank DEF RankInv

\* The product a rank is computing, cell by cell.
LEMMA CurrentProduct ==
  ASSUME IInv, NEW r \in Ranks, phase[r] = "compute"
  PROVE  /\ After[op[r]] \in Matrices
         /\ partial[r] = [rows |-> RowsWith(r, After[op[r]], RowDone(r)),
                          cols |-> ColsWith(r, After[op[r]], ColDone(r))]
         /\ \A i \in Rows[r], j \in Cols[r] :
              DotProduct(r, [i |-> i, j |-> j]) = After[op[r]][i][j]
<1>1. RankInv(r) /\ A \in Inputs
  BY DEF IInv
<1>2. op[r] \in 1 .. Len(Program) /\ Program[op[r]] = "matmul"
  <2>1. op[r] \in 0 .. Len(Program) /\ op[r] > 0 /\ Program[op[r]] = "matmul"
    BY <1>1 DEF RankInv, CallInv, Kind
  <2> QED BY <2>1
<1>3. /\ After[op[r]] \in Matrices /\ After[op[r] - 1] \in Matrices
      /\ After[op[r]] = Product(After[op[r] - 1], After[op[r] - 1])
  <2>1. op[r] \in 0 .. Len(Program) /\ op[r] - 1 \in 0 .. Len(Program)
    BY <1>2, ProgramAssumption
  <2> QED BY <1>1, <1>2, <2>1, AfterFacts
<1>4. mat[r] = Distributed(After[op[r] - 1], r)
  BY <1>1 DEF RankInv, CallInv
<1>5. ASSUME NEW i \in Rows[r], NEW j \in Cols[r]
      PROVE  DotProduct(r, [i |-> i, j |-> j]) = After[op[r]][i][j]
  <2> DEFINE M == After[op[r] - 1]
  <2>1. i \in Slots /\ j \in Slots
    BY RowsAreABlock
  <2>2. mat[r].rows[i] = M[i] /\ mat[r].cols[j] = Column(M, j)
    BY <1>4 DEF Distributed
  <2>3. M[i] \in [Slots -> {0, 1}] /\ Column(M, j) \in [Slots -> {0, 1}]
    BY <1>3, <2>1 DEF Matrices, Column
  <2>4. DotProduct(r, [i |-> i, j |-> j]) = BooleanDotProduct(M[i], Column(M, j))
    BY <2>2 DEF DotProduct
  <2> HIDE DEF M
  <2>5. BooleanDotProduct(M[i], Column(M, j)) =
          IF \E k \in Slots : M[i][k] = 1 /\ Column(M, j)[k] = 1 THEN 1 ELSE 0
    BY <2>3, DotProductOfBits
  <2>6. Product(M, M)[i][j] = IF \E k \in Slots : M[i][k] = 1 /\ M[k][j] = 1 THEN 1 ELSE 0
    BY <2>1 DEF Product
  <2>7. \A k \in Slots : Column(M, j)[k] = M[k][j]
    BY DEF Column
  <2> QED BY <1>3, <2>4, <2>5, <2>6, <2>7 DEF M
<1>6. partial[r] = [rows |-> RowsWith(r, After[op[r]], RowDone(r)),
                    cols |-> ColsWith(r, After[op[r]], ColDone(r))]
  BY <1>1, <1>2 DEF RankInv, PartialInv, Kind
<1> QED BY <1>3, <1>5, <1>6

\* The vectors stay bits.
LEMMA VectorsOfCells ==
  ASSUME NEW r \in Ranks, NEW M \in Matrices, NEW D
  PROVE  RowsWith(r, M, D) \in [Rows[r] -> Vectors] /\ ColsWith(r, M, D) \in [Cols[r] -> Vectors]
<1>1. \A i \in Rows[r], s \in Slots : M[i][s] \in {0, 1}
  BY RowsAreABlock DEF Matrices
<1>2. \A j \in Cols[r], s \in Slots : M[s][j] \in {0, 1}
  BY RowsAreABlock DEF Matrices
<1>3. RowsWith(r, M, D) \in [Rows[r] -> Vectors]
  BY <1>1 DEF RowsWith, Vectors
<1>4. ColsWith(r, M, D) \in [Cols[r] -> Vectors]
  BY <1>2 DEF ColsWith, Vectors
<1> QED BY <1>3, <1>4

\* Writing the row accumulator back: the cell joins RowDone, its slot was 0
\* because no cell is visited twice, and no other thread wrote in between.
LEMMA AccumulateRowKeeps ==
  ASSUME IInv, NEW r \in Ranks, NEW t \in Teams, AccumulateRow(r, t), Shape
  PROVE  IInv'
<1> DEFINE n == At(r, t)
           i == Cells[r][n].i
           j == Cells[r][n].j
           M == After[op[r]]
<1>1. OnlyRank(r) /\ Shape' /\ A' = A /\ RankInv(r) /\ ThreadInv(r)
  BY StepsAreLocal DEF IInv, ThreadStep, OnlyRank, RankInv
<1>2. DOMAIN acc[r] = Teams /\ DOMAIN step[r] = Teams /\ step[r][t] = "row" /\ todo[r][t] # {}
  BY <1>1 DEF ThreadInv, AccumulateRow
<1>3. /\ phase[r] = "compute" /\ n \in todo[r][t] /\ n \in DOMAIN Cells[r]
      /\ \A u \in Teams : u # t => n \notin todo[r][u]
      /\ i \in Rows[r] /\ j \in Cols[r] /\ Cells[r][n] = [i |-> i, j |-> j]
  BY <1>1, <1>2, CurrentCell
<1>4. /\ M \in Matrices /\ DotProduct(r, Cells[r][n]) = M[i][j]
      /\ partial[r] = [rows |-> RowsWith(r, M, RowDone(r)), cols |-> ColsWith(r, M, ColDone(r))]
  BY <1>3, CurrentProduct
<1>5. \A u \in Teams : u # t => step[r][u] = "dot"
  BY <1>1, <1>2 DEF ThreadInv
<1>6. acc[r][t] = partial[r].rows[i]
  BY <1>1, <1>2 DEF ThreadInv
<1>7. /\ op'[r] = op[r] /\ phase'[r] = phase[r] /\ mat'[r] = mat[r]
      /\ todo'[r] = todo[r] /\ critical'[r] = critical[r]
      /\ partial'[r] = [partial[r] EXCEPT !.rows[i] = EvalAdd(acc[r][t], MaskMult(M[i][j], j))]
      /\ step'[r] = [step[r] EXCEPT ![t] = "col"]
      /\ acc'[r] = [acc[r] EXCEPT ![t] = partial[r].cols[j]]
      /\ rowIn'[r] = rowIn[r] /\ colIn'[r] = colIn[r] /\ rows'[r] = rows[r]
  BY <1>4 DEF AccumulateRow, Shape, At
<1>8. RowDone(r)' = RowDone(r) \cup {n} /\ ColDone(r)' = ColDone(r) /\ n \notin RowDone(r)
  <2>1. ColDone(r)' = ColDone(r)
    BY <1>7 DEF ColDone
  <2>2. \A u \in Teams : At(r, u)' = At(r, u)
    BY <1>7 DEF At
  <2>3. n \notin RowDone(r)
    BY <1>2, <1>3 DEF RowDone
  <2>4. ASSUME NEW m \in DOMAIN Cells[r]
        PROVE  m \in RowDone(r)' <=> m \in RowDone(r) \/ m = n
    <3>1. m \in RowDone(r)' <=> \A u \in Teams : m \in todo[r][u] => step'[r][u] = "col" /\ m = At(r, u)
      BY <1>7, <2>2 DEF RowDone
    <3>2. step'[r][t] = "col" /\ \A u \in Teams : u # t => step'[r][u] = step[r][u]
      BY <1>2, <1>7
    <3>3. CASE m = n
      BY <3>1, <3>2, <3>3, <1>3
    <3>4. CASE m # n
      BY <3>1, <3>2, <3>4, <1>2 DEF RowDone
    <3> QED BY <3>3, <3>4
  <2>5. RowDone(r)' \subseteq DOMAIN Cells[r] /\ RowDone(r) \subseteq DOMAIN Cells[r]
    BY DEF RowDone
  <2> QED BY <1>3, <2>1, <2>3, <2>4, <2>5
<1>9. M' = M
  BY <1>1, <1>7, AfterConstant
<1> HIDE DEF M, i, j
<1>10. partial'[r] = [rows |-> RowsWith(r, M, RowDone(r)'), cols |-> ColsWith(r, M, ColDone(r)')]
  <2>1. RowsWith(r, M, RowDone(r) \cup {n}) =
          [RowsWith(r, M, RowDone(r)) EXCEPT ![i] = EvalAdd(@, MaskMult(M[i][j], j))]
    <3> DEFINE D == RowDone(r)
    <3>1. D \subseteq DOMAIN Cells[r] /\ n \notin D
      BY <1>8 DEF RowDone
    <3> HIDE DEF n, D
    <3>2. M \in Matrices /\ n \in DOMAIN Cells[r] /\ i \in Rows[r] /\ j \in Cols[r]
            /\ Cells[r][n] = [i |-> i, j |-> j]
      BY <1>3, <1>4
    <3>3. RowsWith(r, M, D \cup {n}) =
            PlusVector(RowsWith(r, M, D), i, MaskMult(M[i][j], j))
      BY <3>1, <3>2, AddCell
    <3> QED BY <3>3 DEF D, PlusVector
  <2>2. partial'[r] = [rows |-> [RowsWith(r, M, RowDone(r)) EXCEPT
                                   ![i] = EvalAdd(RowsWith(r, M, RowDone(r))[i], MaskMult(M[i][j], j))],
                       cols |-> ColsWith(r, M, ColDone(r))]
    BY <1>4, <1>6, <1>7
  <2>3. i \in DOMAIN RowsWith(r, M, RowDone(r))
    BY <1>3 DEF RowsWith
  <2> QED BY <1>8, <2>1, <2>2, <2>3
<1>11. PartialInv(r)'
  <2>1. partial'[r] \in [rows : [Rows[r] -> Vectors], cols : [Cols[r] -> Vectors]]
    BY <1>4, <1>10, VectorsOfCells
  <2> QED BY <1>9, <1>10, <2>1 DEF PartialInv, Kind, M
<1>12. ThreadInv(r)'
  <2>1. critical'[r] = {u \in Teams : step'[r][u] # "dot"}
    BY <1>1, <1>2, <1>7 DEF ThreadInv
  <2>2. \A u \in Teams :
          /\ todo'[r][u] \subseteq Share[r][u]
          /\ step'[r][u] # "dot" => todo'[r][u] # {}
          /\ step'[r][u] # "row" /\ (step'[r][u] = "col" => u = t)
    BY <1>1, <1>2, <1>5, <1>7 DEF ThreadInv
  <2>3. acc'[r][t] = partial'[r].cols[Cells[r][At(r, t)'].j]
    <3>1. At(r, t)' = n
      BY <1>7 DEF At
    <3> QED BY <3>1, <1>2, <1>4, <1>7 DEF j
  <2>4. step'[r] \in [Teams -> {"dot", "row", "col"}] /\ DOMAIN acc'[r] = Teams
    BY <1>1, <1>2, <1>7 DEF ThreadInv
  <2>5. /\ todo'[r] \in [Teams -> SUBSET DOMAIN Cells[r]]
        /\ phase'[r] # "compute" => \A u \in Teams : todo'[r][u] = {}
        /\ \A u, v \in critical'[r] : u = v
    BY <1>1, <1>7 DEF ThreadInv
  <2> QED BY <2>1, <2>2, <2>3, <2>4, <2>5 DEF ThreadInv
<1>13. CallInv(r)' /\ RowCalls(r)' = RowCalls(r) /\ ColCalls(r)' = ColCalls(r)
  BY <1>1, <1>7, CallsUntouched DEF RankInv
<1>14. RowCalls(r) \in Int
  <2>1. op[r] \in 0 .. Len(Program)
    BY <1>1 DEF RankInv, CallInv
  <2> QED BY <2>1 DEF RowCalls
<1> QED BY <1>1, <1>11, <1>12, <1>13, <1>14, NoMoreCols, OneRank DEF RankInv

\* Writing the column accumulator back: the cell joins ColDone.
LEMMA AccumulateColKeeps ==
  ASSUME IInv, NEW r \in Ranks, NEW t \in Teams, AccumulateCol(r, t), Shape
  PROVE  IInv'
<1> DEFINE n == At(r, t)
           i == Cells[r][n].i
           j == Cells[r][n].j
           M == After[op[r]]
<1>1. OnlyRank(r) /\ Shape' /\ A' = A /\ RankInv(r) /\ ThreadInv(r)
  BY StepsAreLocal DEF IInv, ThreadStep, OnlyRank, RankInv
<1>2. /\ DOMAIN acc[r] = Teams /\ DOMAIN step[r] = Teams /\ DOMAIN todo[r] = Teams
      /\ step[r][t] = "col" /\ todo[r][t] # {}
  BY <1>1 DEF ThreadInv, AccumulateCol
<1>3. /\ phase[r] = "compute" /\ n \in todo[r][t] /\ n \in DOMAIN Cells[r]
      /\ \A u \in Teams : u # t => n \notin todo[r][u]
      /\ i \in Rows[r] /\ j \in Cols[r] /\ Cells[r][n] = [i |-> i, j |-> j]
  BY <1>1, <1>2, CurrentCell
<1>4. /\ M \in Matrices /\ DotProduct(r, Cells[r][n]) = M[i][j]
      /\ partial[r] = [rows |-> RowsWith(r, M, RowDone(r)), cols |-> ColsWith(r, M, ColDone(r))]
  BY <1>3, CurrentProduct
<1>5. critical[r] = {t} /\ \A u \in Teams : u # t => step[r][u] = "dot"
  BY <1>1, <1>2 DEF ThreadInv
<1>6. acc[r][t] = partial[r].cols[j]
  BY <1>1, <1>2 DEF ThreadInv
<1>7. /\ op'[r] = op[r] /\ phase'[r] = phase[r] /\ mat'[r] = mat[r]
      /\ todo'[r] = [todo[r] EXCEPT ![t] = @ \ {n}] /\ critical'[r] = critical[r] \ {t}
      /\ partial'[r] = [partial[r] EXCEPT !.cols[j] = EvalAdd(acc[r][t], MaskMult(M[i][j], i))]
      /\ step'[r] = [step[r] EXCEPT ![t] = "dot"]
      /\ acc'[r] = [acc[r] EXCEPT ![t] = Zero]
      /\ rowIn'[r] = rowIn[r] /\ colIn'[r] = colIn[r] /\ rows'[r] = rows[r]
  BY <1>4 DEF AccumulateCol, Shape, At
<1>8. RowDone(r)' = RowDone(r) /\ ColDone(r)' = ColDone(r) \cup {n} /\ n \notin ColDone(r)
  <2>1. \A u \in Teams : u # t => todo'[r][u] = todo[r][u] /\ step'[r][u] = step[r][u] /\ At(r, u)' = At(r, u)
    BY <1>2, <1>7 DEF At
  <2>2. todo'[r][t] = todo[r][t] \ {n} /\ step'[r][t] = "dot"
    BY <1>2, <1>7
  <2>3. n \notin ColDone(r)
    BY <1>3 DEF ColDone
  <2>4. ASSUME NEW m \in DOMAIN Cells[r]
        PROVE  /\ m \in ColDone(r)' <=> m \in ColDone(r) \/ m = n
               /\ m \in RowDone(r)' <=> m \in RowDone(r)
    <3>1. m \in ColDone(r)' <=> \A u \in Teams : m \notin todo'[r][u]
      BY DEF ColDone
    <3>2. m \in RowDone(r)' <=> \A u \in Teams : m \in todo'[r][u] => step'[r][u] = "col" /\ m = At(r, u)'
      BY DEF RowDone
    <3>3. CASE m = n
      BY <3>1, <3>2, <3>3, <2>1, <2>2, <1>2, <1>3 DEF RowDone
    <3>4. CASE m # n
      BY <3>1, <3>2, <3>4, <2>1, <2>2, <1>2 DEF RowDone, ColDone
    <3> QED BY <3>3, <3>4
  <2>5. /\ RowDone(r)' \subseteq DOMAIN Cells[r] /\ RowDone(r) \subseteq DOMAIN Cells[r]
        /\ ColDone(r)' \subseteq DOMAIN Cells[r] /\ ColDone(r) \subseteq DOMAIN Cells[r]
    BY DEF RowDone, ColDone
  <2> QED BY <1>3, <2>3, <2>4, <2>5
<1>9. M' = M
  BY <1>1, <1>7, AfterConstant
<1> HIDE DEF M, i, j
<1>10. partial'[r] = [rows |-> RowsWith(r, M, RowDone(r)'), cols |-> ColsWith(r, M, ColDone(r)')]
  <2>1. ColsWith(r, M, ColDone(r) \cup {n}) =
          [ColsWith(r, M, ColDone(r)) EXCEPT ![j] = EvalAdd(@, MaskMult(M[i][j], i))]
    <3> DEFINE D == ColDone(r)
    <3>1. D \subseteq DOMAIN Cells[r] /\ n \notin D
      BY <1>8 DEF ColDone
    <3> HIDE DEF n, D
    <3>2. M \in Matrices /\ n \in DOMAIN Cells[r] /\ i \in Rows[r] /\ j \in Cols[r]
            /\ Cells[r][n] = [i |-> i, j |-> j]
      BY <1>3, <1>4
    <3>3. ColsWith(r, M, D \cup {n}) =
            PlusVector(ColsWith(r, M, D), j, MaskMult(M[i][j], i))
      BY <3>1, <3>2, AddCell
    <3> QED BY <3>3 DEF D, PlusVector
  <2>2. partial'[r] = [rows |-> RowsWith(r, M, RowDone(r)),
                       cols |-> [ColsWith(r, M, ColDone(r)) EXCEPT
                                   ![j] = EvalAdd(ColsWith(r, M, ColDone(r))[j], MaskMult(M[i][j], i))]]
    BY <1>4, <1>6, <1>7
  <2>3. j \in DOMAIN ColsWith(r, M, ColDone(r))
    BY <1>3 DEF ColsWith
  <2> QED BY <1>8, <2>1, <2>2, <2>3
<1>11. PartialInv(r)'
  <2>1. partial'[r] \in [rows : [Rows[r] -> Vectors], cols : [Cols[r] -> Vectors]]
    BY <1>4, <1>10, VectorsOfCells
  <2> QED BY <1>9, <1>10, <2>1 DEF PartialInv, Kind, M
<1>12. ThreadInv(r)'
  <2>1. \A u \in Teams : step'[r][u] = "dot"
    BY <1>2, <1>5, <1>7
  <2>2. \A u \in Teams : todo'[r][u] \subseteq todo[r][u]
    BY <1>2, <1>7
  <2>3. todo'[r] \in [Teams -> SUBSET DOMAIN Cells[r]]
    BY <1>1, <1>7 DEF ThreadInv
  <2>4. step'[r] \in [Teams -> {"dot", "row", "col"}] /\ DOMAIN acc'[r] = Teams
    BY <1>1, <1>2, <1>7 DEF ThreadInv
  <2>5. critical'[r] = {}
    BY <1>5, <1>7
  <2>6. \A u \in Teams : todo'[r][u] \subseteq Share[r][u]
    BY <1>1, <2>2 DEF ThreadInv
  <2> QED BY <1>3, <1>7, <2>1, <2>3, <2>4, <2>5, <2>6 DEF ThreadInv
<1>13. CallInv(r)' /\ RowCalls(r)' = RowCalls(r) /\ ColCalls(r)' = ColCalls(r)
  BY <1>1, <1>7, CallsUntouched DEF RankInv
<1>14. RowCalls(r) \in Int
  <2>1. op[r] \in 0 .. Len(Program)
    BY <1>1 DEF RankInv, CallInv
  <2> QED BY <2>1 DEF RowCalls
<1> QED BY <1>1, <1>11, <1>12, <1>13, <1>14, NoMoreCols, OneRank DEF RankInv

\* When the parallel region has joined, every cell has been added.
LEMMA CellsAdded ==
  ASSUME NEW r \in Ranks, \A t \in Teams : todo[r][t] = {}
  PROVE  RowDone(r) = DOMAIN Cells[r] /\ ColDone(r) = DOMAIN Cells[r]
BY DEF RowDone, ColDone

\* And then the accumulators are what the rank brings to the assembly.
LEMMA AllCells ==
  ASSUME NEW r \in Ranks, NEW k, Program[k] = "matmul"
  PROVE  /\ RowPiece(r, k) = RowsWith(r, After[k], DOMAIN Cells[r])
         /\ ColPiece(r, k) = ColsWith(r, After[k], DOMAIN Cells[r])
<1> DEFINE has(a, b) == \E n \in DOMAIN Cells[r] : Cells[r][n] = [i |-> a, j |-> b]
<1>1. ASSUME NEW a, NEW b, has(a, b) PROVE a \in Rows[r] /\ b \in Cols[r]
  <2>1. PICK n \in DOMAIN Cells[r] : Cells[r][n] = [i |-> a, j |-> b]
    BY <1>1
  <2>2. [i |-> a, j |-> b] \in [i : Rows[r], j : Cols[r]]
    BY <2>1, CellsAreEnumerated
  <2>3. [i |-> a, j |-> b].i \in Rows[r] /\ [i |-> a, j |-> b].j \in Cols[r]
    BY <2>2
  <2> QED BY <2>3
<1>2. \A a \in Rows[r], b \in Cols[r] : has(a, b)
  BY CellsAreEnumerated
<1>3. /\ RowPiece(r, k) = [a \in Rows[r] |-> [s \in Slots |-> IF s \in Cols[r] THEN After[k][a][s] ELSE 0]]
      /\ ColPiece(r, k) = [b \in Cols[r] |-> [s \in Slots |-> IF s \in Rows[r] THEN After[k][s][b] ELSE 0]]
  BY DEF RowPiece, ColPiece
<1>4. /\ RowsWith(r, After[k], DOMAIN Cells[r]) =
           [a \in Rows[r] |-> [s \in Slots |-> IF has(a, s) THEN After[k][a][s] ELSE 0]]
      /\ ColsWith(r, After[k], DOMAIN Cells[r]) =
           [b \in Cols[r] |-> [s \in Slots |-> IF has(s, b) THEN After[k][s][b] ELSE 0]]
  BY DEF RowsWith, ColsWith
<1> HIDE DEF has
<1>5. \A a \in Rows[r], s \in Slots : s \in Cols[r] <=> has(a, s)
  BY <1>1, <1>2
<1>6. \A b \in Cols[r], s \in Slots : s \in Rows[r] <=> has(s, b)
  BY <1>1, <1>2
<1>7. [a \in Rows[r] |-> [s \in Slots |-> IF s \in Cols[r] THEN After[k][a][s] ELSE 0]] =
        [a \in Rows[r] |-> [s \in Slots |-> IF has(a, s) THEN After[k][a][s] ELSE 0]]
  BY <1>5
<1>8. [b \in Cols[r] |-> [s \in Slots |-> IF s \in Rows[r] THEN After[k][s][b] ELSE 0]] =
        [b \in Cols[r] |-> [s \in Slots |-> IF has(s, b) THEN After[k][s][b] ELSE 0]]
  BY <1>6
<1> QED BY <1>3, <1>4, <1>7, <1>8

\* What a rank brings to a call is determined by the input.
LEMMA PiecesConstant ==
  ASSUME A' = A
  PROVE  \A r, k : RowPiece(r, k)' = RowPiece(r, k) /\ ColPiece(r, k)' = ColPiece(r, k)
<1>1. After' = After
  BY AfterConstant
<1> QED BY <1>1 DEF RowPiece, ColPiece

\* The OR of the vectors a rank owns is what it owns of the union.
LEMMA OrOfVectors ==
  ASSUME NEW X \in Matrices, NEW Y \in Matrices, NEW i \in Slots
  PROVE  /\ EvalBooleanOR(X[i], Y[i]) = Union(X, Y)[i]
         /\ EvalBooleanOR(Column(X, i), Column(Y, i)) = Column(Union(X, Y), i)
<1>1. \A a, b \in Slots : X[a][b] \in {0, 1} /\ Y[a][b] \in {0, 1}
  BY DEF Matrices
<1>2. \A a, b \in Slots : Or(X[a][b], Y[a][b]) = IF X[a][b] = 1 \/ Y[a][b] = 1 THEN 1 ELSE 0
  BY <1>1 DEF Or
<1>3. EvalBooleanOR(X[i], Y[i]) = Union(X, Y)[i]
  BY <1>2 DEF EvalBooleanOR, Union
<1>4. EvalBooleanOR(Column(X, i), Column(Y, i)) = Column(Union(X, Y), i)
  BY <1>2 DEF EvalBooleanOR, Union, Column
<1> QED BY <1>3, <1>4

\* What rank r ORs in call k is what it brings: its share of the union.
LEMMA OwnedPieces ==
  ASSUME A \in Inputs, NEW r \in Ranks, NEW k \in 1 .. Len(Program), Program[k] # "matmul",
         mat[r] = Distributed(After[k - 1], r)
  PROVE  /\ [i \in OwnedRows(r) |-> EvalBooleanOR(mat[r].rows[i], Distributed(A, r).rows[i])]
              = RowPiece(r, k)
         /\ OrCols(r) = ColPiece(r, k)
<1>1. A \in Matrices /\ After[k - 1] \in Matrices /\ After[k] = Union(After[k - 1], A)
  <2>1. k - 1 \in 0 .. Len(Program)
    BY ProgramAssumption
  <2> QED BY <2>1, AfterFacts, InputsAssumption
<1>2. OwnedRows(r) \subseteq Slots /\ OwnedRows(r) \subseteq Rows[r]
      /\ OwnedCols(r) \subseteq Slots /\ OwnedCols(r) \subseteq Cols[r]
  BY RowsAreABlock DEF OwnedRows, OwnedCols
<1>3. \A i \in Rows[r] : mat[r].rows[i] = After[k - 1][i] /\ Distributed(A, r).rows[i] = A[i]
  BY DEF Distributed
<1>4. \A j \in Cols[r] : /\ mat[r].cols[j] = Column(After[k - 1], j)
                         /\ Distributed(A, r).cols[j] = Column(A, j)
  BY DEF Distributed
<1>5. \A i \in OwnedRows(r) :
         EvalBooleanOR(mat[r].rows[i], Distributed(A, r).rows[i]) = After[k][i]
  BY <1>1, <1>2, <1>3, OrOfVectors
<1>6. \A j \in OwnedCols(r) :
         EvalBooleanOR(mat[r].cols[j], Distributed(A, r).cols[j]) = Column(After[k], j)
  BY <1>1, <1>2, <1>4, OrOfVectors
<1>7. RowPiece(r, k) = [i \in OwnedRows(r) |-> After[k][i]]
      /\ ColPiece(r, k) = [j \in OwnedCols(r) |-> Column(After[k], j)]
  BY DEF RowPiece, ColPiece
<1>8. OrCols(r) = [j \in OwnedCols(r) |-> EvalBooleanOR(mat[r].cols[j], Distributed(A, r).cols[j])]
  BY DEF OrCols
<1> QED BY <1>5, <1>6, <1>7, <1>8

\* Entering an or_mat: the rank brings the OR of the rows it owns.
LEMMA BeginOrMatKeeps ==
  ASSUME IInv, NEW r \in Ranks, BeginOrMat(r), Shape
  PROVE  IInv'
<1>1. OnlyRank(r) /\ Shape' /\ A' = A /\ A \in Inputs /\ RankInv(r)
  BY StepsAreLocal DEF IInv, RankStep, OnlyRank
<1>2. /\ phase[r] = "idle" /\ phase'[r] = "rows" /\ op'[r] = op[r] + 1
      /\ op[r] < Len(Program) /\ Program[op[r] + 1] = "or_mat"
      /\ todo'[r] = todo[r] /\ step'[r] = step[r] /\ acc'[r] = acc[r]
      /\ critical'[r] = critical[r] /\ mat'[r] = mat[r] /\ partial'[r] = partial[r]
      /\ rowIn'[r] = Append(rowIn[r],
           [i \in OwnedRows(r) |-> EvalBooleanOR(mat[r].rows[i], Distributed(A, r).rows[i])])
      /\ colIn'[r] = colIn[r]
  BY DEF BeginOrMat, Shape, threadVars
<1>3. op[r] \in Nat /\ Len(Program) \in Nat
  BY <1>1, ProgramAssumption DEF RankInv, CallInv
<1>4. /\ op'[r] \in 1 .. Len(Program) /\ Program[op'[r]] = "or_mat" /\ op'[r] - 1 = op[r]
      /\ op[r] + 1 \in 1 .. Len(Program) /\ (op[r] + 1) - 1 = op[r]
  BY <1>2, <1>3
<1>5. RowCalls(r) = op[r] /\ ColCalls(r) = op[r] /\ RowCalls(r)' = op[r] + 1 /\ ColCalls(r)' = op[r]
  BY <1>2, <1>4 DEF RowCalls, ColCalls
<1>6. /\ mat[r] = Distributed(After[op[r]], r)
      /\ rowIn[r] = [k \in 1 .. op[r] |-> RowPiece(r, k)]
      /\ colIn[r] = [k \in 1 .. op[r] |-> ColPiece(r, k)]
  BY <1>1, <1>2, <1>5 DEF RankInv, CallInv
<1>7. rowIn'[r] = [k \in 1 .. op[r] + 1 |-> RowPiece(r, k)]
  <2> DEFINE g == [k \in 1 .. op[r] + 1 |-> RowPiece(r, k)]
  <2>1. "or_mat" # "matmul"
    OBVIOUS
  <2>2. [i \in OwnedRows(r) |-> EvalBooleanOR(mat[r].rows[i], Distributed(A, r).rows[i])]
          = RowPiece(r, op[r] + 1)
    BY <1>1, <1>2, <1>4, <1>6, <2>1, OwnedPieces
  <2>3. rowIn'[r] = Append(rowIn[r], g[op[r] + 1])
    BY <1>2, <1>4, <2>2
  <2>4. rowIn[r] = [k \in 1 .. op[r] |-> g[k]]
    BY <1>3, <1>6
  <2>5. g = [k \in 1 .. op[r] + 1 |-> g[k]]
    OBVIOUS
  <2> HIDE DEF g
  <2>6. Append(rowIn[r], g[op[r] + 1]) = g
    BY <1>3, <2>4, <2>5, AppendNext
  <2> QED BY <2>3, <2>6 DEF g
<1>8. ThreadInv(r)'
  <2>1. ThreadInv(r) /\ \A t \in Teams : todo[r][t] = {}
    BY <1>1, <1>2 DEF RankInv, ThreadInv
  <2> QED BY <1>2, <2>1, ThreadsKept
<1>9. PartialInv(r)'
  BY <1>1, <1>2, <1>4 DEF RankInv, PartialInv, Kind
<1>10. CallInv(r)'
  <2>1. After' = After
    BY <1>1, AfterConstant
  <2>2. \A k : RowPiece(r, k)' = RowPiece(r, k) /\ ColPiece(r, k)' = ColPiece(r, k)
    BY <1>1, PiecesConstant
  <2>3. op'[r] \in 0 .. Len(Program) /\ op'[r] > 0
    BY <1>4
  <2> QED BY <1>2, <1>4, <1>5, <1>6, <1>7, <2>1, <2>2, <2>3 DEF CallInv, Kind
<1>11. ColCalls(r)' = ColCalls(r) /\ RowCalls(r) <= RowCalls(r)'
  BY <1>3, <1>5
<1> QED BY <1>1, <1>8, <1>9, <1>10, <1>11, NoMoreCols, OneRank DEF RankInv

\* Entering AssembleRows: the rank brings its complete row accumulators.
LEMMA EnterRowsKeeps ==
  ASSUME IInv, NEW r \in Ranks, EnterRows(r), Shape
  PROVE  IInv'
<1>1. OnlyRank(r) /\ Shape' /\ A' = A /\ A \in Inputs /\ RankInv(r)
  BY StepsAreLocal DEF IInv, RankStep, OnlyRank
<1>2. /\ phase[r] = "compute" /\ phase'[r] = "rows" /\ op'[r] = op[r]
      /\ \A t \in Teams : todo[r][t] = {}
      /\ todo'[r] = todo[r] /\ step'[r] = step[r] /\ acc'[r] = acc[r]
      /\ critical'[r] = critical[r] /\ mat'[r] = mat[r] /\ partial'[r] = partial[r]
      /\ rowIn'[r] = Append(rowIn[r], partial[r].rows)
      /\ colIn'[r] = colIn[r]
  BY DEF EnterRows, Shape, threadVars
<1>3. /\ op[r] \in 0 .. Len(Program) /\ Len(Program) \in Nat /\ op[r] > 0
      /\ Program[op[r]] = "matmul"
  BY <1>1, <1>2, ProgramAssumption DEF RankInv, CallInv, Kind
<1>4. RowCalls(r) = op[r] - 1 /\ ColCalls(r) = op[r] - 1 /\ RowCalls(r)' = op[r] /\ ColCalls(r)' = op[r] - 1
  BY <1>2 DEF RowCalls, ColCalls
<1>5. /\ mat[r] = Distributed(After[op[r] - 1], r)
      /\ rowIn[r] = [k \in 1 .. op[r] - 1 |-> RowPiece(r, k)]
      /\ colIn[r] = [k \in 1 .. op[r] - 1 |-> ColPiece(r, k)]
  BY <1>1, <1>2, <1>4 DEF RankInv, CallInv
<1>6. partial[r].rows = RowPiece(r, op[r])
  <2>1. partial[r].rows = RowsWith(r, After[op[r]], RowDone(r))
    <3>1. partial[r] = [rows |-> RowsWith(r, After[op[r]], RowDone(r)),
                        cols |-> ColsWith(r, After[op[r]], ColDone(r))]
      BY <1>2, CurrentProduct
    <3> QED BY <3>1
  <2>2. RowDone(r) = DOMAIN Cells[r]
    BY <1>2, CellsAdded
  <2>3. RowPiece(r, op[r]) = RowsWith(r, After[op[r]], DOMAIN Cells[r])
    BY <1>3, AllCells
  <2> QED BY <2>1, <2>2, <2>3
<1>7. rowIn'[r] = [k \in 1 .. op[r] |-> RowPiece(r, k)]
  <2> DEFINE g == [k \in 1 .. op[r] |-> RowPiece(r, k)]
             n == op[r] - 1
  <2>0. n \in Nat /\ n + 1 = op[r] /\ n + 1 \in 1 .. op[r]
    BY <1>3
  <2>3. rowIn'[r] = Append(rowIn[r], g[n + 1])
    BY <1>2, <1>6, <2>0
  <2>4. rowIn[r] = [k \in 1 .. n |-> g[k]]
    BY <1>3, <1>5
  <2>5. g = [k \in 1 .. n + 1 |-> g[k]]
    BY <2>0
  <2> HIDE DEF g, n
  <2>6. Append(rowIn[r], g[n + 1]) = g
    BY <2>0, <2>4, <2>5, AppendNext
  <2> QED BY <2>3, <2>6 DEF g
<1>8. ThreadInv(r)'
  <2>1. ThreadInv(r) /\ \A t \in Teams : todo[r][t] = {}
    BY <1>1, <1>2 DEF RankInv, ThreadInv
  <2> QED BY <1>2, <2>1, ThreadsKept
<1>9. PartialInv(r)'
  <2>1. RowDone(r)' = RowDone(r) /\ ColDone(r)' = ColDone(r)
    BY <1>2 DEF RowDone, ColDone, At
  <2>2. After[op[r]]' = After[op[r]]
    BY <1>1, <1>2, AfterConstant
  <2> QED BY <1>1, <1>2, <2>1, <2>2 DEF RankInv, PartialInv, Kind
<1>10. CallInv(r)'
  <2>1. After' = After
    BY <1>1, AfterConstant
  <2>2. \A k : RowPiece(r, k)' = RowPiece(r, k) /\ ColPiece(r, k)' = ColPiece(r, k)
    BY <1>1, PiecesConstant
  <2> QED BY <1>2, <1>3, <1>4, <1>5, <1>7, <2>1, <2>2 DEF CallInv, Kind
<1>11. ColCalls(r)' = ColCalls(r) /\ RowCalls(r) <= RowCalls(r)'
  BY <1>3, <1>4
<1> QED BY <1>1, <1>8, <1>9, <1>10, <1>11, NoMoreCols, OneRank DEF RankInv

\* Two ranks of one row and one column of the grid are the same rank.
LEMMA OneRankPerPlace ==
  ASSUME NEW r \in Ranks, NEW s \in Ranks,
         process_row(P, r) = process_row(P, s), process_col(P, r) = process_col(P, s)
  PROVE  r = s
<1>1. r \in Nat /\ s \in Nat /\ Pc(P) \in Nat \ {0}
  BY GridFactors DEF Ranks
<1>2. /\ r = (r \div Pc(P)) * Pc(P) + (r % Pc(P))
      /\ s = (s \div Pc(P)) * Pc(P) + (s % Pc(P))
  BY <1>1, DivMod
<1> QED BY <1>2 DEF process_row, process_col

\* A slot lies in the columns of exactly one rank of a row_comm, and a row of
\* the block is owned by exactly one.
LEMMA OneOfRowComm ==
  ASSUME NEW r \in Ranks
  PROVE  /\ \A x \in Slots : \E p \in row_comm[r] : \A s \in row_comm[r] : x \in Cols[s] <=> s = p
         /\ \A i \in Rows[r] : \E p \in row_comm[r] : \A s \in row_comm[r] : i \in OwnedRows(s) <=> s = p
<1>1. process_row(P, r) \in 0 .. Pr(P) - 1 /\ Pc(P) \in Nat \ {0} /\ N \in Nat
  BY Coordinates, GridFactors, DimensionAssumption
<1>2. ASSUME NEW k \in 0 .. Pc(P) - 1
      PROVE  \E p \in row_comm[r] : /\ process_col(P, p) = k
                                    /\ \A s \in row_comm[r] : process_col(P, s) = k => s = p
  <2>1. PICK p \in Ranks : process_row(P, p) = process_row(P, r) /\ process_col(P, p) = k
    BY <1>1, RankAt
  <2> QED BY <2>1, OneRankPerPlace, Comms
<1>3. ASSUME NEW x \in Slots
      PROVE  \E p \in row_comm[r] : \A s \in row_comm[r] : x \in Cols[s] <=> s = p
  <2>1. PICK k \in 0 .. Pc(P) - 1 : x \in Block(N, Pc(P), k)
    BY <1>1, BlocksTile DEF Slots
  <2>2. PICK p \in row_comm[r] : /\ process_col(P, p) = k
                                 /\ \A s \in row_comm[r] : process_col(P, s) = k => s = p
    BY <1>2
  <2>3. ASSUME NEW s \in row_comm[r], x \in Cols[s] PROVE process_col(P, s) = k
    <3>1. s \in Ranks
      BY Comms
    <3>2. Cols[s] = Block(N, Pc(P), process_col(P, s)) /\ process_col(P, s) \in 0 .. Pc(P) - 1
      BY <3>1, RowsAreABlock, Coordinates
    <3> QED BY <3>2, <2>1, <2>3, <1>1, BlocksTile
  <2>4. x \in Cols[p]
    <3>1. p \in Ranks
      BY Comms
    <3> QED BY <3>1, <2>1, <2>2, RowsAreABlock
  <2> QED BY <2>2, <2>3, <2>4
<1>4. ASSUME NEW i \in Rows[r]
      PROVE  \E p \in row_comm[r] : \A s \in row_comm[r] : i \in OwnedRows(s) <=> s = p
  <2>1. i \in Nat
    BY RowsAreABlock DEF Slots
  <2>2. i % Pc(P) \in 0 .. Pc(P) - 1
    BY <1>1, <2>1, DivMod
  <2>3. PICK p \in row_comm[r] : /\ process_col(P, p) = i % Pc(P)
                                 /\ \A s \in row_comm[r] : process_col(P, s) = i % Pc(P) => s = p
    BY <1>2, <2>2
  <2>4. \A s \in row_comm[r] : i \in OwnedRows(s) <=> i % Pc(P) = process_col(P, s)
    BY Comms DEF OwnedRows
  <2> QED BY <2>3, <2>4
<1> QED BY <1>3, <1>4

\* The same for a col_comm.
LEMMA OneOfColComm ==
  ASSUME NEW r \in Ranks
  PROVE  /\ \A x \in Slots : \E p \in col_comm[r] : \A s \in col_comm[r] : x \in Rows[s] <=> s = p
         /\ \A j \in Cols[r] : \E p \in col_comm[r] : \A s \in col_comm[r] : j \in OwnedCols(s) <=> s = p
<1>1. process_col(P, r) \in 0 .. Pc(P) - 1 /\ Pr(P) \in Nat \ {0} /\ N \in Nat
  BY Coordinates, GridFactors, DimensionAssumption
<1>2. ASSUME NEW k \in 0 .. Pr(P) - 1
      PROVE  \E p \in col_comm[r] : /\ process_row(P, p) = k
                                    /\ \A s \in col_comm[r] : process_row(P, s) = k => s = p
  <2>1. PICK p \in Ranks : process_row(P, p) = k /\ process_col(P, p) = process_col(P, r)
    BY <1>1, RankAt
  <2> QED BY <2>1, OneRankPerPlace, Comms
<1>3. ASSUME NEW x \in Slots
      PROVE  \E p \in col_comm[r] : \A s \in col_comm[r] : x \in Rows[s] <=> s = p
  <2>1. PICK k \in 0 .. Pr(P) - 1 : x \in Block(N, Pr(P), k)
    BY <1>1, BlocksTile DEF Slots
  <2>2. PICK p \in col_comm[r] : /\ process_row(P, p) = k
                                 /\ \A s \in col_comm[r] : process_row(P, s) = k => s = p
    BY <1>2
  <2>3. ASSUME NEW s \in col_comm[r], x \in Rows[s] PROVE process_row(P, s) = k
    <3>1. s \in Ranks
      BY Comms
    <3>2. Rows[s] = Block(N, Pr(P), process_row(P, s)) /\ process_row(P, s) \in 0 .. Pr(P) - 1
      BY <3>1, RowsAreABlock, Coordinates
    <3> QED BY <3>2, <2>1, <2>3, <1>1, BlocksTile
  <2>4. x \in Rows[p]
    <3>1. p \in Ranks
      BY Comms
    <3> QED BY <3>1, <2>1, <2>2, RowsAreABlock
  <2> QED BY <2>2, <2>3, <2>4
<1>4. ASSUME NEW j \in Cols[r]
      PROVE  \E p \in col_comm[r] : \A s \in col_comm[r] : j \in OwnedCols(s) <=> s = p
  <2>1. j \in Nat
    BY RowsAreABlock DEF Slots
  <2>2. j % Pr(P) \in 0 .. Pr(P) - 1
    BY <1>1, <2>1, DivMod
  <2>3. PICK p \in col_comm[r] : /\ process_row(P, p) = j % Pr(P)
                                 /\ \A s \in col_comm[r] : process_row(P, s) = j % Pr(P) => s = p
    BY <1>2, <2>2
  <2>4. \A s \in col_comm[r] : j \in OwnedCols(s) <=> j % Pr(P) = process_row(P, s)
    BY Comms DEF OwnedCols
  <2> QED BY <2>3, <2>4
<1> QED BY <1>3, <1>4

\* What a rank that has entered the assembly of call k brought to it.
LEMMA Brought ==
  ASSUME IInv, NEW s \in Ranks, NEW k \in Nat \ {0}
  PROVE  /\ Len(rowIn[s]) >= k => RowCalls(s) >= k /\ rowIn[s][k] = RowPiece(s, k)
         /\ Len(colIn[s]) >= k => ColCalls(s) >= k /\ colIn[s][k] = ColPiece(s, k)
         /\ RowCalls(s) \in Nat /\ ColCalls(s) \in Nat
<1>1. CallInv(s)
  BY DEF IInv, RankInv
<1>2. op[s] \in Nat /\ (phase[s] # "idle" => op[s] > 0)
  <2>1. op[s] \in 0 .. Len(Program)
    BY <1>1 DEF CallInv
  <2> QED BY <1>1, <2>1 DEF CallInv
<1>3. RowCalls(s) \in Nat /\ ColCalls(s) \in Nat
  BY <1>1, <1>2 DEF RowCalls, ColCalls, CallInv
<1>4. /\ rowIn[s] = [m \in 1 .. RowCalls(s) |-> RowPiece(s, m)]
      /\ colIn[s] = [m \in 1 .. ColCalls(s) |-> ColPiece(s, m)]
  BY <1>1 DEF CallInv
<1>5. Len(rowIn[s]) = RowCalls(s) /\ Len(colIn[s]) = ColCalls(s)
  BY <1>3, <1>4
<1>6. Len(rowIn[s]) >= k => rowIn[s][k] = RowPiece(s, k)
  BY <1>3, <1>4, <1>5
<1>7. Len(colIn[s]) >= k => colIn[s][k] = ColPiece(s, k)
  BY <1>3, <1>4, <1>5
<1> QED BY <1>3, <1>5, <1>6, <1>7

\* AssembleRows and the row broadcasts of or_mat: what the members brought
\* makes up the rows of the result.
LEMMA RowsAssembled ==
  ASSUME IInv, NEW r \in Ranks, NEW k \in 1 .. Len(Program), NEW i \in Rows[r],
         \A s \in row_comm[r] : Len(rowIn[s]) >= k
  PROVE  Assemble(row_comm[r], rowIn, k, i) = After[k][i]
<1>0. k \in Nat \ {0} /\ k \in 0 .. Len(Program) /\ A \in Inputs
  BY DEF IInv
<1>1. \A s \in row_comm[r] : rowIn[s][k] = RowPiece(s, k)
  BY <1>0, Brought, Comms
<1>2. After[k] \in Matrices /\ i \in Slots
  BY <1>0, AfterFacts, RowsAreABlock
<1>3. ASSUME NEW x \in Slots PROVE Assemble(row_comm[r], rowIn, k, i)[x] = After[k][i][x]
  <2> DEFINE v == After[k][i][x]
  <2>1. v \in Nat
    BY <1>2 DEF Matrices
  <2>2. \E p \in row_comm[r] :
           /\ i \in DOMAIN rowIn[p][k]
           /\ \A s \in row_comm[r] : i \in DOMAIN rowIn[s][k] =>
                 rowIn[s][k][i][x] = IF s = p THEN v ELSE 0
    <3>1. CASE Program[k] = "matmul"
      <4>1. PICK p \in row_comm[r] : \A s \in row_comm[r] : x \in Cols[s] <=> s = p
        BY OneOfRowComm
      <4>2. ASSUME NEW s \in row_comm[r]
            PROVE  /\ i \in DOMAIN rowIn[s][k]
                   /\ rowIn[s][k][i][x] = IF x \in Cols[s] THEN v ELSE 0
        <5>1. RowPiece(s, k) = [m \in Rows[s] |->
                 [y \in Slots |-> IF y \in Cols[s] THEN After[k][m][y] ELSE 0]]
          BY <3>1 DEF RowPiece
        <5>2. i \in Rows[s]
          BY Comms
        <5> QED BY <1>1, <5>1, <5>2
      <4> QED BY <4>1, <4>2
    <3>2. CASE Program[k] # "matmul"
      <4>1. PICK p \in row_comm[r] : \A s \in row_comm[r] : i \in OwnedRows(s) <=> s = p
        BY OneOfRowComm
      <4>2. ASSUME NEW s \in row_comm[r]
            PROVE  /\ i \in DOMAIN rowIn[s][k] <=> i \in OwnedRows(s)
                   /\ i \in OwnedRows(s) => rowIn[s][k][i][x] = v
        <5>1. RowPiece(s, k) = [m \in OwnedRows(s) |-> After[k][m]]
          BY <3>2 DEF RowPiece
        <5> QED BY <1>1, <5>1
      <4> QED BY <4>1, <4>2
    <3> QED BY <3>1, <3>2
  <2> HIDE DEF v
  <2>3. Assemble(row_comm[r], rowIn, k, i)[x] = v
    BY <2>1, <2>2, Comms, AssembleOne
  <2> QED BY <2>3 DEF v
<1>4. /\ Assemble(row_comm[r], rowIn, k, i) =
           [x \in Slots |-> Assemble(row_comm[r], rowIn, k, i)[x]]
      /\ After[k][i] = [x \in Slots |-> After[k][i][x]]
  BY <1>2 DEF Assemble, Matrices
<1> QED BY <1>3, <1>4

\* AssembleCols and the column broadcasts, in the same way.
LEMMA ColsAssembled ==
  ASSUME IInv, NEW r \in Ranks, NEW k \in 1 .. Len(Program), NEW j \in Cols[r],
         \A s \in col_comm[r] : Len(colIn[s]) >= k
  PROVE  Assemble(col_comm[r], colIn, k, j) = Column(After[k], j)
<1>0. k \in Nat \ {0} /\ k \in 0 .. Len(Program) /\ A \in Inputs
  BY DEF IInv
<1>1. \A s \in col_comm[r] : colIn[s][k] = ColPiece(s, k)
  BY <1>0, Brought, Comms
<1>2. After[k] \in Matrices /\ j \in Slots
  BY <1>0, AfterFacts, RowsAreABlock
<1>3. ASSUME NEW x \in Slots PROVE Assemble(col_comm[r], colIn, k, j)[x] = After[k][x][j]
  <2> DEFINE v == After[k][x][j]
  <2>1. v \in Nat
    BY <1>2 DEF Matrices
  <2>2. \E p \in col_comm[r] :
           /\ j \in DOMAIN colIn[p][k]
           /\ \A s \in col_comm[r] : j \in DOMAIN colIn[s][k] =>
                 colIn[s][k][j][x] = IF s = p THEN v ELSE 0
    <3>1. CASE Program[k] = "matmul"
      <4>1. PICK p \in col_comm[r] : \A s \in col_comm[r] : x \in Rows[s] <=> s = p
        BY OneOfColComm
      <4>2. ASSUME NEW s \in col_comm[r]
            PROVE  /\ j \in DOMAIN colIn[s][k]
                   /\ colIn[s][k][j][x] = IF x \in Rows[s] THEN v ELSE 0
        <5>1. ColPiece(s, k) = [m \in Cols[s] |->
                 [y \in Slots |-> IF y \in Rows[s] THEN After[k][y][m] ELSE 0]]
          BY <3>1 DEF ColPiece
        <5>2. j \in Cols[s]
          BY Comms
        <5> QED BY <1>1, <5>1, <5>2
      <4> QED BY <4>1, <4>2
    <3>2. CASE Program[k] # "matmul"
      <4>1. PICK p \in col_comm[r] : \A s \in col_comm[r] : j \in OwnedCols(s) <=> s = p
        BY OneOfColComm
      <4>2. ASSUME NEW s \in col_comm[r]
            PROVE  /\ j \in DOMAIN colIn[s][k] <=> j \in OwnedCols(s)
                   /\ j \in OwnedCols(s) => colIn[s][k][j][x] = v
        <5>1. ColPiece(s, k) = [m \in OwnedCols(s) |-> Column(After[k], m)]
          BY <3>2 DEF ColPiece
        <5>2. Column(After[k], j)[x] = v
          BY DEF Column
        <5> QED BY <1>1, <5>1, <5>2
      <4> QED BY <4>1, <4>2
    <3> QED BY <3>1, <3>2
  <2> HIDE DEF v
  <2>3. Assemble(col_comm[r], colIn, k, j)[x] = v
    BY <2>1, <2>2, Comms, AssembleOne
  <2> QED BY <2>3 DEF v
<1>4. Assemble(col_comm[r], colIn, k, j) =
           [x \in Slots |-> Assemble(col_comm[r], colIn, k, j)[x]]
  BY DEF Assemble
<1> QED BY <1>3, <1>4 DEF Column

\* Returning from the rows: they are complete, and the whole row_comm has
\* brought its rows, which is what WaitInv asks of a rank that enters the columns.
LEMMA ReturnRowsKeeps ==
  ASSUME IInv, NEW r \in Ranks, ReturnRows(r), Shape
  PROVE  IInv'
<1>1. OnlyRank(r) /\ Shape' /\ A' = A /\ A \in Inputs /\ RankInv(r)
  BY StepsAreLocal DEF IInv, RankStep, OnlyRank
<1>2. /\ phase[r] = "rows" /\ phase'[r] = "cols" /\ op'[r] = op[r]
      /\ \A s \in row_comm[r] : Len(rowIn[s]) >= op[r]
      /\ todo'[r] = todo[r] /\ step'[r] = step[r] /\ acc'[r] = acc[r]
      /\ critical'[r] = critical[r] /\ mat'[r] = mat[r] /\ partial'[r] = partial[r]
      /\ rowIn'[r] = rowIn[r]
      /\ colIn'[r] = Append(colIn[r], IF Kind(r) = "matmul" THEN partial[r].cols ELSE OrCols(r))
      /\ rows'[r] = [i \in Rows[r] |-> Assemble(row_comm[r], rowIn, op[r], i)]
  BY DEF ReturnRows, Shape, threadVars
<1>3. /\ op[r] \in 1 .. Len(Program) /\ op[r] \in 0 .. Len(Program) /\ op[r] > 0
      /\ op[r] \in Nat \ {0} /\ Len(Program) \in Nat
  <2>1. op[r] \in 0 .. Len(Program) /\ op[r] > 0 /\ Len(Program) \in Nat
    BY <1>1, <1>2, ProgramAssumption DEF RankInv, CallInv
  <2> QED BY <2>1
<1>4. RowCalls(r) = op[r] /\ ColCalls(r) = op[r] - 1 /\ RowCalls(r)' = op[r] /\ ColCalls(r)' = op[r]
  BY <1>2 DEF RowCalls, ColCalls
<1>5. /\ mat[r] = Distributed(After[op[r] - 1], r)
      /\ rowIn[r] = [k \in 1 .. op[r] |-> RowPiece(r, k)]
      /\ colIn[r] = [k \in 1 .. op[r] - 1 |-> ColPiece(r, k)]
  BY <1>1, <1>2, <1>4 DEF RankInv, CallInv
<1>6. (IF Kind(r) = "matmul" THEN partial[r].cols ELSE OrCols(r)) = ColPiece(r, op[r])
  <2>1. CASE Kind(r) = "matmul"
    <3>1. partial[r] = [rows |-> RowsWith(r, After[op[r]], RowDone(r)),
                        cols |-> ColsWith(r, After[op[r]], ColDone(r))]
      BY <1>1, <1>2, <2>1 DEF RankInv, PartialInv
    <3>2. ColDone(r) = DOMAIN Cells[r]
      <4>1. \A t \in Teams : todo[r][t] = {}
        BY <1>1, <1>2 DEF RankInv, ThreadInv
      <4> QED BY <4>1, CellsAdded
    <3>3. ColPiece(r, op[r]) = ColsWith(r, After[op[r]], DOMAIN Cells[r])
      BY <2>1, AllCells DEF Kind
    <3> QED BY <2>1, <3>1, <3>2, <3>3
  <2>2. CASE Kind(r) # "matmul"
    <3>1. OrCols(r) = ColPiece(r, op[r])
      BY <1>1, <1>3, <1>5, <2>2, OwnedPieces DEF Kind
    <3> QED BY <2>2, <3>1
  <2> QED BY <2>1, <2>2
<1>7. colIn'[r] = [k \in 1 .. op[r] |-> ColPiece(r, k)]
  <2> DEFINE g == [k \in 1 .. op[r] |-> ColPiece(r, k)]
             n == op[r] - 1
  <2>0. n \in Nat /\ n + 1 = op[r] /\ n + 1 \in 1 .. op[r]
    BY <1>3
  <2>3. colIn'[r] = Append(colIn[r], g[n + 1])
    BY <1>2, <1>6, <2>0
  <2>4. colIn[r] = [k \in 1 .. n |-> g[k]]
    BY <1>3, <1>5
  <2>5. g = [k \in 1 .. n + 1 |-> g[k]]
    BY <2>0
  <2> HIDE DEF g, n
  <2>6. Append(colIn[r], g[n + 1]) = g
    BY <2>0, <2>4, <2>5, AppendNext
  <2> QED BY <2>3, <2>6 DEF g
<1>8. ThreadInv(r)'
  <2>1. ThreadInv(r) /\ \A t \in Teams : todo[r][t] = {}
    BY <1>1, <1>2 DEF RankInv, ThreadInv
  <2> QED BY <1>2, <2>1, ThreadsKept
<1>9. PartialInv(r)'
  BY <1>1, <1>2 DEF RankInv, PartialInv, Kind
<1>10. rows'[r] = [i \in Rows[r] |-> After[op[r]][i]]
  <2>1. \A i \in Rows[r] : Assemble(row_comm[r], rowIn, op[r], i) = After[op[r]][i]
    BY <1>2, <1>3, RowsAssembled
  <2> QED BY <1>2, <2>1
<1>11. CallInv(r)'
  <2>1. After' = After
    BY <1>1, AfterConstant
  <2>2. \A k : RowPiece(r, k)' = RowPiece(r, k) /\ ColPiece(r, k)' = ColPiece(r, k)
    BY <1>1, PiecesConstant
  <2> QED BY <1>2, <1>3, <1>4, <1>5, <1>7, <1>10, <2>1, <2>2 DEF CallInv, Kind
<1>12. \A s \in row_comm[r] : ColCalls(r)' <= RowCalls(s)
  <2>1. ASSUME NEW s \in row_comm[r] PROVE ColCalls(r)' <= RowCalls(s)
    <3>1. RowCalls(s) >= op[r] /\ RowCalls(s) \in Nat
      BY <1>2, <1>3, Comms, Brought
    <3> QED BY <3>1, <1>3, <1>4
  <2> QED BY <2>1
<1>13. RowCalls(r) <= RowCalls(r)'
  BY <1>3, <1>4
<1> QED BY <1>1, <1>8, <1>9, <1>11, <1>12, <1>13, OneRank DEF RankInv

\* Returning from the columns: the rank holds its blocks of the result.
LEMMA ReturnColsKeeps ==
  ASSUME IInv, NEW r \in Ranks, ReturnCols(r), Shape
  PROVE  IInv'
<1>1. OnlyRank(r) /\ Shape' /\ A' = A /\ A \in Inputs /\ RankInv(r)
  BY StepsAreLocal DEF IInv, RankStep, OnlyRank
<1>2. /\ phase[r] = "cols" /\ phase'[r] = "idle" /\ op'[r] = op[r]
      /\ \A s \in col_comm[r] : Len(colIn[s]) >= op[r]
      /\ todo'[r] = todo[r] /\ step'[r] = step[r] /\ acc'[r] = acc[r]
      /\ critical'[r] = critical[r] /\ partial'[r] = partial[r]
      /\ rowIn'[r] = rowIn[r] /\ colIn'[r] = colIn[r]
      /\ mat'[r] = [rows |-> rows[r],
                    cols |-> [j \in Cols[r] |-> Assemble(col_comm[r], colIn, op[r], j)]]
  BY DEF ReturnCols, Shape, threadVars
<1>3. op[r] \in 1 .. Len(Program) /\ op[r] \in 0 .. Len(Program) /\ op[r] \in Nat
  <2>1. op[r] \in 0 .. Len(Program) /\ op[r] > 0 /\ Len(Program) \in Nat
    BY <1>1, <1>2, ProgramAssumption DEF RankInv, CallInv
  <2> QED BY <2>1
<1>4. RowCalls(r) = op[r] /\ ColCalls(r) = op[r] /\ RowCalls(r)' = op[r] /\ ColCalls(r)' = op[r]
  BY <1>2 DEF RowCalls, ColCalls
<1>5. /\ rows[r] = [i \in Rows[r] |-> After[op[r]][i]]
      /\ rowIn[r] = [k \in 1 .. op[r] |-> RowPiece(r, k)]
      /\ colIn[r] = [k \in 1 .. op[r] |-> ColPiece(r, k)]
  BY <1>1, <1>2, <1>4 DEF RankInv, CallInv
<1>6. mat'[r] = Distributed(After[op[r]], r)
  <2>1. \A j \in Cols[r] : Assemble(col_comm[r], colIn, op[r], j) = Column(After[op[r]], j)
    BY <1>2, <1>3, ColsAssembled
  <2>2. [j \in Cols[r] |-> Assemble(col_comm[r], colIn, op[r], j)] =
          [j \in Cols[r] |-> Column(After[op[r]], j)]
    BY <2>1
  <2> QED BY <1>2, <1>5, <2>2 DEF Distributed
<1>8. ThreadInv(r)'
  <2>1. ThreadInv(r) /\ \A t \in Teams : todo[r][t] = {}
    BY <1>1, <1>2 DEF RankInv, ThreadInv
  <2> QED BY <1>2, <2>1, ThreadsKept
<1>9. PartialInv(r)'
  BY <1>1, <1>2 DEF RankInv, PartialInv, Kind
<1>11. CallInv(r)'
  <2>1. After' = After
    BY <1>1, AfterConstant
  <2>2. \A k : RowPiece(r, k)' = RowPiece(r, k) /\ ColPiece(r, k)' = ColPiece(r, k)
    BY <1>1, PiecesConstant
  <2> QED BY <1>2, <1>3, <1>4, <1>5, <1>6, <2>1, <2>2 DEF CallInv, Kind
<1>12. ColCalls(r)' = ColCalls(r) /\ RowCalls(r) <= RowCalls(r)'
  BY <1>3, <1>4
<1> QED BY <1>1, <1>8, <1>9, <1>11, <1>12, NoMoreCols, OneRank DEF RankInv

\* The inductive step: one lemma for each action.
LEMMA NextIInv ==
  ASSUME IInv, [Next]_vars
  PROVE  IInv'
<1>0. Shape
  BY DEF IInv
<1>1. CASE UNCHANGED vars
  <2>1. \A s \in Ranks : RankInv(s)' /\ RowCalls(s)' = RowCalls(s) /\ ColCalls(s)' = ColCalls(s)
    BY <1>1, Untouched DEF IInv, vars, threadVars
  <2>2. WaitInv'
    BY <2>1, Comms DEF IInv, WaitInv
  <2> QED BY <1>1, <2>1, <2>2 DEF IInv, Shape, vars, threadVars
<1>2. CASE Next
  <2>1. PICK r \in Ranks : RankStep(r) \/ \E t \in Teams : ThreadStep(r, t)
    BY <1>2 DEF Next
  <2>2. CASE RankStep(r)
    BY <1>0, <2>2, BeginMatMulKeeps, BeginOrMatKeeps, EnterRowsKeeps,
       ReturnRowsKeeps, ReturnColsKeeps DEF RankStep
  <2>3. ASSUME NEW t \in Teams, ThreadStep(r, t) PROVE IInv'
    BY <1>0, <2>3, EnterCriticalKeeps, AccumulateRowKeeps, AccumulateColKeeps DEF ThreadStep
  <2> QED BY <2>1, <2>2, <2>3
<1> QED BY <1>1, <1>2

\* IInv holds throughout every execution.
THEOREM Invariance == Spec => []IInv
<1>1. Init => IInv
  BY InitIInv
<1>2. IInv /\ [Next]_vars => IInv'
  BY NextIInv
<1> QED BY <1>1, <1>2, PTL DEF Spec

\* The blocks a rank holds after a call are those of the Boolean matrix that
\* the calls so far compute: for every matrix dimension, number of ranks and of
\* threads, program and input, whatever the schedule of ranks and threads.
THEOREM BlocksAreTheProduct == Spec => []BlocksMatchProduct
<1>1. IInv => BlocksMatchProduct
  BY DEF IInv, RankInv, CallInv, BlocksMatchProduct
<1> QED BY <1>1, Invariance, PTL

\* What a rank has brought never exceeds the calls it has made.
LEMMA CallsAreCounted ==
  ASSUME IInv, NEW r \in Ranks
  PROVE  /\ Len(rowIn[r]) = RowCalls(r) /\ Len(colIn[r]) = ColCalls(r)
         /\ op[r] \in Nat /\ RowCalls(r) \in Nat /\ ColCalls(r) \in Nat
         /\ ColCalls(r) <= RowCalls(r) /\ RowCalls(r) <= op[r]
<1>1. CallInv(r)
  BY DEF IInv, RankInv
<1>2. op[r] \in Nat /\ (phase[r] # "idle" => op[r] > 0)
  <2>1. op[r] \in 0 .. Len(Program)
    BY <1>1 DEF CallInv
  <2> QED BY <1>1, <2>1 DEF CallInv
<1>3. /\ RowCalls(r) \in Nat /\ ColCalls(r) \in Nat
      /\ ColCalls(r) <= RowCalls(r) /\ RowCalls(r) <= op[r]
  BY <1>1, <1>2 DEF RowCalls, ColCalls, CallInv
<1>4. /\ rowIn[r] = [m \in 1 .. RowCalls(r) |-> RowPiece(r, m)]
      /\ colIn[r] = [m \in 1 .. ColCalls(r) |-> ColPiece(r, m)]
  BY <1>1 DEF CallInv
<1>5. Len(rowIn[r]) = RowCalls(r) /\ Len(colIn[r]) = ColCalls(r)
  BY <1>3, <1>4
<1> QED BY <1>2, <1>3, <1>5

\* The blocks of a matrix are vectors of bits.
LEMMA BlocksOfMatrix ==
  ASSUME NEW r \in Ranks, NEW M \in Matrices
  PROVE  /\ Distributed(M, r).rows \in [Rows[r] -> [Slots -> {0, 1}]]
         /\ Distributed(M, r).cols \in [Cols[r] -> [Slots -> {0, 1}]]
<1>1. \A i \in Rows[r] : M[i] \in [Slots -> {0, 1}]
  BY RowsAreABlock DEF Matrices
<1>2. \A j \in Cols[r] : Column(M, j) \in [Slots -> {0, 1}]
  BY RowsAreABlock DEF Matrices, Column
<1> QED BY <1>1, <1>2 DEF Distributed

\* The state keeps its types, and a rank that has entered the columns of a call
\* has entered its rows, in a call it has begun.
THEOREM TypeCorrect == Spec => []TypeOK
<1>1. IInv => TypeOK
  <2> SUFFICES ASSUME IInv PROVE TypeOK
    OBVIOUS
  <2>1. op \in [Ranks -> 0 .. Len(Program)]
    BY DEF IInv, Shape, RankInv, CallInv
  <2>2. phase \in [Ranks -> {"idle", "compute", "rows", "cols"}]
    BY DEF IInv, Shape, RankInv, CallInv
  <2>3. ASSUME NEW r \in Ranks
        PROVE  /\ mat[r].rows \in [Rows[r] -> [Slots -> {0, 1}]]
               /\ mat[r].cols \in [Cols[r] -> [Slots -> {0, 1}]]
    <3> DEFINE k == IF phase[r] = "idle" THEN op[r] ELSE op[r] - 1
    <3>1. CallInv(r) /\ op[r] \in 0 .. Len(Program) /\ (phase[r] # "idle" => op[r] > 0)
      BY DEF IInv, RankInv, CallInv
    <3>2. k \in 0 .. Len(Program)
      BY <3>1
    <3>3. After[k] \in Matrices
      BY <3>2, AfterFacts DEF IInv
    <3>4. mat[r] = Distributed(After[k], r)
      BY <3>1 DEF CallInv
    <3> QED BY <3>3, <3>4, BlocksOfMatrix
  <2>4. ASSUME NEW r \in Ranks
        PROVE  /\ partial[r].rows \in [Rows[r] -> [Slots -> {0, 1}]]
               /\ partial[r].cols \in [Cols[r] -> [Slots -> {0, 1}]]
    <3>1. partial[r] \in [rows : [Rows[r] -> Vectors], cols : [Cols[r] -> Vectors]]
      BY DEF IInv, RankInv, PartialInv
    <3> QED BY <3>1 DEF Vectors
  <2>5. ASSUME NEW r \in Ranks
        PROVE  /\ todo[r] \in [Teams -> SUBSET DOMAIN Cells[r]]
               /\ step[r] \in [Teams -> {"dot", "row", "col"}]
               /\ critical[r] \subseteq Teams
    BY DEF IInv, RankInv, ThreadInv
  <2>6. \A r \in Ranks : Len(colIn[r]) <= Len(rowIn[r]) /\ Len(rowIn[r]) <= op[r]
    BY CallsAreCounted
  <2>7. A \in Inputs
    BY DEF IInv
  <2> QED BY <2>1, <2>2, <2>3, <2>4, <2>5, <2>6, <2>7 DEF TypeOK
<1> QED BY <1>1, Invariance, PTL

------------------------------------------------------------------------------

\* The wait along the columns and then along the rows reaches every rank.
LEMMA EveryRankHasBegun ==
  ASSUME IInv, NEW r \in Ranks, op[r] > 0, \A s \in col_comm[r] : Len(colIn[s]) >= op[r],
         NEW q \in Ranks
  PROVE  op[q] >= op[r]
<1>1. /\ process_row(P, q) \in 0 .. Pr(P) - 1
      /\ process_col(P, r) \in 0 .. Pc(P) - 1
  BY Coordinates
<1>2. PICK s \in Ranks : process_row(P, s) = process_row(P, q) /\ process_col(P, s) = process_col(P, r)
  BY <1>1, RankAt
<1>3. s \in col_comm[r] /\ q \in row_comm[s]
  BY <1>2, Comms
<1>4. Len(colIn[s]) >= op[r] /\ Len(colIn[s]) = ColCalls(s) /\ ColCalls(s) <= RowCalls(q)
  BY <1>3, CallsAreCounted DEF IInv, WaitInv
<1>5. RowCalls(q) <= op[q] /\ op[q] \in Nat /\ op[r] \in Nat /\ RowCalls(q) \in Nat /\ ColCalls(s) \in Nat
  BY CallsAreCounted
<1> QED BY <1>4, <1>5

Returned == [r \in Ranks |-> IF phase[r] = "idle" THEN op[r] ELSE op[r] - 1]
Results  == [r \in Ranks |-> << >>]

\* With no indices to assemble, a call of AllReduce returns nothing.
LEMMA NoIndices == \A k : Whole!FullSum(k) = << >> /\ Whole!NoResult = << >>
<1>1. \A k : DOMAIN Whole!FullSum(k) = {} /\ DOMAIN Whole!NoResult = {}
  BY DEF Whole!FullSum, Whole!NoResult
<1> QED BY <1>1 DEF Whole!FullSum, Whole!NoResult

\* The refinement: initially no rank has begun or returned from a call.
LEMMA WholeInit == Init => Whole!Init
<1> SUFFICES ASSUME Init PROVE Whole!Init
  OBVIOUS
<1>1. Returned = [r \in Ranks |-> 0] /\ Results = [r \in Ranks |-> Whole!NoResult]
  BY NoIndices DEF Init, Returned, Results
<1> QED BY <1>1 DEF Init, Whole!Init, Returned, Results

\* Beginning a call is Enter, returning from the columns is Return, and every
\* other step leaves the calls of the whole grid alone.
LEMMA WholeNext == IInv /\ [Next]_vars => [Whole!Next]_(Whole!vars)
<1> SUFFICES ASSUME IInv, [Next]_vars PROVE Whole!Next \/ UNCHANGED <<op, Returned>>
  BY DEF Whole!vars, Returned
<1>0. Shape /\ op = [r \in Ranks |-> op[r]] /\ phase = [r \in Ranks |-> phase[r]]
  BY DEF IInv, Shape
<1>1. \A r \in Ranks : op[r] \in Nat /\ (phase[r] # "idle" => op[r] > 0)
  <2>1. \A r \in Ranks : op[r] \in 0 .. Len(Program) /\ (phase[r] # "idle" => op[r] > 0)
    BY DEF IInv, RankInv, CallInv
  <2> QED BY <2>1
<1>2. ASSUME NEW r \in Ranks, BeginMatMul(r) \/ BeginOrMat(r)
      PROVE  Whole!Enter(r)
  <2>1. /\ phase[r] = "idle" /\ op[r] < Len(Program)
        /\ op' = [op EXCEPT ![r] = @ + 1]
        /\ \E p \in {"compute", "rows"} : phase' = [phase EXCEPT ![r] = p]
    BY <1>2 DEF BeginMatMul, BeginOrMat
  <2>2. Returned' = Returned /\ op[r] = Returned[r]
    <3>1. PICK p \in {"compute", "rows"} : phase' = [phase EXCEPT ![r] = p]
      BY <2>1
    <3>2. \A s \in Ranks : s # r => op'[s] = op[s] /\ phase'[s] = phase[s]
      BY <1>0, <2>1, <3>1
    <3>3. op'[r] = op[r] + 1 /\ phase'[r] # "idle"
      BY <1>0, <2>1, <3>1
    <3>4. (op[r] + 1) - 1 = op[r]
      BY <1>1
    <3>5. \A s \in Ranks : (IF phase'[s] = "idle" THEN op'[s] ELSE op'[s] - 1) =
                             (IF phase[s] = "idle" THEN op[s] ELSE op[s] - 1)
      BY <2>1, <3>2, <3>3, <3>4
    <3> QED BY <2>1, <3>5 DEF Returned
  <2> QED BY <2>1, <2>2 DEF Whole!Enter, Returned
<1>3. ASSUME NEW r \in Ranks, ReturnCols(r)
      PROVE  Whole!Return(r)
  <2>1. /\ phase[r] = "cols" /\ op' = op /\ phase' = [phase EXCEPT ![r] = "idle"]
        /\ \A s \in col_comm[r] : Len(colIn[s]) >= op[r]
    BY <1>3 DEF ReturnCols
  <2>2. op[r] > 0 /\ Returned[r] = op[r] - 1 /\ Returned[r] < op[r]
    BY <1>1, <2>1 DEF Returned
  <2>3. \A q \in Ranks : op[q] >= op[r]
    BY <2>1, <2>2, EveryRankHasBegun
  <2>4. Returned' = [Returned EXCEPT ![r] = op[r]]
    BY <1>0, <2>1 DEF Returned
  <2>5. Results' = [Results EXCEPT ![r] = Whole!FullSum(op[r])]
    BY NoIndices DEF Results
  <2> QED BY <2>1, <2>2, <2>3, <2>4, <2>5 DEF Whole!Return, Returned, Results
<1>4. ASSUME NEW r \in Ranks, EnterRows(r) \/ ReturnRows(r)
      PROVE  UNCHANGED <<op, Returned>>
  <2>1. /\ phase[r] # "idle" /\ op' = op
        /\ \E p \in {"rows", "cols"} : phase' = [phase EXCEPT ![r] = p]
    BY <1>4 DEF EnterRows, ReturnRows
  <2> QED BY <1>0, <2>1 DEF Returned
<1>5. ASSUME NEW r \in Ranks, NEW t \in Teams, ThreadStep(r, t)
      PROVE  UNCHANGED <<op, Returned>>
  <2>1. op' = op /\ phase' = phase
    BY <1>5 DEF ThreadStep, EnterCritical, AccumulateRow, AccumulateCol
  <2> QED BY <2>1 DEF Returned
<1>6. CASE UNCHANGED vars
  BY <1>6 DEF vars, Returned
<1>7. CASE Next
  <2>1. PICK r \in Ranks : RankStep(r) \/ \E t \in Teams : ThreadStep(r, t)
    BY <1>7 DEF Next
  <2>2. CASE RankStep(r)
    <3>1. CASE BeginMatMul(r) \/ BeginOrMat(r)
      BY <1>2, <3>1 DEF Whole!Next
    <3>2. CASE ReturnCols(r)
      BY <1>3, <3>2 DEF Whole!Next
    <3>3. CASE EnterRows(r) \/ ReturnRows(r)
      BY <1>4, <3>3
    <3> QED BY <2>2, <3>1, <3>2, <3>3 DEF RankStep
  <2>3. CASE \E t \in Teams : ThreadStep(r, t)
    BY <1>5, <2>3
  <2> QED BY <2>1, <2>2, <2>3
<1> QED BY <1>6, <1>7

\* A distributed call is a barrier of the whole grid, although each rank only
\* waits for its row_comm and its col_comm.
THEOREM Refinement == Spec => ImplementsBarrier
<1>1. Init => Whole!Init
  BY WholeInit
<1>2. IInv /\ [Next]_vars => [Whole!Next]_(Whole!vars)
  BY WholeNext
<1> QED BY <1>1, <1>2, Invariance, PTL DEF Spec, ImplementsBarrier, Whole!Spec
=============================================================================
