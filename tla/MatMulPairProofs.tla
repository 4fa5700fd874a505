--------------------------- MODULE MatMulPairProofs ---------------------------
(***************************************************************************)
(* IInv of MatMulPairInv is an inductive invariant of MatMulPair, and the  *)
(* safety properties of the run follow from it.                            *)
(*                                                                         *)
(* The parts, in this order: sequences that list the values of a function  *)
(* by its keys, and the scripts as such sequences; the calls by their      *)
(* keys, and the calls that belong together; what a rank is expected to    *)
(* hold, and the effect of each call on it; the clocks of the ranks; one   *)
(* lemma for each action; the theorems.                                    *)
(***************************************************************************)
EXTENDS MatMulPairInv, TLAPS, FiniteSetTheorems, WellFoundedInduction, SequenceTheorems

------------------------------------------------------------------------------
\* Arithmetic.  A nonempty set of numbers has a least element: the induction
\* principle of the proofs below.
LEMMA LeastNat ==
  ASSUME NEW X, X \subseteq Nat, X # {}
  PROVE  \E x \in X : \A y \in X : ~(y < x)
<1>1. \E x \in X : \A y \in X : <<y, x>> \notin OpToRel(<, Nat)
  BY NatLessThanWellFounded, WFMin, Zenon
<1> QED BY <1>1 DEF OpToRel

\* Integer division, as the loops and the block partition use it.
LEMMA DivMod ==
  ASSUME NEW n \in Nat, NEW d \in Nat \ {0}
  PROVE  /\ n \div d \in Nat /\ n % d \in 0 .. d - 1
         /\ n = (n \div d) * d + (n % d)
  OBVIOUS

\* Quotient and remainder are determined by the number.
LEMMA DivModUnique ==
  ASSUME NEW d \in Nat \ {0}, NEW q \in Nat, NEW m \in 0 .. d - 1
  PROVE  (q * d + m) \div d = q /\ (q * d + m) % d = m
  OBVIOUS

\* A whole multiple below another leaves room for one more.
LEMMA MulMono ==
  ASSUME NEW a \in Nat, NEW b \in Nat, NEW q \in Nat, a < b
  PROVE  a * q + q <= b * q
  OBVIOUS

\* The maximum of a bounded nonempty set (Max is a CHOOSE).
LEMMA MaxOf ==
  ASSUME NEW X, NEW n \in Nat, X \subseteq 0 .. n, X # {}
  PROVE  Max(X) \in X /\ \A y \in X : Max(X) >= y
<1> DEFINE Y == {n - x : x \in X}
<1>1. PICK y \in Y : \A z \in Y : ~(z < y)
  <2>0. \A x \in X : x \in Nat /\ n - x \in Nat
    OBVIOUS
  <2>1. Y \subseteq Nat /\ Y # {}
    BY <2>0
  <2> HIDE DEF Y
  <2> QED BY <2>1, LeastNat
<1>2. n - y \in X /\ \A z \in X : n - y >= z
  BY <1>1
<1> QED BY <1>2, Zenon DEF Max

\* The minimum of a nonempty set of numbers.
LEMMA MinOf ==
  ASSUME NEW X, X \subseteq Nat, X # {}
  PROVE  Min(X) \in X /\ \A y \in X : Min(X) =< y
<1>1. PICK x \in X : \A z \in X : ~(z < x)
  BY LeastNat
<1>2. x \in X /\ \A z \in X : x =< z
  BY <1>1
<1> QED BY <1>2, Zenon DEF Min

\* std::min of two numbers.
LEMMA MinPair ==
  ASSUME NEW a \in Nat, NEW b \in Nat
  PROVE  Min({a, b}) = IF a <= b THEN a ELSE b
<1>1. {a, b} \subseteq Nat /\ {a, b} # {}
  OBVIOUS
<1>2. Min({a, b}) \in {a, b} /\ \A y \in {a, b} : Min({a, b}) =< y
  BY <1>1, MinOf
<1> QED BY <1>2

\* BuildProcessGrid2D: the factors of the grid multiply to the size.
LEMMA GridFactors ==
  ASSUME NEW size \in Nat \ {0}
  PROVE  /\ Pr(size) \in Nat \ {0} /\ Pc(size) \in Nat \ {0}
         /\ Pr(size) * Pc(size) = size
<1> DEFINE D == {d \in 1 .. size : size % d = 0 /\ d * d <= size}
<1>2. D \subseteq 0 .. size /\ D # {}
  <2>1. 1 \in D
    OBVIOUS
  <2> QED BY <2>1
<1>3. Pr(size) \in D
  <2>1. Max(D) \in D
    <3> HIDE DEF D
    <3> QED BY <1>2, MaxOf
  <2> QED BY <2>1 DEF Pr
<1>4. Pr(size) \in Nat \ {0} /\ size % Pr(size) = 0
  BY <1>3
<1>5. size = (size \div Pr(size)) * Pr(size) + (size % Pr(size)) /\ size \div Pr(size) \in Nat
  BY <1>4, DivMod
<1>6. size = Pc(size) * Pr(size) /\ Pc(size) \in Nat
  BY <1>4, <1>5 DEF Pc
<1>7. Pc(size) # 0
  BY <1>6, <1>4
<1> QED BY <1>4, <1>6, <1>7

\* MPI_Cart_coords: the coordinates of a rank lie on the grid.
LEMMA Coordinates ==
  ASSUME NEW size \in Nat \ {0}, NEW r \in 0 .. size - 1
  PROVE  /\ process_row(size, r) \in 0 .. Pr(size) - 1
         /\ process_col(size, r) \in 0 .. Pc(size) - 1
<1>1. r \in Nat /\ r < size
  OBVIOUS
<1> DEFINE a == r \div Pc(size)
           b == r % Pc(size)
<1>2. a \in Nat /\ b \in 0 .. Pc(size) - 1 /\ r = a * Pc(size) + b
  BY <1>1, GridFactors, DivMod
<1>3. a < Pr(size)
  <2> HIDE DEF a, b
  <2>1. SUFFICES ASSUME Pr(size) <= a PROVE FALSE
    BY <1>2, GridFactors
  <2>2. Pr(size) * Pc(size) <= a * Pc(size)
    BY <2>1, <1>2, GridFactors
  <2> QED BY <2>2, <1>1, <1>2, GridFactors
<1>4. a \in 0 .. Pr(size) - 1 /\ b \in 0 .. Pc(size) - 1
  BY <1>2, <1>3, GridFactors
<1> QED BY <1>4 DEF process_row, process_col

\* Every pair of coordinates is a rank's: MPI_Cart_create covers the grid.
LEMMA RankAt ==
  ASSUME NEW size \in Nat \ {0}, NEW a \in 0 .. Pr(size) - 1, NEW b \in 0 .. Pc(size) - 1
  PROVE  \E r \in 0 .. size - 1 : process_row(size, r) = a /\ process_col(size, r) = b
<1> DEFINE r == a * Pc(size) + b
<1>1. a \in Nat /\ b \in Nat /\ a < Pr(size) /\ b < Pc(size)
  BY GridFactors
<1>2. r \in Nat
  BY <1>1, GridFactors
<1>3. a * Pc(size) + Pc(size) <= Pr(size) * Pc(size)
  BY <1>1, GridFactors, MulMono
<1>4. r < size
  BY <1>1, <1>3, GridFactors
<1>5. r \div Pc(size) = a /\ r % Pc(size) = b
  BY <1>1, GridFactors, DivModUnique
<1>6. r \in 0 .. size - 1
  BY <1>2, <1>4
<1> QED BY <1>5, <1>6 DEF process_row, process_col

\* ComputeBlockPartition: a block starts where the one before it ends, the
\* first at 0, and the last ends at n.
LEMMA Offsets ==
  ASSUME NEW n \in Nat, NEW parts \in Nat \ {0}, NEW k \in Nat
  PROVE  /\ Offset(n, parts, k) \in Nat /\ Count(n, parts, k) \in Nat
         /\ Offset(n, parts, 0) = 0 /\ Offset(n, parts, parts) = n
         /\ Offset(n, parts, k + 1) = Offset(n, parts, k) + Count(n, parts, k)
<1> DEFINE q == n \div parts
           m == n % parts
<1>1. q \in Nat /\ m \in 0 .. parts - 1 /\ n = q * parts + m
  BY DivMod
<1> HIDE DEF q, m
<1>2. Count(n, parts, k) = q + (IF k < m THEN 1 ELSE 0)
  BY DEF Count, q, m
<1>3. ASSUME NEW j \in Nat
      PROVE  Offset(n, parts, j) = j * q + (IF j <= m THEN j ELSE m)
  BY <1>1, MinPair DEF Offset, q, m
<1>4. Offset(n, parts, k) \in Nat /\ Count(n, parts, k) \in Nat
  BY <1>1, <1>2, <1>3
<1>5. Offset(n, parts, 0) = 0 /\ Offset(n, parts, parts) = n
  BY <1>1, <1>3
<1>6. (k + 1) * q = k * q + q
  BY <1>1
<1>7. Offset(n, parts, k + 1) = Offset(n, parts, k) + Count(n, parts, k)
  BY <1>1, <1>2, <1>3, <1>6
<1> QED BY <1>4, <1>5, <1>7

\* ComputeBlockPartition: consecutive blocks, in order.
LEMMA BlocksAreOrdered ==
  ASSUME NEW n \in Nat, NEW parts \in Nat \ {0}, NEW k \in Nat, NEW l \in Nat, k < l
  PROVE  Offset(n, parts, k) + Count(n, parts, k) <= Offset(n, parts, l)
<1> DEFINE Bad == {j \in Nat : k < j /\ ~(Offset(n, parts, k + 1) <= Offset(n, parts, j))}
<1>1. Bad = {}
  <2> SUFFICES ASSUME Bad # {} PROVE FALSE
    OBVIOUS
  <2>1. PICK j \in Bad : \A x \in Bad : ~(x < j)
    <3>1. Bad \subseteq Nat
      OBVIOUS
    <3> HIDE DEF Bad
    <3> QED BY <3>1, LeastNat
  <2>2. j # k + 1
    BY <2>1, Offsets
  <2>3. j - 1 \in Nat /\ k < j - 1 /\ j - 1 < j
    BY <2>1, <2>2
  <2>4. Offset(n, parts, k + 1) <= Offset(n, parts, j - 1)
    BY <2>1, <2>3
  <2>5. Offset(n, parts, (j - 1) + 1) = Offset(n, parts, j - 1) + Count(n, parts, j - 1)
    BY <2>3, Offsets
  <2>6. (j - 1) + 1 = j
    BY <2>1
  <2>7. Offset(n, parts, j - 1) <= Offset(n, parts, j)
    BY <2>3, <2>5, <2>6, Offsets
  <2>8. Offset(n, parts, j) \in Nat /\ Offset(n, parts, j - 1) \in Nat /\ Offset(n, parts, k + 1) \in Nat
    <3>1. k + 1 \in Nat /\ j \in Nat
      BY <2>1
    <3> QED BY <3>1, <2>3, Offsets
  <2> QED BY <2>1, <2>4, <2>7, <2>8
<1>2. Offset(n, parts, k + 1) <= Offset(n, parts, l)
  BY <1>1
<1> QED BY <1>2, Offsets

\* No index is lost between two blocks and none is in two.
LEMMA BlocksTile ==
  ASSUME NEW n \in Nat, NEW parts \in Nat \ {0}
  PROVE  /\ \A k \in 0 .. parts - 1 : Block(n, parts, k) \subseteq 0 .. n - 1
         /\ \A i \in 0 .. n - 1 : \E k \in 0 .. parts - 1 : i \in Block(n, parts, k)
         /\ \A k, l \in 0 .. parts - 1 : \A i \in Block(n, parts, k) :
                i \in Block(n, parts, l) => k = l
<1>1. ASSUME NEW k \in 0 .. parts - 1, NEW i \in Block(n, parts, k)
      PROVE  i \in 0 .. n - 1
  <2>1. k \in Nat /\ k < parts
    OBVIOUS
  <2>2. Offset(n, parts, k) + Count(n, parts, k) <= n /\ Offset(n, parts, k) \in Nat /\ Count(n, parts, k) \in Nat
    BY <2>1, Offsets, BlocksAreOrdered
  <2> QED BY <2>2 DEF Block
<1>2. ASSUME NEW i \in 0 .. n - 1
      PROVE  \E k \in 0 .. parts - 1 : i \in Block(n, parts, k)
  <2> DEFINE After_(j) == i < Offset(n, parts, j + 1)
             Ks == {j \in Nat : After_(j)}
  <2>1. parts - 1 \in Ks
    <3>1. Offset(n, parts, (parts - 1) + 1) = n
      <4>1. (parts - 1) + 1 = parts
        OBVIOUS
      <4> QED BY <4>1, Offsets
    <3> QED BY <3>1
  <2>2. PICK k \in Ks : \A x \in Ks : ~(x < k)
    <3>1. Ks \subseteq Nat
      OBVIOUS
    <3> HIDE DEF Ks
    <3> QED BY <3>1, <2>1, LeastNat
  <2>3. k \in 0 .. parts - 1
    BY <2>1, <2>2
  <2>4. Offset(n, parts, k) <= i
    <3>1. CASE k = 0
      BY <3>1, Offsets
    <3>2. CASE k # 0
      <4>1. k - 1 \in Nat /\ k - 1 < k /\ (k - 1) + 1 = k
        BY <2>3, <3>2
      <4>2. ~(i < Offset(n, parts, k))
        BY <4>1, <2>2
      <4> QED BY <4>2, <2>3, Offsets
    <3> QED BY <3>1, <3>2
  <2>5. i < Offset(n, parts, k) + Count(n, parts, k)
    BY <2>2, Offsets
  <2>6. i \in Block(n, parts, k)
    <3>1. Offset(n, parts, k) \in Nat /\ Count(n, parts, k) \in Nat
      BY <2>3, Offsets
    <3> QED BY <2>4, <2>5, <3>1 DEF Block
  <2> QED BY <2>3, <2>6
<1>3. ASSUME NEW k \in 0 .. parts - 1, NEW l \in 0 .. parts - 1, NEW i,
             i \in Block(n, parts, k), i \in Block(n, parts, l), k < l
      PROVE  FALSE
  <2>1. k \in Nat /\ l \in Nat
    OBVIOUS
  <2>2. Offset(n, parts, k) + Count(n, parts, k) <= Offset(n, parts, l)
    BY <2>1, <1>3, BlocksAreOrdered
  <2>3. Offset(n, parts, k) \in Nat /\ Count(n, parts, k) \in Nat /\ Offset(n, parts, l) \in Nat
    BY <2>1, Offsets
  <2>4. i \in Int /\ i < Offset(n, parts, k) + Count(n, parts, k) /\ Offset(n, parts, l) <= i
    BY <1>3, <2>3 DEF Block
  <2> QED BY <2>2, <2>3, <2>4
<1>4. ASSUME NEW k \in 0 .. parts - 1, NEW l \in 0 .. parts - 1, NEW i \in Block(n, parts, k),
             i \in Block(n, parts, l)
      PROVE  k = l
  <2>1. ~(k < l) /\ ~(l < k)
    BY <1>3, <1>4
  <2> QED BY <2>1
<1> QED BY <1>1, <1>2, <1>4

\* The rows and columns of the members of a grid of some size are indices of
\* the matrix, and every pair of indices is owned by a member.
LEMMA GridTiles ==
  ASSUME NEW size \in Nat \ {0}
  PROVE  /\ \A r \in 0 .. size - 1 : RowBlock(N, size, r) \subseteq Slots /\ ColBlock(N, size, r) \subseteq Slots
         /\ \A i, j \in Slots : \E r \in 0 .. size - 1 : i \in RowBlock(N, size, r) /\ j \in ColBlock(N, size, r)
<1>0. N \in Nat
  BY DimensionAssumption
<1>1. Pr(size) \in Nat \ {0} /\ Pc(size) \in Nat \ {0}
  BY GridFactors
<1>2. ASSUME NEW r \in 0 .. size - 1
      PROVE  RowBlock(N, size, r) \subseteq Slots /\ ColBlock(N, size, r) \subseteq Slots
  <2>1. process_row(size, r) \in 0 .. Pr(size) - 1 /\ process_col(size, r) \in 0 .. Pc(size) - 1
    BY Coordinates
  <2> QED BY <2>1, <1>0, <1>1, BlocksTile DEF RowBlock, ColBlock, Slots
<1>3. ASSUME NEW i \in Slots, NEW j \in Slots
      PROVE  \E r \in 0 .. size - 1 : i \in RowBlock(N, size, r) /\ j \in ColBlock(N, size, r)
  <2>1. PICK a \in 0 .. Pr(size) - 1 : i \in Block(N, Pr(size), a)
    BY <1>0, <1>1, BlocksTile DEF Slots
  <2>2. PICK b \in 0 .. Pc(size) - 1 : j \in Block(N, Pc(size), b)
    BY <1>0, <1>1, BlocksTile DEF Slots
  <2>3. PICK r \in 0 .. size - 1 : process_row(size, r) = a /\ process_col(size, r) = b
    BY RankAt
  <2> QED BY <2>1, <2>2, <2>3 DEF RowBlock, ColBlock
<1> QED BY <1>2, <1>3

\* The members of a communicator are consecutive ranks.
LEMMA MembersAre ==
  ASSUME NEW r \in Ranks, NEW comm
  PROVE  /\ Size(r, comm) \in Nat \ {0} /\ Leader(r, comm) \in Nat
         /\ Leader(r, comm) + Size(r, comm) <= P
         /\ Members(r, comm) = Leader(r, comm) .. Leader(r, comm) + Size(r, comm) - 1
         /\ Leader(r, comm) \in Members(r, comm)
         /\ Members(r, comm) \subseteq Ranks
         /\ r \in Members(r, comm)
<1>1. P \in Nat /\ P >= 2 /\ half \in Nat /\ half >= 1 /\ half < P
  BY SplitAssumption DEF half
<1>2. CASE comm # "sub"
  BY <1>1, <1>2 DEF Size, Leader, Members, Ranks
<1>3. CASE comm = "sub" /\ r < half
  <2>1. color(r) = 0 /\ \A s \in Ranks : color(s) = 0 <=> s < half
    BY <1>1, <1>3 DEF color, Ranks
  <2>2. Size(r, comm) = half /\ Leader(r, comm) = 0 /\ Members(r, comm) = {s \in Ranks : s < half}
    BY <1>1, <1>3, <2>1 DEF Size, Leader, Members
  <2>3. {s \in Ranks : s < half} = 0 .. 0 + half - 1
    BY <1>1 DEF Ranks
  <2>4. r \in 0 .. half - 1 /\ 0 + half <= P
    BY <1>1, <1>3 DEF Ranks
  <2> QED BY <1>1, <2>2, <2>3, <2>4
<1>4. CASE comm = "sub" /\ ~(r < half)
  <2>1. color(r) = 1 /\ \A s \in Ranks : color(s) = 1 <=> half <= s
    BY <1>1, <1>4 DEF color, Ranks
  <2>2. Size(r, comm) = P - half /\ Leader(r, comm) = half /\ Members(r, comm) = {s \in Ranks : half <= s}
    BY <1>1, <1>4, <2>1 DEF Size, Leader, Members
  <2>3. {s \in Ranks : half <= s} = half .. half + (P - half) - 1
    BY <1>1 DEF Ranks
  <2>4. r \in half .. half + (P - half) - 1 /\ half + (P - half) <= P /\ P - half \in Nat \ {0}
    BY <1>1, <1>4 DEF Ranks
  <2> QED BY <1>1, <2>2, <2>3, <2>4
<1> QED BY <1>2, <1>3, <1>4

\* Members of a communicator agree about it.
LEMMA MembersAgree ==
  ASSUME NEW r \in Ranks, NEW comm, NEW s \in Members(r, comm)
  PROVE  /\ s \in Ranks
         /\ Members(s, comm) = Members(r, comm)
         /\ Size(s, comm) = Size(r, comm) /\ Leader(s, comm) = Leader(r, comm)
         /\ comm = "sub" => color(s) = color(r)
  BY DEF Members, Size, Leader

\* The blocks of the members of a communicator are indices of the matrix, and
\* every pair of indices belongs to one of them.
LEMMA CommTiles ==
  ASSUME NEW r \in Ranks, NEW comm
  PROVE  /\ \A s \in Members(r, comm) : RowsIn(s, comm) \subseteq Slots /\ ColsIn(s, comm) \subseteq Slots
         /\ \A i, j \in Slots : \E s \in Members(r, comm) : i \in RowsIn(s, comm) /\ j \in ColsIn(s, comm)
<1> DEFINE size == Size(r, comm)
           lead == Leader(r, comm)
<1>1. size \in Nat \ {0} /\ lead \in Nat /\ Members(r, comm) = lead .. lead + size - 1
  BY MembersAre
<1>2. ASSUME NEW s \in Members(r, comm)
      PROVE  /\ RowsIn(s, comm) = RowBlock(N, size, s - lead) /\ ColsIn(s, comm) = ColBlock(N, size, s - lead)
             /\ s - lead \in 0 .. size - 1
  <2>1. Size(s, comm) = size /\ Leader(s, comm) = lead
    BY MembersAgree
  <2> HIDE DEF size, lead
  <2> QED BY <1>1, <2>1 DEF RowsIn, ColsIn
<1> HIDE DEF size, lead
<1>3. ASSUME NEW s \in Members(r, comm)
      PROVE  RowsIn(s, comm) \subseteq Slots /\ ColsIn(s, comm) \subseteq Slots
  BY <1>1, <1>2, GridTiles
<1>4. ASSUME NEW i \in Slots, NEW j \in Slots
      PROVE  \E s \in Members(r, comm) : i \in RowsIn(s, comm) /\ j \in ColsIn(s, comm)
  <2>1. PICK q \in 0 .. size - 1 : i \in RowBlock(N, size, q) /\ j \in ColBlock(N, size, q)
    BY <1>1, GridTiles
  <2>2. lead + q \in Members(r, comm) /\ (lead + q) - lead = q
    BY <1>1
  <2> QED BY <1>2, <2>1, <2>2
<1> QED BY <1>3, <1>4

------------------------------------------------------------------------------
(* Sequences that list a function of numbers.                              *)

\* A function on 1 .. n is a sequence.
LEMMA FunctionIsSeq ==
  ASSUME NEW n \in Nat, NEW S, NEW g \in [1 .. n -> S]
  PROVE  g \in Seq(S) /\ Len(g) = n
  OBVIOUS

\* The values of a function.
Vals(f) == {f[k] : k \in DOMAIN f}

\* What Lists says of a sequence.
LEMMA ListsFacts ==
  ASSUME NEW seq, NEW f, NEW n, NEW e, Lists(seq, f, n, e), DOMAIN f \subseteq Int
  PROVE  /\ n \in Nat /\ Len(seq) = n /\ seq \in Seq(Vals(f))
         /\ \A i \in 1 .. n : e[i] \in DOMAIN f /\ seq[i] = f[e[i]]
         /\ \A i, j \in 1 .. n : e[i] < e[j] <=> i < j
         /\ \A i, j \in 1 .. n : e[i] = e[j] <=> i = j
<1>1. n \in Nat /\ e \in [1 .. n -> DOMAIN f] /\ seq = [i \in 1 .. n |-> f[e[i]]]
  BY DEF Lists
<1>2. seq \in [1 .. n -> Vals(f)]
  BY <1>1 DEF Vals
<1>3. \A i \in 1 .. n : e[i] \in DOMAIN f /\ seq[i] = f[e[i]]
  BY <1>1
<1>4. \A i, j \in 1 .. n : i < j => e[i] < e[j]
  BY DEF Lists
<1>5. \A i, j \in 1 .. n : (e[i] < e[j] <=> i < j) /\ (e[i] = e[j] <=> i = j)
  <2> TAKE i, j \in 1 .. n
  <2>1. e[i] \in Int /\ e[j] \in Int /\ i \in Int /\ j \in Int
    BY <1>3
  <2>2. (i < j => e[i] < e[j]) /\ (j < i => e[j] < e[i]) /\ (i = j => e[i] = e[j])
    BY <1>4
  <2> QED BY <2>1, <2>2
<1> QED BY <1>1, <1>2, <1>3, <1>5, FunctionIsSeq

\* Only the empty function is listed by the empty sequence.
LEMMA ListsEmpty ==
  ASSUME NEW seq, NEW f, DOMAIN f \subseteq Int
  PROVE  /\ Listing(seq, f) => (seq = << >> <=> DOMAIN f = {})
         /\ f = [k \in {} |-> 0] => Listing(<< >>, f)
<1>1. ASSUME Listing(seq, f) PROVE seq = << >> <=> DOMAIN f = {}
  <2>1. PICK n, e : Lists(seq, f, n, e)
    BY <1>1 DEF Listing
  <2>2. /\ n \in Nat /\ Len(seq) = n /\ seq \in Seq(Vals(f))
        /\ \A i \in 1 .. n : e[i] \in DOMAIN f
    BY <2>1, ListsFacts
  <2>3. \A k \in DOMAIN f : \E i \in 1 .. n : e[i] = k
    BY <2>1 DEF Lists
  <2>4. n = 0 <=> DOMAIN f = {}
    <3>1. n # 0 => e[1] \in DOMAIN f
      BY <2>2
    <3>2. n = 0 => 1 .. n = {}
      OBVIOUS
    <3> QED BY <3>1, <3>2, <2>3
  <2>5. n = 0 <=> seq = << >>
    BY <2>2
  <2> QED BY <2>4, <2>5
<1>2. ASSUME f = [k \in {} |-> 0] PROVE Listing(<< >>, f)
  <2>1. DOMAIN f = {}
    BY <1>2
  <2>2. [i \in 1 .. 0 |-> 0] \in [1 .. 0 -> DOMAIN f]
    BY <2>1
  <2>3. << >> = [i \in 1 .. 0 |-> f[[j \in 1 .. 0 |-> 0][i]]]
    OBVIOUS
  <2>4. Lists(<< >>, f, 0, [i \in 1 .. 0 |-> 0])
    BY <2>1, <2>2, <2>3 DEF Lists
  <2> QED BY <2>4 DEF Listing
<1> QED BY <1>1, <1>2

\* The head of the sequence is the value of the least number; the tail lists
\* the others.
LEMMA ListsHead ==
  ASSUME NEW seq, NEW f, DOMAIN f \subseteq Int, Listing(seq, f),
         NEW k \in DOMAIN f, \A j \in DOMAIN f : k <= j,
         NEW g, g = [j \in DOMAIN f \ {k} |-> f[j]]
  PROVE  /\ seq # << >> /\ seq[1] = f[k] /\ 1 \in 1 .. Len(seq) /\ Len(seq) \in Nat
         /\ Listing(Tail(seq), g) /\ RemoveAt(seq, 1) = Tail(seq)
<1>1. PICK n, e : Lists(seq, f, n, e)
  BY DEF Listing
<1>2. /\ n \in Nat /\ Len(seq) = n /\ seq \in Seq(Vals(f))
      /\ \A i \in 1 .. n : e[i] \in DOMAIN f /\ seq[i] = f[e[i]]
      /\ \A i, j \in 1 .. n : e[i] < e[j] <=> i < j
      /\ \A i, j \in 1 .. n : e[i] = e[j] <=> i = j
  BY <1>1, ListsFacts
<1>3. \A j \in DOMAIN f : \E i \in 1 .. n : e[i] = j
  BY <1>1 DEF Lists
<1>4. PICK i \in 1 .. n : e[i] = k
  BY <1>3
<1>5. i = 1 /\ n >= 1
  <2>1. e[1] \in DOMAIN f /\ 1 \in 1 .. n
    BY <1>2
  <2>2. ~(e[1] < e[i])
    BY <2>1, <1>4
  <2> QED BY <2>1, <2>2, <1>2
<1>6. seq # << >> /\ seq[1] = f[k] /\ 1 \in 1 .. Len(seq)
  BY <1>2, <1>4, <1>5
<1>7. Listing(Tail(seq), g)
  <2> DEFINE d == [j \in 1 .. n - 1 |-> e[j + 1]]
  <2>1. n - 1 \in Nat /\ \A j \in 1 .. n - 1 : j + 1 \in 1 .. n /\ j \in 1 .. n /\ j + 1 # 1
    BY <1>2, <1>5
  <2>2. \A j \in 1 .. n - 1 : d[j] \in DOMAIN g
    BY <2>1, <1>2, <1>4, <1>5
  <2>3. \A j, l \in 1 .. n - 1 : j < l => d[j] < d[l]
    BY <2>1, <1>2
  <2>4. \A j \in DOMAIN g : \E l \in 1 .. n - 1 : d[l] = j
    <3> TAKE j \in DOMAIN g
    <3>1. j \in DOMAIN f /\ j # k
      OBVIOUS
    <3>2. PICK l \in 1 .. n : e[l] = j
      BY <1>3, <3>1
    <3>3. l # 1 /\ l - 1 \in 1 .. n - 1 /\ (l - 1) + 1 = l
      BY <3>1, <3>2, <1>2, <1>4, <1>5
    <3>4. d[l - 1] = j
      BY <3>2, <3>3
    <3> QED BY <3>3, <3>4
  <2>5. Tail(seq) = [j \in 1 .. n - 1 |-> g[d[j]]]
    <3>1. /\ Tail(seq) \in Seq(Vals(f)) /\ Len(Tail(seq)) = n - 1
          /\ \A j \in 1 .. n - 1 : Tail(seq)[j] = seq[j + 1]
      BY <1>2, <1>6, HeadTailProperties
    <3>2. \A j \in 1 .. n - 1 : g[d[j]] = seq[j + 1]
      BY <2>1, <2>2, <1>2
    <3>3. Tail(seq) = [j \in 1 .. n - 1 |-> Tail(seq)[j]]
      BY <3>1, LenProperties
    <3> QED BY <3>1, <3>2, <3>3
  <2>6. d \in [1 .. n - 1 -> DOMAIN g]
    BY <2>2
  <2> HIDE DEF d
  <2>7. Lists(Tail(seq), g, n - 1, d)
    BY <2>1, <2>3, <2>4, <2>5, <2>6 DEF Lists
  <2> QED BY <2>7, Zenon DEF Listing
<1>8. RemoveAt(seq, 1) = Tail(seq)
  <2> DEFINE T == Vals(f)
  <2>1. SubSeq(seq, 1, 1 - 1) = << >>
    BY SubSeqEmpty
  <2>2. Tail(seq) = SubSeq(seq, 1 + 1, Len(seq)) /\ Tail(seq) \in Seq(T)
    BY <1>2, <1>6, TailIsSubSeq, HeadTailProperties
  <2>3. << >> \o Tail(seq) = Tail(seq)
    BY <2>2, ConcatEmptySeq
  <2> QED BY <2>1, <2>2, <2>3 DEF RemoveAt
<1> QED BY <1>2, <1>6, <1>7, <1>8

\* A value for a greater number goes to the end.
LEMMA ListsPush ==
  ASSUME NEW seq, NEW f, DOMAIN f \subseteq Int, Listing(seq, f),
         NEW k \in Int, \A j \in DOMAIN f : j < k, NEW v,
         NEW g, g = [j \in DOMAIN f \cup {k} |-> IF j = k THEN v ELSE f[j]]
  PROVE  Listing(Append(seq, v), g)
<1>1. PICK n, e : Lists(seq, f, n, e)
  BY DEF Listing
<1>2. /\ n \in Nat /\ Len(seq) = n /\ seq \in Seq(Vals(f))
      /\ \A i \in 1 .. n : e[i] \in DOMAIN f /\ seq[i] = f[e[i]]
      /\ \A i, j \in 1 .. n : e[i] < e[j] <=> i < j
      /\ \A i, j \in 1 .. n : e[i] = e[j] <=> i = j
  BY <1>1, ListsFacts
<1>3. \A j \in DOMAIN f : \E i \in 1 .. n : e[i] = j
  BY <1>1 DEF Lists
<1> DEFINE d == [i \in 1 .. n + 1 |-> IF i = n + 1 THEN k ELSE e[i]]
<1>4. n + 1 \in Nat /\ \A i \in 1 .. n + 1 : i # n + 1 => i \in 1 .. n
  BY <1>2
<1>5. \A i \in 1 .. n + 1 : d[i] \in DOMAIN g
  BY <1>2, <1>4
<1>6. \A i, j \in 1 .. n + 1 : i < j => d[i] < d[j]
  BY <1>2, <1>4
<1>7. \A j \in DOMAIN g : \E i \in 1 .. n + 1 : d[i] = j
  <2> TAKE j \in DOMAIN g
  <2>1. CASE j = k
    <3>1. n + 1 \in 1 .. n + 1 /\ d[n + 1] = k
      BY <1>2
    <3> QED BY <2>1, <3>1
  <2>2. CASE j # k
    <3>1. PICK i \in 1 .. n : e[i] = j
      BY <2>2, <1>3
    <3>2. i \in 1 .. n + 1 /\ d[i] = j
      BY <3>1, <1>2
    <3> QED BY <3>2
  <2> QED BY <2>1, <2>2
<1>8. Append(seq, v) = [i \in 1 .. n + 1 |-> g[d[i]]]
  <2> DEFINE T == Vals(f) \cup {v}
  <2>1. seq \in Seq(T)
    BY <1>2, SeqMonotonic
  <2>2. /\ Append(seq, v) \in Seq(T) /\ Len(Append(seq, v)) = n + 1
        /\ \A i \in 1 .. n : Append(seq, v)[i] = seq[i]
        /\ Append(seq, v)[n + 1] = v
    <3> HIDE DEF T
    <3>1. v \in T
      BY DEF T
    <3> QED BY <2>1, <3>1, <1>2, AppendProperties
  <2>3. \A i \in 1 .. n + 1 : g[d[i]] = Append(seq, v)[i]
    <3> TAKE i \in 1 .. n + 1
    <3>1. CASE i = n + 1
      BY <3>1, <2>2, <1>2
    <3>2. CASE i # n + 1
      <4>1. i \in 1 .. n /\ d[i] = e[i] /\ e[i] \in DOMAIN f /\ e[i] # k
        BY <3>2, <1>2, <1>4
      <4>2. g[d[i]] = f[e[i]]
        BY <4>1
      <4> QED BY <4>1, <4>2, <2>2, <1>2
    <3> QED BY <3>1, <3>2
  <2>4. Append(seq, v) = [i \in 1 .. n + 1 |-> Append(seq, v)[i]]
    <3> DEFINE s == Append(seq, v)
    <3>1. s \in Seq(T) /\ Len(s) = n + 1
      BY <2>2
    <3> HIDE DEF T, s
    <3>2. s \in [1 .. n + 1 -> T]
      BY <3>1, LenProperties
    <3>3. s = [i \in 1 .. n + 1 |-> s[i]]
      BY <3>2
    <3> QED BY <3>3 DEF s
  <2> QED BY <2>3, <2>4
<1>9. d \in [1 .. n + 1 -> DOMAIN g]
  BY <1>5
<1> HIDE DEF d
<1>10. Lists(Append(seq, v), g, n + 1, d)
  BY <1>4, <1>6, <1>7, <1>8, <1>9 DEF Lists
<1> QED BY <1>10, Zenon DEF Listing

\* Two sequences one after the other, the numbers of the second all greater.
LEMMA ListsConcat ==
  ASSUME NEW s, NEW f, DOMAIN f \subseteq Int, Listing(s, f),
         NEW t, NEW g, DOMAIN g \subseteq Int, Listing(t, g),
         \A j \in DOMAIN f, k \in DOMAIN g : j < k,
         NEW h, h = [k \in DOMAIN f \cup DOMAIN g |-> IF k \in DOMAIN f THEN f[k] ELSE g[k]]
  PROVE  Listing(s \o t, h)
<1>1. PICK n, e : Lists(s, f, n, e)
  BY Zenon DEF Listing
<1>2. PICK m, d : Lists(t, g, m, d)
  BY Zenon DEF Listing
<1>3. /\ n \in Nat /\ Len(s) = n /\ s \in Seq(Vals(f))
      /\ \A i \in 1 .. n : e[i] \in DOMAIN f /\ s[i] = f[e[i]]
      /\ \A i, j \in 1 .. n : e[i] < e[j] <=> i < j
  BY <1>1, ListsFacts
<1>4. /\ m \in Nat /\ Len(t) = m /\ t \in Seq(Vals(g))
      /\ \A i \in 1 .. m : d[i] \in DOMAIN g /\ t[i] = g[d[i]]
      /\ \A i, j \in 1 .. m : d[i] < d[j] <=> i < j
  BY <1>2, ListsFacts
<1>5. /\ \A j \in DOMAIN f : \E i \in 1 .. n : e[i] = j
      /\ \A j \in DOMAIN g : \E i \in 1 .. m : d[i] = j
  BY <1>1, <1>2 DEF Lists
<1> DEFINE c == [i \in 1 .. n + m |-> IF i <= n THEN e[i] ELSE d[i - n]]
<1>6. n + m \in Nat /\ \A i \in 1 .. n + m : IF i <= n THEN i \in 1 .. n ELSE i - n \in 1 .. m
  BY <1>3, <1>4
<1>7. \A i \in 1 .. n + m : /\ i <= n => c[i] \in DOMAIN f /\ c[i] = e[i] /\ i \in 1 .. n
                            /\ ~(i <= n) => c[i] \in DOMAIN g /\ c[i] = d[i - n] /\ i - n \in 1 .. m
  BY <1>3, <1>4, <1>6
<1>8. \A i, j \in 1 .. n + m : i < j => c[i] < c[j]
  <2> SUFFICES ASSUME NEW i \in 1 .. n + m, NEW j \in 1 .. n + m, i < j PROVE c[i] < c[j]
    OBVIOUS
  <2> HIDE DEF c
  <2>1. CASE j <= n
    <3>1. i <= n /\ i \in 1 .. n /\ j \in 1 .. n /\ c[i] = e[i] /\ c[j] = e[j]
      BY <1>3, <1>7, <2>1
    <3> QED BY <1>3, <3>1
  <2>2. CASE ~(j <= n) /\ i <= n
    BY <1>7, <2>2
  <2>3. CASE ~(j <= n) /\ ~(i <= n)
    <3>1. i - n \in 1 .. m /\ j - n \in 1 .. m /\ c[i] = d[i - n] /\ c[j] = d[j - n]
      BY <1>7, <2>3
    <3>2. i - n < j - n
      BY <1>3
    <3> QED BY <1>4, <3>1, <3>2
  <2> QED BY <2>1, <2>2, <2>3
<1>9. \A k \in DOMAIN h : \E i \in 1 .. n + m : c[i] = k
  <2> TAKE k \in DOMAIN h
  <2>1. CASE k \in DOMAIN f
    <3>1. PICK i \in 1 .. n : e[i] = k
      BY <1>5, <2>1
    <3>2. i \in 1 .. n + m /\ i <= n
      BY <1>3, <1>4
    <3> QED BY <3>1, <3>2
  <2>2. CASE k \in DOMAIN g
    <3>1. PICK i \in 1 .. m : d[i] = k
      BY <1>5, <2>2
    <3>2. n + i \in 1 .. n + m /\ ~(n + i <= n) /\ (n + i) - n = i
      BY <1>3, <1>4
    <3>3. c[n + i] = k
      BY <3>1, <3>2
    <3> QED BY <3>2, <3>3
  <2> QED BY <2>1, <2>2
<1>10. \A i \in 1 .. n + m : c[i] \in DOMAIN h /\ h[c[i]] = IF i <= n THEN s[i] ELSE t[i - n]
  <2> TAKE i \in 1 .. n + m
  <2> HIDE DEF c
  <2>1. CASE i <= n
    BY <1>3, <1>7, <2>1
  <2>2. CASE ~(i <= n)
    <3>1. c[i] \in DOMAIN g /\ c[i] = d[i - n] /\ i - n \in 1 .. m
      BY <1>7, <2>2
    <3>2. c[i] \notin DOMAIN f
      BY <3>1
    <3>3. g[d[i - n]] = t[i - n]
      BY <1>4, <3>1
    <3> QED BY <3>1, <3>2, <3>3, <2>2
  <2> QED BY <2>1, <2>2
<1>11. s \o t = [i \in 1 .. n + m |-> h[c[i]]]
  <2> DEFINE T == Vals(f) \cup Vals(g)
             u == s \o t
  <2>1. s \in Seq(T) /\ t \in Seq(T)
    BY <1>3, <1>4, SeqMonotonic
  <2> HIDE DEF T
  <2>2. /\ u \in Seq(T) /\ Len(u) = n + m
        /\ \A i \in 1 .. n + m : u[i] = IF i <= n THEN s[i] ELSE t[i - n]
    <3>1. /\ u \in Seq(T) /\ Len(u) = Len(s) + Len(t)
          /\ \A i \in 1 .. Len(s) + Len(t) : u[i] = IF i <= Len(s) THEN s[i] ELSE t[i - Len(s)]
      BY <2>1, ConcatProperties, Zenon
    <3>2. Len(s) = n /\ Len(t) = m
      BY <1>3, <1>4
    <3> QED BY <3>1, <3>2, Zenon
  <2> HIDE DEF u, c
  <2>3. u \in [1 .. n + m -> T]
    BY <2>2, LenProperties
  <2>4. u = [i \in 1 .. n + m |-> h[c[i]]]
    BY <2>2, <2>3, <1>10
  <2> QED BY <2>4 DEF u
<1>12. c \in [1 .. n + m -> DOMAIN h]
  BY <1>10
<1> HIDE DEF c
<1>13. Lists(s \o t, h, n + m, c)
  BY <1>6, <1>8, <1>9, <1>11, <1>12 DEF Lists
<1> QED BY <1>13, Zenon DEF Listing

------------------------------------------------------------------------------
(* The script of a rank lists its calls in the order of their keys.        *)

\* The calls of rank r from key lo to below key hi, and a sequence of them.
Calls(r, lo, hi)       == [k \in {j \in lo .. hi - 1 : CallAt(r, j).kind # "none"} |-> CallAt(r, k)]
Covers(seq, r, lo, hi) == Listing(seq, Calls(r, lo, hi))

\* No call between two keys.
LEMMA CoversNothing ==
  ASSUME NEW r, NEW lo \in Int, NEW hi \in Int, \A k \in lo .. hi - 1 : CallAt(r, k).kind = "none"
  PROVE  Covers(<< >>, r, lo, hi)
<1>1. Calls(r, lo, hi) = [k \in {} |-> 0] /\ DOMAIN Calls(r, lo, hi) \subseteq Int
  <2>1. {j \in lo .. hi - 1 : CallAt(r, j).kind # "none"} = {}
    OBVIOUS
  <2> QED BY <2>1 DEF Calls
<1> QED BY <1>1, ListsEmpty DEF Covers

\* The calls up to a key, and those from it on.
LEMMA CoversConcat ==
  ASSUME NEW r, NEW lo \in Int, NEW mid \in Int, NEW hi \in Int, lo <= mid, mid <= hi,
         NEW s, Covers(s, r, lo, mid), NEW t, Covers(t, r, mid, hi)
  PROVE  Covers(s \o t, r, lo, hi)
<1> DEFINE f == Calls(r, lo, mid)
           g == Calls(r, mid, hi)
<1>1. /\ DOMAIN f = {j \in lo .. mid - 1 : CallAt(r, j).kind # "none"}
      /\ DOMAIN g = {j \in mid .. hi - 1 : CallAt(r, j).kind # "none"}
      /\ \A k \in DOMAIN f : f[k] = CallAt(r, k)
      /\ \A k \in DOMAIN g : g[k] = CallAt(r, k)
  BY DEF Calls
<1>2. DOMAIN f \subseteq Int /\ DOMAIN g \subseteq Int /\ \A j \in DOMAIN f, k \in DOMAIN g : j < k
  BY <1>1
<1>3. DOMAIN f \cup DOMAIN g = {j \in lo .. hi - 1 : CallAt(r, j).kind # "none"}
  BY <1>1
<1>4. Calls(r, lo, hi) = [k \in DOMAIN f \cup DOMAIN g |-> IF k \in DOMAIN f THEN f[k] ELSE g[k]]
  <2> HIDE DEF f, g
  <2> QED BY <1>1, <1>3 DEF Calls
<1> HIDE DEF f, g
<1>5. Listing(s, f) /\ Listing(t, g)
  BY DEF Covers, f, g
<1> QED BY <1>2, <1>4, <1>5, ListsConcat DEF Covers

\* Calls at consecutive keys.
LEMMA CoversDense ==
  ASSUME NEW r, NEW lo \in Int, NEW n \in Nat, NEW S, NEW s \in Seq(S), Len(s) = n,
         \A i \in 1 .. n : s[i] = CallAt(r, lo + i - 1) /\ s[i].kind # "none"
  PROVE  Covers(s, r, lo, lo + n)
<1> DEFINE e == [i \in 1 .. n |-> lo + i - 1]
           f == Calls(r, lo, lo + n)
<1>1. \A k \in lo .. lo + n - 1 : (k - lo) + 1 \in 1 .. n /\ lo + ((k - lo) + 1) - 1 = k
  OBVIOUS
<1>2. \A k \in lo .. lo + n - 1 : CallAt(r, k).kind # "none"
  <2> TAKE k \in lo .. lo + n - 1
  <2> QED BY <1>1
<1>3. DOMAIN f = lo .. lo + n - 1 /\ \A k \in DOMAIN f : f[k] = CallAt(r, k)
  BY <1>2 DEF Calls
<1> HIDE DEF f
<1>4. \A i \in 1 .. n : e[i] \in DOMAIN f /\ e[i] = lo + i - 1
  BY <1>3
<1>5. s = [i \in 1 .. n |-> f[e[i]]]
  <2>1. \A i \in 1 .. n : f[e[i]] = s[i]
    BY <1>3, <1>4
  <2>2. s = [i \in 1 .. n |-> s[i]]
    BY LenProperties
  <2> HIDE DEF e
  <2> QED BY <2>1, <2>2
<1>6. \A k \in DOMAIN f : \E i \in 1 .. n : e[i] = k
  <2> TAKE k \in DOMAIN f
  <2>1. k \in lo .. lo + n - 1
    BY <1>3
  <2> QED BY <1>1, <2>1, <1>4
<1>7. \A i, j \in 1 .. n : i < j => e[i] < e[j]
  BY <1>4
<1>8. e \in [1 .. n -> DOMAIN f]
  BY <1>4
<1> HIDE DEF e
<1>9. Lists(s, f, n, e)
  BY <1>5, <1>6, <1>7, <1>8 DEF Lists
<1> QED BY <1>9, Zenon DEF Listing, Covers, f

\* One call.
LEMMA CoversOne ==
  ASSUME NEW r, NEW lo \in Int, NEW c, c = CallAt(r, lo), c.kind # "none"
  PROVE  Covers(<<c>>, r, lo, lo + 1)
<1>1. <<c>> \in Seq({c}) /\ Len(<<c>>) = 1 /\ <<c>>[1] = c
  OBVIOUS
<1>2. \A i \in 1 .. 1 : <<c>>[i] = CallAt(r, lo + i - 1) /\ <<c>>[i].kind # "none"
  BY <1>1
<1> QED BY <1>1, <1>2, CoversDense

\* Two calls.
LEMMA CoversTwo ==
  ASSUME NEW r, NEW lo \in Int, NEW c, c = CallAt(r, lo), c.kind # "none",
         NEW d, d = CallAt(r, lo + 1), d.kind # "none"
  PROVE  Covers(<<c, d>>, r, lo, lo + 2)
<1>1. <<c, d>> \in Seq({c, d}) /\ Len(<<c, d>>) = 2 /\ <<c, d>>[1] = c /\ <<c, d>>[2] = d
  OBVIOUS
<1>2. \A i \in 1 .. 2 : <<c, d>>[i] = CallAt(r, lo + i - 1) /\ <<c, d>>[i].kind # "none"
  <2> TAKE i \in 1 .. 2
  <2>1. i = 1 \/ i = 2
    OBVIOUS
  <2> QED BY <1>1, <2>1
<1> QED BY <1>1, <1>2, CoversDense

\* The stages of the matrices.
LEMMA StageValues ==
  /\ Stage("A1") = 1 /\ Stage("B1") = 2 /\ Stage("A2") = 3 /\ Stage("B2") = 4
  /\ Stage("A1_full") = 6 /\ Stage("B1_full") = 7 /\ Stage("A2_full") = 8 /\ Stage("B2_full") = 9
  /\ Stage("A_local") = 10 /\ Stage("B_local") = 11 /\ Stage("local_result") = 12
  /\ Stage("gathered") = 13 /\ Stage("result1") = 14 /\ Stage("result2") = 15 /\ Stage("decrypted") = 16
  BY DEF Stage

\* Different matrices are made in different stages.
LEMMA StagesDiffer ==
  /\ \A m, n \in Scattered \cup Gathered : Stage(m) = Stage(n) => m = n
  /\ \A n \in Scattered \cup Gathered : Stage(n) \in 1 .. 16 \ {5, 12}
  /\ \A n \in Operands : Stage(n) \in 1 .. 4
  /\ \A n \in Scattered \ Operands : Stage(n) \in {10, 11, 14, 15}
  /\ \A n \in Gathered : Stage(n) \in {6, 7, 8, 9, 13, 16}
  BY StageValues DEF Scattered, Gathered, Operands

\* The numbers of the clock.
LEMMA WidthType ==
  /\ P \in Nat /\ P >= 2 /\ Width \in Nat /\ Width >= 21 /\ Width = 4 * P + 13
  /\ End = 17 * Width /\ Keys = 0 .. 17 * Width - 1
  BY SplitAssumption DEF Width, End, Keys, Stages

\* A key is a stage and an offset in it.
LEMMA KeyParts ==
  ASSUME NEW g \in 0 .. 16, NEW o \in 0 .. Width - 1
  PROVE  /\ (g * Width + o) \div Width = g /\ (g * Width + o) % Width = o
         /\ g * Width + o \in Keys
<1>1. g \in Nat /\ Width \in Nat \ {0}
  BY WidthType
<1>2. g * Width + o < 17 * Width
  BY WidthType
<1>3. g * Width + o \in Int /\ g * Width + o >= 0
  BY <1>1
<1> QED BY <1>1, <1>2, <1>3, DivModUnique, WidthType

\* Every key is one.
LEMMA KeySplit ==
  ASSUME NEW k \in Keys
  PROVE  \E g \in 0 .. 16 : \E o \in 0 .. Width - 1 : k = g * Width + o
<1>1. k \in Nat /\ k < 17 * Width /\ Width \in Nat \ {0}
  BY WidthType
<1> DEFINE g == k \div Width
           o == k % Width
<1>2. g \in Nat /\ o \in 0 .. Width - 1 /\ k = g * Width + o
  BY <1>1, DivMod
<1> HIDE DEF g, o
<1>3. g <= 16
  <2> SUFFICES ASSUME 17 <= g PROVE FALSE
    BY <1>2
  <2>1. 17 * Width <= g * Width
    BY <1>1, <1>2
  <2> QED BY <1>1, <1>2, <2>1
<1>4. g \in 0 .. 16
  BY <1>2, <1>3
<1> QED BY <1>2, <1>4

\* The matrix of a stage is the one that CallAt chooses.
LEMMA NameOfStage ==
  ASSUME NEW names, names \subseteq Scattered \cup Gathered, NEW name \in names, NEW g, Stage(name) = g
  PROVE  NameOf(g, names) = name
<1> DEFINE c == CHOOSE n \in names : Stage(n) = g
<1>1. c \in names /\ Stage(c) = g
  BY Zenon
<1> HIDE DEF c
<1>2. c = name
  BY <1>1, StagesDiffer
<1> QED BY <1>2 DEF c, NameOf

\* The call at a key is that of its stage and offset.
LEMMA CallOf ==
  ASSUME NEW r, NEW g \in 0 .. 16, NEW o \in 0 .. Width - 1
  PROVE  CallAt(r, g * Width + o) = CallIn(r, g, o)
<1>1. (g * Width + o) \div Width = g /\ (g * Width + o) % Width = o
  BY KeyParts
<1> QED BY <1>1, Zenon DEF CallAt

\* The constructor's calls.
LEMMA CallConstruct ==
  ASSUME NEW r, NEW o \in 0 .. Width - 1
  PROVE  CallAt(r, o) = ConstructAt(r, o)
<1>1. 0 * Width + o = o
  BY WidthType
<1>2. CallAt(r, 0 * Width + o) = CallIn(r, 0, o)
  BY CallOf
<1> QED BY <1>1, <1>2 DEF CallIn

\* The calls of EncryptFromRoot.
LEMMA CallEncrypt ==
  ASSUME NEW r, NEW name \in Operands, NEW o \in 0 .. Width - 1
  PROVE  CallAt(r, Stage(name) * Width + o) = EncryptAt(r, name, o)
<1> DEFINE g == Stage(name)
<1>1. g \in 1 .. 4 /\ MadeIn(g, Operands)
  BY StagesDiffer DEF MadeIn
<1>2. NameOf(g, Operands) = name
  BY NameOfStage DEF Scattered
<1> HIDE DEF g
<1>3. g # 0 /\ g \in 0 .. 16
  BY <1>1
<1>4. CallIn(r, g, o) = EncryptAt(r, name, o)
  BY <1>1, <1>2, <1>3, Zenon DEF CallIn
<1> QED BY <1>3, <1>4, CallOf DEF g

\* The calls of ScatterFromRankToGrid in matmul_pair.
LEMMA CallScatter ==
  ASSUME NEW r, NEW name \in Scattered \ Operands, NEW o \in 0 .. Width - 1
  PROVE  CallAt(r, Stage(name) * Width + o) = ScatterAt(r, name, o)
<1> DEFINE g == Stage(name)
<1>1. g \in {10, 11, 14, 15} /\ MadeIn(g, Scattered)
  BY StagesDiffer DEF MadeIn
<1>2. NameOf(g, Scattered) = name
  BY NameOfStage
<1>3. ~ MadeIn(g, Operands)
  BY <1>1, StagesDiffer DEF MadeIn
<1> HIDE DEF g
<1>4. g # 0 /\ g \in 0 .. 16
  BY <1>1
<1>5. CallIn(r, g, o) = ScatterAt(r, name, o)
  BY <1>1, <1>2, <1>3, <1>4, Zenon DEF CallIn
<1> QED BY <1>4, <1>5, CallOf DEF g

\* The calls of GatherToRankWithinGrid.
LEMMA CallGather ==
  ASSUME NEW r, NEW name \in Gathered, NEW o \in 0 .. Width - 1
  PROVE  CallAt(r, Stage(name) * Width + o) = GatherAt(r, name, o)
<1> DEFINE g == Stage(name)
<1>1. g \in {6, 7, 8, 9, 13, 16} /\ MadeIn(g, Gathered)
  BY StagesDiffer DEF MadeIn
<1>2. NameOf(g, Gathered) = name
  BY NameOfStage
<1>3. ~ \E n \in Scattered : Stage(n) = g
  BY <1>1, StagesDiffer
<1>4. ~ MadeIn(g, Operands) /\ ~ MadeIn(g, Scattered)
  BY <1>3 DEF Scattered, MadeIn
<1> HIDE DEF g
<1>5. g # 0 /\ g \in 0 .. 16
  BY <1>1
<1>6. CallIn(r, g, o) = GatherAt(r, name, o)
  BY <1>1, <1>2, <1>4, <1>5, Zenon DEF CallIn
<1> QED BY <1>5, <1>6, CallOf DEF g

\* The two barriers: the split of the world in matmul_pair and the product.
LEMMA CallBarrier ==
  ASSUME NEW r, NEW o \in 0 .. Width - 1
  PROVE  /\ CallAt(r, 5 * Width + o) = IF o = 0 THEN LocalStep("split", "world", "none", "none") ELSE NoCall
         /\ CallAt(r, 12 * Width + o) = IF o = 0 THEN LocalStep("matmul", "sub", "A_local", "B_local")
                                        ELSE NoCall
<1>1. ASSUME NEW g \in {5, 12} PROVE ~ MadeIn(g, Operands) /\ ~ MadeIn(g, Scattered) /\ ~ MadeIn(g, Gathered)
  BY StagesDiffer DEF Scattered, MadeIn
<1>2. 5 # 0 /\ 12 # 0 /\ 5 # 12 /\ 5 \in 0 .. 16 /\ 12 \in 0 .. 16
  OBVIOUS
<1>3. CallIn(r, 5, o) = IF o = 0 THEN LocalStep("split", "world", "none", "none") ELSE NoCall
  BY <1>1, <1>2, Zenon DEF CallIn
<1>4. CallIn(r, 12, o) = IF o = 0 THEN LocalStep("matmul", "sub", "A_local", "B_local") ELSE NoCall
  BY <1>1, <1>2, Zenon DEF CallIn
<1>5. CallAt(r, 5 * Width + o) = CallIn(r, 5, o) /\ CallAt(r, 12 * Width + o) = CallIn(r, 12, o)
  BY <1>2, CallOf
<1> QED BY <1>3, <1>4, <1>5

\* Two sequences of two calls, one after the other.
LEMMA TwoAndTwo ==
  ASSUME NEW a, NEW b, NEW c, NEW d, NEW s, s = <<a, b>> \o <<c, d>>
  PROVE  /\ Len(s) = 4 /\ s \in Seq({a, b, c, d})
         /\ s[1] = a /\ s[2] = b /\ s[3] = c /\ s[4] = d
  OBVIOUS

\* A call, a sequence of four and a last one.
LEMMA OneFourOne ==
  ASSUME NEW a, NEW b, NEW c, NEW d, NEW e, NEW f, NEW s,
         s = <<a>> \o <<b, c>> \o <<d, e>> \o <<f>>
  PROVE  /\ Len(s) = 6 /\ s \in Seq({a, b, c, d, e, f})
         /\ s[1] = a /\ s[2] = b /\ s[3] = c /\ s[4] = d /\ s[5] = e /\ s[6] = f
  OBVIOUS

\* The calls of a matrix that is sent or received.
IsMatrix(s, kind, comm, peer, m) ==
  /\ Len(s) = 4 /\ \E S : s \in Seq(S)
  /\ s[1] = Call(kind, comm, peer, 300, "size", "rows", m)
  /\ s[2] = Call(kind, comm, peer, 301, "payload", "rows", m)
  /\ s[3] = Call(kind, comm, peer, 301, "size", "cols", m)
  /\ s[4] = Call(kind, comm, peer, 302, "payload", "cols", m)

\* RecvMatrix and SendMatrix are the four messages of a matrix.
LEMMA MatrixCalls ==
  ASSUME NEW comm, NEW peer, NEW m
  PROVE  /\ IsMatrix(RecvMatrix(comm, peer, m), "recv", comm, peer, m)
         /\ IsMatrix(SendMatrix(comm, peer, m), "send", comm, peer, m)
<1>0. kGatherRowsTag = 300 /\ kGatherColsTag = 301 /\ 300 + 1 = 301 /\ 301 + 1 = 302
  BY DEF kGatherRowsTag, kGatherColsTag
<1>1. ASSUME NEW kind, NEW s, s = Batch(kind, comm, peer, kGatherRowsTag, "rows", m)
                                    \o Batch(kind, comm, peer, kGatherColsTag, "cols", m)
      PROVE  IsMatrix(s, kind, comm, peer, m)
  <2> DEFINE a == Call(kind, comm, peer, 300, "size", "rows", m)
             b == Call(kind, comm, peer, 301, "payload", "rows", m)
             c == Call(kind, comm, peer, 301, "size", "cols", m)
             d == Call(kind, comm, peer, 302, "payload", "cols", m)
  <2>1. /\ Batch(kind, comm, peer, kGatherRowsTag, "rows", m) = <<a, b>>
        /\ Batch(kind, comm, peer, kGatherColsTag, "cols", m) = <<c, d>>
    BY <1>0 DEF Batch
  <2> HIDE DEF a, b, c, d
  <2>2. s = <<a, b>> \o <<c, d>>
    BY <1>1, <2>1
  <2>3. /\ Len(s) = 4 /\ s \in Seq({a, b, c, d})
        /\ s[1] = a /\ s[2] = b /\ s[3] = c /\ s[4] = d
    BY <2>2, TwoAndTwo
  <2>4. \E S : s \in Seq(S)
    BY <2>3, Zenon
  <2> QED BY <2>3, <2>4, Zenon DEF IsMatrix, a, b, c, d
<1> QED BY <1>1, Zenon DEF RecvMatrix, SendMatrix

\* The calls of ScatterFromRankToGrid.
IsScatter(s, comm, root, from, into) ==
  /\ Len(s) = 6 /\ \E S : s \in Seq(S)
  /\ s[1] = Call("full", comm, root, 0, from, "rows", into)
  /\ s[2] = Call("bcast", comm, root, 0, "size", "rows", into)
  /\ s[3] = Call("bcast", comm, root, 1, "payload", "rows", into)
  /\ s[4] = Call("bcast", comm, root, 0, "size", "cols", into)
  /\ s[5] = Call("bcast", comm, root, 1, "payload", "cols", into)
  /\ s[6] = LocalStep("slice", comm, into, into)

\* ScatterFromRankToGrid is the six calls of a scatter.
LEMMA ScatterCalls ==
  ASSUME NEW comm, NEW root, NEW from, NEW into
  PROVE  IsScatter(ScatterFromRankToGrid(comm, root, from, into), comm, root, from, into)
<1> DEFINE a == Call("full", comm, root, 0, from, "rows", into)
           b == Call("bcast", comm, root, 0, "size", "rows", into)
           c == Call("bcast", comm, root, 1, "payload", "rows", into)
           d == Call("bcast", comm, root, 0, "size", "cols", into)
           e == Call("bcast", comm, root, 1, "payload", "cols", into)
           f == LocalStep("slice", comm, into, into)
           s == ScatterFromRankToGrid(comm, root, from, into)
<1>0. 0 + 1 = 1
  OBVIOUS
<1>1. /\ Batch("bcast", comm, root, 0, "rows", into) = <<b, c>>
      /\ Batch("bcast", comm, root, 0, "cols", into) = <<d, e>>
  BY <1>0 DEF Batch
<1>2. s = <<a>> \o Batch("bcast", comm, root, 0, "rows", into)
            \o Batch("bcast", comm, root, 0, "cols", into) \o <<f>>
  BY Zenon DEF ScatterFromRankToGrid
<1> HIDE DEF a, b, c, d, e, f, s
<1>3. s = <<a>> \o <<b, c>> \o <<d, e>> \o <<f>>
  BY <1>1, <1>2, Zenon
<1>4. /\ Len(s) = 6 /\ s \in Seq({a, b, c, d, e, f})
      /\ s[1] = a /\ s[2] = b /\ s[3] = c /\ s[4] = d /\ s[5] = e /\ s[6] = f
  BY <1>3, OneFourOne
<1>5. \E S : s \in Seq(S)
  BY <1>4, Zenon
<1>6. IsScatter(s, comm, root, from, into)
  BY <1>4, <1>5, Zenon DEF IsScatter, a, b, c, d, e, f
<1> QED BY <1>6 DEF s

\* The kind of a call.
LEMMA Kinds ==
  ASSUME NEW kind, NEW comm, NEW peer, NEW tag, NEW part, NEW axis, NEW of
  PROVE  /\ Call(kind, comm, peer, tag, part, axis, of).kind = kind
         /\ Call(kind, comm, peer, tag, part, axis, of).comm = comm
         /\ Call(kind, comm, peer, tag, part, axis, of).peer = peer
         /\ Call(kind, comm, peer, tag, part, axis, of).tag = tag
         /\ Call(kind, comm, peer, tag, part, axis, of).part = part
         /\ Call(kind, comm, peer, tag, part, axis, of).axis = axis
         /\ Call(kind, comm, peer, tag, part, axis, of).of = of
         /\ LocalStep(kind, comm, part, of) = Call(kind, comm, 0, 0, part, "rows", of)
         /\ NoCall.kind = "none"
  BY DEF Call, LocalStep, NoCall

\* A scatter, its calls at the keys from b on.
LEMMA CoversScatter ==
  ASSUME NEW r, NEW comm, NEW root, NEW from, NEW into, NEW b \in Int, NEW hi \in Int, b + 6 <= hi,
         \A o \in 0 .. 5 : CallAt(r, b + o) = ScatterFromRankToGrid(comm, root, from, into)[o + 1],
         \A k \in b + 6 .. hi - 1 : CallAt(r, k).kind = "none"
  PROVE  Covers(ScatterFromRankToGrid(comm, root, from, into), r, b, hi)
<1> DEFINE s == ScatterFromRankToGrid(comm, root, from, into)
<1>0. IsScatter(s, comm, root, from, into)
  BY ScatterCalls
<1> HIDE DEF s
<1>1. PICK S : s \in Seq(S)
  BY <1>0 DEF IsScatter
<1>2. Len(s) = 6
  BY <1>0 DEF IsScatter
<1>3. \A i \in 1 .. 6 : s[i].kind # "none"
  <2>1. /\ s[1].kind = "full" /\ s[2].kind = "bcast" /\ s[3].kind = "bcast"
        /\ s[4].kind = "bcast" /\ s[5].kind = "bcast" /\ s[6].kind = "slice"
    BY <1>0 DEF IsScatter, Call, LocalStep
  <2> QED BY <2>1
<1>4. \A i \in 1 .. 6 : s[i] = CallAt(r, b + i - 1)
  <2> TAKE i \in 1 .. 6
  <2>1. i - 1 \in 0 .. 5 /\ (i - 1) + 1 = i /\ b + (i - 1) = b + i - 1
    OBVIOUS
  <2> QED BY <2>1 DEF s
<1>5. Covers(s, r, b, b + 6)
  BY <1>1, <1>2, <1>3, <1>4, CoversDense
<1>6. Covers(<< >>, r, b + 6, hi) /\ b + 6 \in Int /\ b <= b + 6
  BY CoversNothing
<1>7. Covers(s \o << >>, r, b, hi)
  BY <1>5, <1>6, CoversConcat
<1>8. s \o << >> = s
  BY <1>1, ConcatEmptySeq
<1> QED BY <1>7, <1>8 DEF s

\* A matrix sent or received, its calls at the keys from b on.
LEMMA CoversMatrix ==
  ASSUME NEW r, NEW s, NEW b \in Int, NEW comm, NEW peer, NEW m,
         s = RecvMatrix(comm, peer, m) \/ s = SendMatrix(comm, peer, m),
         \A i \in 1 .. 4 : CallAt(r, b + i - 1) = s[i]
  PROVE  Covers(s, r, b, b + 4)
<1>0. \E kind \in {"recv", "send"} : IsMatrix(s, kind, comm, peer, m)
  BY MatrixCalls
<1>1. Len(s) = 4 /\ \E S : s \in Seq(S)
  BY <1>0 DEF IsMatrix
<1>2. \A i \in 1 .. 4 : s[i].kind # "none"
  <2>1. \A i \in {1, 2, 3, 4} : s[i].kind \in {"recv", "send"}
    BY <1>0, Kinds DEF IsMatrix
  <2> QED BY <2>1
<1> QED BY <1>1, <1>2, CoversDense

\* FlattenSeq joins the sequences one after the other.
LEMMA Flatten ==
  ASSUME NEW n \in Nat \ {0}, NEW T, NEW s \in [1 .. n -> T]
  PROVE  \E F : /\ F[1] = s[1] /\ \A i \in 2 .. n : F[i] = F[i - 1] \o s[i]
                /\ FlattenSeq(s) = F[n]
<1> DEFINE Rec(F) == [i \in 1 .. n |-> IF i = 1 THEN s[i] ELSE F[i - 1] \o s[i]]
           H      == CHOOSE F : F = Rec(F)
           Upto(F, m) == F[1] = s[1] /\ \A i \in 2 .. m : F[i] = F[i - 1] \o s[i]
           Bad    == {m \in Nat \ {0} : ~ \E F : Upto(F, m)}
<1>1. s \in Seq(T) /\ Len(s) = n
  BY FunctionIsSeq
<1>2. FlattenSeq(s) = H[n]
  BY <1>1 DEF FlattenSeq
<1>3. Bad = {}
  <2> SUFFICES ASSUME Bad # {} PROVE FALSE
    OBVIOUS
  <2>1. Bad \subseteq Nat
    OBVIOUS
  <2>2. PICK m \in Bad : \A x \in Bad : ~(x < m)
    <3> HIDE DEF Bad
    <3> QED BY <2>1, LeastNat
  <2>3. m # 1
    <3>1. Upto([i \in {1} |-> s[1]], 1)
      OBVIOUS
    <3>2. 1 \notin Bad
      BY <3>1
    <3> QED BY <2>2, <3>2
  <2>4. m - 1 \in Nat \ {0} /\ m - 1 < m
    BY <2>2, <2>3
  <2>5. PICK F : Upto(F, m - 1)
    BY <2>2, <2>4
  <2> DEFINE G == [i \in 1 .. m |-> IF i = m THEN F[m - 1] \o s[m] ELSE F[i]]
  <2>6. G[1] = s[1] /\ \A i \in 2 .. m : G[i] = G[i - 1] \o s[i]
    <3>1. G[1] = s[1]
      BY <2>2, <2>3, <2>5
    <3>2. ASSUME NEW i \in 2 .. m PROVE G[i] = G[i - 1] \o s[i]
      <4>1. m \in Nat /\ i - 1 \in 1 .. m /\ i \in 1 .. m /\ i - 1 # m
        BY <2>2
      <4>2. G[i - 1] = F[i - 1]
        BY <4>1
      <4>3. CASE i = m
        BY <4>1, <4>2, <4>3
      <4>4. CASE i # m
        <5>1. i \in 2 .. m - 1 /\ G[i] = F[i]
          BY <4>1, <4>4
        <5> QED BY <5>1, <4>2, <2>5
      <4> QED BY <4>3, <4>4
    <3> HIDE DEF G
    <3> QED BY <3>1, <3>2
  <2> HIDE DEF G
  <2>7. Upto(G, m)
    BY <2>6
  <2> QED BY <2>2, <2>7
<1>4. PICK F : Upto(F, n)
  BY <1>3
<1> DEFINE Q == [i \in 1 .. n |-> F[i]]
<1>5. Q = Rec(Q)
  <2>1. ASSUME NEW i \in 1 .. n PROVE Q[i] = Rec(Q)[i]
    <3>1. CASE i = 1
      BY <1>4, <3>1
    <3>2. CASE i # 1
      <4>1. i \in 2 .. n /\ i - 1 \in 1 .. n
        BY <3>2
      <4>2. Q[i] = F[i - 1] \o s[i] /\ Q[i - 1] = F[i - 1]
        BY <1>4, <4>1
      <4> QED BY <3>2, <4>2
    <3> QED BY <3>1, <3>2
  <2> QED BY <2>1
<1>6. H = Rec(H)
  <2> HIDE DEF Rec, Q
  <2> QED BY <1>5, Zenon
<1> HIDE DEF H
<1>7. H[1] = s[1]
  <2>1. 1 \in 1 .. n
    OBVIOUS
  <2> QED BY <1>6, <2>1
<1>8. ASSUME NEW i \in 2 .. n PROVE H[i] = H[i - 1] \o s[i]
  <2>1. i \in 1 .. n /\ i # 1
    OBVIOUS
  <2> QED BY <1>6, <2>1
<1> QED BY <1>2, <1>7, <1>8

\* FlattenSeq of sequences that each cover the calls up to the next point.
LEMMA CoversFlatten ==
  ASSUME NEW r, NEW n \in Nat \ {0}, NEW T, NEW s \in [1 .. n -> T],
         NEW b \in Int, NEW w \in Nat,
         \A i \in 1 .. n : Covers(s[i], r, b + (i - 1) * w, b + i * w)
  PROVE  Covers(FlattenSeq(s), r, b, b + n * w)
<1>1. PICK F : /\ F[1] = s[1] /\ \A i \in 2 .. n : F[i] = F[i - 1] \o s[i]
               /\ FlattenSeq(s) = F[n]
  BY Flatten
<1> DEFINE Bad == {m \in Nat : m \in 1 .. n /\ ~ Covers(F[m], r, b, b + m * w)}
<1>2. Bad = {}
  <2> SUFFICES ASSUME Bad # {} PROVE FALSE
    OBVIOUS
  <2>1. Bad \subseteq Nat
    OBVIOUS
  <2>2. PICK m \in Bad : \A x \in Bad : ~(x < m)
    <3> HIDE DEF Bad
    <3> QED BY <2>1, LeastNat
  <2>3. m # 1
    <3>1. 1 \in 1 .. n /\ b + (1 - 1) * w = b
      OBVIOUS
    <3>2. Covers(F[1], r, b, b + 1 * w)
      BY <1>1, <3>1
    <3> QED BY <2>2, <3>2
  <2>4. m - 1 \in 1 .. n /\ m - 1 \in Nat /\ m - 1 < m /\ m \in 2 .. n /\ m \in 1 .. n
    BY <2>2, <2>3
  <2>5. Covers(F[m - 1], r, b, b + (m - 1) * w)
    BY <2>2, <2>4
  <2>6. Covers(s[m], r, b + (m - 1) * w, b + m * w)
    BY <2>4
  <2>7. /\ b + (m - 1) * w \in Int /\ b + m * w \in Int
        /\ b <= b + (m - 1) * w /\ b + (m - 1) * w <= b + m * w
    <3>1. m - 1 \in Nat /\ m \in Nat /\ (m - 1) * w \in Nat /\ m * w = (m - 1) * w + w
      BY <2>4
    <3> QED BY <3>1
  <2>8. Covers(F[m - 1] \o s[m], r, b, b + m * w)
    BY <2>5, <2>6, <2>7, CoversConcat
  <2>9. F[m] = F[m - 1] \o s[m]
    BY <1>1, <2>4
  <2> QED BY <2>2, <2>8, <2>9
<1>3. n \in 1 .. n /\ n \in Nat
  OBVIOUS
<1> QED BY <1>1, <1>2, <1>3

\* What covers calls is a sequence.
LEMMA CoversIsSeq ==
  ASSUME NEW r, NEW lo \in Int, NEW hi \in Int, NEW s, Covers(s, r, lo, hi)
  PROVE  \E S : s \in Seq(S)
<1>1. DOMAIN Calls(r, lo, hi) \subseteq Int
  BY DEF Calls
<1>2. PICK n, e : Lists(s, Calls(r, lo, hi), n, e)
  BY Zenon DEF Covers, Listing
<1>3. s \in Seq(Vals(Calls(r, lo, hi)))
  BY <1>1, <1>2, ListsFacts
<1> QED BY <1>3, Zenon

\* Keys without a call may be added at the end and at the beginning.
LEMMA CoversMore ==
  ASSUME NEW r, NEW a \in Int, NEW lo \in Int, NEW hi \in Int, NEW b \in Int,
         a <= lo, lo <= hi, hi <= b, NEW s, Covers(s, r, lo, hi),
         \A k \in a .. lo - 1 : CallAt(r, k).kind = "none",
         \A k \in hi .. b - 1 : CallAt(r, k).kind = "none"
  PROVE  Covers(s, r, a, b)
<1>1. PICK S : s \in Seq(S)
  BY CoversIsSeq
<1>2. Covers(<< >>, r, a, lo) /\ Covers(<< >>, r, hi, b)
  BY CoversNothing
<1>3. Covers(s \o << >>, r, lo, b)
  BY <1>2, CoversConcat
<1>4. s \o << >> = s /\ << >> \o s = s
  BY <1>1, ConcatEmptySeq
<1>5. lo <= b
  OBVIOUS
<1>6. Covers(<< >> \o s, r, a, b)
  BY <1>2, <1>3, <1>4, <1>5, CoversConcat
<1> QED BY <1>4, <1>6

\* The root of an operation belongs to its communicator, and its members agree.
LEMMA RootIsMember ==
  ASSUME NEW r \in Ranks, NEW name
  PROVE  /\ RootOf(r, name) \in Members(r, CommOf(name)) /\ RootOf(r, name) \in Ranks
         /\ \A s \in Members(r, CommOf(name)) : RootOf(s, name) = RootOf(r, name)
<1>1. 0 \in Ranks /\ half \in Ranks
  BY SplitAssumption DEF Ranks, half
<1>2. CASE CommOf(name) = "sub"
  <2>1. Leader(r, "sub") \in Members(r, "sub") /\ Members(r, "sub") \subseteq Ranks
    BY MembersAre
  <2>2. \A s \in Members(r, "sub") : Leader(s, "sub") = Leader(r, "sub")
    BY MembersAgree
  <2> QED BY <1>2, <2>1, <2>2 DEF RootOf
<1>3. CASE CommOf(name) # "sub"
  <2>1. Members(r, CommOf(name)) = Ranks
    BY <1>3 DEF Members
  <2> QED BY <1>1, <1>3, <2>1 DEF RootOf
<1> QED BY <1>2, <1>3

\* What member r of a gather calls in the part-th place of those about rank src.
GathersWith(r, name, src, part) ==
  GatherAt(r, name, 4 * src + part)
    = IF r = RootOf(r, name)
      THEN IF src \in Members(r, CommOf(name)) \ {r}
           THEN RecvMatrix(CommOf(name), src, name)[part] ELSE NoCall
      ELSE IF src = r THEN SendMatrix(CommOf(name), RootOf(r, name), FromOf(r, name))[part]
      ELSE NoCall

\* The calls of GatherToRankWithinGrid by the rank that they are about.
LEMMA GatherCalls ==
  ASSUME NEW r, NEW name, NEW src \in Nat, NEW part \in 1 .. 4
  PROVE  GathersWith(r, name, src, part)
<1>1. /\ 4 * src + part # 0
      /\ ((4 * src + part) - 1) \div 4 = src
      /\ (((4 * src + part) - 1) % 4) + 1 = part
  OBVIOUS
<1> QED BY <1>1, Zenon DEF GatherAt, GathersWith

\* Every offset of a gather but the first is about some rank.
LEMMA GatherOffset ==
  ASSUME NEW o \in Nat, o # 0
  PROVE  \E src \in Nat, part \in 1 .. 4 : o = 4 * src + part
<1>1. (o - 1) \div 4 \in Nat /\ ((o - 1) % 4) + 1 \in 1 .. 4
      /\ o = 4 * ((o - 1) \div 4) + (((o - 1) % 4) + 1)
  OBVIOUS
<1> QED BY <1>1

\* GatherToRankWithinGrid, its calls at the keys from b on.
LEMMA CoversGather ==
  ASSUME NEW r \in Ranks, NEW name, NEW b \in Int,
         \A o \in 0 .. Width - 1 : CallAt(r, b + o) = GatherAt(r, name, o)
  PROVE  Covers(GatherToRankWithinGrid(r, CommOf(name), RootOf(r, name), FromOf(r, name), name), r, b, b + Width)
<1> DEFINE comm == CommOf(name)
           root == RootOf(r, name)
           from == FromOf(r, name)
           lead == Leader(r, comm)
           size == Size(r, comm)
<1>0. /\ r \in Nat /\ r < P /\ P \in Nat /\ Width = 4 * P + 13
      /\ size \in Nat \ {0} /\ lead \in Nat /\ lead + size <= P
      /\ Members(r, comm) = lead .. lead + size - 1 /\ root \in Members(r, comm)
  BY MembersAre, WidthType, RootIsMember DEF Ranks
<1>1. ASSUME NEW src \in Nat, NEW part \in 1 .. 4, src < P + 3
      PROVE  CallAt(r, b + (4 * src + part))
               = IF r = root THEN IF src \in Members(r, comm) \ {r}
                                  THEN RecvMatrix(comm, src, name)[part] ELSE NoCall
                 ELSE IF src = r THEN SendMatrix(comm, root, from)[part] ELSE NoCall
  <2>1. 4 * src + part \in 0 .. Width - 1
    BY <1>0, <1>1
  <2>2. CallAt(r, b + (4 * src + part)) = GatherAt(r, name, 4 * src + part)
    BY <2>1
  <2>3. GatherAt(r, name, 4 * src + part)
          = IF r = RootOf(r, name)
            THEN IF src \in Members(r, CommOf(name)) \ {r}
                 THEN RecvMatrix(CommOf(name), src, name)[part] ELSE NoCall
            ELSE IF src = r THEN SendMatrix(CommOf(name), RootOf(r, name), FromOf(r, name))[part]
            ELSE NoCall
    <3>1. GathersWith(r, name, src, part)
      BY GatherCalls
    <3> QED BY <3>1 DEF GathersWith
  <2> QED BY <2>2, <2>3
<1>2. CallAt(r, b) = IF r = root THEN LocalStep("own", comm, from, name) ELSE NoCall
  <2>1. 0 \in 0 .. Width - 1 /\ b + 0 = b
    BY <1>0
  <2>2. CallAt(r, b + 0) = GatherAt(r, name, 0)
    BY <2>1
  <2> QED BY <2>1, <2>2 DEF GatherAt
<1>3. ASSUME NEW k \in b + 1 .. b + Width - 1
      PROVE  \E src \in Nat, part \in 1 .. 4 : k = b + (4 * src + part) /\ src < P + 3
  <2>1. k - b \in Nat /\ k - b # 0 /\ k - b < Width
    BY <1>0
  <2>2. PICK src \in Nat, part \in 1 .. 4 : k - b = 4 * src + part
    BY <2>1, GatherOffset
  <2>3. k = b + (4 * src + part) /\ src < P + 3
    BY <1>0, <2>1, <2>2
  <2> QED BY <2>3
<1> HIDE DEF comm, root, from, lead, size
<1>4. CASE r = root
  <2> DEFINE part(k) == LET src == lead + k - 1 IN
                        IF src = root THEN << >> ELSE RecvMatrix(comm, src, name)
             s == [k \in 1 .. size |-> part(k)]
             c == LocalStep("own", comm, from, name)
             base == b + 1 + 4 * lead
  <2>1. Covers(<<c>>, r, b, b + 1)
    BY <1>2, <1>4, CoversOne, Kinds
  <2>2. \A i \in 1 .. size : Covers(s[i], r, base + (i - 1) * 4, base + i * 4)
    <3> SUFFICES ASSUME NEW i \in 1 .. size PROVE Covers(part(i), r, base + (i - 1) * 4, base + i * 4)
      OBVIOUS
    <3> DEFINE src == lead + i - 1
               lo  == base + (i - 1) * 4
    <3>1. /\ src \in Nat /\ src \in Members(r, comm) /\ src < P + 3
          /\ lo = b + 1 + 4 * src /\ lo \in Int /\ base + i * 4 = lo + 4
      BY <1>0
    <3>2. part(i) = IF src = root THEN << >> ELSE RecvMatrix(comm, src, name)
      OBVIOUS
    <3> HIDE DEF src, lo, part
    <3>3. \A j \in 1 .. 4 : CallAt(r, lo + j - 1) = IF src = root THEN NoCall
                                                    ELSE RecvMatrix(comm, src, name)[j]
      <4> TAKE j \in 1 .. 4
      <4>1. lo + j - 1 = b + (4 * src + j)
        BY <3>1
      <4> QED BY <4>1, <3>1, <1>1, <1>4
    <3>4. ASSUME src = root PROVE Covers(part(i), r, lo, lo + 4)
      <4>1. \A k \in lo .. (lo + 4) - 1 : CallAt(r, k).kind = "none"
        <5> TAKE k \in lo .. (lo + 4) - 1
        <5>1. (k - lo) + 1 \in 1 .. 4 /\ lo + ((k - lo) + 1) - 1 = k
          BY <3>1
        <5> QED BY <5>1, <3>3, <3>4, Kinds
      <4> QED BY <4>1, <3>1, <3>2, <3>4, CoversNothing
    <3>5. ASSUME src # root PROVE Covers(part(i), r, lo, lo + 4)
      <4>1. \A j \in 1 .. 4 : CallAt(r, lo + j - 1) = part(i)[j]
        BY <3>2, <3>3, <3>5
      <4>2. part(i) = RecvMatrix(comm, src, name)
        BY <3>2, <3>5
      <4> QED BY <3>1, <4>1, <4>2, CoversMatrix
    <3>6. Covers(part(i), r, lo, lo + 4)
      BY <3>4, <3>5
    <3> QED BY <3>1, <3>6 DEF lo
  <2>3. s \in [1 .. size -> {part(k) : k \in 1 .. size}]
    OBVIOUS
  <2> HIDE DEF part, s, c
  <2>4. base \in Int /\ 4 \in Nat /\ base + size * 4 \in Int /\ b + 1 <= base /\ base <= base + size * 4
        /\ base + size * 4 <= b + Width /\ b + 1 \in Int /\ b + Width \in Int
    BY <1>0
  <2>5. Covers(FlattenSeq(s), r, base, base + size * 4)
    BY <1>0, <2>2, <2>3, <2>4, CoversFlatten
  <2>6. Covers(FlattenSeq(s), r, b + 1, b + Width)
    <3>1. ASSUME NEW k \in b + 1 .. b + Width - 1, k < base \/ base + size * 4 <= k
          PROVE  CallAt(r, k).kind = "none"
      <4>1. PICK src \in Nat, p \in 1 .. 4 : k = b + (4 * src + p) /\ src < P + 3
        BY <1>3
      <4>2. src \notin Members(r, comm)
        BY <4>1, <3>1, <1>0
      <4> QED BY <4>1, <4>2, <1>1, <1>4, Kinds
    <3>2. /\ \A k \in b + 1 .. base - 1 : CallAt(r, k).kind = "none"
          /\ \A k \in base + size * 4 .. (b + Width) - 1 : CallAt(r, k).kind = "none"
      BY <3>1, <2>4, <1>0
    <3> HIDE DEF base
    <3> QED BY <2>4, <2>5, <3>2, CoversMore
  <2>7. Covers(<<c>> \o FlattenSeq(s), r, b, b + Width)
    <3>1. b <= b + 1 /\ b + 1 <= b + Width
      BY <2>4
    <3> QED BY <2>1, <2>4, <2>6, <3>1, CoversConcat
  <2>8. GatherToRankWithinGrid(r, comm, root, from, name) = <<c>> \o FlattenSeq(s)
    BY <1>4, Zenon DEF GatherToRankWithinGrid, c, s, part, size, lead
  <2> QED BY <2>7, <2>8 DEF comm, root, from
<1>5. CASE r # root
  <2> DEFINE lo == b + 1 + 4 * r
  <2>1. /\ b \in Int /\ lo \in Int /\ lo + 4 \in Int /\ b + Width \in Int
        /\ b <= lo /\ lo <= lo + 4 /\ lo + 4 <= b + Width
    BY <1>0
  <2>2. \A i \in 1 .. 4 : CallAt(r, lo + i - 1) = SendMatrix(comm, root, from)[i]
    <3> TAKE i \in 1 .. 4
    <3>1. lo + i - 1 = b + (4 * r + i) /\ r < P + 3
      BY <1>0
    <3> QED BY <3>1, <1>0, <1>1, <1>5
  <2>3. Covers(SendMatrix(comm, root, from), r, lo, lo + 4)
    BY <2>1, <2>2, CoversMatrix
  <2>4. ASSUME NEW k \in b .. b + Width - 1, k < lo \/ lo + 4 <= k
        PROVE  CallAt(r, k).kind = "none"
    <3>1. CASE k = b
      BY <3>1, <1>2, <1>5, Kinds
    <3>2. CASE k # b
      <4>1. k \in b + 1 .. b + Width - 1
        BY <3>2, <1>0
      <4>2. PICK src \in Nat, p \in 1 .. 4 : k = b + (4 * src + p) /\ src < P + 3
        BY <4>1, <1>3
      <4>3. src # r
        BY <4>2, <2>4, <1>0
      <4> QED BY <4>2, <4>3, <1>1, <1>5, Kinds
    <3> QED BY <3>1, <3>2
  <2>5. /\ \A k \in b .. lo - 1 : CallAt(r, k).kind = "none"
        /\ \A k \in lo + 4 .. (b + Width) - 1 : CallAt(r, k).kind = "none"
    BY <2>1, <2>4, <1>0
  <2> HIDE DEF lo
  <2>6. Covers(SendMatrix(comm, root, from), r, b, b + Width)
    BY <2>1, <2>3, <2>5, CoversMore
  <2>7. GatherToRankWithinGrid(r, comm, root, from, name) = SendMatrix(comm, root, from)
    BY <1>5, Zenon DEF GatherToRankWithinGrid
  <2> QED BY <2>6, <2>7 DEF comm, root, from
<1> QED BY <1>4, <1>5

\* The parts of the bundle.
LEMMA BundleParts ==
  /\ DOMAIN Bundle = 1 .. 4 /\ Bundle \in [1 .. 4 -> Parts]
  /\ Bundle[1] = "crypto_context" /\ Bundle[2] = "public_key"
  /\ Bundle[3] = "eval_mult_key" /\ Bundle[4] = "eval_automorphism_key"
  /\ Parts = {"crypto_context", "public_key", "eval_mult_key", "eval_automorphism_key"}
<1>1. /\ DOMAIN Bundle = 1 .. 4
      /\ Bundle[1] = "crypto_context" /\ Bundle[2] = "public_key"
      /\ Bundle[3] = "eval_mult_key" /\ Bundle[4] = "eval_automorphism_key"
      /\ Bundle = [i \in 1 .. 4 |-> Bundle[i]]
  BY DEF Bundle
<1>2. Parts = {Bundle[i] : i \in 1 .. 4}
  BY <1>1 DEF Parts, Range
<1>3. Parts = {"crypto_context", "public_key", "eval_mult_key", "eval_automorphism_key"}
  <2>1. 1 .. 4 = {1, 2, 3, 4}
    OBVIOUS
  <2> QED BY <1>1, <1>2, <2>1
<1>4. Bundle \in [1 .. 4 -> Parts]
  BY <1>1, <1>2
<1> QED BY <1>1, <1>3, <1>4

\* A broadcast batch.
LEMMA BatchCalls ==
  ASSUME NEW comm, NEW root, NEW m
  PROVE  Batch("bcast", comm, root, 0, "rows", m)
           = <<Call("bcast", comm, root, 0, "size", "rows", m), Call("bcast", comm, root, 1, "payload", "rows", m)>>
<1>1. 0 + 1 = 1
  OBVIOUS
<1> QED BY <1>1 DEF Batch

\* The calls of the constructor.
LEMMA ConstructCalls ==
  ASSUME NEW r
  PROVE  /\ CallAt(r, 0) = LocalStep("split", "world", "none", "none")
         /\ \A p \in 1 .. 4 :
              /\ CallAt(r, p) = IF r = kRootRank THEN LocalStep("serialize", "world", Bundle[p], Bundle[p]) ELSE NoCall
              /\ CallAt(r, 2 * p + 3) = Call("bcast", "world", kRootRank, 0, "size", "rows", Bundle[p])
              /\ CallAt(r, 2 * p + 4) = Call("bcast", "world", kRootRank, 1, "payload", "rows", Bundle[p])
         /\ \A k \in 13 .. Width - 1 : CallAt(r, k) = NoCall
<1>1. \A o \in 0 .. Width - 1 : CallAt(r, o) = ConstructAt(r, o)
  BY CallConstruct
<1>2. CallAt(r, 0) = LocalStep("split", "world", "none", "none")
  <2>1. 0 \in 0 .. Width - 1
    BY WidthType
  <2> QED BY <1>1, <2>1 DEF ConstructAt
<1>3. ASSUME NEW p \in 1 .. 4
      PROVE  CallAt(r, p) = IF r = kRootRank THEN LocalStep("serialize", "world", Bundle[p], Bundle[p]) ELSE NoCall
  <2>1. p \in 0 .. Width - 1 /\ p # 0
    BY WidthType
  <2> QED BY <1>1, <2>1 DEF ConstructAt
<1>4. ASSUME NEW p \in 1 .. 4, NEW j \in 1 .. 2
      PROVE  CallAt(r, 2 * p + 2 + j) = Batch("bcast", "world", kRootRank, 0, "rows", Bundle[p])[j]
  <2> DEFINE o == 2 * p + 2 + j
  <2>1. o \in 0 .. Width - 1 /\ o # 0 /\ o \notin 1 .. 4 /\ o \in 5 .. 12
    BY WidthType
  <2>2. ((o - 5) \div 2) + 1 = p /\ ((o - 5) % 2) + 1 = j
    OBVIOUS
  <2> HIDE DEF o
  <2>3. CallAt(r, o) = Batch("bcast", "world", kRootRank, 0, "rows", Bundle[p])[j]
    <3>1. CallAt(r, o) = ConstructAt(r, o)
      BY <1>1, <2>1
    <3> QED BY <3>1, <2>1, <2>2, Zenon DEF ConstructAt
  <2> QED BY <2>3 DEF o
<1>5. ASSUME NEW p \in 1 .. 4
      PROVE  /\ CallAt(r, 2 * p + 3) = Call("bcast", "world", kRootRank, 0, "size", "rows", Bundle[p])
             /\ CallAt(r, 2 * p + 4) = Call("bcast", "world", kRootRank, 1, "payload", "rows", Bundle[p])
  <2>1. 2 * p + 2 + 1 = 2 * p + 3 /\ 2 * p + 2 + 2 = 2 * p + 4 /\ 1 \in 1 .. 2 /\ 2 \in 1 .. 2
    OBVIOUS
  <2>2. /\ CallAt(r, 2 * p + 3) = Batch("bcast", "world", kRootRank, 0, "rows", Bundle[p])[1]
        /\ CallAt(r, 2 * p + 4) = Batch("bcast", "world", kRootRank, 0, "rows", Bundle[p])[2]
    BY <1>4, <2>1
  <2> QED BY <2>2, BatchCalls
<1>6. ASSUME NEW k \in 13 .. Width - 1 PROVE CallAt(r, k) = NoCall
  <2>1. k \in 0 .. Width - 1 /\ k # 0 /\ k \notin 1 .. 4 /\ k \notin 5 .. 12
    BY WidthType
  <2> QED BY <1>1, <2>1 DEF ConstructAt
<1> QED BY <1>2, <1>3, <1>5, <1>6

\* The constructor, its calls at the keys from 0 on.
LEMMA CoversConstruct ==
  ASSUME NEW r
  PROVE  Covers(Construct(r), r, 0, Width)
<1>1. Covers(<<LocalStep("split", "world", "none", "none")>>, r, 0, 1)
  <2>1. 0 + 1 = 1 /\ 0 \in Int
    OBVIOUS
  <2>2. CallAt(r, 0) = LocalStep("split", "world", "none", "none") /\ CallAt(r, 0).kind # "none"
    BY ConstructCalls DEF LocalStep, Call
  <2> QED BY <2>1, <2>2, CoversOne
<1> DEFINE s == IF r = kRootRank
                THEN [k \in DOMAIN Bundle |-> LocalStep("serialize", "world", Bundle[k], Bundle[k])]
                ELSE << >>
<1>2. Covers(s, r, 1, 5)
  <2>1. CASE r = kRootRank
    <3> DEFINE S == {LocalStep("serialize", "world", Bundle[k], Bundle[k]) : k \in 1 .. 4}
    <3>1. s \in [1 .. 4 -> S] /\ \A k \in 1 .. 4 : s[k] = LocalStep("serialize", "world", Bundle[k], Bundle[k])
      BY <2>1, BundleParts
    <3> HIDE DEF s, S
    <3>2. s \in Seq(S) /\ Len(s) = 4
      BY <3>1, FunctionIsSeq
    <3>3. \A i \in 1 .. 4 : s[i] = CallAt(r, 1 + i - 1) /\ s[i].kind # "none"
      <4> TAKE i \in 1 .. 4
      <4>1. 1 + i - 1 = i
        OBVIOUS
      <4> QED BY <2>1, <3>1, <4>1, ConstructCalls DEF LocalStep, Call
    <3>4. 1 + 4 = 5 /\ 1 \in Int /\ 4 \in Nat
      OBVIOUS
    <3> QED BY <3>2, <3>3, <3>4, CoversDense
  <2>2. CASE r # kRootRank
    <3>1. \A k \in 1 .. 5 - 1 : CallAt(r, k).kind = "none"
      BY <2>2, ConstructCalls DEF NoCall, Call
    <3> QED BY <2>2, <3>1, CoversNothing
  <2> QED BY <2>1, <2>2
<1>3. Covers(BroadcastContextBundle, r, 5, 13)
  <2> DEFINE b(k) == Batch("bcast", "world", kRootRank, 0, "rows", Bundle[k])
             t == [k \in 1 .. 4 |-> b(k)]
  <2>1. \A i \in 1 .. 4 : Covers(t[i], r, 5 + (i - 1) * 2, 5 + i * 2)
    <3> SUFFICES ASSUME NEW i \in 1 .. 4 PROVE Covers(b(i), r, 5 + (i - 1) * 2, 5 + i * 2)
      OBVIOUS
    <3> DEFINE lo == 2 * i + 3
               c == Call("bcast", "world", kRootRank, 0, "size", "rows", Bundle[i])
               d == Call("bcast", "world", kRootRank, 1, "payload", "rows", Bundle[i])
    <3>1. 5 + (i - 1) * 2 = lo /\ 5 + i * 2 = lo + 2 /\ lo + 1 = 2 * i + 4 /\ lo \in Int
      OBVIOUS
    <3>2. b(i) = <<c, d>>
      BY BatchCalls
    <3>3. c = CallAt(r, lo) /\ d = CallAt(r, lo + 1) /\ c.kind # "none" /\ d.kind # "none"
      BY <3>1, ConstructCalls DEF Call
    <3> HIDE DEF lo, c, d, b
    <3>4. Covers(b(i), r, lo, lo + 2)
      BY <3>1, <3>2, <3>3, CoversTwo
    <3> QED BY <3>1, <3>4
  <2>2. t \in [1 .. 4 -> {b(k) : k \in 1 .. 4}]
    OBVIOUS
  <2>3. BroadcastContextBundle = FlattenSeq(t)
    BY BundleParts DEF BroadcastContextBundle
  <2> HIDE DEF t, b
  <2>4. 4 \in Nat \ {0} /\ 5 \in Int /\ 2 \in Nat /\ 5 + 4 * 2 = 13
    OBVIOUS
  <2>5. Covers(FlattenSeq(t), r, 5, 5 + 4 * 2)
    BY <2>1, <2>2, <2>4, CoversFlatten
  <2> QED BY <2>3, <2>4, <2>5
<1> HIDE DEF s
<1>4. Covers(<<LocalStep("split", "world", "none", "none")>> \o s, r, 0, 5)
  <2>1. 0 \in Int /\ 1 \in Int /\ 5 \in Int /\ 0 <= 1 /\ 1 <= 5
    OBVIOUS
  <2> QED BY <1>1, <1>2, <2>1, CoversConcat
<1>5. Covers(BroadcastContextBundle, r, 5, Width)
  <2>1. 5 \in Int /\ 13 \in Int /\ Width \in Int /\ 5 <= 5 /\ 5 <= 13 /\ 13 <= Width
    BY WidthType
  <2>2. /\ \A k \in 5 .. 5 - 1 : CallAt(r, k).kind = "none"
        /\ \A k \in 13 .. Width - 1 : CallAt(r, k).kind = "none"
    <3>1. \A k \in 13 .. Width - 1 : CallAt(r, k) = NoCall
      BY ConstructCalls
    <3>2. NoCall.kind = "none"
      BY DEF NoCall, Call
    <3>3. 5 .. 5 - 1 = {}
      OBVIOUS
    <3> QED BY <3>1, <3>2, <3>3
  <2> QED BY <1>3, <2>1, <2>2, CoversMore
<1>6. 0 \in Int /\ 5 \in Int /\ Width \in Int /\ 0 <= 5 /\ 5 <= Width
  BY WidthType
<1> QED BY <1>4, <1>5, <1>6, CoversConcat DEF Construct, s

\* EncryptFromRoot, its calls at the keys of the stage.
LEMMA CoversEncrypt ==
  ASSUME NEW r, NEW name \in Operands
  PROVE  Covers(EncryptFromRoot(r, name), r, Stage(name) * Width, Stage(name) * Width + Width)
<1> DEFINE b == Stage(name) * Width
           c == LocalStep("encrypt", "grid", name, "encrypted")
           s == IF r = kRootRank THEN <<c>> ELSE << >>
           t == ScatterFromRankToGrid("grid", kRootRank, "encrypted", name)
<1>1. b \in Int /\ Width \in Nat /\ Width >= 21
  BY StagesDiffer, WidthType
<1>2. \A o \in 0 .. Width - 1 : CallAt(r, b + o) = EncryptAt(r, name, o)
  BY CallEncrypt
<1> HIDE DEF b
<1>3. t = ScatterFromRankToGrid(CommOf(name), RootOf(r, name), FromOf(r, name), name)
  BY DEF CommOf, RootOf, FromOf, Operands, kRootRank
<1>4. Covers(s, r, b, b + 1)
  <2>1. 0 \in 0 .. Width - 1 /\ b + 0 = b
    BY <1>1
  <2>2. CallAt(r, b) = IF r = kRootRank THEN c ELSE NoCall
    BY <1>2, <2>1 DEF EncryptAt
  <2>3. CASE r = kRootRank
    BY <2>2, <2>3, <1>1, CoversOne, Kinds
  <2>4. CASE r # kRootRank
    <3>1. \A k \in b .. (b + 1) - 1 : CallAt(r, k).kind = "none"
      <4> TAKE k \in b .. (b + 1) - 1
      <4>1. k = b
        BY <1>1
      <4> QED BY <4>1, <2>2, <2>4, Kinds
    <3> QED BY <3>1, <2>4, <1>1, CoversNothing
  <2> QED BY <2>3, <2>4
<1>5. \A o \in 0 .. Width - 2 : CallAt(r, (b + 1) + o) = ScatterAt(r, name, o)
  <2> TAKE o \in 0 .. Width - 2
  <2>1. (b + 1) + o = b + (o + 1) /\ o + 1 \in 0 .. Width - 1 /\ o + 1 # 0 /\ (o + 1) - 1 = o
    BY <1>1
  <2>2. CallAt(r, b + (o + 1)) = EncryptAt(r, name, o + 1)
    BY <1>2, <2>1
  <2> QED BY <2>1, <2>2 DEF EncryptAt
<1>6. Covers(t, r, b + 1, b + Width)
  <2>1. \A o \in 0 .. 5 : CallAt(r, (b + 1) + o) = t[o + 1]
    <3> TAKE o \in 0 .. 5
    <3>1. o \in 0 .. Width - 2
      BY <1>1
    <3> HIDE DEF t
    <3> QED BY <3>1, <1>5, <1>3 DEF ScatterAt
  <2>2. \A k \in (b + 1) + 6 .. (b + Width) - 1 : CallAt(r, k).kind = "none"
    <3> TAKE k \in (b + 1) + 6 .. (b + Width) - 1
    <3>1. k - (b + 1) \in 0 .. Width - 2 /\ k - (b + 1) \notin 0 .. 5 /\ (b + 1) + (k - (b + 1)) = k
      BY <1>1
    <3>2. CallAt(r, k) = NoCall
      BY <3>1, <1>5 DEF ScatterAt
    <3> QED BY <3>2, Kinds
  <2>3. b + 1 \in Int /\ b + Width \in Int /\ (b + 1) + 6 <= b + Width
    BY <1>1
  <2> QED BY <2>1, <2>2, <2>3, CoversScatter
<1>7. b <= b + 1 /\ b + 1 <= b + Width /\ b + 1 \in Int /\ b + Width \in Int
  BY <1>1
<1> HIDE DEF s, t
<1>8. Covers(s \o t, r, b, b + Width)
  BY <1>1, <1>4, <1>6, <1>7, CoversConcat
<1> QED BY <1>8 DEF EncryptFromRoot, s, t, c, b

\* A scatter of matmul_pair, its calls at the keys of the stage.
LEMMA CoversScatterStage ==
  ASSUME NEW r, NEW name \in Scattered \ Operands
  PROVE  Covers(ScatterFromRankToGrid(CommOf(name), RootOf(r, name), FromOf(r, name), name), r,
                Stage(name) * Width, Stage(name) * Width + Width)
<1> DEFINE b == Stage(name) * Width
<1>1. b \in Int /\ Width \in Nat /\ Width >= 21
  BY StagesDiffer, WidthType
<1>2. \A o \in 0 .. Width - 1 : CallAt(r, b + o) = ScatterAt(r, name, o)
  BY CallScatter
<1> HIDE DEF b
<1>3. \A o \in 0 .. 5 :
        CallAt(r, b + o) = ScatterFromRankToGrid(CommOf(name), RootOf(r, name), FromOf(r, name), name)[o + 1]
  BY <1>1, <1>2 DEF ScatterAt
<1>4. \A k \in b + 6 .. (b + Width) - 1 : CallAt(r, k).kind = "none"
  <2> TAKE k \in b + 6 .. (b + Width) - 1
  <2>1. k - b \in 0 .. Width - 1 /\ k - b \notin 0 .. 5 /\ b + (k - b) = k
    BY <1>1
  <2>2. CallAt(r, k) = NoCall
    BY <2>1, <1>2 DEF ScatterAt
  <2> QED BY <2>2, Kinds
<1>5. b + Width \in Int /\ b + 6 <= b + Width
  BY <1>1
<1>6. Covers(ScatterFromRankToGrid(CommOf(name), RootOf(r, name), FromOf(r, name), name), r, b, b + Width)
  BY <1>1, <1>3, <1>4, <1>5, CoversScatter
<1> QED BY <1>6 DEF b

\* A gather, its calls at the keys of the stage.
LEMMA CoversGatherStage ==
  ASSUME NEW r \in Ranks, NEW name \in Gathered
  PROVE  Covers(GatherToRankWithinGrid(r, CommOf(name), RootOf(r, name), FromOf(r, name), name), r,
                Stage(name) * Width, Stage(name) * Width + Width)
<1> DEFINE b == Stage(name) * Width
<1>1. b \in Int
  BY StagesDiffer, WidthType
<1>2. \A o \in 0 .. Width - 1 : CallAt(r, b + o) = GatherAt(r, name, o)
  BY CallGather
<1> HIDE DEF b
<1>3. Covers(GatherToRankWithinGrid(r, CommOf(name), RootOf(r, name), FromOf(r, name), name), r, b, b + Width)
  BY <1>1, <1>2, CoversGather
<1> QED BY <1>3 DEF b

\* A barrier, the first call of its stage.
LEMMA CoversBarrier ==
  ASSUME NEW r, NEW g \in {5, 12}, NEW c, c = CallAt(r, g * Width), c.kind # "none"
  PROVE  Covers(<<c>>, r, g * Width, g * Width + Width)
<1>1. \A o \in 0 .. Width - 1 : o # 0 => CallAt(r, g * Width + o) = NoCall
  BY CallBarrier
<1> DEFINE b == g * Width
<1>2. b \in Int /\ Width \in Nat /\ Width >= 21
  BY WidthType
<1>3. c = CallAt(r, b)
  OBVIOUS
<1>4. \A o \in 0 .. Width - 1 : o # 0 => CallAt(r, b + o) = NoCall
  BY <1>1
<1> HIDE DEF b
<1>5. Covers(<<c>>, r, b, b + 1)
  BY <1>2, <1>3, CoversOne
<1>6. \A k \in b + 1 .. (b + Width) - 1 : CallAt(r, k).kind = "none"
  <2> TAKE k \in b + 1 .. (b + Width) - 1
  <2>1. k - b \in 0 .. Width - 1 /\ k - b # 0 /\ b + (k - b) = k
    BY <1>2
  <2>2. CallAt(r, k) = NoCall
    BY <2>1, <1>4
  <2> QED BY <2>2, Kinds
<1>7. \A k \in b .. b - 1 : CallAt(r, k).kind = "none"
  BY <1>2
<1>8. b + 1 \in Int /\ b + Width \in Int /\ b <= b /\ b <= b + 1 /\ b + 1 <= b + Width
  BY <1>2
<1>9. Covers(<<c>>, r, b, b + Width)
  BY <1>2, <1>5, <1>6, <1>7, <1>8, CoversMore
<1> QED BY <1>9 DEF b

\* The calls of the stages from a to below b.
MakesStages(seq, r, a, b) == a \in Nat /\ b \in Nat /\ a <= b /\ Covers(seq, r, a * Width, b * Width)

\* Two consecutive runs of stages.
LEMMA CoversStages ==
  ASSUME NEW r, NEW a, NEW b, NEW c,
         NEW s, MakesStages(s, r, a, b), NEW t, MakesStages(t, r, b, c)
  PROVE  MakesStages(s \o t, r, a, c)
<1>1. /\ a \in Nat /\ b \in Nat /\ c \in Nat /\ a <= b /\ b <= c /\ a <= c
      /\ Covers(s, r, a * Width, b * Width) /\ Covers(t, r, b * Width, c * Width)
  BY DEF MakesStages
<1>2. ASSUME NEW i \in Nat, NEW j \in Nat, i <= j
      PROVE  i * Width \in Int /\ j * Width \in Int /\ i * Width <= j * Width
  BY <1>2, WidthType
<1> DEFINE x == a * Width
           y == b * Width
           z == c * Width
<1>3. x \in Int /\ y \in Int /\ z \in Int /\ x <= y /\ y <= z
  BY <1>1, <1>2
<1>4. Covers(s, r, x, y) /\ Covers(t, r, y, z)
  BY <1>1
<1> HIDE DEF x, y, z
<1>5. Covers(s \o t, r, x, z)
  BY <1>3, <1>4, CoversConcat
<1> QED BY <1>1, <1>5 DEF MakesStages, x, z

\* The end of a stage is the beginning of the next.
LEMMA NextStage ==
  \A g \in 0 .. 16 : g * Width + Width = (g + 1) * Width
  BY WidthType

\* The gathers, the scatters and the barriers of matmul_pair by their stages.
LEMMA PairStages ==
  ASSUME NEW r \in Ranks
  PROVE  /\ MakesStages(<<LocalStep("split", "world", "none", "none")>>, r, 5, 6)
         /\ MakesStages(GatherToRankWithinGrid(r, "grid", 0, "A1", "A1_full"), r, 6, 7)
         /\ MakesStages(GatherToRankWithinGrid(r, "grid", 0, "B1", "B1_full"), r, 7, 8)
         /\ MakesStages(GatherToRankWithinGrid(r, "grid", half, "A2", "A2_full"), r, 8, 9)
         /\ MakesStages(GatherToRankWithinGrid(r, "grid", half, "B2", "B2_full"), r, 9, 10)
         /\ MakesStages(ScatterFromRankToGrid("sub", Leader(r, "sub"), IF color(r) = 0 THEN "A1_full" ELSE "A2_full", "A_local"),
                    r, 10, 11)
         /\ MakesStages(ScatterFromRankToGrid("sub", Leader(r, "sub"), IF color(r) = 0 THEN "B1_full" ELSE "B2_full", "B_local"),
                    r, 11, 12)
         /\ MakesStages(<<LocalStep("matmul", "sub", "A_local", "B_local")>>, r, 12, 13)
         /\ MakesStages(GatherToRankWithinGrid(r, "sub", Leader(r, "sub"), "local_result", "gathered"),
                    r, 13, 14)
         /\ MakesStages(ScatterFromRankToGrid("grid", 0, "gathered", "result1"), r, 14, 15)
         /\ MakesStages(ScatterFromRankToGrid("grid", half, "gathered", "result2"), r, 15, 16)
         /\ MakesStages(GatherToRankWithinGrid(r, "grid", 0, "result2", "decrypted"), r, 16, 17)
<1>0. /\ 5 * Width + Width = 6 * Width /\ 6 * Width + Width = 7 * Width /\ 7 * Width + Width = 8 * Width
      /\ 8 * Width + Width = 9 * Width /\ 9 * Width + Width = 10 * Width /\ 10 * Width + Width = 11 * Width
      /\ 11 * Width + Width = 12 * Width /\ 12 * Width + Width = 13 * Width /\ 13 * Width + Width = 14 * Width
      /\ 14 * Width + Width = 15 * Width /\ 15 * Width + Width = 16 * Width /\ 16 * Width + Width = 17 * Width
  BY WidthType
<1>1. /\ CallAt(r, 5 * Width) = LocalStep("split", "world", "none", "none")
      /\ CallAt(r, 12 * Width) = LocalStep("matmul", "sub", "A_local", "B_local")
  <2>1. 0 \in 0 .. Width - 1 /\ 5 * Width + 0 = 5 * Width /\ 12 * Width + 0 = 12 * Width
    BY WidthType
  <2>2. /\ CallAt(r, 5 * Width + 0) = LocalStep("split", "world", "none", "none")
        /\ CallAt(r, 12 * Width + 0) = LocalStep("matmul", "sub", "A_local", "B_local")
    BY <2>1, CallBarrier
  <2> QED BY <2>1, <2>2
<1>2. MakesStages(<<LocalStep("split", "world", "none", "none")>>, r, 5, 6)
  <2>1. Covers(<<LocalStep("split", "world", "none", "none")>>, r, 5 * Width, 5 * Width + Width)
    BY <1>1, CoversBarrier DEF LocalStep, Call
  <2> QED BY <1>0, <2>1 DEF MakesStages
<1>3. MakesStages(<<LocalStep("matmul", "sub", "A_local", "B_local")>>, r, 12, 13)
  <2>1. Covers(<<LocalStep("matmul", "sub", "A_local", "B_local")>>, r, 12 * Width, 12 * Width + Width)
    BY <1>1, CoversBarrier DEF LocalStep, Call
  <2> QED BY <1>0, <2>1 DEF MakesStages
<1>4. MakesStages(GatherToRankWithinGrid(r, "grid", 0, "A1", "A1_full"), r, 6, 7)
  <2>1. "A1_full" \in Gathered /\ Stage("A1_full") = 6
    BY StageValues DEF Gathered
  <2>2. CommOf("A1_full") = "grid" /\ RootOf(r, "A1_full") = 0 /\ FromOf(r, "A1_full") = "A1"
    BY DEF CommOf, RootOf, FromOf, Operands
  <2>3. Covers(GatherToRankWithinGrid(r, "grid", 0, "A1", "A1_full"), r, 6 * Width, 6 * Width + Width)
    BY <2>1, <2>2, CoversGatherStage
  <2> QED BY <1>0, <2>3 DEF MakesStages
<1>5. MakesStages(GatherToRankWithinGrid(r, "grid", 0, "B1", "B1_full"), r, 7, 8)
  <2>1. "B1_full" \in Gathered /\ Stage("B1_full") = 7
    BY StageValues DEF Gathered
  <2>2. CommOf("B1_full") = "grid" /\ RootOf(r, "B1_full") = 0 /\ FromOf(r, "B1_full") = "B1"
    BY DEF CommOf, RootOf, FromOf, Operands
  <2>3. Covers(GatherToRankWithinGrid(r, "grid", 0, "B1", "B1_full"), r, 7 * Width, 7 * Width + Width)
    BY <2>1, <2>2, CoversGatherStage
  <2> QED BY <1>0, <2>3 DEF MakesStages
<1>6. MakesStages(GatherToRankWithinGrid(r, "grid", half, "A2", "A2_full"), r, 8, 9)
  <2>1. "A2_full" \in Gathered /\ Stage("A2_full") = 8
    BY StageValues DEF Gathered
  <2>2. CommOf("A2_full") = "grid" /\ RootOf(r, "A2_full") = half /\ FromOf(r, "A2_full") = "A2"
    BY DEF CommOf, RootOf, FromOf, Operands
  <2>3. Covers(GatherToRankWithinGrid(r, "grid", half, "A2", "A2_full"), r, 8 * Width, 8 * Width + Width)
    BY <2>1, <2>2, CoversGatherStage
  <2> QED BY <1>0, <2>3 DEF MakesStages
<1>7. MakesStages(GatherToRankWithinGrid(r, "grid", half, "B2", "B2_full"), r, 9, 10)
  <2>1. "B2_full" \in Gathered /\ Stage("B2_full") = 9
    BY StageValues DEF Gathered
  <2>2. CommOf("B2_full") = "grid" /\ RootOf(r, "B2_full") = half /\ FromOf(r, "B2_full") = "B2"
    BY DEF CommOf, RootOf, FromOf, Operands
  <2>3. Covers(GatherToRankWithinGrid(r, "grid", half, "B2", "B2_full"), r, 9 * Width, 9 * Width + Width)
    BY <2>1, <2>2, CoversGatherStage
  <2> QED BY <1>0, <2>3 DEF MakesStages
<1>8. MakesStages(GatherToRankWithinGrid(r, "sub", Leader(r, "sub"), "local_result", "gathered"), r, 13, 14)
  <2>1. "gathered" \in Gathered /\ Stage("gathered") = 13
    BY StageValues DEF Gathered
  <2>2. CommOf("gathered") = "sub" /\ RootOf(r, "gathered") = Leader(r, "sub") /\ FromOf(r, "gathered") = "local_result"
    BY DEF CommOf, RootOf, FromOf, Operands
  <2>3. Covers(GatherToRankWithinGrid(r, "sub", Leader(r, "sub"), "local_result", "gathered"), r, 13 * Width, 13 * Width + Width)
    BY <2>1, <2>2, CoversGatherStage
  <2> QED BY <1>0, <2>3 DEF MakesStages
<1>9. MakesStages(GatherToRankWithinGrid(r, "grid", 0, "result2", "decrypted"), r, 16, 17)
  <2>1. "decrypted" \in Gathered /\ Stage("decrypted") = 16
    BY StageValues DEF Gathered
  <2>2. CommOf("decrypted") = "grid" /\ RootOf(r, "decrypted") = 0 /\ FromOf(r, "decrypted") = "result2"
    BY DEF CommOf, RootOf, FromOf, Operands
  <2>3. Covers(GatherToRankWithinGrid(r, "grid", 0, "result2", "decrypted"), r, 16 * Width, 16 * Width + Width)
    BY <2>1, <2>2, CoversGatherStage
  <2> QED BY <1>0, <2>3 DEF MakesStages
<1>10. MakesStages(ScatterFromRankToGrid("sub", Leader(r, "sub"), IF color(r) = 0 THEN "A1_full" ELSE "A2_full", "A_local"), r, 10, 11)
  <2>1. "A_local" \in Scattered \ Operands /\ Stage("A_local") = 10
    BY StageValues DEF Scattered, Operands
  <2>2. CommOf("A_local") = "sub" /\ RootOf(r, "A_local") = Leader(r, "sub") /\ FromOf(r, "A_local") = (IF color(r) = 0 THEN "A1_full" ELSE "A2_full")
    BY DEF CommOf, RootOf, FromOf, Operands
  <2>3. Covers(ScatterFromRankToGrid("sub", Leader(r, "sub"), IF color(r) = 0 THEN "A1_full" ELSE "A2_full", "A_local"), r, 10 * Width, 10 * Width + Width)
    BY <2>1, <2>2, CoversScatterStage
  <2> QED BY <1>0, <2>3 DEF MakesStages
<1>11. MakesStages(ScatterFromRankToGrid("sub", Leader(r, "sub"), IF color(r) = 0 THEN "B1_full" ELSE "B2_full", "B_local"), r, 11, 12)
  <2>1. "B_local" \in Scattered \ Operands /\ Stage("B_local") = 11
    BY StageValues DEF Scattered, Operands
  <2>2. CommOf("B_local") = "sub" /\ RootOf(r, "B_local") = Leader(r, "sub") /\ FromOf(r, "B_local") = (IF color(r) = 0 THEN "B1_full" ELSE "B2_full")
    BY DEF CommOf, RootOf, FromOf, Operands
  <2>3. Covers(ScatterFromRankToGrid("sub", Leader(r, "sub"), IF color(r) = 0 THEN "B1_full" ELSE "B2_full", "B_local"), r, 11 * Width, 11 * Width + Width)
    BY <2>1, <2>2, CoversScatterStage
  <2> QED BY <1>0, <2>3 DEF MakesStages
<1>12. MakesStages(ScatterFromRankToGrid("grid", 0, "gathered", "result1"), r, 14, 15)
  <2>1. "result1" \in Scattered \ Operands /\ Stage("result1") = 14
    BY StageValues DEF Scattered, Operands
  <2>2. CommOf("result1") = "grid" /\ RootOf(r, "result1") = 0 /\ FromOf(r, "result1") = "gathered"
    BY DEF CommOf, RootOf, FromOf, Operands
  <2>3. Covers(ScatterFromRankToGrid("grid", 0, "gathered", "result1"), r, 14 * Width, 14 * Width + Width)
    BY <2>1, <2>2, CoversScatterStage
  <2> QED BY <1>0, <2>3 DEF MakesStages
<1>13. MakesStages(ScatterFromRankToGrid("grid", half, "gathered", "result2"), r, 15, 16)
  <2>1. "result2" \in Scattered \ Operands /\ Stage("result2") = 15
    BY StageValues DEF Scattered, Operands
  <2>2. CommOf("result2") = "grid" /\ RootOf(r, "result2") = half /\ FromOf(r, "result2") = "gathered"
    BY DEF CommOf, RootOf, FromOf, Operands
  <2>3. Covers(ScatterFromRankToGrid("grid", half, "gathered", "result2"), r, 15 * Width, 15 * Width + Width)
    BY <2>1, <2>2, CoversScatterStage
  <2> QED BY <1>0, <2>3 DEF MakesStages
<1> QED BY <1>2, <1>3, <1>4, <1>5, <1>6, <1>7, <1>8, <1>9, <1>10, <1>11, <1>12, <1>13

\* The operations of matmul_pair by their stages.
LEMMA CoversPair ==
  ASSUME NEW r \in Ranks
  PROVE  MakesStages(matmul_pair(r), r, 5, 16)
<1>1. MakesStages(GatherOperands(r), r, 6, 10)
  <2>1. MakesStages(GatherToRankWithinGrid(r, "grid", 0, "A1", "A1_full")
                 \o GatherToRankWithinGrid(r, "grid", 0, "B1", "B1_full"), r, 6, 8)
    BY PairStages, CoversStages, Zenon
  <2>2. MakesStages(GatherToRankWithinGrid(r, "grid", 0, "A1", "A1_full")
                 \o GatherToRankWithinGrid(r, "grid", 0, "B1", "B1_full")
                 \o GatherToRankWithinGrid(r, "grid", half, "A2", "A2_full"), r, 6, 9)
    BY <2>1, PairStages, CoversStages, Zenon
  <2>3. MakesStages(GatherToRankWithinGrid(r, "grid", 0, "A1", "A1_full")
                 \o GatherToRankWithinGrid(r, "grid", 0, "B1", "B1_full")
                 \o GatherToRankWithinGrid(r, "grid", half, "A2", "A2_full")
                 \o GatherToRankWithinGrid(r, "grid", half, "B2", "B2_full"), r, 6, 10)
    BY <2>2, PairStages, CoversStages, Zenon
  <2> QED BY <2>3 DEF GatherOperands
<1>2. MakesStages(ScatterOperands(r), r, 10, 12)
  <2> DEFINE a == ScatterFromRankToGrid("sub", Leader(r, "sub"), IF color(r) = 0 THEN "A1_full" ELSE "A2_full", "A_local")
             b == ScatterFromRankToGrid("sub", Leader(r, "sub"), IF color(r) = 0 THEN "B1_full" ELSE "B2_full", "B_local")
  <2>1. MakesStages(a, r, 10, 11) /\ MakesStages(b, r, 11, 12)
    BY PairStages
  <2>2. ScatterOperands(r) = a \o b
    <3>1. CASE color(r) = 0
      <4>1. Leader(r, "sub") = 0
        BY <3>1, SplitAssumption DEF Leader, half
      <4> QED BY <3>1, <4>1 DEF ScatterOperands
    <3>2. CASE color(r) # 0
      <4>1. Leader(r, "sub") = half
        BY <3>2, SplitAssumption DEF Leader, half, color
      <4> QED BY <3>2, <4>1 DEF ScatterOperands
    <3> QED BY <3>1, <3>2
  <2> HIDE DEF a, b
  <2>3. MakesStages(a \o b, r, 10, 12)
    BY <2>1, CoversStages, Zenon
  <2> QED BY <2>2, <2>3
<1>3. MakesStages(ScatterResults(r), r, 14, 16)
  <2>1. MakesStages(ScatterFromRankToGrid("grid", 0, "gathered", "result1")
                 \o ScatterFromRankToGrid("grid", half, "gathered", "result2"), r, 14, 16)
    BY PairStages, CoversStages, Zenon
  <2> QED BY <2>1 DEF ScatterResults
<1> DEFINE split == <<LocalStep("split", "world", "none", "none")>>
           product == <<LocalStep("matmul", "sub", "A_local", "B_local")>>
           gather == GatherToRankWithinGrid(r, "sub", Leader(r, "sub"), "local_result", "gathered")
<1>4. /\ MakesStages(split, r, 5, 6) /\ MakesStages(product, r, 12, 13)
      /\ MakesStages(gather, r, 13, 14)
  BY PairStages
<1>5. matmul_pair(r) = split \o GatherOperands(r) \o ScatterOperands(r) \o product \o gather \o ScatterResults(r)
  BY Zenon DEF matmul_pair
<1> HIDE DEF split, product, gather
<1>6. MakesStages(split \o GatherOperands(r), r, 5, 10)
  BY <1>1, <1>4, CoversStages, Zenon
<1>7. MakesStages(split \o GatherOperands(r) \o ScatterOperands(r), r, 5, 12)
  BY <1>2, <1>6, CoversStages, Zenon
<1>8. MakesStages(split \o GatherOperands(r) \o ScatterOperands(r) \o product, r, 5, 13)
  BY <1>4, <1>7, CoversStages, Zenon
<1>9. MakesStages(split \o GatherOperands(r) \o ScatterOperands(r) \o product \o gather, r, 5, 14)
  BY <1>4, <1>8, CoversStages, Zenon
<1>10. MakesStages(split \o GatherOperands(r) \o ScatterOperands(r) \o product \o gather \o ScatterResults(r),
               r, 5, 16)
  BY <1>3, <1>9, CoversStages, Zenon
<1> QED BY <1>5, <1>10

\* The script of a rank lists its calls.
LEMMA CoversScript ==
  ASSUME NEW r \in Ranks
  PROVE  Covers(Script[r], r, 0, End)
<1>1. MakesStages(Construct(r), r, 0, 1)
  <2>1. 0 * Width = 0 /\ 1 * Width = Width
    BY WidthType
  <2> QED BY <2>1, CoversConstruct DEF MakesStages
<1>2. /\ MakesStages(EncryptFromRoot(r, "A1"), r, 1, 2)
      /\ MakesStages(EncryptFromRoot(r, "B1"), r, 2, 3)
      /\ MakesStages(EncryptFromRoot(r, "A2"), r, 3, 4)
      /\ MakesStages(EncryptFromRoot(r, "B2"), r, 4, 5)
  <2>1. "A1" \in Operands /\ "B1" \in Operands /\ "A2" \in Operands /\ "B2" \in Operands
    BY DEF Operands
  <2>2. /\ 1 * Width + Width = 2 * Width /\ 2 * Width + Width = 3 * Width
        /\ 3 * Width + Width = 4 * Width /\ 4 * Width + Width = 5 * Width
    BY WidthType
  <2>3. /\ Covers(EncryptFromRoot(r, "A1"), r, 1 * Width, 1 * Width + Width)
        /\ Covers(EncryptFromRoot(r, "B1"), r, 2 * Width, 2 * Width + Width)
        /\ Covers(EncryptFromRoot(r, "A2"), r, 3 * Width, 3 * Width + Width)
        /\ Covers(EncryptFromRoot(r, "B2"), r, 4 * Width, 4 * Width + Width)
    BY <2>1, StageValues, CoversEncrypt
  <2> QED BY <2>2, <2>3 DEF MakesStages
<1>3. MakesStages(matmul_pair(r), r, 5, 16)
  BY CoversPair
<1>4. MakesStages(DecryptOnRoot(r), r, 16, 17)
  BY PairStages DEF DecryptOnRoot
<1>5. MakesStages(Construct(r) \o EncryptFromRoot(r, "A1"), r, 0, 2)
  BY <1>1, <1>2, CoversStages, Zenon
<1>6. MakesStages(Construct(r) \o EncryptFromRoot(r, "A1") \o EncryptFromRoot(r, "B1"), r, 0, 3)
  BY <1>5, <1>2, CoversStages, Zenon
<1>7. MakesStages(Construct(r) \o EncryptFromRoot(r, "A1") \o EncryptFromRoot(r, "B1")
               \o EncryptFromRoot(r, "A2"), r, 0, 4)
  BY <1>6, <1>2, CoversStages, Zenon
<1>8. MakesStages(Construct(r) \o EncryptFromRoot(r, "A1") \o EncryptFromRoot(r, "B1")
               \o EncryptFromRoot(r, "A2") \o EncryptFromRoot(r, "B2"), r, 0, 5)
  BY <1>7, <1>2, CoversStages, Zenon
<1>9. MakesStages(Construct(r) \o EncryptFromRoot(r, "A1") \o EncryptFromRoot(r, "B1")
               \o EncryptFromRoot(r, "A2") \o EncryptFromRoot(r, "B2") \o matmul_pair(r), r, 0, 16)
  BY <1>8, <1>3, CoversStages, Zenon
<1>10. MakesStages(Construct(r) \o EncryptFromRoot(r, "A1") \o EncryptFromRoot(r, "B1")
                \o EncryptFromRoot(r, "A2") \o EncryptFromRoot(r, "B2") \o matmul_pair(r) \o DecryptOnRoot(r),
               r, 0, 17)
  BY <1>9, <1>4, CoversStages, Zenon
<1>11. 0 * Width = 0 /\ 17 * Width = End
  BY WidthType
<1> QED BY <1>10, <1>11 DEF Script, MakesStages

\* KeyAt gives the keys of the calls of a script, in order.
LEMMA Keyed ==
  ASSUME NEW r \in Ranks
  PROVE  /\ Len(Script[r]) \in Nat
         /\ \A i \in 1 .. Len(Script[r]) : /\ KeyAt[r][i] \in Keys
                                           /\ Script[r][i] = CallAt(r, KeyAt[r][i])
                                           /\ Script[r][i].kind # "none"
         /\ DOMAIN Script[r] = 1 .. Len(Script[r])
         /\ \A i, j \in 1 .. Len(Script[r]) : KeyAt[r][i] < KeyAt[r][j] <=> i < j
         /\ \A k \in CallKeys(r) : \E i \in 1 .. Len(Script[r]) : KeyAt[r][i] = k
<1> DEFINE f == [k \in CallKeys(r) |-> CallAt(r, k)]
<1>1. f = Calls(r, 0, End)
  <2>1. 0 .. End - 1 = Keys
    BY DEF Keys
  <2> QED BY <2>1 DEF Calls, CallKeys
<1>2. DOMAIN f \subseteq Keys /\ DOMAIN f \subseteq Int /\ DOMAIN f = CallKeys(r)
      /\ \A k \in CallKeys(r) : f[k] = CallAt(r, k) /\ f[k].kind # "none" /\ k \in Keys
  BY DEF CallKeys, Keys
<1>3. Listing(Script[r], f)
  BY <1>1, CoversScript DEF Covers
<1> HIDE DEF f
<1>4. PICK n, d : Lists(Script[r], f, n, d)
  BY <1>3, Zenon DEF Listing
<1>5. n = Len(Script[r])
  BY <1>2, <1>4, ListsFacts
<1>6. KeyAt[r] = CHOOSE e : Lists(Script[r], f, Len(Script[r]), e)
  BY DEF KeyAt, f
<1>7. Lists(Script[r], f, Len(Script[r]), KeyAt[r])
  BY <1>4, <1>5, <1>6, Zenon
<1> DEFINE e == KeyAt[r]
           m == Len(Script[r])
           S == Script[r]
<1> HIDE DEF e, m, S
<1>8. Lists(S, f, m, e)
  BY <1>7 DEF e, m, S
<1>9. /\ m \in Nat /\ S \in Seq(Vals(f)) /\ Len(S) = m
      /\ \A i \in 1 .. m : e[i] \in DOMAIN f /\ S[i] = f[e[i]]
      /\ \A i, j \in 1 .. m : e[i] < e[j] <=> i < j
  BY <1>2, <1>8, ListsFacts
<1>10. \A k \in CallKeys(r) : \E i \in 1 .. m : e[i] = k
  BY <1>2, <1>8 DEF Lists
<1>11. DOMAIN S = 1 .. m
  BY <1>9, LenProperties
<1>12. \A i \in 1 .. m : e[i] \in Keys /\ S[i] = CallAt(r, e[i]) /\ S[i].kind # "none"
  BY <1>2, <1>9
<1> QED BY <1>9, <1>10, <1>11, <1>12 DEF e, m, S

------------------------------------------------------------------------------
(* The calls, by their keys.                                               *)

\* The ranks and the two communicators of the whole world.
LEMMA WorldMembers ==
  /\ 0 \in Ranks /\ half \in Ranks /\ half # 0 /\ Ranks = 0 .. P - 1
  /\ \A r \in Ranks, comm \in {"world", "grid"} : Members(r, comm) = Ranks
  BY SplitAssumption DEF Ranks, half, Members

\* A stage lies before the last key, with room for its calls.
LEMMA StageFits ==
  ASSUME NEW g \in 1 .. 16
  PROVE  g * Width \in Nat /\ g * Width >= Width /\ g * Width + Width <= End
<1>1. PICK w \in Nat : w = Width
  BY WidthType
<1>2. End = 17 * w
  BY <1>1, WidthType
<1>3. g - 1 \in Nat /\ 16 - g \in Nat /\ g \in Nat
  OBVIOUS
<1>4. g * w \in Nat /\ (g - 1) * w \in Nat /\ (16 - g) * w \in Nat
  BY <1>3
<1>5. g * w = (g - 1) * w + w /\ 17 * w = (g * w + w) + (16 - g) * w
  BY <1>3
<1>6. g * w >= w /\ g * w + w <= 17 * w
  BY <1>4, <1>5
<1> QED BY <1>1, <1>2, <1>4, <1>6

\* The first key of an operation.
LEMMA Begins ==
  /\ \A name \in Operands : Begin(name) = Stage(name) * Width + 1
  /\ \A name \in (Scattered \cup Gathered) \ Operands : Begin(name) = Stage(name) * Width
  /\ \A name \in Scattered \cup Gathered : Begin(name) \in Nat /\ Begin(name) >= Width
                                           /\ Begin(name) + Width <= End + 1
<1>1. ASSUME NEW name \in Operands
      PROVE  /\ Begin(name) = Stage(name) * Width + 1 /\ Stage(name) \in 1 .. 4
             /\ Begin(name) \in Nat /\ Begin(name) >= Width /\ Begin(name) + Width <= End + 1
  <2>1. Stage(name) \in 1 .. 4
    BY StagesDiffer
  <2>2. Begin(name) = Stage(name) * Width + 1
    BY DEF Begin
  <2>3. Stage(name) \in 1 .. 16
    BY <2>1
  <2>4. PICK b : b = Stage(name) * Width
    OBVIOUS
  <2>5. b \in Nat /\ b >= Width /\ b + Width <= End
    BY <2>3, <2>4, StageFits
  <2>6. Begin(name) = b + 1
    BY <2>2, <2>4
  <2>7. Width \in Nat /\ End \in Nat
    BY WidthType
  <2>8. b + 1 \in Nat /\ b + 1 >= Width /\ (b + 1) + Width <= End + 1
    BY <2>5, <2>7
  <2> QED BY <2>1, <2>2, <2>6, <2>8
<1>2. ASSUME NEW name \in (Scattered \cup Gathered) \ Operands
      PROVE  /\ Begin(name) = Stage(name) * Width /\ Stage(name) \in 1 .. 16
             /\ Begin(name) \in Nat /\ Begin(name) >= Width /\ Begin(name) + Width <= End + 1
  <2>1. Stage(name) \in 1 .. 16
    BY StagesDiffer
  <2>2. Begin(name) = Stage(name) * Width
    <3>1. Begin(name) = Stage(name) * Width + 0
      BY DEF Begin
    <3> QED BY <3>1, <2>1, WidthType
  <2>3. PICK b : b = Stage(name) * Width
    OBVIOUS
  <2>4. b \in Nat /\ b >= Width /\ b + Width <= End
    BY <2>1, <2>3, StageFits
  <2>5. Begin(name) = b
    BY <2>2, <2>3
  <2>6. Width \in Nat /\ End \in Nat
    BY WidthType
  <2>7. b + Width <= End + 1
    BY <2>4, <2>6
  <2> QED BY <2>1, <2>2, <2>4, <2>5, <2>7
<1> QED BY <1>1, <1>2

\* The calls of a scatter.
LEMMA ScatterKeys ==
  ASSUME NEW r, NEW name \in Scattered
  PROVE  /\ CallAt(r, Begin(name)) = Call("full", CommOf(name), RootOf(r, name), 0, FromOf(r, name), "rows", name)
         /\ CallAt(r, Begin(name) + 1) = Call("bcast", CommOf(name), RootOf(r, name), 0, "size", "rows", name)
         /\ CallAt(r, Begin(name) + 2) = Call("bcast", CommOf(name), RootOf(r, name), 1, "payload", "rows", name)
         /\ CallAt(r, Begin(name) + 3) = Call("bcast", CommOf(name), RootOf(r, name), 0, "size", "cols", name)
         /\ CallAt(r, Begin(name) + 4) = Call("bcast", CommOf(name), RootOf(r, name), 1, "payload", "cols", name)
         /\ CallAt(r, Begin(name) + 5) = LocalStep("slice", CommOf(name), name, name)
<1> DEFINE s == ScatterFromRankToGrid(CommOf(name), RootOf(r, name), FromOf(r, name), name)
<1>1. ASSUME NEW o \in 0 .. 5 PROVE CallAt(r, Begin(name) + o) = s[o + 1]
  <2>1. CASE name \in Operands
    <3>1. /\ Begin(name) + o = Stage(name) * Width + (o + 1)
          /\ o + 1 \in 0 .. Width - 1 /\ o + 1 # 0 /\ (o + 1) - 1 = o
      BY <2>1, Begins, StagesDiffer, WidthType
    <3>2. CallAt(r, Stage(name) * Width + (o + 1)) = EncryptAt(r, name, o + 1)
      BY <2>1, <3>1, CallEncrypt
    <3> QED BY <3>1, <3>2 DEF EncryptAt, ScatterAt
  <2>2. CASE name \notin Operands
    <3>1. Begin(name) + o = Stage(name) * Width + o /\ o \in 0 .. Width - 1
      BY <2>2, Begins, WidthType
    <3>2. CallAt(r, Stage(name) * Width + o) = ScatterAt(r, name, o)
      BY <2>2, <3>1, CallScatter
    <3> QED BY <3>1, <3>2 DEF ScatterAt
  <2> QED BY <2>1, <2>2
<1>2. IsScatter(s, CommOf(name), RootOf(r, name), FromOf(r, name), name)
  BY ScatterCalls
<1> HIDE DEF s
<1>3. /\ CallAt(r, Begin(name) + 0) = s[1] /\ CallAt(r, Begin(name) + 1) = s[2]
      /\ CallAt(r, Begin(name) + 2) = s[3] /\ CallAt(r, Begin(name) + 3) = s[4]
      /\ CallAt(r, Begin(name) + 4) = s[5] /\ CallAt(r, Begin(name) + 5) = s[6]
  BY <1>1
<1>4. Begin(name) + 0 = Begin(name)
  BY Begins
<1> QED BY <1>2, <1>3, <1>4, Zenon DEF IsScatter

\* The tags of the four messages that a matrix is sent as.
Tag(part)  == 300 + (IF part = 1 THEN 0 ELSE IF part = 4 THEN 2 ELSE 1)
Half(part) == IF part \in {1, 3} THEN "size" ELSE "payload"
Axis(part) == IF part \in {1, 2} THEN "rows" ELSE "cols"

\* The four messages of a matrix, by their number.
LEMMA MatrixParts ==
  ASSUME NEW comm, NEW peer, NEW m, NEW part \in 1 .. 4
  PROVE  /\ RecvMatrix(comm, peer, m)[part] = Call("recv", comm, peer, Tag(part), Half(part), Axis(part), m)
         /\ SendMatrix(comm, peer, m)[part] = Call("send", comm, peer, Tag(part), Half(part), Axis(part), m)
<1>1. /\ IsMatrix(RecvMatrix(comm, peer, m), "recv", comm, peer, m)
      /\ IsMatrix(SendMatrix(comm, peer, m), "send", comm, peer, m)
  BY MatrixCalls
<1>2. ASSUME NEW s, NEW kind, IsMatrix(s, kind, comm, peer, m)
      PROVE  s[part] = Call(kind, comm, peer, Tag(part), Half(part), Axis(part), m)
  <2>1. part = 1 \/ part = 2 \/ part = 3 \/ part = 4
    OBVIOUS
  <2>2. CASE part = 1
    <3>1. Tag(part) = 300 /\ Half(part) = "size" /\ Axis(part) = "rows"
      BY <2>2 DEF Tag, Half, Axis
    <3> QED BY <1>2, <2>2, <3>1 DEF IsMatrix
  <2>3. CASE part = 2
    <3>1. Tag(part) = 301 /\ Half(part) = "payload" /\ Axis(part) = "rows"
      BY <2>3 DEF Tag, Half, Axis
    <3> QED BY <1>2, <2>3, <3>1 DEF IsMatrix
  <2>4. CASE part = 3
    <3>1. Tag(part) = 301 /\ Half(part) = "size" /\ Axis(part) = "cols"
      BY <2>4 DEF Tag, Half, Axis
    <3> QED BY <1>2, <2>4, <3>1 DEF IsMatrix
  <2>5. CASE part = 4
    <3>1. Tag(part) = 302 /\ Half(part) = "payload" /\ Axis(part) = "cols"
      BY <2>5 DEF Tag, Half, Axis
    <3> QED BY <1>2, <2>5, <3>1 DEF IsMatrix
  <2> QED BY <2>1, <2>2, <2>3, <2>4, <2>5
<1> QED BY <1>1, <1>2, Zenon

\* The calls of a gather.
LEMMA GatherKeys ==
  ASSUME NEW r \in Ranks, NEW name \in Gathered
  PROVE  /\ CallAt(r, Begin(name)) = IF r = RootOf(r, name)
                                     THEN LocalStep("own", CommOf(name), FromOf(r, name), name) ELSE NoCall
         /\ \A src \in 0 .. P + 2, part \in 1 .. 4 :
              CallAt(r, Begin(name) + 4 * src + part)
                = IF r = RootOf(r, name)
                  THEN IF src \in Members(r, CommOf(name)) \ {r}
                       THEN Call("recv", CommOf(name), src, Tag(part), Half(part), Axis(part), name) ELSE NoCall
                  ELSE IF src = r
                  THEN Call("send", CommOf(name), RootOf(r, name), Tag(part), Half(part), Axis(part), FromOf(r, name))
                  ELSE NoCall
<1>0. name \notin Operands
  BY DEF Gathered, Operands
<1> DEFINE b == Begin(name)
<1>1. \A o \in 0 .. Width - 1 : CallAt(r, b + o) = GatherAt(r, name, o)
  <2>1. b = Stage(name) * Width
    BY <1>0, Begins
  <2> QED BY <2>1, CallGather
<1>2. b \in Nat
  BY Begins
<1> HIDE DEF b
<1>3. CallAt(r, b) = IF r = RootOf(r, name) THEN LocalStep("own", CommOf(name), FromOf(r, name), name) ELSE NoCall
  <2>1. 0 \in 0 .. Width - 1 /\ b + 0 = b
    BY <1>2, WidthType
  <2>2. CallAt(r, b + 0) = GatherAt(r, name, 0)
    BY <1>1, <2>1
  <2> QED BY <2>1, <2>2 DEF GatherAt
<1>4. ASSUME NEW src \in 0 .. P + 2, NEW part \in 1 .. 4
      PROVE  CallAt(r, b + 4 * src + part)
               = IF r = RootOf(r, name)
                 THEN IF src \in Members(r, CommOf(name)) \ {r}
                      THEN Call("recv", CommOf(name), src, Tag(part), Half(part), Axis(part), name) ELSE NoCall
                 ELSE IF src = r
                 THEN Call("send", CommOf(name), RootOf(r, name), Tag(part), Half(part), Axis(part), FromOf(r, name))
                 ELSE NoCall
  <2>1. 4 * src + part \in 0 .. Width - 1 /\ b + 4 * src + part = b + (4 * src + part) /\ src \in Nat
    BY <1>2, WidthType
  <2>2. CallAt(r, b + (4 * src + part)) = GatherAt(r, name, 4 * src + part)
    BY <1>1, <2>1
  <2>3. GatherAt(r, name, 4 * src + part)
           = IF r = RootOf(r, name)
             THEN IF src \in Members(r, CommOf(name)) \ {r}
                  THEN RecvMatrix(CommOf(name), src, name)[part] ELSE NoCall
             ELSE IF src = r THEN SendMatrix(CommOf(name), RootOf(r, name), FromOf(r, name))[part]
             ELSE NoCall
    <3>1. GathersWith(r, name, src, part)
      BY <2>1, GatherCalls
    <3> QED BY <3>1 DEF GathersWith
  <2>4. /\ RecvMatrix(CommOf(name), src, name)[part]
             = Call("recv", CommOf(name), src, Tag(part), Half(part), Axis(part), name)
        /\ SendMatrix(CommOf(name), RootOf(r, name), FromOf(r, name))[part]
             = Call("send", CommOf(name), RootOf(r, name), Tag(part), Half(part), Axis(part), FromOf(r, name))
    BY MatrixParts
  <2> QED BY <2>1, <2>2, <2>3, <2>4, Zenon
<1> QED BY <1>3, <1>4 DEF b

\* What call c of rank r at key k is.
Splits(c, k) == \/ k = 0 /\ c = LocalStep("split", "world", "none", "none")
                \/ k = 5 * Width /\ c = LocalStep("split", "world", "none", "none")
Multiplies(c, k) == k = 12 * Width /\ c = LocalStep("matmul", "sub", "A_local", "B_local")
Serializes(c, r, k, p) == k = p /\ r = kRootRank /\ c = LocalStep("serialize", "world", Bundle[p], Bundle[p])
BundleSize(c, k, p) == k = 2 * p + 3 /\ c = Call("bcast", "world", kRootRank, 0, "size", "rows", Bundle[p])
BundlePayload(c, k, p) == k = 2 * p + 4 /\ c = Call("bcast", "world", kRootRank, 1, "payload", "rows", Bundle[p])
Encrypts(c, r, k, name) ==
  k = Stage(name) * Width /\ r = kRootRank /\ c = LocalStep("encrypt", "grid", name, "encrypted")
Fills(c, r, k, name) ==
  k = Begin(name) /\ c = Call("full", CommOf(name), RootOf(r, name), 0, FromOf(r, name), "rows", name)
RowsSize(c, r, k, name) ==
  k = Begin(name) + 1 /\ c = Call("bcast", CommOf(name), RootOf(r, name), 0, "size", "rows", name)
RowsPayload(c, r, k, name) ==
  k = Begin(name) + 2 /\ c = Call("bcast", CommOf(name), RootOf(r, name), 1, "payload", "rows", name)
ColsSize(c, r, k, name) ==
  k = Begin(name) + 3 /\ c = Call("bcast", CommOf(name), RootOf(r, name), 0, "size", "cols", name)
ColsPayload(c, r, k, name) ==
  k = Begin(name) + 4 /\ c = Call("bcast", CommOf(name), RootOf(r, name), 1, "payload", "cols", name)
Slices(c, k, name) == k = Begin(name) + 5 /\ c = LocalStep("slice", CommOf(name), name, name)
Owns(c, r, k, name) ==
  k = Begin(name) /\ r = RootOf(r, name) /\ c = LocalStep("own", CommOf(name), FromOf(r, name), name)
Receives(c, r, k, name, src, part) ==
  /\ k = Begin(name) + 4 * src + part /\ r = RootOf(r, name) /\ src \in Members(r, CommOf(name)) \ {r}
  /\ c = Call("recv", CommOf(name), src, Tag(part), Half(part), Axis(part), name)
Sends(c, r, k, name, part) ==
  /\ k = Begin(name) + 4 * r + part /\ r # RootOf(r, name)
  /\ c = Call("send", CommOf(name), RootOf(r, name), Tag(part), Half(part), Axis(part), FromOf(r, name))

InConstruct(c, r, k) == \E p \in 1 .. 4 : Serializes(c, r, k, p) \/ BundleSize(c, k, p) \/ BundlePayload(c, k, p)
InScatter(c, r, k) ==
  \E name \in Scattered : \/ Fills(c, r, k, name) \/ RowsSize(c, r, k, name) \/ RowsPayload(c, r, k, name)
                          \/ ColsSize(c, r, k, name) \/ ColsPayload(c, r, k, name) \/ Slices(c, k, name)
InGather(c, r, k) ==
  \E name \in Gathered : \/ Owns(c, r, k, name)
                         \/ \E src \in Ranks, part \in 1 .. 4 : Receives(c, r, k, name, src, part)
                         \/ \E part \in 1 .. 4 : Sends(c, r, k, name, part)

\* The stages.
LEMMA StageCases ==
  ASSUME NEW g \in 0 .. 16
  PROVE  \/ g \in {0, 5, 12} \/ \E name \in Operands : Stage(name) = g
         \/ \E name \in Scattered \ Operands : Stage(name) = g
         \/ \E name \in Gathered : Stage(name) = g
<1>1. \A name \in {"A1", "B1", "A2", "B2"} : name \in Operands
  BY DEF Operands
<1>2. \A name \in {"A_local", "B_local", "result1", "result2"} : name \in Scattered \ Operands
  BY DEF Scattered, Operands
<1>3. \A name \in {"A1_full", "B1_full", "A2_full", "B2_full", "gathered", "decrypted"} : name \in Gathered
  BY DEF Gathered
<1>4. CASE g \in {1, 2, 3, 4}
  BY <1>1, <1>4, StageValues
<1>5. CASE g \in {10, 11, 14, 15}
  BY <1>2, <1>5, StageValues
<1>6. CASE g \in {6, 7, 8, 9, 13, 16}
  BY <1>3, <1>6, StageValues
<1> QED BY <1>4, <1>5, <1>6

\* The calls of the constructor.
LEMMA ConstructCases ==
  ASSUME NEW r \in Ranks, NEW k \in 0 .. Width - 1, NEW c, c = CallAt(r, k)
  PROVE  c = NoCall \/ Splits(c, k) \/ InConstruct(c, r, k)
<1>1. CASE k = 0
  BY <1>1, ConstructCalls DEF Splits
<1>2. CASE k \in 1 .. 4
  <2>1. c = IF r = kRootRank THEN LocalStep("serialize", "world", Bundle[k], Bundle[k]) ELSE NoCall
    BY <1>2, ConstructCalls
  <2>2. c = NoCall \/ Serializes(c, r, k, k)
    BY <2>1, Zenon DEF Serializes
  <2> QED BY <1>2, <2>2 DEF InConstruct
<1>3. CASE k \in {5, 7, 9, 11}
  <2>1. \E p \in 1 .. 4 : k = 2 * p + 3
    <3>1. 5 = 2 * 1 + 3 /\ 7 = 2 * 2 + 3 /\ 9 = 2 * 3 + 3 /\ 11 = 2 * 4 + 3
      OBVIOUS
    <3>2. 1 \in 1 .. 4 /\ 2 \in 1 .. 4 /\ 3 \in 1 .. 4 /\ 4 \in 1 .. 4
      OBVIOUS
    <3> QED BY <1>3, <3>1, <3>2
  <2>2. PICK p \in 1 .. 4 : k = 2 * p + 3
    BY <2>1
  <2>3. BundleSize(c, k, p)
    BY <2>2, ConstructCalls DEF BundleSize
  <2> QED BY <2>3 DEF InConstruct
<1>4. CASE k \in {6, 8, 10, 12}
  <2>1. \E p \in 1 .. 4 : k = 2 * p + 4
    <3>1. 6 = 2 * 1 + 4 /\ 8 = 2 * 2 + 4 /\ 10 = 2 * 3 + 4 /\ 12 = 2 * 4 + 4
      OBVIOUS
    <3>2. 1 \in 1 .. 4 /\ 2 \in 1 .. 4 /\ 3 \in 1 .. 4 /\ 4 \in 1 .. 4
      OBVIOUS
    <3> QED BY <1>4, <3>1, <3>2
  <2>2. PICK p \in 1 .. 4 : k = 2 * p + 4
    BY <2>1
  <2>3. BundlePayload(c, k, p)
    BY <2>2, ConstructCalls DEF BundlePayload
  <2> QED BY <2>3 DEF InConstruct
<1>5. CASE k \in 13 .. Width - 1
  BY <1>5, ConstructCalls
<1>6. k = 0 \/ k \in 1 .. 4 \/ k \in {5, 7, 9, 11} \/ k \in {6, 8, 10, 12} \/ k \in 13 .. Width - 1
  BY WidthType
<1> QED BY <1>1, <1>2, <1>3, <1>4, <1>5, <1>6

\* The calls of a scatter at its keys.
LEMMA ScatterCases ==
  ASSUME NEW r \in Ranks, NEW name \in Scattered, NEW o \in 0 .. 5, NEW k, k = Begin(name) + o,
         NEW c, c = CallAt(r, k)
  PROVE  InScatter(c, r, k)
<1>1. k = Begin(name) \/ k = Begin(name) + 1 \/ k = Begin(name) + 2 \/ k = Begin(name) + 3
      \/ k = Begin(name) + 4 \/ k = Begin(name) + 5
  BY Begins
<1>2. CASE k = Begin(name)
  BY <1>2, ScatterKeys DEF InScatter, Fills
<1>3. CASE k = Begin(name) + 1
  BY <1>3, ScatterKeys DEF InScatter, RowsSize
<1>4. CASE k = Begin(name) + 2
  BY <1>4, ScatterKeys DEF InScatter, RowsPayload
<1>5. CASE k = Begin(name) + 3
  BY <1>5, ScatterKeys DEF InScatter, ColsSize
<1>6. CASE k = Begin(name) + 4
  BY <1>6, ScatterKeys DEF InScatter, ColsPayload
<1>7. CASE k = Begin(name) + 5
  BY <1>7, ScatterKeys DEF InScatter, Slices
<1> QED BY <1>1, <1>2, <1>3, <1>4, <1>5, <1>6, <1>7

\* The calls of a gather.
LEMMA GatherCases ==
  ASSUME NEW r \in Ranks, NEW name \in Gathered, NEW o \in 0 .. Width - 1, NEW k, k = Begin(name) + o,
         NEW c, c = CallAt(r, k)
  PROVE  c = NoCall \/ InGather(c, r, k)
<1>1. CASE o = 0
  <2>1. k = Begin(name)
    BY <1>1, Begins
  <2>2. c = IF r = RootOf(r, name) THEN LocalStep("own", CommOf(name), FromOf(r, name), name) ELSE NoCall
    BY <2>1, GatherKeys
  <2>3. c = NoCall \/ Owns(c, r, k, name)
    BY <2>1, <2>2, Zenon DEF Owns
  <2> QED BY <2>3 DEF InGather
<1>2. CASE o # 0
  <2>1. o \in Nat
    BY WidthType
  <2>2. PICK src \in Nat, part \in 1 .. 4 : o = 4 * src + part
    BY <1>2, <2>1, GatherOffset
  <2>3. src \in 0 .. P + 2
    BY <2>2, WidthType
  <2>4. k = Begin(name) + 4 * src + part
    BY <2>2, Begins
  <2>5. c = IF r = RootOf(r, name)
            THEN IF src \in Members(r, CommOf(name)) \ {r}
                 THEN Call("recv", CommOf(name), src, Tag(part), Half(part), Axis(part), name) ELSE NoCall
            ELSE IF src = r
            THEN Call("send", CommOf(name), RootOf(r, name), Tag(part), Half(part), Axis(part), FromOf(r, name))
            ELSE NoCall
    BY <2>3, <2>4, GatherKeys
  <2>6. CASE r = RootOf(r, name) /\ src \in Members(r, CommOf(name)) \ {r}
    <3>1. src \in Ranks
      BY <2>6, MembersAre
    <3>2. Receives(c, r, k, name, src, part)
      BY <2>4, <2>5, <2>6 DEF Receives
    <3> QED BY <3>1, <3>2 DEF InGather
  <2>7. CASE r # RootOf(r, name) /\ src = r
    <3>1. Sends(c, r, k, name, part)
      BY <2>4, <2>5, <2>7 DEF Sends
    <3> QED BY <3>1 DEF InGather
  <2> QED BY <2>5, <2>6, <2>7
<1> QED BY <1>1, <1>2

\* Every call.
LEMMA CallCases ==
  ASSUME NEW r \in Ranks, NEW k \in Keys, NEW c, c = CallAt(r, k)
  PROVE  \/ c = NoCall \/ Splits(c, k) \/ Multiplies(c, k) \/ InConstruct(c, r, k)
         \/ \E name \in Operands : Encrypts(c, r, k, name)
         \/ InScatter(c, r, k) \/ InGather(c, r, k)
<1>1. PICK g \in 0 .. 16 : \E o \in 0 .. Width - 1 : k = g * Width + o
  BY KeySplit
<1>2. PICK o \in 0 .. Width - 1 : k = g * Width + o
  BY <1>1
<1>3. CASE g = 0
  <2>1. k \in 0 .. Width - 1
    BY <1>2, <1>3, WidthType
  <2> QED BY <2>1, ConstructCases
<1>4. CASE g = 5
  <2>1. c = IF o = 0 THEN LocalStep("split", "world", "none", "none") ELSE NoCall
    BY <1>2, <1>4, CallBarrier
  <2>2. o = 0 => k = 5 * Width
    BY <1>2, <1>4, WidthType
  <2> QED BY <2>1, <2>2 DEF Splits
<1>5. CASE g = 12
  <2>1. c = IF o = 0 THEN LocalStep("matmul", "sub", "A_local", "B_local") ELSE NoCall
    BY <1>2, <1>5, CallBarrier
  <2>2. o = 0 => k = 12 * Width
    BY <1>2, <1>5, WidthType
  <2> QED BY <2>1, <2>2 DEF Multiplies
<1>6. ASSUME NEW name \in Operands, Stage(name) = g
      PROVE  c = NoCall \/ Encrypts(c, r, k, name) \/ InScatter(c, r, k)
  <2>1. c = EncryptAt(r, name, o)
    BY <1>2, <1>6, CallEncrypt
  <2>2. CASE o = 0
    <3>1. k = Stage(name) * Width
      BY <1>2, <1>6, <2>2, WidthType
    <3>2. c = IF r = kRootRank THEN LocalStep("encrypt", "grid", name, "encrypted") ELSE NoCall
      BY <2>1, <2>2 DEF EncryptAt
    <3> QED BY <3>1, <3>2, Zenon DEF Encrypts
  <2>3. CASE o \in 1 .. 6
    <3>1. o - 1 \in 0 .. 5 /\ k = Begin(name) + (o - 1) /\ name \in Scattered
      <4>1. Begin(name) = Stage(name) * Width + 1 /\ name \in Scattered
        BY Begins DEF Scattered
      <4> QED BY <1>2, <1>6, <2>3, <4>1, WidthType
    <3> QED BY <3>1, ScatterCases
  <2>4. CASE o \notin 0 .. 6
    <3>1. o # 0 /\ o - 1 \notin 0 .. 5
      BY <2>4, WidthType
    <3>2. c = ScatterAt(r, name, o - 1)
      BY <2>1, <3>1 DEF EncryptAt
    <3> QED BY <3>1, <3>2 DEF ScatterAt
  <2>5. o = 0 \/ o \in 1 .. 6 \/ o \notin 0 .. 6
    OBVIOUS
  <2> QED BY <2>2, <2>3, <2>4, <2>5
<1>7. ASSUME NEW name \in Scattered \ Operands, Stage(name) = g
      PROVE  c = NoCall \/ InScatter(c, r, k)
  <2>1. c = ScatterAt(r, name, o)
    BY <1>2, <1>7, CallScatter
  <2>2. CASE o \in 0 .. 5
    <3>1. k = Begin(name) + o
      BY <1>2, <1>7, Begins
    <3> QED BY <2>2, <3>1, ScatterCases
  <2>3. CASE o \notin 0 .. 5
    BY <2>1, <2>3 DEF ScatterAt
  <2> QED BY <2>2, <2>3
<1>8. ASSUME NEW name \in Gathered, Stage(name) = g
      PROVE  c = NoCall \/ InGather(c, r, k)
  <2>1. name \notin Operands
    BY DEF Gathered, Operands
  <2>2. k = Begin(name) + o
    BY <1>2, <1>8, <2>1, Begins
  <2> QED BY <2>2, GatherCases
<1> QED BY <1>3, <1>4, <1>5, <1>6, <1>7, <1>8, StageCases, Zenon

\* By the kind of a call.
LEMMA CallsByKind ==
  ASSUME NEW r \in Ranks, NEW k \in Keys, NEW c, c = CallAt(r, k)
  PROVE  /\ c.kind = "none" => c = NoCall
         /\ c.kind = "split" => Splits(c, k)
         /\ c.kind = "matmul" => Multiplies(c, k)
         /\ c.kind = "serialize" => \E p \in 1 .. 4 : Serializes(c, r, k, p)
         /\ c.kind = "encrypt" => \E name \in Operands : Encrypts(c, r, k, name)
         /\ c.kind = "full" => \E name \in Scattered : Fills(c, r, k, name)
         /\ c.kind = "slice" => \E name \in Scattered : Slices(c, k, name)
         /\ c.kind = "own" => \E name \in Gathered : Owns(c, r, k, name)
         /\ c.kind = "recv" => \E name \in Gathered, src \in Ranks, part \in 1 .. 4 : Receives(c, r, k, name, src, part)
         /\ c.kind = "send" => \E name \in Gathered, part \in 1 .. 4 : Sends(c, r, k, name, part)
         /\ c.kind = "bcast" => \/ \E p \in 1 .. 4 : BundleSize(c, k, p) \/ BundlePayload(c, k, p)
                                \/ \E name \in Scattered : \/ RowsSize(c, r, k, name) \/ RowsPayload(c, r, k, name)
                                                           \/ ColsSize(c, r, k, name) \/ ColsPayload(c, r, k, name)
         /\ c.kind \in {"none", "split", "matmul", "serialize", "encrypt", "full", "slice", "own", "recv", "send", "bcast"}
<1>1. CASE c = NoCall
  <2>1. c.kind = "none"
    BY <1>1 DEF NoCall, Call
  <2> QED BY <1>1, <2>1
<1>2. CASE Splits(c, k)
  <2>1. c.kind = "split"
    BY <1>2 DEF Splits, LocalStep, Call
  <2> QED BY <1>2, <2>1
<1>3. CASE Multiplies(c, k)
  <2>1. c.kind = "matmul"
    BY <1>3 DEF Multiplies, LocalStep, Call
  <2> QED BY <1>3, <2>1
<1>4. ASSUME NEW p \in 1 .. 4, Serializes(c, r, k, p)
      PROVE c.kind = "serialize" /\ \E q \in 1 .. 4 : Serializes(c, r, k, q)
  BY <1>4 DEF Serializes, LocalStep, Call
<1>5. ASSUME NEW p \in 1 .. 4, BundleSize(c, k, p) \/ BundlePayload(c, k, p)
      PROVE c.kind = "bcast"
  BY <1>5 DEF BundleSize, BundlePayload, Call
<1>6. ASSUME NEW name \in Operands, Encrypts(c, r, k, name) PROVE c.kind = "encrypt"
  BY <1>6 DEF Encrypts, LocalStep, Call
<1>7. ASSUME NEW name \in Scattered, Fills(c, r, k, name) PROVE c.kind = "full"
  BY <1>7 DEF Fills, Call
<1>8. ASSUME NEW name \in Scattered, \/ RowsSize(c, r, k, name) \/ RowsPayload(c, r, k, name)
                                     \/ ColsSize(c, r, k, name) \/ ColsPayload(c, r, k, name)
      PROVE c.kind = "bcast"
  BY <1>8 DEF RowsSize, RowsPayload, ColsSize, ColsPayload, Call
<1>9. ASSUME NEW name \in Scattered, Slices(c, k, name) PROVE c.kind = "slice"
  BY <1>9 DEF Slices, LocalStep, Call
<1>10. ASSUME NEW name \in Gathered, Owns(c, r, k, name) PROVE c.kind = "own"
  BY <1>10 DEF Owns, LocalStep, Call
<1>11. ASSUME NEW name \in Gathered, NEW src \in Ranks, NEW part \in 1 .. 4, Receives(c, r, k, name, src, part)
       PROVE c.kind = "recv"
  BY <1>11 DEF Receives, Call
<1>12. ASSUME NEW name \in Gathered, NEW part \in 1 .. 4, Sends(c, r, k, name, part) PROVE c.kind = "send"
  BY <1>12 DEF Sends, Call
<1>13. CASE InConstruct(c, r, k)
  <2>1. PICK p \in 1 .. 4 : Serializes(c, r, k, p) \/ BundleSize(c, k, p) \/ BundlePayload(c, k, p)
    BY <1>13 DEF InConstruct
  <2> QED BY <2>1, <1>4, <1>5
<1>14. CASE \E name \in Operands : Encrypts(c, r, k, name)
  BY <1>14, <1>6
<1>15. CASE InScatter(c, r, k)
  <2>1. PICK name \in Scattered : \/ Fills(c, r, k, name) \/ RowsSize(c, r, k, name) \/ RowsPayload(c, r, k, name)
                                  \/ ColsSize(c, r, k, name) \/ ColsPayload(c, r, k, name) \/ Slices(c, k, name)
    BY <1>15 DEF InScatter
  <2> QED BY <2>1, <1>7, <1>8, <1>9
<1>16. CASE InGather(c, r, k)
  <2>1. PICK name \in Gathered : \/ Owns(c, r, k, name)
                                 \/ \E src \in Ranks, part \in 1 .. 4 : Receives(c, r, k, name, src, part)
                                 \/ \E part \in 1 .. 4 : Sends(c, r, k, name, part)
    BY <1>16 DEF InGather
  <2> QED BY <2>1, <1>10, <1>11, <1>12
<1> QED BY CallCases, <1>1, <1>2, <1>3, <1>13, <1>14, <1>15, <1>16

------------------------------------------------------------------------------
(* Calls that belong together have the same key.                           *)

\* The names and communicators that calls mention.
LEMMA NamesKnown ==
  /\ \A name \in Scattered \cup Gathered : name \in Names /\ CommOf(name) \in Comms
  /\ \A r : \A name \in Scattered \cup Gathered : FromOf(r, name) \in Names
  /\ \A p \in 1 .. 4 : Bundle[p] \in Names /\ Bundle[p] \in Parts
  /\ \A part \in Parts : part \in Names
  /\ \A part \in 1 .. 4 : Axis(part) \in Axes /\ Half(part) \in {"size", "payload"}
  /\ "rows" \in Axes /\ "cols" \in Axes /\ "encrypted" \in Names /\ "local_result" \in Names
<1>1. ASSUME NEW name \in Scattered \cup Gathered PROVE name \in Names /\ CommOf(name) \in Comms
  BY DEF Scattered, Gathered, Names, CommOf, Comms
<1>2. ASSUME NEW r, NEW name \in Scattered \cup Gathered PROVE FromOf(r, name) \in Names
  <2>1. CASE name \in Operands
    BY <2>1 DEF FromOf, Names, Operands
  <2>2. CASE name \notin Operands
    <3>1. name \in {"A1_full", "B1_full", "A2_full", "B2_full", "A_local", "B_local", "gathered", "result1",
                    "result2", "decrypted"}
      BY <2>2 DEF Scattered, Gathered
    <3> QED BY <2>2, <3>1 DEF FromOf, Names, Operands
  <2> QED BY <2>1, <2>2
<1>3. \A part \in Parts : part \in Names
  BY DEF Names
<1>4. \A p \in 1 .. 4 : Bundle[p] \in Parts
  BY BundleParts
<1>5. \A part \in 1 .. 4 : Axis(part) \in Axes /\ Half(part) \in {"size", "payload"}
  BY DEF Axis, Axes, Half
<1>6. "rows" \in Axes /\ "cols" \in Axes /\ "encrypted" \in Names /\ "local_result" \in Names
  BY DEF Axes, Names
<1> QED BY <1>1, <1>2, <1>3, <1>4, <1>5, <1>6

\* A send and its receive.
LEMMA SendPairs ==
  ASSUME NEW r \in Ranks, NEW k \in Keys, CallAt(r, k).kind = "send"
  PROVE  \E name \in Gathered, part \in 1 .. 4 :
           /\ Sends(CallAt(r, k), r, k, name, part)
           /\ RootOf(r, name) \in Ranks /\ RootOf(r, name) # r
           /\ Receives(CallAt(RootOf(r, name), k), RootOf(r, name), k, name, r, part)
<1>1. PICK name \in Gathered, part \in 1 .. 4 : Sends(CallAt(r, k), r, k, name, part)
  BY CallsByKind
<1> DEFINE root == RootOf(r, name)
<1>2. k = Begin(name) + 4 * r + part /\ r # root
  BY <1>1 DEF Sends
<1>3. root \in Members(r, CommOf(name)) /\ root \in Ranks /\ RootOf(root, name) = root
  BY RootIsMember
<1>4. r \in Members(root, CommOf(name)) \ {root}
  BY <1>2, <1>3, MembersAgree, MembersAre
<1>5. r \in 0 .. P + 2
  BY WidthType DEF Ranks
<1> HIDE DEF root
<1>6. CallAt(root, k) = Call("recv", CommOf(name), r, Tag(part), Half(part), Axis(part), name)
  BY <1>2, <1>3, <1>4, <1>5, GatherKeys
<1>7. Receives(CallAt(root, k), root, k, name, r, part)
  BY <1>2, <1>3, <1>4, <1>6 DEF Receives
<1> QED BY <1>1, <1>2, <1>3, <1>7 DEF root

\* A receive and its send.
LEMMA RecvPairs ==
  ASSUME NEW r \in Ranks, NEW k \in Keys, CallAt(r, k).kind = "recv"
  PROVE  \E name \in Gathered, src \in Ranks, part \in 1 .. 4 :
           /\ Receives(CallAt(r, k), r, k, name, src, part)
           /\ src # r /\ RootOf(src, name) = r
           /\ Sends(CallAt(src, k), src, k, name, part)
<1>1. PICK name \in Gathered, src \in Ranks, part \in 1 .. 4 : Receives(CallAt(r, k), r, k, name, src, part)
  BY CallsByKind
<1>2. k = Begin(name) + 4 * src + part /\ r = RootOf(r, name) /\ src \in Members(r, CommOf(name)) /\ src # r
  BY <1>1 DEF Receives
<1>3. RootOf(src, name) = r
  BY <1>2, RootIsMember
<1>4. src \in 0 .. P + 2
  BY WidthType DEF Ranks
<1>5. CallAt(src, k) = Call("send", CommOf(name), RootOf(src, name), Tag(part), Half(part), Axis(part), FromOf(src, name))
  BY <1>2, <1>3, <1>4, GatherKeys
<1>6. Sends(CallAt(src, k), src, k, name, part)
  BY <1>2, <1>3, <1>5 DEF Sends
<1> QED BY <1>1, <1>2, <1>3, <1>6

\* Call c of rank r is sent to rank s, where it is received by call d.
Meets(c, r, d, s) ==
  /\ r \in Ranks /\ s \in Ranks /\ r # s
  /\ c.kind = "send" /\ d.kind = "recv" /\ c.peer = s /\ d.peer = r
  /\ c.comm = d.comm /\ c.tag = d.tag /\ c.part = d.part /\ c.axis = d.axis
  /\ c.comm \in Comms /\ c.axis \in Axes /\ c.part \in {"size", "payload"}
  /\ c.of \in Names /\ d.of \in Names

\* Every send has its receive: at the same key, by the rank it is sent to.
LEMMA SendMeets ==
  ASSUME NEW r \in Ranks, NEW k \in Keys, CallAt(r, k).kind = "send"
  PROVE  Meets(CallAt(r, k), r, CallAt(CallAt(r, k).peer, k), CallAt(r, k).peer)
<1>1. PICK name \in Gathered, part \in 1 .. 4 :
           /\ Sends(CallAt(r, k), r, k, name, part)
           /\ RootOf(r, name) \in Ranks /\ RootOf(r, name) # r
           /\ Receives(CallAt(RootOf(r, name), k), RootOf(r, name), k, name, r, part)
  BY SendPairs
<1> DEFINE c == CallAt(r, k)
           d == CallAt(RootOf(r, name), k)
<1>2. c = Call("send", CommOf(name), RootOf(r, name), Tag(part), Half(part), Axis(part), FromOf(r, name))
  BY <1>1 DEF Sends
<1>3. d = Call("recv", CommOf(name), r, Tag(part), Half(part), Axis(part), name)
  BY <1>1 DEF Receives
<1>4. /\ name \in Names /\ CommOf(name) \in Comms /\ FromOf(r, name) \in Names
      /\ Axis(part) \in Axes /\ Half(part) \in {"size", "payload"}
  BY NamesKnown
<1>5. c.peer = RootOf(r, name)
  BY <1>2 DEF Call
<1> HIDE DEF c, d
<1>6. Meets(c, r, d, RootOf(r, name))
  BY <1>1, <1>2, <1>3, <1>4 DEF Meets, Call
<1> QED BY <1>5, <1>6, Zenon DEF c, d

\* Every receive has its send: at the same key, by the rank it is posted for.
LEMMA RecvMeets ==
  ASSUME NEW r \in Ranks, NEW k \in Keys, CallAt(r, k).kind = "recv"
  PROVE  Meets(CallAt(CallAt(r, k).peer, k), CallAt(r, k).peer, CallAt(r, k), r)
<1>1. PICK name \in Gathered, src \in Ranks, part \in 1 .. 4 :
           /\ Receives(CallAt(r, k), r, k, name, src, part)
           /\ src # r /\ RootOf(src, name) = r
           /\ Sends(CallAt(src, k), src, k, name, part)
  BY RecvPairs
<1> DEFINE c == CallAt(src, k)
           d == CallAt(r, k)
<1>2. c = Call("send", CommOf(name), r, Tag(part), Half(part), Axis(part), FromOf(src, name))
  BY <1>1 DEF Sends
<1>3. d = Call("recv", CommOf(name), src, Tag(part), Half(part), Axis(part), name)
  BY <1>1 DEF Receives
<1>4. /\ name \in Names /\ CommOf(name) \in Comms /\ FromOf(src, name) \in Names
      /\ Axis(part) \in Axes /\ Half(part) \in {"size", "payload"}
  BY NamesKnown
<1>5. d.peer = src
  BY <1>3 DEF Call
<1> HIDE DEF c, d
<1>6. Meets(c, src, d, r)
  BY <1>1, <1>2, <1>3, <1>4 DEF Meets, Call
<1> QED BY <1>5, <1>6, Zenon DEF c, d

\* Call c of rank r is made by all members of its communicator.
AllMake(c, r, k) ==
  /\ c.comm \in Comms
  /\ \A s \in Members(r, c.comm) : CallAt(s, k) = c

\* A broadcast is made at one key by all members of its communicator, for
\* one and the same root.
LEMMA BcastMeets ==
  ASSUME NEW r \in Ranks, NEW k \in Keys, NEW c, c = CallAt(r, k), c.kind = "bcast"
  PROVE  /\ AllMake(c, r, k) /\ c.peer \in Members(r, c.comm) /\ c.peer \in Ranks
         /\ c.of \in Names /\ c.axis \in Axes /\ c.part \in {"size", "payload"}
<1>1. CASE \E p \in 1 .. 4 : BundleSize(c, k, p) \/ BundlePayload(c, k, p)
  <2>1. PICK p \in 1 .. 4 : BundleSize(c, k, p) \/ BundlePayload(c, k, p)
    BY <1>1
  <2>2. \A s : CallAt(s, k) = c
    BY <2>1, ConstructCalls DEF BundleSize, BundlePayload
  <2>3. /\ c.comm = "world" /\ c.peer = 0 /\ c.of = Bundle[p] /\ c.axis = "rows"
        /\ c.part \in {"size", "payload"}
    BY <2>1 DEF BundleSize, BundlePayload, Call, kRootRank
  <2>4. 0 \in Ranks /\ Members(r, "world") = Ranks
    BY WorldMembers
  <2>5. c.comm \in Comms
    BY <2>3 DEF Comms
  <2> QED BY <2>2, <2>3, <2>4, <2>5, NamesKnown DEF AllMake
<1>2. CASE \E name \in Scattered : \/ RowsSize(c, r, k, name) \/ RowsPayload(c, r, k, name)
                                   \/ ColsSize(c, r, k, name) \/ ColsPayload(c, r, k, name)
  <2>1. PICK name \in Scattered : \/ RowsSize(c, r, k, name) \/ RowsPayload(c, r, k, name)
                                   \/ ColsSize(c, r, k, name) \/ ColsPayload(c, r, k, name)
    BY <1>2
  <2>2. /\ c.comm = CommOf(name) /\ c.peer = RootOf(r, name) /\ c.of = name /\ c.axis \in {"rows", "cols"}
        /\ c.part \in {"size", "payload"}
    BY <2>1 DEF RowsSize, RowsPayload, ColsSize, ColsPayload, Call
  <2>3. ASSUME NEW s \in Members(r, CommOf(name)) PROVE CallAt(s, k) = c
    <3>1. RootOf(s, name) = RootOf(r, name)
      BY RootIsMember
    <3> QED BY <2>1, <3>1, ScatterKeys DEF RowsSize, RowsPayload, ColsSize, ColsPayload
  <2>4. RootOf(r, name) \in Members(r, CommOf(name)) /\ RootOf(r, name) \in Ranks
    BY RootIsMember
  <2>5. name \in Names /\ CommOf(name) \in Comms
    BY NamesKnown
  <2> QED BY <2>2, <2>3, <2>4, <2>5 DEF AllMake, Axes
<1> QED BY <1>1, <1>2, CallsByKind

\* So are a split and a product, and the product is what the half makes alone.
LEMMA BarrierMeets ==
  ASSUME NEW r \in Ranks, NEW k \in Keys, NEW c, c = CallAt(r, k), c.kind \in {"split", "matmul"}
  PROVE  /\ AllMake(c, r, k) /\ c.comm \in Comms
         /\ c.comm = "sub" <=> c.kind = "matmul"
         /\ c.kind = "matmul" => k = 12 * Width /\ c.comm = "sub"
<1>1. CASE Splits(c, k)
  <2>1. c.kind = "split" /\ c.comm \in {"world", "grid"}
    BY <1>1 DEF Splits, LocalStep, Call
  <2>2. ASSUME NEW s \in Members(r, c.comm) PROVE CallAt(s, k) = c
    <3>1. CASE k = 0
      BY <1>1, <3>1, ConstructCalls
    <3>2. CASE k = 5 * Width
      <4>1. 0 \in 0 .. Width - 1 /\ 5 * Width + 0 = 5 * Width
        BY WidthType
      <4>2. \A q : CallAt(q, 5 * Width) = LocalStep("split", "world", "none", "none")
        BY <4>1, CallBarrier
      <4> QED BY <3>2, <4>2
    <3> QED BY <1>1, <3>1, <3>2 DEF Splits
  <2> QED BY <2>1, <2>2 DEF AllMake, Comms
<1>2. CASE Multiplies(c, k)
  <2>1. c.kind = "matmul" /\ c.comm = "sub" /\ k = 12 * Width
    BY <1>2 DEF Multiplies, LocalStep, Call
  <2>2. ASSUME NEW s \in Members(r, c.comm) PROVE CallAt(s, k) = c
    <3>1. 0 \in 0 .. Width - 1 /\ 12 * Width + 0 = 12 * Width
      BY WidthType
    <3>2. \A q : CallAt(q, 12 * Width) = LocalStep("matmul", "sub", "A_local", "B_local")
      BY <3>1, CallBarrier
    <3> QED BY <1>2, <2>1, <3>2 DEF Multiplies
  <2> QED BY <2>1, <2>2 DEF AllMake, Comms
<1> QED BY <1>1, <1>2, CallsByKind

\* The members of a half make the same collectives of their grid.
LEMMA SubKeysAgree ==
  ASSUME NEW r \in Ranks, NEW s \in Members(r, "sub")
  PROVE  SubKeys(s) = SubKeys(r)
<1>1. ASSUME NEW a \in Ranks, NEW b \in Members(a, "sub"), NEW k \in SubKeys(a)
      PROVE  k \in SubKeys(b)
  <2>1. k \in Keys /\ CallAt(a, k).kind \in {"split", "bcast", "matmul"} /\ CallAt(a, k).comm = "sub"
    BY DEF SubKeys, IsCollective
  <2>2. AllMake(CallAt(a, k), a, k)
    BY <2>1, BcastMeets, BarrierMeets
  <2>3. CallAt(b, k) = CallAt(a, k)
    BY <2>1, <2>2 DEF AllMake
  <2> QED BY <2>1, <2>3 DEF SubKeys, IsCollective
<1>2. s \in Ranks /\ r \in Members(s, "sub")
  BY MembersAgree, MembersAre
<1> QED BY <1>1, <1>2

------------------------------------------------------------------------------
(* What a rank is expected to hold, by the operation that makes it.        *)

\* Every name is made by one operation.
LEMMA NameCases ==
  /\ \A name \in Names : \/ name \in Scattered \/ name \in Gathered \/ name = "local_result"
                         \/ name = "encrypted" \/ \E p \in 1 .. 4 : name = Bundle[p]
  /\ \A name \in Gathered : name \notin Scattered
  /\ "local_result" \notin Scattered \cup Gathered
  /\ "encrypted" \notin Scattered \cup Gathered
  /\ \A p \in 1 .. 4 : Bundle[p] \notin Scattered \cup Gathered \cup {"local_result", "encrypted"}
  /\ \A p, q \in 1 .. 4 : Bundle[p] = Bundle[q] => p = q
<1>1. \A name \in Parts : \E p \in 1 .. 4 : name = Bundle[p]
  <2>1. \A p \in {1, 2, 3, 4} : p \in 1 .. 4
    OBVIOUS
  <2> QED BY <2>1, BundleParts
<1>2. \A name \in Names : \/ name \in Scattered \/ name \in Gathered \/ name = "local_result"
                          \/ name = "encrypted" \/ name \in Parts
  BY DEF Names, Scattered, Gathered
<1>3. ASSUME NEW p \in 1 .. 4, NEW q \in 1 .. 4, Bundle[p] = Bundle[q] PROVE p = q
  <2>1. p \in {1, 2, 3, 4} /\ q \in {1, 2, 3, 4}
    OBVIOUS
  <2> QED BY <1>3, <2>1, BundleParts
<1>4. \A p \in 1 .. 4 : Bundle[p] \in Parts
  BY BundleParts
<1>5. \A name \in Parts : name \notin Scattered \cup Gathered \cup {"local_result", "encrypted"}
  BY BundleParts DEF Scattered, Gathered, Operands
<1>6. \A name \in Gathered : name \notin Scattered
  BY DEF Scattered, Gathered, Operands
<1>7. "local_result" \notin Scattered \cup Gathered /\ "encrypted" \notin Scattered \cup Gathered
  BY DEF Scattered, Gathered, Operands
<1> QED BY <1>1, <1>2, <1>3, <1>4, <1>5, <1>6, <1>7

\* Expected, by the kind of the matrix.
LEMMA ExpectedIs ==
  ASSUME NEW r, NEW k
  PROVE  /\ \A name \in Scattered : Expected(r, name, k) = Scattering(r, name, Begin(name), k)
         /\ \A name \in Gathered : Expected(r, name, k) = Gathering(r, name, Begin(name), k)
         /\ Expected(r, "local_result", k)
              = IF k <= 12 * Width THEN Empty ELSE Blocks(r, "sub", Product(color(r)))
         /\ Expected(r, "encrypted", k) = EncryptedAt(r, k)
         /\ \A p \in 1 .. 4 : Expected(r, Bundle[p], k) = PartAt(r, p, k)
<1>1. \A name \in Scattered : Expected(r, name, k) = Scattering(r, name, Begin(name), k)
  BY DEF Expected
<1>2. \A name \in Gathered : Expected(r, name, k) = Gathering(r, name, Begin(name), k)
  BY NameCases DEF Expected
<1>3. Expected(r, "local_result", k) = IF k <= 12 * Width THEN Empty ELSE Blocks(r, "sub", Product(color(r)))
  <2>1. Begin("local_result") = 12 * Width
    <3>1. Begin("local_result") = 12 * Width + 0
      BY StageValues DEF Begin, Operands
    <3> QED BY <3>1, WidthType
  <2>2. ValueOf(r, "local_result") = Product(color(r))
    BY DEF ValueOf, Operands
  <2>3. Expected(r, "local_result", k)
          = IF k <= Begin("local_result") THEN Empty ELSE Blocks(r, "sub", ValueOf(r, "local_result"))
    BY NameCases DEF Expected
  <2> QED BY <2>1, <2>2, <2>3
<1>4. Expected(r, "encrypted", k) = EncryptedAt(r, k)
  BY NameCases DEF Expected
<1>5. ASSUME NEW p \in 1 .. 4 PROVE Expected(r, Bundle[p], k) = PartAt(r, p, k)
  <2>1. (CHOOSE q \in DOMAIN Bundle : Bundle[q] = Bundle[p]) = p
    <3>1. DOMAIN Bundle = 1 .. 4 /\ \A q \in 1 .. 4 : Bundle[q] = Bundle[p] => q = p
      BY NameCases, BundleParts
    <3> QED BY <3>1, Zenon
  <2>2. Expected(r, Bundle[p], k) = PartAt(r, CHOOSE q \in DOMAIN Bundle : Bundle[q] = Bundle[p], k)
    <3>1. /\ Bundle[p] \notin Scattered /\ Bundle[p] \notin Gathered
          /\ Bundle[p] # "local_result" /\ Bundle[p] # "encrypted"
      BY NameCases
    <3> QED BY <3>1, Zenon DEF Expected
  <2> QED BY <2>1, <2>2
<1> QED BY <1>1, <1>2, <1>3, <1>4, <1>5

\* What a scatter leaves: before, meanwhile and after.
Halfway(r, name, k) ==
  [rows |-> IF r = RootOf(r, name) \/ k > Begin(name) + 2 THEN Full(ValueOf(r, name)).rows ELSE Empty.rows,
   cols |-> IF r = RootOf(r, name) \/ k > Begin(name) + 4 THEN Full(ValueOf(r, name)).cols ELSE Empty.cols]

\* A matrix that is scattered, before, during and after the scatter.
LEMMA ScatterValues ==
  ASSUME NEW r, NEW k \in Int, NEW name \in Scattered
  PROVE  /\ k <= Begin(name) => Expected(r, name, k) = Empty
         /\ k > Begin(name) /\ k <= Begin(name) + 5 => Expected(r, name, k) = Halfway(r, name, k)
         /\ k > Begin(name) + 5 => Expected(r, name, k) = Blocks(r, CommOf(name), ValueOf(r, name))
<1>1. Expected(r, name, k) = Scattering(r, name, Begin(name), k) /\ Begin(name) \in Nat
  BY ExpectedIs, Begins
<1>2. Scattering(r, name, Begin(name), k)
        = IF k <= Begin(name) THEN Empty
          ELSE IF k > Begin(name) + 5 THEN Blocks(r, CommOf(name), ValueOf(r, name))
          ELSE Halfway(r, name, k)
  BY DEF Scattering, Halfway
<1>3. k > Begin(name) => ~ (k <= Begin(name))
  BY <1>1
<1>4. k <= Begin(name) + 5 => ~ (k > Begin(name) + 5)
  BY <1>1
<1>5. k > Begin(name) + 5 => ~ (k <= Begin(name))
  BY <1>1
<1> QED BY <1>1, <1>2, <1>3, <1>4, <1>5, Zenon

\* What a gather has collected: row i or column j has come to the root.
HasRow(r, name, k, i) ==
  \E src \in Members(r, CommOf(name)) :
    i \in RowsIn(src, CommOf(name)) /\ (src = RootOf(r, name) \/ k > Begin(name) + 1 + 4 * src + 1)
HasCol(r, name, k, j) ==
  \E src \in Members(r, CommOf(name)) :
    j \in ColsIn(src, CommOf(name)) /\ (src = RootOf(r, name) \/ k > Begin(name) + 1 + 4 * src + 3)
Collected(r, name, k) ==
  [rows |-> [i \in Slots |-> IF HasRow(r, name, k, i) THEN ValueOf(r, name) ELSE Null],
   cols |-> [j \in Slots |-> IF HasCol(r, name, k, j) THEN ValueOf(r, name) ELSE Null]]

\* A matrix that is gathered.
LEMMA GatherValues ==
  ASSUME NEW r, NEW k, NEW name \in Gathered
  PROVE  Expected(r, name, k)
           = IF r # RootOf(r, name) \/ k <= Begin(name) THEN Empty ELSE Collected(r, name, k)
<1>1. Expected(r, name, k) = Gathering(r, name, Begin(name), k)
  BY ExpectedIs
<1> QED BY <1>1 DEF Gathering, Collected, HasRow, HasCol

\* Nothing is expected before the first key.
LEMMA InitiallyEmpty ==
  ASSUME NEW r \in Ranks, NEW name \in Names
  PROVE  Expected(r, name, 0) = Empty
<1>1. CASE name \in Scattered
  BY <1>1, ScatterValues, Begins
<1>2. CASE name \in Gathered
  BY <1>2, GatherValues, Begins
<1>3. CASE name = "local_result"
  BY <1>3, ExpectedIs, WidthType
<1>4. CASE name = "encrypted"
  BY <1>4, ExpectedIs, WidthType DEF EncryptedAt
<1>5. ASSUME NEW p \in 1 .. 4, name = Bundle[p]
      PROVE  Expected(r, name, 0) = Empty
  <2>1. Expected(r, name, 0) = PartAt(r, p, 0)
    BY <1>5, ExpectedIs
  <2>2. 0 <= p /\ 0 <= 2 * p + 4
    OBVIOUS
  <2> QED BY <2>1, <2>2 DEF PartAt
<1> QED BY <1>1, <1>2, <1>3, <1>4, <1>5, NameCases

\* When a scattered matrix changes.
LEMMA ScatterSteps ==
  ASSUME NEW r, NEW k \in Nat, NEW name \in Scattered,
         Expected(r, name, k + 1) # Expected(r, name, k)
  PROVE  \/ k = Begin(name) \/ k = Begin(name) + 5
         \/ r # RootOf(r, name) /\ (k = Begin(name) + 2 \/ k = Begin(name) + 4)
<1>1. Begin(name) \in Nat
  BY Begins
<1>2. CASE k < Begin(name)
  <2>1. k + 1 <= Begin(name) /\ k <= Begin(name)
    BY <1>1, <1>2
  <2> QED BY <2>1, ScatterValues
<1>3. CASE k > Begin(name) + 5
  <2>1. k + 1 > Begin(name) + 5
    BY <1>1, <1>3
  <2> QED BY <1>3, <2>1, ScatterValues
<1>4. CASE /\ k > Begin(name) /\ k < Begin(name) + 5
           /\ r = RootOf(r, name) \/ (k # Begin(name) + 2 /\ k # Begin(name) + 4)
  <2>1. k <= Begin(name) + 5 /\ k + 1 > Begin(name) /\ k + 1 <= Begin(name) + 5
    BY <1>1, <1>4
  <2>2. /\ r = RootOf(r, name) \/ k > Begin(name) + 2 <=> r = RootOf(r, name) \/ k + 1 > Begin(name) + 2
        /\ r = RootOf(r, name) \/ k > Begin(name) + 4 <=> r = RootOf(r, name) \/ k + 1 > Begin(name) + 4
    BY <1>1, <1>4
  <2>3. Halfway(r, name, k + 1) = Halfway(r, name, k)
    BY <2>2, Zenon DEF Halfway
  <2> QED BY <1>4, <2>1, <2>3, ScatterValues
<1> QED BY <1>1, <1>2, <1>3, <1>4

\* When a gathered matrix changes.
LEMMA GatherSteps ==
  ASSUME NEW r \in Ranks, NEW k \in Nat, NEW name \in Gathered,
         Expected(r, name, k + 1) # Expected(r, name, k)
  PROVE  /\ r = RootOf(r, name)
         /\ \/ k = Begin(name)
            \/ \E src \in Members(r, CommOf(name)) \ {r} :
                 k = Begin(name) + 4 * src + 2 \/ k = Begin(name) + 4 * src + 4
<1>1. Begin(name) \in Nat
  BY Begins
<1>2. r = RootOf(r, name)
  BY GatherValues
<1>3. CASE k < Begin(name)
  <2>1. k + 1 <= Begin(name) /\ k <= Begin(name)
    BY <1>1, <1>3
  <2> QED BY <2>1, GatherValues
<1>4. CASE /\ k > Begin(name)
           /\ \A src \in Members(r, CommOf(name)) \ {r} :
                 k # Begin(name) + 4 * src + 2 /\ k # Begin(name) + 4 * src + 4
  <2>1. ~ (k <= Begin(name)) /\ ~ (k + 1 <= Begin(name))
    BY <1>1, <1>4
  <2>2. ASSUME NEW src \in Members(r, CommOf(name))
        PROVE  /\ src = r \/ k + 1 > Begin(name) + 1 + 4 * src + 1 <=> src = r \/ k > Begin(name) + 1 + 4 * src + 1
               /\ src = r \/ k + 1 > Begin(name) + 1 + 4 * src + 3 <=> src = r \/ k > Begin(name) + 1 + 4 * src + 3
    <3>1. src \in Nat
      BY MembersAre DEF Ranks
    <3> QED BY <1>1, <1>4, <3>1
  <2>3. Collected(r, name, k + 1) = Collected(r, name, k)
    <3>1. ASSUME NEW i PROVE HasRow(r, name, k + 1, i) <=> HasRow(r, name, k, i)
      BY <1>2, <2>2, Zenon DEF HasRow
    <3>2. ASSUME NEW j PROVE HasCol(r, name, k + 1, j) <=> HasCol(r, name, k, j)
      BY <1>2, <2>2, Zenon DEF HasCol
    <3> QED BY <3>1, <3>2 DEF Collected
  <2> QED BY <1>2, <2>1, <2>3, GatherValues
<1> QED BY <1>1, <1>2, <1>3, <1>4

\* When what the root has encrypted changes.
LEMMA EncryptSteps ==
  ASSUME NEW r, NEW k \in Nat, Expected(r, "encrypted", k + 1) # Expected(r, "encrypted", k)
  PROVE  r = kRootRank /\ \E name \in Operands : k = Stage(name) * Width
<1>1. EncryptedAt(r, k + 1) # EncryptedAt(r, k)
  BY ExpectedIs
<1>2. r = kRootRank
  BY <1>1 DEF EncryptedAt
<1>3. k = Width \/ k = 2 * Width \/ k = 3 * Width \/ k = 4 * Width
  <2>1. SUFFICES ASSUME k # Width, k # 2 * Width, k # 3 * Width, k # 4 * Width PROVE FALSE
    OBVIOUS
  <2>2. /\ k + 1 <= Width <=> k <= Width
        /\ k + 1 <= 2 * Width <=> k <= 2 * Width
        /\ k + 1 <= 3 * Width <=> k <= 3 * Width
        /\ k + 1 <= 4 * Width <=> k <= 4 * Width
    BY <2>1, WidthType
  <2> QED BY <1>1, <2>2, Zenon DEF EncryptedAt
<1>4. \E name \in Operands : k = Stage(name) * Width
  <2>1. \A name \in {"A1", "B1", "A2", "B2"} : name \in Operands
    BY DEF Operands
  <2>2. Stage("A1") * Width = Width /\ Stage("B1") * Width = 2 * Width
        /\ Stage("A2") * Width = 3 * Width /\ Stage("B2") * Width = 4 * Width
    BY StageValues, WidthType
  <2> QED BY <1>3, <2>1, <2>2
<1> QED BY <1>2, <1>4

\* When a part of the bundle changes.
LEMMA PartSteps ==
  ASSUME NEW r, NEW k \in Nat, NEW p \in 1 .. 4, Expected(r, Bundle[p], k + 1) # Expected(r, Bundle[p], k)
  PROVE  k = (IF r = kRootRank THEN p ELSE 2 * p + 4)
<1>1. PartAt(r, p, k + 1) # PartAt(r, p, k)
  BY ExpectedIs
<1> DEFINE t == IF r = kRootRank THEN p ELSE 2 * p + 4
<1>2. t \in Nat
  OBVIOUS
<1>3. PartAt(r, p, k) = (IF k <= t THEN Empty ELSE [rows |-> [x \in {0} |-> <<Bundle[p]>>], cols |-> Empty.cols])
  BY DEF PartAt
<1>4. PartAt(r, p, k + 1) = (IF k + 1 <= t THEN Empty ELSE [rows |-> [x \in {0} |-> <<Bundle[p]>>], cols |-> Empty.cols])
  BY DEF PartAt
<1> HIDE DEF t
<1>5. k = t
  <2>1. (k + 1 <= t) # (k <= t)
    BY <1>1, <1>3, <1>4
  <2> QED BY <1>2, <2>1
<1> QED BY <1>5 DEF t

\* What rank r holds under a name changes only with a call that stores it.
Stores(c, r, name) ==
  \/ c.kind \in {"serialize", "encrypt", "own", "full", "slice"} /\ c.of = name
  \/ c.kind = "recv" /\ c.part = "payload" /\ c.of = name
  \/ c.kind = "bcast" /\ c.part = "payload" /\ c.peer # r /\ c.of = name
  \/ c.kind = "matmul" /\ name = "local_result"

\* Only a call that stores a matrix changes what is expected in it.
LEMMA Changes ==
  ASSUME NEW r \in Ranks, NEW k \in Nat, NEW name \in Names,
         Expected(r, name, k + 1) # Expected(r, name, k)
  PROVE  Stores(CallAt(r, k), r, name)
<1>1. CASE name \in Scattered
  <2>1. CASE k = Begin(name)
    <3>1. CallAt(r, k) = Call("full", CommOf(name), RootOf(r, name), 0, FromOf(r, name), "rows", name)
      BY <1>1, <2>1, ScatterKeys
    <3> QED BY <3>1 DEF Stores, Call
  <2>2. CASE k = Begin(name) + 5
    <3>1. CallAt(r, k) = LocalStep("slice", CommOf(name), name, name)
      BY <1>1, <2>2, ScatterKeys
    <3> QED BY <3>1 DEF Stores, LocalStep, Call
  <2>3. CASE r # RootOf(r, name) /\ k = Begin(name) + 2
    <3>1. CallAt(r, k) = Call("bcast", CommOf(name), RootOf(r, name), 1, "payload", "rows", name)
      BY <1>1, <2>3, ScatterKeys
    <3> QED BY <2>3, <3>1 DEF Stores, Call
  <2>4. CASE r # RootOf(r, name) /\ k = Begin(name) + 4
    <3>1. CallAt(r, k) = Call("bcast", CommOf(name), RootOf(r, name), 1, "payload", "cols", name)
      BY <1>1, <2>4, ScatterKeys
    <3> QED BY <2>4, <3>1 DEF Stores, Call
  <2> QED BY <1>1, <2>1, <2>2, <2>3, <2>4, ScatterSteps
<1>2. CASE name \in Gathered
  <2>1. r = RootOf(r, name)
    BY <1>2, GatherSteps
  <2>2. CASE k = Begin(name)
    <3>1. CallAt(r, k) = LocalStep("own", CommOf(name), FromOf(r, name), name)
      BY <1>2, <2>1, <2>2, GatherKeys
    <3> QED BY <3>1 DEF Stores, LocalStep, Call
  <2>3. ASSUME NEW src \in Members(r, CommOf(name)) \ {r}, NEW part \in {2, 4}, k = Begin(name) + 4 * src + part
        PROVE  Stores(CallAt(r, k), r, name)
    <3>1. src \in 0 .. P + 2 /\ part \in 1 .. 4
      <4>1. src \in Ranks /\ P \in Nat
        BY MembersAre, WidthType
      <4>2. src \in 0 .. P + 2
        BY <4>1 DEF Ranks
      <4> QED BY <4>2
    <3>2. CallAt(r, k) = Call("recv", CommOf(name), src, Tag(part), Half(part), Axis(part), name)
      BY <1>2, <2>1, <2>3, <3>1, GatherKeys
    <3>3. Half(part) = "payload"
      BY DEF Half
    <3> QED BY <3>2, <3>3 DEF Stores, Call
  <2> QED BY <1>2, <2>2, <2>3, GatherSteps
<1>3. CASE name = "local_result"
  <2>1. k = 12 * Width
    <3>1. (k + 1 <= 12 * Width) # (k <= 12 * Width)
      BY <1>3, ExpectedIs
    <3> QED BY <3>1, WidthType
  <2>2. CallAt(r, k) = LocalStep("matmul", "sub", "A_local", "B_local")
    <3>1. 0 \in 0 .. Width - 1 /\ 12 * Width + 0 = 12 * Width
      BY WidthType
    <3> QED BY <2>1, <3>1, CallBarrier
  <2> QED BY <1>3, <2>2 DEF Stores, LocalStep, Call
<1>4. CASE name = "encrypted"
  <2>1. r = kRootRank /\ \E m \in Operands : k = Stage(m) * Width
    BY <1>4, EncryptSteps
  <2>2. PICK m \in Operands : k = Stage(m) * Width
    BY <2>1
  <2>3. CallAt(r, k) = LocalStep("encrypt", "grid", m, "encrypted")
    <3>1. Stage(m) * Width + 0 = Stage(m) * Width /\ 0 \in 0 .. Width - 1
      BY StagesDiffer, WidthType
    <3>2. CallAt(r, Stage(m) * Width + 0) = EncryptAt(r, m, 0)
      BY <3>1, CallEncrypt
    <3> QED BY <2>1, <2>2, <3>1, <3>2 DEF EncryptAt
  <2> QED BY <1>4, <2>3 DEF Stores, LocalStep, Call
<1>5. ASSUME NEW p \in 1 .. 4, name = Bundle[p]
      PROVE  Stores(CallAt(r, k), r, name)
  <2>1. k = (IF r = kRootRank THEN p ELSE 2 * p + 4)
    BY <1>5, PartSteps
  <2>2. CASE r = kRootRank
    <3>1. CallAt(r, k) = LocalStep("serialize", "world", Bundle[p], Bundle[p])
      BY <2>1, <2>2, ConstructCalls
    <3> QED BY <1>5, <3>1 DEF Stores, LocalStep, Call
  <2>3. CASE r # kRootRank
    <3>1. CallAt(r, k) = Call("bcast", "world", kRootRank, 1, "payload", "rows", Bundle[p])
      BY <2>1, <2>3, ConstructCalls
    <3> QED BY <1>5, <2>3, <3>1 DEF Stores, Call
  <2> QED BY <2>2, <2>3
<1> QED BY <1>1, <1>2, <1>3, <1>4, <1>5, NameCases

\* Nothing changes while a rank makes no call.
LEMMA NothingChanges ==
  ASSUME NEW r \in Ranks, NEW k \in Nat, NEW m \in Nat, k <= m,
         \A j \in k .. m - 1 : CallAt(r, j).kind = "none",
         NEW name \in Names
  PROVE  Expected(r, name, m) = Expected(r, name, k)
<1> DEFINE Bad == {j \in Nat : j \in k .. m /\ Expected(r, name, j) # Expected(r, name, k)}
<1>1. SUFFICES ASSUME Bad # {} PROVE FALSE
  <2>1. m \in k .. m
    OBVIOUS
  <2> QED BY <2>1
<1>2. Bad \subseteq Nat
  OBVIOUS
<1>3. PICK j \in Bad : \A x \in Bad : ~(x < j)
  <2> HIDE DEF Bad
  <2> QED BY <1>1, <1>2, LeastNat
<1>4. j # k /\ j \in Nat /\ j \in k .. m
  BY <1>3
<1>5. j - 1 \in k .. m - 1 /\ j - 1 \in Nat /\ j - 1 < j /\ (j - 1) + 1 = j /\ j - 1 \in k .. m
  BY <1>4
<1>6. Expected(r, name, j - 1) = Expected(r, name, k)
  <2>1. j - 1 \notin Bad
    BY <1>3, <1>5
  <2> QED BY <1>5, <2>1
<1>7. Expected(r, name, (j - 1) + 1) # Expected(r, name, j - 1)
  BY <1>3, <1>5, <1>6
<1>8. Stores(CallAt(r, j - 1), r, name)
  BY <1>5, <1>7, Changes
<1>9. CallAt(r, j - 1).kind = "none"
  BY <1>5
<1> QED BY <1>8, <1>9 DEF Stores

------------------------------------------------------------------------------
(* What an operation is made from is ready when it begins.                 *)

\* The matrices, one by one.
LEMMA Matrices ==
  ASSUME NEW r
  PROVE  /\ \A name \in Operands : /\ CommOf(name) = "grid" /\ RootOf(r, name) = 0
                                   /\ FromOf(r, name) = "encrypted" /\ ValueOf(r, name) = <<name>>
         /\ \A name \in {"A1_full", "B1_full", "A2_full", "B2_full", "result1", "result2", "decrypted"} :
              CommOf(name) = "grid"
         /\ \A name \in {"A_local", "B_local", "gathered"} : CommOf(name) = "sub" /\ RootOf(r, name) = Leader(r, "sub")
         /\ \A name \in {"A1_full", "B1_full", "result1", "decrypted"} : RootOf(r, name) = 0
         /\ \A name \in {"A2_full", "B2_full", "result2"} : RootOf(r, name) = half
         /\ FromOf(r, "A1_full") = "A1" /\ ValueOf(r, "A1_full") = <<"A1">>
         /\ FromOf(r, "B1_full") = "B1" /\ ValueOf(r, "B1_full") = <<"B1">>
         /\ FromOf(r, "A2_full") = "A2" /\ ValueOf(r, "A2_full") = <<"A2">>
         /\ FromOf(r, "B2_full") = "B2" /\ ValueOf(r, "B2_full") = <<"B2">>
         /\ FromOf(r, "A_local") = IF color(r) = 0 THEN "A1_full" ELSE "A2_full"
         /\ FromOf(r, "B_local") = IF color(r) = 0 THEN "B1_full" ELSE "B2_full"
         /\ ValueOf(r, "A_local") = IF color(r) = 0 THEN <<"A1">> ELSE <<"A2">>
         /\ ValueOf(r, "B_local") = IF color(r) = 0 THEN <<"B1">> ELSE <<"B2">>
         /\ FromOf(r, "gathered") = "local_result" /\ ValueOf(r, "gathered") = Product(color(r))
         /\ FromOf(r, "result1") = "gathered" /\ ValueOf(r, "result1") = Product(0)
         /\ FromOf(r, "result2") = "gathered" /\ ValueOf(r, "result2") = Product(1)
         /\ FromOf(r, "decrypted") = "result2" /\ ValueOf(r, "decrypted") = Product(1)
<1>1. ASSUME NEW name \in Operands
      PROVE  /\ CommOf(name) = "grid" /\ RootOf(r, name) = 0
             /\ FromOf(r, name) = "encrypted" /\ ValueOf(r, name) = <<name>>
  <2>1. CommOf(name) = "grid"
    BY DEF CommOf, Operands
  <2>2. RootOf(r, name) = 0
    BY <2>1 DEF RootOf, Operands
  <2>3. FromOf(r, name) = "encrypted"
    BY DEF FromOf, Operands
  <2>4. ValueOf(r, name) = <<name>>
    BY DEF ValueOf, Operands
  <2> QED BY <2>1, <2>2, <2>3, <2>4
<1>2. \A name \in {"A1_full", "B1_full", "A2_full", "B2_full", "result1", "result2", "decrypted"} :
              CommOf(name) = "grid"
  BY DEF CommOf
<1>3. \A name \in {"A_local", "B_local", "gathered"} : CommOf(name) = "sub" /\ RootOf(r, name) = Leader(r, "sub")
  BY DEF CommOf, RootOf
<1>4. \A name \in {"A1_full", "B1_full", "result1", "decrypted"} : RootOf(r, name) = 0
  BY <1>2 DEF RootOf
<1>5. \A name \in {"A2_full", "B2_full", "result2"} : RootOf(r, name) = half
  BY <1>2 DEF RootOf
<1>6. /\ FromOf(r, "A1_full") = "A1" /\ FromOf(r, "B1_full") = "B1"
      /\ FromOf(r, "A2_full") = "A2" /\ FromOf(r, "B2_full") = "B2"
      /\ FromOf(r, "A_local") = IF color(r) = 0 THEN "A1_full" ELSE "A2_full"
      /\ FromOf(r, "B_local") = IF color(r) = 0 THEN "B1_full" ELSE "B2_full"
      /\ FromOf(r, "gathered") = "local_result" /\ FromOf(r, "result1") = "gathered"
      /\ FromOf(r, "result2") = "gathered" /\ FromOf(r, "decrypted") = "result2"
  BY DEF FromOf, Operands
<1>7. /\ ValueOf(r, "A1_full") = <<"A1">> /\ ValueOf(r, "B1_full") = <<"B1">>
      /\ ValueOf(r, "A2_full") = <<"A2">> /\ ValueOf(r, "B2_full") = <<"B2">>
      /\ ValueOf(r, "A_local") = IF color(r) = 0 THEN <<"A1">> ELSE <<"A2">>
      /\ ValueOf(r, "B_local") = IF color(r) = 0 THEN <<"B1">> ELSE <<"B2">>
      /\ ValueOf(r, "gathered") = Product(color(r)) /\ ValueOf(r, "result1") = Product(0)
      /\ ValueOf(r, "result2") = Product(1) /\ ValueOf(r, "decrypted") = Product(1)
  BY DEF ValueOf, Operands
<1> QED BY <1>1, <1>2, <1>3, <1>4, <1>5, <1>6, <1>7

\* When the operations begin.
LEMMA BeginValues ==
  /\ Begin("A1") = Width + 1 /\ Begin("B1") = 2 * Width + 1 /\ Begin("A2") = 3 * Width + 1
  /\ Begin("B2") = 4 * Width + 1
  /\ Begin("A1_full") = 6 * Width /\ Begin("B1_full") = 7 * Width
  /\ Begin("A2_full") = 8 * Width /\ Begin("B2_full") = 9 * Width
  /\ Begin("A_local") = 10 * Width /\ Begin("B_local") = 11 * Width
  /\ Begin("gathered") = 13 * Width /\ Begin("result1") = 14 * Width
  /\ Begin("result2") = 15 * Width /\ Begin("decrypted") = 16 * Width
<1>1. /\ "A1" \in Operands /\ "B1" \in Operands /\ "A2" \in Operands /\ "B2" \in Operands
  BY DEF Operands
<1>2. \A name \in {"A1_full", "B1_full", "A2_full", "B2_full", "A_local", "B_local", "gathered", "result1",
                   "result2", "decrypted"} : name \in (Scattered \cup Gathered) \ Operands
  BY DEF Scattered, Gathered, Operands
<1>3. \A name \in {"A1_full", "B1_full", "A2_full", "B2_full", "A_local", "B_local", "gathered", "result1",
                   "result2", "decrypted"} : Begin(name) = Stage(name) * Width
  BY <1>2, Begins
<1>4. \A name \in {"A1", "B1", "A2", "B2"} : Begin(name) = Stage(name) * Width + 1
  BY <1>1, Begins
<1>5. PICK w \in Nat : w = Width
  BY WidthType
<1>6. /\ Begin("A1") = Stage("A1") * w + 1 /\ Begin("B1") = Stage("B1") * w + 1
      /\ Begin("A2") = Stage("A2") * w + 1 /\ Begin("B2") = Stage("B2") * w + 1
  BY <1>4, <1>5
<1>7. /\ Begin("A1_full") = Stage("A1_full") * w /\ Begin("B1_full") = Stage("B1_full") * w
      /\ Begin("A2_full") = Stage("A2_full") * w /\ Begin("B2_full") = Stage("B2_full") * w
      /\ Begin("A_local") = Stage("A_local") * w /\ Begin("B_local") = Stage("B_local") * w
      /\ Begin("gathered") = Stage("gathered") * w /\ Begin("result1") = Stage("result1") * w
      /\ Begin("result2") = Stage("result2") * w /\ Begin("decrypted") = Stage("decrypted") * w
  BY <1>3, <1>5
<1>8. /\ Begin("A1") = w + 1 /\ Begin("B1") = 2 * w + 1 /\ Begin("A2") = 3 * w + 1
      /\ Begin("B2") = 4 * w + 1
  BY <1>6, StageValues
<1>9. /\ Begin("A1_full") = 6 * w /\ Begin("B1_full") = 7 * w
      /\ Begin("A2_full") = 8 * w /\ Begin("B2_full") = 9 * w
      /\ Begin("A_local") = 10 * w /\ Begin("B_local") = 11 * w
      /\ Begin("gathered") = 13 * w /\ Begin("result1") = 14 * w
      /\ Begin("result2") = 15 * w /\ Begin("decrypted") = 16 * w
  BY <1>7, StageValues
<1> QED BY <1>5, <1>8, <1>9

\* The members of a communicator expect the same matrix.
LEMMA ValuesAgree ==
  ASSUME NEW r \in Ranks, NEW name \in Scattered \cup Gathered, NEW s \in Members(r, CommOf(name))
  PROVE  ValueOf(s, name) = ValueOf(r, name)
<1>1. CASE name \in {"A_local", "B_local", "gathered"}
  <2>1. CommOf(name) = "sub"
    BY <1>1 DEF CommOf
  <2>2. color(s) = color(r)
    BY <2>1, MembersAgree
  <2> QED BY <1>1, <2>2, Matrices
<1>2. CASE name \in Operands
  BY <1>2, Matrices
<1>3. CASE name \in {"A1_full", "B1_full", "A2_full", "B2_full", "result1", "result2", "decrypted"}
  BY <1>3, Matrices
<1> QED BY <1>1, <1>2, <1>3 DEF Scattered, Gathered

\* What a rank gives to a gather.
LEMMA SourceReady ==
  ASSUME NEW s \in Ranks, NEW name \in Gathered, NEW k \in Int, k >= Begin(name)
  PROVE  Expected(s, FromOf(s, name), k) = Blocks(s, CommOf(name), ValueOf(s, name))
<1>1. ASSUME NEW from \in Scattered, FromOf(s, name) = from, Begin(from) + 5 < Begin(name),
             CommOf(from) = CommOf(name), ValueOf(s, from) = ValueOf(s, name)
      PROVE  Expected(s, FromOf(s, name), k) = Blocks(s, CommOf(name), ValueOf(s, name))
  <2>1. k > Begin(from) + 5
    BY <1>1, Begins
  <2> QED BY <1>1, <2>1, ScatterValues
<1>2. "A1" \in Operands /\ "B1" \in Operands /\ "A2" \in Operands /\ "B2" \in Operands
  BY DEF Operands
<1>3. "A1" \in Scattered /\ "B1" \in Scattered /\ "A2" \in Scattered /\ "B2" \in Scattered /\ "result2" \in Scattered
  BY <1>2 DEF Scattered
<1>4. CASE name = "A1_full"
  BY <1>1, <1>2, <1>3, <1>4, Matrices, BeginValues, WidthType
<1>5. CASE name = "B1_full"
  BY <1>1, <1>2, <1>3, <1>5, Matrices, BeginValues, WidthType
<1>6. CASE name = "A2_full"
  BY <1>1, <1>2, <1>3, <1>6, Matrices, BeginValues, WidthType
<1>7. CASE name = "B2_full"
  BY <1>1, <1>2, <1>3, <1>7, Matrices, BeginValues, WidthType
<1>8. CASE name = "decrypted"
  BY <1>1, <1>3, <1>8, Matrices, BeginValues, WidthType
<1>9. CASE name = "gathered"
  <2>1. ~ (k <= 12 * Width)
    BY <1>9, BeginValues, WidthType
  <2> QED BY <1>9, <2>1, Matrices, ExpectedIs
<1> QED BY <1>4, <1>5, <1>6, <1>7, <1>8, <1>9 DEF Gathered

\* A gather that is over has every row and column.
LEMMA GatherDone ==
  ASSUME NEW r \in Ranks, NEW name \in Gathered, r = RootOf(r, name), NEW k \in Int, k >= Begin(name) + Width
  PROVE  Expected(r, name, k) = Full(ValueOf(r, name))
<1>1. ~ (k <= Begin(name))
  BY Begins, WidthType
<1>2. ASSUME NEW src \in Members(r, CommOf(name))
      PROVE  k > Begin(name) + 1 + 4 * src + 1 /\ k > Begin(name) + 1 + 4 * src + 3
  <2>1. src \in Int /\ src <= P - 1
    BY MembersAre DEF Ranks
  <2> QED BY <2>1, Begins, WidthType
<1>3. ASSUME NEW i \in Slots PROVE HasRow(r, name, k, i) /\ HasCol(r, name, k, i)
  <2>1. PICK src \in Members(r, CommOf(name)) : i \in RowsIn(src, CommOf(name)) /\ i \in ColsIn(src, CommOf(name))
    BY CommTiles
  <2> QED BY <2>1, <1>2, Zenon DEF HasRow, HasCol
<1>4. Collected(r, name, k) = Full(ValueOf(r, name))
  BY <1>3 DEF Collected, Full
<1> QED BY <1>1, <1>4, GatherValues

\* What the root of a scatter broadcasts.
LEMMA FullReady ==
  ASSUME NEW r \in Ranks, NEW name \in Scattered, r = RootOf(r, name)
  PROVE  Expected(r, FromOf(r, name), Begin(name)) = Full(ValueOf(r, name))
<1>1. ASSUME NEW from \in Gathered, FromOf(r, name) = from, Begin(from) + Width <= Begin(name),
             r = RootOf(r, from), ValueOf(r, from) = ValueOf(r, name)
      PROVE  Expected(r, FromOf(r, name), Begin(name)) = Full(ValueOf(r, name))
  <2>1. Begin(name) \in Int /\ Begin(name) >= Begin(from) + Width
    BY <1>1, Begins, WidthType
  <2> QED BY <1>1, <2>1, GatherDone
<1>2. \A from \in {"A1_full", "B1_full", "A2_full", "B2_full", "gathered"} : from \in Gathered
  BY DEF Gathered
<1>3. half \in Nat /\ half # 0
  BY WorldMembers DEF Ranks
<1>4. CASE name = "A_local"
  <2>1. r = color(r) * half
    BY <1>4, Matrices DEF Leader
  <2>2. color(r) = 0 => r = 0
    BY <2>1, <1>3
  <2>3. color(r) # 0 => color(r) = 1 /\ r = half
    <3>1. color(r) # 0 => color(r) = 1
      BY DEF color
    <3> QED BY <3>1, <2>1, <1>3
  <2>4. Begin("A1_full") + Width <= Begin(name) /\ Begin("A2_full") + Width <= Begin(name)
    BY <1>4, BeginValues, WidthType
  <2>5. CASE color(r) = 0
    <3>1. FromOf(r, name) = "A1_full" /\ r = RootOf(r, "A1_full") /\ ValueOf(r, "A1_full") = ValueOf(r, name)
      BY <1>4, <2>2, <2>5, Matrices
    <3> QED BY <1>1, <1>2, <2>4, <3>1
  <2>6. CASE color(r) # 0
    <3>1. FromOf(r, name) = "A2_full" /\ r = RootOf(r, "A2_full") /\ ValueOf(r, "A2_full") = ValueOf(r, name)
      BY <1>4, <2>3, <2>6, Matrices
    <3> QED BY <1>1, <1>2, <2>4, <3>1
  <2> QED BY <2>5, <2>6
<1>5. CASE name = "B_local"
  <2>1. r = color(r) * half
    BY <1>5, Matrices DEF Leader
  <2>2. color(r) = 0 => r = 0
    BY <2>1, <1>3
  <2>3. color(r) # 0 => color(r) = 1 /\ r = half
    <3>1. color(r) # 0 => color(r) = 1
      BY DEF color
    <3> QED BY <3>1, <2>1, <1>3
  <2>4. Begin("B1_full") + Width <= Begin(name) /\ Begin("B2_full") + Width <= Begin(name)
    BY <1>5, BeginValues, WidthType
  <2>5. CASE color(r) = 0
    <3>1. FromOf(r, name) = "B1_full" /\ r = RootOf(r, "B1_full") /\ ValueOf(r, "B1_full") = ValueOf(r, name)
      BY <1>5, <2>2, <2>5, Matrices
    <3> QED BY <1>1, <1>2, <2>4, <3>1
  <2>6. CASE color(r) # 0
    <3>1. FromOf(r, name) = "B2_full" /\ r = RootOf(r, "B2_full") /\ ValueOf(r, "B2_full") = ValueOf(r, name)
      BY <1>5, <2>3, <2>6, Matrices
    <3> QED BY <1>1, <1>2, <2>4, <3>1
  <2> QED BY <2>5, <2>6
<1>6. CASE name = "result1"
  <2>1. r = 0
    BY <1>6, Matrices
  <2>2. color(r) = 0
    BY <2>1, <1>3 DEF color
  <2>3. RootOf(r, "gathered") = r
    <3>1. RootOf(r, "gathered") = color(r) * half
      BY Matrices DEF Leader
    <3> QED BY <3>1, <2>1, <2>2, <1>3
  <2>4. FromOf(r, name) = "gathered" /\ ValueOf(r, "gathered") = ValueOf(r, name)
    BY <1>6, <2>2, Matrices
  <2>5. Begin("gathered") + Width <= Begin(name)
    BY <1>6, BeginValues, WidthType
  <2> QED BY <1>1, <1>2, <2>3, <2>4, <2>5
<1>7. CASE name = "result2"
  <2>1. r = half
    BY <1>7, Matrices
  <2>2. color(r) = 1
    BY <2>1, <1>3 DEF color
  <2>3. RootOf(r, "gathered") = r
    <3>1. RootOf(r, "gathered") = color(r) * half
      BY Matrices DEF Leader
    <3> QED BY <3>1, <2>1, <2>2, <1>3
  <2>4. FromOf(r, name) = "gathered" /\ ValueOf(r, "gathered") = ValueOf(r, name)
    BY <1>7, <2>2, Matrices
  <2>5. Begin("gathered") + Width <= Begin(name)
    BY <1>7, BeginValues, WidthType
  <2> QED BY <1>1, <1>2, <2>3, <2>4, <2>5
<1>8. CASE name \in Operands
  <2>1. /\ r = kRootRank /\ FromOf(r, name) = "encrypted" /\ ValueOf(r, name) = <<name>>
    BY <1>8, Matrices DEF kRootRank
  <2>2. EncryptedAt(r, Begin(name)) = Full(<<name>>)
    <3>1. CASE name = "A1"
      <4>1. ~ (Width + 1 <= Width) /\ Width + 1 <= 2 * Width
        BY WidthType
      <4> QED BY <2>1, <3>1, <4>1, BeginValues DEF EncryptedAt
    <3>2. CASE name = "B1"
      <4>1. ~ (2 * Width + 1 <= Width) /\ ~ (2 * Width + 1 <= 2 * Width) /\ 2 * Width + 1 <= 3 * Width
        BY WidthType
      <4> QED BY <2>1, <3>2, <4>1, BeginValues DEF EncryptedAt
    <3>3. CASE name = "A2"
      <4>1. /\ ~ (3 * Width + 1 <= Width) /\ ~ (3 * Width + 1 <= 2 * Width) /\ ~ (3 * Width + 1 <= 3 * Width)
            /\ 3 * Width + 1 <= 4 * Width
        BY WidthType
      <4> QED BY <2>1, <3>3, <4>1, BeginValues DEF EncryptedAt
    <3>4. CASE name = "B2"
      <4>1. /\ ~ (4 * Width + 1 <= Width) /\ ~ (4 * Width + 1 <= 2 * Width) /\ ~ (4 * Width + 1 <= 3 * Width)
            /\ ~ (4 * Width + 1 <= 4 * Width)
        BY WidthType
      <4> QED BY <2>1, <3>4, <4>1, BeginValues DEF EncryptedAt
    <3> QED BY <1>8, <3>1, <3>2, <3>3, <3>4 DEF Operands
  <2> QED BY <2>1, <2>2, ExpectedIs
<1> QED BY <1>4, <1>5, <1>6, <1>7, <1>8 DEF Scattered

------------------------------------------------------------------------------
(* What each call does to what a rank is expected to hold.                 *)

\* The two halves of a matrix, as a batch is entered in it.
LEMMA OverlayFacts ==
  /\ \A g : Overlay(Empty.rows, g) = [i \in DOMAIN g |-> g[i]]
  /\ \A g : Overlay(Empty.cols, g) = [i \in DOMAIN g |-> g[i]]
<1>1. DOMAIN Empty.rows = {} /\ DOMAIN Empty.cols = {}
  BY DEF Empty
<1> QED BY <1>1 DEF Overlay

\* The effect of each local step on what is expected is the one LocalWork has:
\* the root serializes a part of the key bundle.
LEMMA SerializeEffect ==
  ASSUME NEW r \in Ranks, NEW k \in Keys, NEW c, c = CallAt(r, k), c.kind = "serialize"
  PROVE  /\ c.of \in Names
         /\ Expected(r, c.of, k + 1) = [rows |-> [x \in {0} |-> <<c.part>>], cols |-> Empty.cols]
<1>1. PICK p \in 1 .. 4 : Serializes(c, r, k, p)
  BY CallsByKind
<1>2. k = p /\ r = kRootRank /\ c.of = Bundle[p] /\ c.part = Bundle[p]
  BY <1>1 DEF Serializes, LocalStep, Call
<1>3. ~ (k + 1 <= p)
  BY <1>2
<1>4. PartAt(r, p, k + 1) = [rows |-> [x \in {0} |-> <<Bundle[p]>>], cols |-> Empty.cols]
  BY <1>2, <1>3 DEF PartAt
<1> QED BY <1>2, <1>4, NamesKnown, ExpectedIs

\* The root encrypts an operand.
LEMMA EncryptEffect ==
  ASSUME NEW r \in Ranks, NEW k \in Keys, NEW c, c = CallAt(r, k), c.kind = "encrypt"
  PROVE  /\ c.of \in Names
         /\ Expected(r, c.of, k + 1) = Full(<<c.part>>)
<1>1. PICK name \in Operands : Encrypts(c, r, k, name)
  BY CallsByKind
<1>2. k = Stage(name) * Width /\ r = kRootRank /\ c.part = name /\ c.of = "encrypted"
  BY <1>1 DEF Encrypts, LocalStep, Call
<1>3. r = RootOf(r, name) /\ FromOf(r, name) = "encrypted" /\ ValueOf(r, name) = <<name>> /\ name \in Scattered
  BY <1>2, Matrices DEF kRootRank, Scattered
<1>4. Begin(name) = k + 1
  BY <1>2, Begins
<1>5. Expected(r, "encrypted", k + 1) = Full(<<name>>)
  BY <1>3, <1>4, FullReady
<1> QED BY <1>2, <1>5, NamesKnown

\* A scatter begins with the full matrix at its root, empty elsewhere.
LEMMA FullEffect ==
  ASSUME NEW r \in Ranks, NEW k \in Keys, NEW c, c = CallAt(r, k), c.kind = "full"
  PROVE  /\ c.of \in Names /\ c.part \in Names
         /\ Expected(r, c.of, k + 1) = IF c.peer = r THEN Expected(r, c.part, k) ELSE Empty
<1>1. PICK name \in Scattered : Fills(c, r, k, name)
  BY CallsByKind
<1>2. k = Begin(name) /\ c.peer = RootOf(r, name) /\ c.part = FromOf(r, name) /\ c.of = name
  BY <1>1 DEF Fills, Call
<1>3. Expected(r, name, k + 1) = Halfway(r, name, k + 1)
  <2>1. k + 1 > Begin(name) /\ k + 1 <= Begin(name) + 5 /\ k + 1 \in Int
    BY <1>2, Begins
  <2> QED BY <2>1, ScatterValues
<1>4. CASE r = RootOf(r, name)
  <2>1. Halfway(r, name, k + 1) = Full(ValueOf(r, name))
    BY <1>4 DEF Halfway, Full
  <2>2. Expected(r, c.part, k) = Full(ValueOf(r, name))
    BY <1>2, <1>4, FullReady
  <2> QED BY <1>2, <1>3, <1>4, <2>1, <2>2, NamesKnown
<1>5. CASE r # RootOf(r, name)
  <2>1. ~ (k + 1 > Begin(name) + 2) /\ ~ (k + 1 > Begin(name) + 4)
    BY <1>2, Begins
  <2>2. Halfway(r, name, k + 1) = Empty
    BY <1>5, <2>1 DEF Halfway, Empty
  <2> QED BY <1>2, <1>3, <1>5, <2>2, NamesKnown
<1> QED BY <1>4, <1>5

\* A scatter ends with the blocks of each rank.
LEMMA SliceEffect ==
  ASSUME NEW r \in Ranks, NEW k \in Keys, NEW c, c = CallAt(r, k), c.kind = "slice"
  PROVE  /\ c.of \in Names /\ c.part \in Names
         /\ Expected(r, c.of, k + 1)
              = [rows |-> [i \in RowsIn(r, c.comm) |-> Expected(r, c.part, k).rows[i]],
                 cols |-> [j \in ColsIn(r, c.comm) |-> Expected(r, c.part, k).cols[j]]]
<1>1. PICK name \in Scattered : Slices(c, k, name)
  BY CallsByKind
<1>2. k = Begin(name) + 5 /\ c.part = name /\ c.of = name /\ c.comm = CommOf(name)
  BY <1>1 DEF Slices, LocalStep, Call
<1>3. Expected(r, name, k + 1) = Blocks(r, CommOf(name), ValueOf(r, name))
  <2>1. k + 1 > Begin(name) + 5 /\ k + 1 \in Int
    BY <1>2, Begins
  <2> QED BY <2>1, ScatterValues
<1>4. Expected(r, name, k) = Full(ValueOf(r, name))
  <2>1. k > Begin(name) /\ k <= Begin(name) + 5 /\ k \in Int /\ k > Begin(name) + 2 /\ k > Begin(name) + 4
    BY <1>2, Begins
  <2>2. Halfway(r, name, k) = Full(ValueOf(r, name))
    BY <2>1 DEF Halfway, Full
  <2> QED BY <2>1, <2>2, ScatterValues
<1>5. RowsIn(r, c.comm) \subseteq Slots /\ ColsIn(r, c.comm) \subseteq Slots
  BY CommTiles, MembersAre
<1>6. /\ \A i \in RowsIn(r, c.comm) : Expected(r, c.part, k).rows[i] = ValueOf(r, name)
      /\ \A j \in ColsIn(r, c.comm) : Expected(r, c.part, k).cols[j] = ValueOf(r, name)
  BY <1>2, <1>4, <1>5 DEF Full
<1>7. Blocks(r, CommOf(name), ValueOf(r, name))
        = [rows |-> [i \in RowsIn(r, c.comm) |-> Expected(r, c.part, k).rows[i]],
           cols |-> [j \in ColsIn(r, c.comm) |-> Expected(r, c.part, k).cols[j]]]
  BY <1>2, <1>6 DEF Blocks
<1> QED BY <1>2, <1>3, <1>7, NamesKnown

\* A gather begins with the root's own blocks.
LEMMA OwnEffect ==
  ASSUME NEW r \in Ranks, NEW k \in Keys, NEW c, c = CallAt(r, k), c.kind = "own"
  PROVE  /\ c.of \in Names /\ c.part \in Names
         /\ Expected(r, c.of, k + 1) = [rows |-> Overlay(Unfilled.rows, Expected(r, c.part, k).rows),
                                        cols |-> Overlay(Unfilled.cols, Expected(r, c.part, k).cols)]
<1>1. PICK name \in Gathered : Owns(c, r, k, name)
  BY CallsByKind
<1>2. k = Begin(name) /\ r = RootOf(r, name) /\ c.part = FromOf(r, name) /\ c.of = name
  BY <1>1 DEF Owns, LocalStep, Call
<1> DEFINE comm == CommOf(name)
           v    == ValueOf(r, name)
<1>3. Expected(r, c.part, k) = Blocks(r, comm, v)
  BY <1>2, Begins, SourceReady
<1>4. Expected(r, name, k + 1) = Collected(r, name, k + 1)
  <2>1. ~ (k + 1 <= Begin(name))
    BY <1>2, Begins
  <2> QED BY <1>2, <2>1, GatherValues
<1>5. ASSUME NEW i
      PROVE  /\ HasRow(r, name, k + 1, i) <=> i \in RowsIn(r, comm)
             /\ HasCol(r, name, k + 1, i) <=> i \in ColsIn(r, comm)
  <2>1. ASSUME NEW src \in Members(r, comm)
        PROVE  ~ (k + 1 > Begin(name) + 1 + 4 * src + 1) /\ ~ (k + 1 > Begin(name) + 1 + 4 * src + 3)
    <3>1. src \in Nat
      BY MembersAre DEF Ranks
    <3> QED BY <1>2, <3>1, Begins
  <2>2. r \in Members(r, comm)
    BY MembersAre
  <2> QED BY <1>2, <2>1, <2>2, Zenon DEF HasRow, HasCol
<1>6. RowsIn(r, comm) \subseteq Slots /\ ColsIn(r, comm) \subseteq Slots
  BY CommTiles, MembersAre
<1> HIDE DEF comm, v
<1>7. [rows |-> Overlay(Unfilled.rows, Blocks(r, comm, v).rows), cols |-> Overlay(Unfilled.cols, Blocks(r, comm, v).cols)]
        = [rows |-> [i \in Slots |-> IF i \in RowsIn(r, comm) THEN v ELSE Null],
           cols |-> [j \in Slots |-> IF j \in ColsIn(r, comm) THEN v ELSE Null]]
  <2>1. Overlay(Unfilled.rows, Blocks(r, comm, v).rows) = [i \in Slots |-> IF i \in RowsIn(r, comm) THEN v ELSE Null]
    BY <1>6 DEF Overlay, Unfilled, Blocks
  <2>2. Overlay(Unfilled.cols, Blocks(r, comm, v).cols) = [j \in Slots |-> IF j \in ColsIn(r, comm) THEN v ELSE Null]
    BY <1>6 DEF Overlay, Unfilled, Blocks
  <2> QED BY <2>1, <2>2
<1>8. Collected(r, name, k + 1)
        = [rows |-> [i \in Slots |-> IF i \in RowsIn(r, comm) THEN v ELSE Null],
           cols |-> [j \in Slots |-> IF j \in ColsIn(r, comm) THEN v ELSE Null]]
  BY <1>5 DEF Collected, comm, v
<1> QED BY <1>2, <1>3, <1>4, <1>7, <1>8, NamesKnown

\* A received part of a matrix is laid over what was there.
LEMMA RecvEffect ==
  ASSUME NEW r \in Ranks, NEW k \in Keys, NEW c, c = CallAt(r, k), c.kind = "recv", c.part = "payload"
  PROVE  Expected(r, c.of, k + 1)
           = [Expected(r, c.of, k) EXCEPT ![c.axis] = Overlay(@, Message(c.peer, k).batch)]
<1>1. PICK name \in Gathered, src \in Ranks, part \in 1 .. 4 :
           /\ Receives(CallAt(r, k), r, k, name, src, part)
           /\ src # r /\ RootOf(src, name) = r
           /\ Sends(CallAt(src, k), src, k, name, part)
  BY RecvPairs
<1> DEFINE comm == CommOf(name)
           v    == ValueOf(r, name)
<1>2. /\ k = Begin(name) + 4 * src + part /\ r = RootOf(r, name) /\ src \in Members(r, comm) /\ src # r
      /\ c.peer = src /\ c.part = Half(part) /\ c.axis = Axis(part) /\ c.of = name
  BY <1>1 DEF Receives, Call
<1>3. CallAt(src, k).of = FromOf(src, name) /\ CallAt(src, k).axis = Axis(part)
  BY <1>1 DEF Sends, Call
<1>4. part = 2 \/ part = 4
  BY <1>2 DEF Half
<1>5. Begin(name) \in Nat /\ src \in Nat /\ k >= Begin(name) /\ k \in Int
  BY <1>2, Begins DEF Ranks
<1>6. Expected(src, FromOf(src, name), k) = Blocks(src, comm, v)
  <2>1. ValueOf(src, name) = v
    BY <1>2, ValuesAgree
  <2> QED BY <1>5, <2>1, SourceReady
<1>7. Message(src, k).batch = Blocks(src, comm, v)[Axis(part)]
  <2>1. Message(src, k).batch = Expected(src, FromOf(src, name), k)[Axis(part)]
    BY <1>3, Zenon DEF Message
  <2> QED BY <1>6, <2>1
<1>8. Expected(r, name, k) = Collected(r, name, k) /\ Expected(r, name, k + 1) = Collected(r, name, k + 1)
  <2>1. ~ (k <= Begin(name)) /\ ~ (k + 1 <= Begin(name))
    BY <1>2, <1>5
  <2> QED BY <1>2, <2>1, GatherValues
<1>9. RowsIn(src, comm) \subseteq Slots /\ ColsIn(src, comm) \subseteq Slots
  BY <1>2, CommTiles
<1>10. ASSUME NEW s \in Members(r, comm)
       PROVE  /\ (k + 1 > Begin(name) + 1 + 4 * s + 1)
                  <=> (k > Begin(name) + 1 + 4 * s + 1) \/ (s = src /\ part = 2)
              /\ (k + 1 > Begin(name) + 1 + 4 * s + 3)
                  <=> (k > Begin(name) + 1 + 4 * s + 3) \/ (s = src /\ part = 4)
  <2>1. s \in Nat
    BY MembersAre DEF Ranks
  <2> QED BY <1>2, <1>4, <1>5, <2>1
<1> HIDE DEF comm, v
<1>11. CASE part = 2
  <2>1. ASSUME NEW i
        PROVE  /\ HasRow(r, name, k + 1, i) <=> HasRow(r, name, k, i) \/ i \in RowsIn(src, comm)
               /\ HasCol(r, name, k + 1, i) <=> HasCol(r, name, k, i)
    <3>1. part # 4
      BY <1>11
    <3>2. HasRow(r, name, k + 1, i) => HasRow(r, name, k, i) \/ i \in RowsIn(src, comm)
      BY <1>10, Zenon DEF HasRow, comm
    <3>3. HasRow(r, name, k, i) => HasRow(r, name, k + 1, i)
      BY <1>10, Zenon DEF HasRow, comm
    <3>4. i \in RowsIn(src, comm) => HasRow(r, name, k + 1, i)
      BY <1>2, <1>10, <1>11, Zenon DEF HasRow, comm
    <3>5. HasCol(r, name, k + 1, i) <=> HasCol(r, name, k, i)
      BY <1>10, <3>1, Zenon DEF HasCol, comm
    <3> QED BY <3>2, <3>3, <3>4, <3>5
  <2>2. Axis(part) = "rows"
    BY <1>11 DEF Axis
  <2>3. Overlay(Collected(r, name, k).rows, Blocks(src, comm, v).rows) = Collected(r, name, k + 1).rows
    BY <1>9, <2>1 DEF Overlay, Blocks, Collected, v
  <2>4. Collected(r, name, k).cols = Collected(r, name, k + 1).cols
    BY <2>1 DEF Collected
  <2>5. Collected(r, name, k + 1) = [Collected(r, name, k) EXCEPT !["rows"] = Overlay(@, Blocks(src, comm, v).rows)]
    BY <2>3, <2>4 DEF Collected
  <2> QED BY <1>2, <1>7, <1>8, <2>2, <2>5
<1>12. CASE part = 4
  <2>1. ASSUME NEW i
        PROVE  /\ HasCol(r, name, k + 1, i) <=> HasCol(r, name, k, i) \/ i \in ColsIn(src, comm)
               /\ HasRow(r, name, k + 1, i) <=> HasRow(r, name, k, i)
    <3>1. part # 2
      BY <1>12
    <3>2. HasCol(r, name, k + 1, i) => HasCol(r, name, k, i) \/ i \in ColsIn(src, comm)
      BY <1>10, Zenon DEF HasCol, comm
    <3>3. HasCol(r, name, k, i) => HasCol(r, name, k + 1, i)
      BY <1>10, Zenon DEF HasCol, comm
    <3>4. i \in ColsIn(src, comm) => HasCol(r, name, k + 1, i)
      BY <1>2, <1>10, <1>12, Zenon DEF HasCol, comm
    <3>5. HasRow(r, name, k + 1, i) <=> HasRow(r, name, k, i)
      BY <1>10, <3>1, Zenon DEF HasRow, comm
    <3> QED BY <3>2, <3>3, <3>4, <3>5
  <2>2. Axis(part) = "cols"
    BY <1>12 DEF Axis
  <2>3. Overlay(Collected(r, name, k).cols, Blocks(src, comm, v).cols) = Collected(r, name, k + 1).cols
    BY <1>9, <2>1 DEF Overlay, Blocks, Collected, v
  <2>4. Collected(r, name, k).rows = Collected(r, name, k + 1).rows
    BY <2>1 DEF Collected
  <2>5. Collected(r, name, k + 1) = [Collected(r, name, k) EXCEPT !["cols"] = Overlay(@, Blocks(src, comm, v).cols)]
    BY <2>3, <2>4 DEF Collected
  <2> QED BY <1>2, <1>7, <1>8, <2>2, <2>5
<1> QED BY <1>4, <1>11, <1>12

\* What the root of a broadcast sends, and what the others make of it.
LEMMA BcastEffect ==
  ASSUME NEW r \in Ranks, NEW k \in Keys, NEW c, c = CallAt(r, k), c.kind = "bcast", c.part = "payload", c.peer # r
  PROVE  Expected(r, c.of, k + 1)
           = [Expected(r, c.of, k) EXCEPT ![c.axis] = Overlay(@, Message(c.peer, k).batch)]
<1> DEFINE root == c.peer
<1>1. root \in Members(r, c.comm) /\ root \in Ranks /\ CallAt(root, k) = c
  BY BcastMeets DEF AllMake
<1>2. Message(root, k).batch = Expected(root, c.of, k)[c.axis]
  BY <1>1, Zenon DEF Message
<1>3. ASSUME NEW p \in 1 .. 4, BundleSize(c, k, p) \/ BundlePayload(c, k, p)
      PROVE  Expected(r, c.of, k + 1) = [Expected(r, c.of, k) EXCEPT ![c.axis] = Overlay(@, Message(root, k).batch)]
  <2>1. BundlePayload(c, k, p)
    BY <1>3 DEF BundleSize, Call
  <2>2. k = 2 * p + 4 /\ root = kRootRank /\ c.of = Bundle[p] /\ c.axis = "rows"
    BY <2>1 DEF BundlePayload, Call
  <2> DEFINE R == [rows |-> [x \in {0} |-> <<Bundle[p]>>], cols |-> Empty.cols]
  <2>3. ~ (k <= p) /\ k <= 2 * p + 4 /\ ~ (k + 1 <= 2 * p + 4)
    BY <2>2
  <2>4. Expected(root, c.of, k) = R
    BY <2>2, <2>3, ExpectedIs DEF PartAt
  <2>5. Expected(r, c.of, k) = Empty /\ Expected(r, c.of, k + 1) = R
    BY <2>2, <2>3, ExpectedIs DEF PartAt
  <2>6. Overlay(Empty.rows, R.rows) = R.rows
    BY OverlayFacts
  <2>7. R = [Empty EXCEPT !["rows"] = Overlay(@, R.rows)]
    BY <2>6 DEF Empty
  <2> HIDE DEF R
  <2> QED BY <1>2, <2>2, <2>4, <2>5, <2>7
<1>4. ASSUME NEW name \in Scattered, \/ RowsSize(c, r, k, name) \/ RowsPayload(c, r, k, name)
                                     \/ ColsSize(c, r, k, name) \/ ColsPayload(c, r, k, name)
      PROVE  Expected(r, c.of, k + 1) = [Expected(r, c.of, k) EXCEPT ![c.axis] = Overlay(@, Message(root, k).batch)]
  <2>1. RowsPayload(c, r, k, name) \/ ColsPayload(c, r, k, name)
    BY <1>4 DEF RowsSize, ColsSize, Call
  <2>2. root = RootOf(r, name) /\ c.of = name /\ c.comm = CommOf(name)
    BY <2>1 DEF RowsPayload, ColsPayload, Call
  <2>3. RootOf(root, name) = root /\ ValueOf(root, name) = ValueOf(r, name)
    BY <1>1, <2>2, RootIsMember, ValuesAgree
  <2> DEFINE v == ValueOf(r, name)
  <2> HIDE DEF root, v
  <2>4. Begin(name) \in Nat /\ k \in Int
    BY Begins, WidthType
  <2>5. k > Begin(name) /\ k <= Begin(name) + 5 /\ k + 1 > Begin(name) /\ k + 1 <= Begin(name) + 5
    BY <2>1, <2>4 DEF RowsPayload, ColsPayload
  <2>6. Expected(root, name, k) = Full(v)
    <3>1. Halfway(root, name, k) = Full(v)
      BY <2>3 DEF Halfway, Full, v
    <3> QED BY <2>4, <2>5, <3>1, ScatterValues
  <2>7. Expected(r, name, k) = Halfway(r, name, k) /\ Expected(r, name, k + 1) = Halfway(r, name, k + 1)
    BY <2>4, <2>5, ScatterValues
  <2>8. r # RootOf(r, name)
    BY <2>2 DEF root
  <2>9. Overlay(Empty.rows, Full(v).rows) = Full(v).rows /\ Overlay(Empty.cols, Full(v).cols) = Full(v).cols
    BY OverlayFacts DEF Full
  <2>10. CASE RowsPayload(c, r, k, name)
    <3>1. k = Begin(name) + 2 /\ c.axis = "rows"
      BY <2>10 DEF RowsPayload, Call
    <3>2. ~ (k > Begin(name) + 2) /\ k + 1 > Begin(name) + 2 /\ ~ (k > Begin(name) + 4) /\ ~ (k + 1 > Begin(name) + 4)
      BY <2>4, <3>1
    <3>3. Halfway(r, name, k) = [rows |-> Empty.rows, cols |-> Empty.cols]
      BY <2>8, <3>2, Zenon DEF Halfway
    <3>4. Halfway(r, name, k + 1) = [rows |-> Full(v).rows, cols |-> Empty.cols]
      BY <2>8, <3>2, Zenon DEF Halfway, v
    <3>5. Halfway(r, name, k + 1) = [Halfway(r, name, k) EXCEPT !["rows"] = Overlay(@, Full(v).rows)]
      BY <2>9, <3>3, <3>4
    <3> QED BY <1>2, <2>2, <2>6, <2>7, <3>1, <3>5
  <2>11. CASE ColsPayload(c, r, k, name)
    <3>1. k = Begin(name) + 4 /\ c.axis = "cols"
      BY <2>11 DEF ColsPayload, Call
    <3>2. k > Begin(name) + 2 /\ k + 1 > Begin(name) + 2 /\ ~ (k > Begin(name) + 4) /\ k + 1 > Begin(name) + 4
      BY <2>4, <3>1
    <3>3. Halfway(r, name, k) = [rows |-> Full(v).rows, cols |-> Empty.cols]
      BY <2>8, <3>2, Zenon DEF Halfway, v
    <3>4. Halfway(r, name, k + 1) = [rows |-> Full(v).rows, cols |-> Full(v).cols]
      BY <2>8, <3>2, Zenon DEF Halfway, v
    <3>5. Halfway(r, name, k + 1) = [Halfway(r, name, k) EXCEPT !["cols"] = Overlay(@, Full(v).cols)]
      BY <2>9, <3>3, <3>4
    <3> QED BY <1>2, <2>2, <2>6, <2>7, <3>1, <3>5
  <2> QED BY <2>1, <2>10, <2>11
<1> QED BY <1>3, <1>4, CallsByKind

------------------------------------------------------------------------------
(* The multiplication, the types and the end.                              *)

\* The values of the matrices.
LEMMA ValueTypes ==
  /\ \A r : \A name \in Scattered \cup Gathered : ValueOf(r, name) \in Values \ {Null}
  /\ Product(0) = <<"A1", "B1">> /\ Product(1) = <<"A2", "B2">>
  /\ \A c : Product(c) \in Values \ {Null}
  /\ \A name \in Operands \cup Parts : <<name>> \in Values \ {Null}
  /\ Null \in Values
<1>1. \A name \in Operands \cup Parts : <<name>> \in Values \ {Null}
  <2>1. ASSUME NEW name PROVE <<name>> # Null
    BY DEF Null
  <2> QED BY <2>1 DEF Values
<1>2. \A c : Product(c) \in Values \ {Null}
  <2>1. <<"A1", "B1">> # Null /\ <<"A2", "B2">> # Null
    BY DEF Null
  <2> QED BY <2>1 DEF Product, Values
<1>3. Product(0) = <<"A1", "B1">> /\ Product(1) = <<"A2", "B2">>
  BY DEF Product
<1>4. /\ <<"A1">> \in Values \ {Null} /\ <<"B1">> \in Values \ {Null}
      /\ <<"A2">> \in Values \ {Null} /\ <<"B2">> \in Values \ {Null}
  BY <1>1 DEF Operands
<1>5. ASSUME NEW r, NEW name \in Scattered \cup Gathered PROVE ValueOf(r, name) \in Values \ {Null}
  <2>1. CASE name \in Operands
    BY <2>1, <1>1, Matrices
  <2>2. CASE name \in {"A1_full", "B1_full", "A2_full", "B2_full"}
    BY <2>2, <1>4, Matrices
  <2>3. CASE name \in {"A_local", "B_local"}
    BY <2>3, <1>4, Matrices
  <2>4. CASE name \in {"gathered", "result1", "result2", "decrypted"}
    BY <2>4, <1>2, Matrices
  <2> QED BY <2>1, <2>2, <2>3, <2>4 DEF Scattered, Gathered
<1>6. Null \in Values
  BY DEF Values
<1> QED BY <1>1, <1>2, <1>3, <1>5, <1>6

\* Whatever a rank is expected to hold is of its type.
LEMMA ExpectedTypes ==
  ASSUME NEW r \in Ranks, NEW name \in Names, NEW axis \in Axes, NEW k \in Int
  PROVE  IsBatch(Expected(r, name, k)[axis], IF name \in Gathered THEN Values ELSE Values \ {Null})
<1>1. axis = "rows" \/ axis = "cols"
  BY DEF Axes
<1>2. \A S : IsBatch(Empty[axis], S)
  BY <1>1 DEF IsBatch, Empty
<1>3. \A S : \A v \in S : IsBatch(Full(v)[axis], S)
  BY <1>1 DEF IsBatch, Full
<1>4. ASSUME NEW comm, NEW S, NEW v \in S PROVE IsBatch(Blocks(r, comm, v)[axis], S)
  <2>1. RowsIn(r, comm) \subseteq Slots /\ ColsIn(r, comm) \subseteq Slots
    BY CommTiles, MembersAre
  <2> QED BY <1>1, <2>1 DEF IsBatch, Blocks
<1>5. CASE name \in Scattered
  <2>1. name \notin Gathered /\ ValueOf(r, name) \in Values \ {Null}
    BY <1>5, NameCases, ValueTypes
  <2>2. IsBatch(Halfway(r, name, k)[axis], Values \ {Null})
    <3>1. Halfway(r, name, k)[axis] = Full(ValueOf(r, name))[axis] \/ Halfway(r, name, k)[axis] = Empty[axis]
      <4>1. Full(ValueOf(r, name))["rows"] = Full(ValueOf(r, name)).rows
        OBVIOUS
      <4> QED BY <1>1 DEF Halfway
    <3> QED BY <1>2, <1>3, <2>1, <3>1
  <2>3. \/ Expected(r, name, k) = Empty \/ Expected(r, name, k) = Halfway(r, name, k)
        \/ Expected(r, name, k) = Blocks(r, CommOf(name), ValueOf(r, name))
    <3>1. Begin(name) \in Nat
      BY <1>5, Begins
    <3>2. k <= Begin(name) \/ (k > Begin(name) /\ k <= Begin(name) + 5) \/ k > Begin(name) + 5
      BY <3>1
    <3> QED BY <1>5, <3>2, ScatterValues
  <2> QED BY <1>2, <1>4, <2>1, <2>2, <2>3
<1>6. CASE name \in Gathered
  <2>1. ValueOf(r, name) \in Values /\ Null \in Values
    BY <1>6, ValueTypes
  <2>2. IsBatch(Collected(r, name, k)[axis], Values)
    BY <1>1, <2>1 DEF IsBatch, Collected
  <2>3. Expected(r, name, k) = Empty \/ Expected(r, name, k) = Collected(r, name, k)
    BY <1>6, GatherValues
  <2> QED BY <1>2, <1>6, <2>2, <2>3
<1>7. CASE name = "local_result"
  <2>1. name \notin Gathered /\ Product(color(r)) \in Values \ {Null}
    BY <1>7, NameCases, ValueTypes
  <2>2. Expected(r, name, k) = Empty \/ Expected(r, name, k) = Blocks(r, "sub", Product(color(r)))
    BY <1>7, ExpectedIs
  <2> QED BY <1>2, <1>4, <2>1, <2>2
<1>8. CASE name = "encrypted"
  <2>1. name \notin Gathered
    BY <1>8, NameCases
  <2>2. \A m \in {"A1", "B1", "A2", "B2"} : <<m>> \in Values \ {Null}
    BY ValueTypes DEF Operands
  <2>3. Expected(r, name, k) = Empty \/ \E m \in {"A1", "B1", "A2", "B2"} : Expected(r, name, k) = Full(<<m>>)
    BY <1>8, ExpectedIs DEF EncryptedAt
  <2> QED BY <1>2, <1>3, <2>1, <2>2, <2>3
<1>9. ASSUME NEW p \in 1 .. 4, name = Bundle[p]
      PROVE  IsBatch(Expected(r, name, k)[axis], IF name \in Gathered THEN Values ELSE Values \ {Null})
  <2>1. name \notin Gathered /\ <<Bundle[p]>> \in Values \ {Null}
    BY <1>9, NameCases, NamesKnown, ValueTypes
  <2>2. 0 \in Slots
    BY DimensionAssumption DEF Slots
  <2> DEFINE R == [rows |-> [x \in {0} |-> <<Bundle[p]>>], cols |-> Empty.cols]
  <2>3. IsBatch(R[axis], Values \ {Null})
    BY <1>1, <1>2, <2>1, <2>2 DEF IsBatch, Empty
  <2>4. Expected(r, name, k) = Empty \/ Expected(r, name, k) = R
    BY <1>9, ExpectedIs DEF PartAt
  <2> HIDE DEF R
  <2> QED BY <1>2, <2>1, <2>3, <2>4
<1> QED BY <1>5, <1>6, <1>7, <1>8, <1>9, NameCases

\* When a rank comes to the multiplication it has the bundle and its operands.
LEMMA OperandsReady ==
  ASSUME NEW r \in Ranks, NEW k \in Int, k >= 12 * Width
  PROVE  /\ Expected(r, "A_local", k) = Blocks(r, "sub", ValueOf(r, "A_local"))
         /\ Expected(r, "B_local", k) = Blocks(r, "sub", ValueOf(r, "B_local"))
         /\ \A part \in Parts : Expected(r, part, k).rows = [x \in {0} |-> <<part>>]
<1>1. "A_local" \in Scattered /\ "B_local" \in Scattered
  BY DEF Scattered
<1>2. CommOf("A_local") = "sub" /\ CommOf("B_local") = "sub"
  BY Matrices
<1>3. k > Begin("A_local") + 5 /\ k > Begin("B_local") + 5
  BY BeginValues, WidthType
<1>4. ASSUME NEW part \in Parts PROVE Expected(r, part, k).rows = [x \in {0} |-> <<part>>]
  <2>1. part \in Names /\ part \notin Scattered \cup Gathered \cup {"local_result", "encrypted"}
    BY BundleParts, NamesKnown DEF Scattered, Gathered, Operands
  <2>2. PICK p \in 1 .. 4 : part = Bundle[p]
    BY <2>1, NameCases
  <2>3. ~ (k <= p) /\ ~ (k <= 2 * p + 4)
    BY WidthType
  <2> QED BY <2>2, <2>3, ExpectedIs DEF PartAt
<1> QED BY <1>1, <1>2, <1>3, <1>4, ScatterValues

\* A product of two matrices.
LEMMA TimesOf ==
  ASSUME NEW a, NEW b, NEW S, S # {}, a # Null, b # Null,
         NEW X, X = {a}, NEW Y, Y = {b}
  PROVE  Times(X, Y) = a \o b
<1>1. ~ (X = {Null}) /\ ~ (Y = {Null})
  OBVIOUS
<1>2. ~ \E Z \in {X, Y} : \A v \in Z : Z # {v}
  OBVIOUS
<1>3. (CHOOSE v \in X : TRUE) = a /\ (CHOOSE v \in Y : TRUE) = b
  OBVIOUS
<1> QED BY <1>1, <1>2, <1>3, Zenon DEF Times

\* The product of the operands that the members M of a grid hold, as in
\* MatMulOnGrid.
GridProduct(r, M, st) ==
  [rows |-> [i \in RowsIn(r, "sub") |->
               Times({st[s]["A_local"].rows[i] : s \in {t \in M : i \in RowsIn(t, "sub")}},
                     UNION {{st[s]["B_local"].cols[j] : j \in ColsIn(s, "sub")} : s \in {t \in M : i \in RowsIn(t, "sub")}})],
   cols |-> [j \in ColsIn(r, "sub") |->
               Times(UNION {{st[s]["A_local"].rows[i] : i \in RowsIn(s, "sub")} : s \in {t \in M : j \in ColsIn(t, "sub")}},
                     {st[s]["B_local"].cols[j] : s \in {t \in M : j \in ColsIn(t, "sub")}})]]

\* The members M hold their blocks of a and of b.
HoldOperands(M, st, a, b) ==
  \A s \in M : st[s]["A_local"] = Blocks(s, "sub", a) /\ st[s]["B_local"] = Blocks(s, "sub", b)

\* The grid multiplies the operands of its half.
LEMMA ProductOnGrid ==
  ASSUME NEW r \in Ranks, NEW M, M = Members(r, "sub"), NEW a, NEW b, a # Null, b # Null,
         NEW st, HoldOperands(M, st, a, b)
  PROVE  GridProduct(r, M, st) = Blocks(r, "sub", a \o b)
<1>1. 0 \in Slots
  BY DimensionAssumption DEF Slots
<1>2. r \in M /\ RowsIn(r, "sub") \subseteq Slots /\ ColsIn(r, "sub") \subseteq Slots
  BY CommTiles, MembersAre
<1>3. ASSUME NEW s \in M, NEW i \in RowsIn(s, "sub") PROVE st[s]["A_local"].rows[i] = a
  <2>1. st[s]["A_local"] = Blocks(s, "sub", a)
    BY DEF HoldOperands
  <2>2. Blocks(s, "sub", a).rows[i] = a
    BY DEF Blocks
  <2> QED BY <2>1, <2>2
<1>4. ASSUME NEW s \in M, NEW j \in ColsIn(s, "sub") PROVE st[s]["B_local"].cols[j] = b
  <2>1. st[s]["B_local"] = Blocks(s, "sub", b)
    BY DEF HoldOperands
  <2>2. Blocks(s, "sub", b).cols[j] = b
    BY DEF Blocks
  <2> QED BY <2>1, <2>2
<1>5. ASSUME NEW i \in RowsIn(r, "sub")
      PROVE  Times({st[s]["A_local"].rows[i] : s \in {t \in M : i \in RowsIn(t, "sub")}},
                   UNION {{st[s]["B_local"].cols[j] : j \in ColsIn(s, "sub")} : s \in {t \in M : i \in RowsIn(t, "sub")}}) = a \o b
  <2> DEFINE S == {t \in M : i \in RowsIn(t, "sub")}
             X == {st[s]["A_local"].rows[i] : s \in S}
             Y == UNION {{st[s]["B_local"].cols[j] : j \in ColsIn(s, "sub")} : s \in S}
  <2>1. PICK q \in M : i \in RowsIn(q, "sub") /\ 0 \in ColsIn(q, "sub")
    BY <1>1, <1>2, CommTiles
  <2>2. q \in S
    BY <2>1
  <2>3. X = {a}
    BY <1>3, <2>2
  <2>4. Y = {b}
    <3>1. b \in Y
      <4>1. st[q]["B_local"].cols[0] = b
        BY <1>4, <2>1
      <4>2. st[q]["B_local"].cols[0] \in {st[q]["B_local"].cols[j] : j \in ColsIn(q, "sub")}
        BY <2>1
      <4> QED BY <2>2, <4>1, <4>2
    <3>2. ASSUME NEW y \in Y PROVE y = b
      BY <1>4
    <3> HIDE DEF Y
    <3> QED BY <3>1, <3>2
  <2> HIDE DEF X, Y
  <2>5. Times(X, Y) = a \o b
    BY <2>2, <2>3, <2>4, TimesOf
  <2> QED BY <2>5 DEF X, Y
<1>6. ASSUME NEW j \in ColsIn(r, "sub")
      PROVE  Times(UNION {{st[s]["A_local"].rows[i] : i \in RowsIn(s, "sub")} : s \in {t \in M : j \in ColsIn(t, "sub")}},
                   {st[s]["B_local"].cols[j] : s \in {t \in M : j \in ColsIn(t, "sub")}}) = a \o b
  <2> DEFINE S == {t \in M : j \in ColsIn(t, "sub")}
             X == UNION {{st[s]["A_local"].rows[i] : i \in RowsIn(s, "sub")} : s \in S}
             Y == {st[s]["B_local"].cols[j] : s \in S}
  <2>1. PICK q \in M : 0 \in RowsIn(q, "sub") /\ j \in ColsIn(q, "sub")
    BY <1>1, <1>2, CommTiles
  <2>2. q \in S
    BY <2>1
  <2>3. Y = {b}
    BY <1>4, <2>2
  <2>4. X = {a}
    <3>1. a \in X
      <4>1. st[q]["A_local"].rows[0] = a
        BY <1>3, <2>1
      <4>2. st[q]["A_local"].rows[0] \in {st[q]["A_local"].rows[i] : i \in RowsIn(q, "sub")}
        BY <2>1
      <4> QED BY <2>2, <4>1, <4>2
    <3>2. ASSUME NEW x \in X PROVE x = a
      BY <1>3
    <3> HIDE DEF X
    <3> QED BY <3>1, <3>2
  <2> HIDE DEF X, Y
  <2>5. Times(X, Y) = a \o b
    BY <2>2, <2>3, <2>4, TimesOf
  <2> QED BY <2>5 DEF X, Y
<1> DEFINE R(i) == Times({st[s]["A_local"].rows[i] : s \in {t \in M : i \in RowsIn(t, "sub")}},
                         UNION {{st[s]["B_local"].cols[j] : j \in ColsIn(s, "sub")} : s \in {t \in M : i \in RowsIn(t, "sub")}})
           C(j) == Times(UNION {{st[s]["A_local"].rows[i] : i \in RowsIn(s, "sub")} : s \in {t \in M : j \in ColsIn(t, "sub")}},
                         {st[s]["B_local"].cols[j] : s \in {t \in M : j \in ColsIn(t, "sub")}})
<1>7. \A i \in RowsIn(r, "sub") : R(i) = a \o b
  BY <1>5
<1>8. \A j \in ColsIn(r, "sub") : C(j) = a \o b
  BY <1>6
<1> HIDE DEF R, C
<1>9. [rows |-> [i \in RowsIn(r, "sub") |-> R(i)], cols |-> [j \in ColsIn(r, "sub") |-> C(j)]]
         = Blocks(r, "sub", a \o b)
  BY <1>7, <1>8 DEF Blocks
<1> QED BY <1>9 DEF R, C, GridProduct

\* What a rank holds at the end.
LEMMA FinallyHolds ==
  ASSUME NEW r \in Ranks
  PROVE  /\ Expected(r, "result1", End) = Blocks(r, "grid", <<"A1", "B1">>)
         /\ Expected(r, "result2", End) = Blocks(r, "grid", <<"A2", "B2">>)
         /\ r = 0 => Expected(r, "decrypted", End) = [axis \in Axes |-> [i \in Slots |-> <<"A2", "B2">>]]
<1>1. "result1" \in Scattered /\ "result2" \in Scattered /\ "decrypted" \in Gathered
  BY DEF Scattered, Gathered
<1>2. /\ End > Begin("result1") + 5 /\ End > Begin("result2") + 5 /\ End >= Begin("decrypted") + Width /\ End \in Int
  BY BeginValues, WidthType
<1>3. /\ Expected(r, "result1", End) = Blocks(r, "grid", <<"A1", "B1">>)
      /\ Expected(r, "result2", End) = Blocks(r, "grid", <<"A2", "B2">>)
  BY <1>1, <1>2, ScatterValues, Matrices, ValueTypes
<1>4. ASSUME r = 0 PROVE Expected(r, "decrypted", End) = [axis \in Axes |-> [i \in Slots |-> <<"A2", "B2">>]]
  <2>1. r = RootOf(r, "decrypted") /\ ValueOf(r, "decrypted") = <<"A2", "B2">>
    BY <1>4, Matrices, ValueTypes
  <2>2. Expected(r, "decrypted", End) = Full(<<"A2", "B2">>)
    BY <1>1, <1>2, <2>1, GatherDone
  <2> QED BY <2>2 DEF Full, Axes
<1> QED BY <1>3, <1>4

------------------------------------------------------------------------------
(* The clocks of the ranks.                                                *)

\* The clock of a rank that is at call p of its script.
ClockOf(r, p) == IF p > Len(Script[r]) THEN End ELSE KeyAt[r][p]

\* The clock of a rank by its pc: a key, at which the rank makes its next call.
LEMMA ClockOfType ==
  ASSUME NEW r \in Ranks, NEW p \in 1 .. Len(Script[r]) + 1
  PROVE  /\ Len(Script[r]) \in Nat
         /\ ClockOf(r, p) \in 0 .. End /\ ClockOf(r, p) \in Nat /\ ClockOf(r, p) <= End
         /\ p > Len(Script[r]) => ClockOf(r, p) = End
         /\ ~ (p > Len(Script[r])) => /\ p \in 1 .. Len(Script[r]) /\ ClockOf(r, p) \in Keys
                                      /\ ClockOf(r, p) = KeyAt[r][p]
                                      /\ Script[r][p] = CallAt(r, ClockOf(r, p)) /\ Script[r][p].kind # "none"
<1>1. Len(Script[r]) \in Nat
  BY Keyed
<1>2. CASE p > Len(Script[r])
  <2>1. ClockOf(r, p) = End
    BY <1>2 DEF ClockOf
  <2> QED BY <1>1, <1>2, <2>1, WidthType
<1>3. CASE ~ (p > Len(Script[r]))
  <2>1. p \in 1 .. Len(Script[r])
    BY <1>1, <1>3
  <2>2. ClockOf(r, p) = KeyAt[r][p]
    BY <1>3 DEF ClockOf
  <2>3. KeyAt[r][p] \in Keys /\ Script[r][p] = CallAt(r, KeyAt[r][p]) /\ Script[r][p].kind # "none"
    BY <2>1, Keyed
  <2>4. ClockOf(r, p) \in 0 .. End /\ ClockOf(r, p) \in Nat /\ ClockOf(r, p) <= End
    BY <2>2, <2>3, WidthType
  <2> QED BY <1>1, <1>3, <2>1, <2>2, <2>3, <2>4
<1> QED BY <1>2, <1>3

\* The clock moves on to the key of the next call.
LEMMA ClockOfNext ==
  ASSUME NEW r \in Ranks, NEW p \in 1 .. Len(Script[r])
  PROVE  /\ ClockOf(r, p) < ClockOf(r, p + 1)
         /\ \A j \in Keys : CallAt(r, j).kind # "none" => (j < ClockOf(r, p + 1) <=> j <= ClockOf(r, p))
<1>1. Len(Script[r]) \in Nat /\ p \in Nat /\ p \in 1 .. Len(Script[r]) + 1 /\ p + 1 \in 1 .. Len(Script[r]) + 1
  BY Keyed
<1>2. ClockOf(r, p) = KeyAt[r][p] /\ ClockOf(r, p) \in Keys
  BY <1>1, ClockOfType
<1>3. CASE p = Len(Script[r])
  <2>1. ClockOf(r, p + 1) = End
    BY <1>1, <1>3 DEF ClockOf
  <2>2. ASSUME NEW j \in Keys, CallAt(r, j).kind # "none" PROVE j <= ClockOf(r, p)
    <3>1. PICK i \in 1 .. Len(Script[r]) : KeyAt[r][i] = j
      BY <2>2, Keyed DEF CallKeys
    <3>2. ~ (KeyAt[r][p] < KeyAt[r][i])
      <4>1. ~ (p < i)
        BY <1>1, <1>3
      <4> QED BY <4>1, Keyed
    <3> QED BY <1>2, <3>1, <3>2, WidthType
  <2> QED BY <1>2, <2>1, <2>2, WidthType
<1>4. CASE p # Len(Script[r])
  <2>1. p + 1 \in 1 .. Len(Script[r]) /\ ~ (p + 1 > Len(Script[r]))
    BY <1>1, <1>4
  <2>2. ClockOf(r, p + 1) = KeyAt[r][p + 1] /\ KeyAt[r][p + 1] \in Keys
    BY <1>1, <2>1, ClockOfType
  <2>3. KeyAt[r][p] < KeyAt[r][p + 1]
    BY <1>1, <2>1, Keyed
  <2>4. ASSUME NEW j \in Keys, CallAt(r, j).kind # "none" PROVE j < ClockOf(r, p + 1) <=> j <= ClockOf(r, p)
    <3>1. PICK i \in 1 .. Len(Script[r]) : KeyAt[r][i] = j
      BY <2>4, Keyed DEF CallKeys
    <3>2. KeyAt[r][i] < KeyAt[r][p + 1] <=> i < p + 1
      BY <2>1, Keyed
    <3>3. KeyAt[r][p] < KeyAt[r][i] <=> p < i
      BY Keyed
    <3>4. i < p + 1 <=> ~ (p < i)
      BY <1>1
    <3>5. j < ClockOf(r, p + 1) <=> i < p + 1
      BY <2>2, <3>1, <3>2
    <3>6. ClockOf(r, p) < j <=> p < i
      BY <1>2, <3>1, <3>3
    <3>7. j \in Nat /\ ClockOf(r, p) \in Nat
      BY <1>2, WidthType
    <3> QED BY <3>4, <3>5, <3>6, <3>7
  <2> QED BY <1>2, <2>2, <2>3, <2>4
<1> QED BY <1>3, <1>4

\* No call comes before the first.
LEMMA FirstClock ==
  ASSUME NEW r \in Ranks, NEW j \in Keys, CallAt(r, j).kind # "none"
  PROVE  ~ (j < ClockOf(r, 1))
<1>1. PICK i \in 1 .. Len(Script[r]) : KeyAt[r][i] = j
  BY Keyed DEF CallKeys
<1>2. Len(Script[r]) \in Nat /\ 1 \in 1 .. Len(Script[r]) /\ i \in Nat /\ i >= 1
  BY <1>1, Keyed
<1>3. ClockOf(r, 1) = KeyAt[r][1]
  BY <1>2 DEF ClockOf
<1>4. KeyAt[r][i] < KeyAt[r][1] <=> i < 1
  BY <1>2, Keyed
<1> QED BY <1>1, <1>2, <1>3, <1>4

\* The clock of a rank in a state.
LEMMA ClockIs ==
  ASSUME ShapeInv, NEW r \in Ranks
  PROVE  /\ Clock(r) = ClockOf(r, pc[r]) /\ Clock(r) \in 0 .. End /\ Clock(r) \in Nat
         /\ pc[r] \in 1 .. Len(Script[r]) + 1 /\ held[r] \in BOOLEAN
         /\ Done(r) => Clock(r) = End
         /\ ~ Done(r) => /\ pc[r] \in 1 .. Len(Script[r]) /\ Clock(r) \in Keys
                         /\ At(r) = CallAt(r, Clock(r)) /\ At(r).kind # "none"
<1>1. pc[r] \in 1 .. Len(Script[r]) + 1 /\ held[r] \in BOOLEAN
  BY DEF ShapeInv
<1>2. Clock(r) = ClockOf(r, pc[r])
  BY DEF Clock, ClockOf, Done
<1> QED BY <1>1, <1>2, ClockOfType DEF Done, At

\* What has been done stays so for the earlier calls.
LEMMA Earlier ==
  ASSUME ShapeInv, NEW r \in Ranks, NEW j \in Keys
  PROVE  /\ ~ held[r] => (Did(r, j) <=> j < Clock(r))
         /\ held[r] => (Did(r, j) <=> j <= Clock(r))
         /\ \A i \in Keys : i <= j /\ Did(r, j) => Did(r, i)
<1>1. Clock(r) \in Nat
  BY ClockIs
<1> QED BY <1>1, WidthType DEF Did, Left

------------------------------------------------------------------------------
(* The steps of the clocks.                                                *)

\* A rank that takes no part in a step.
Stays(r) == /\ Clock(r)' = Clock(r) /\ StoreTime(r)' = StoreTime(r)
            /\ held'[r] = held[r] /\ pc'[r] = pc[r]
            /\ \A j : (Did(r, j)' <=> Did(r, j)) /\ (Left(r, j)' <=> Left(r, j))

\* A rank whose pc and held stay has done and left what it had.
LEMMA StayStep ==
  ASSUME NEW r \in Ranks, pc'[r] = pc[r], held'[r] = held[r]
  PROVE  Stays(r)
<1>1. Clock(r)' = Clock(r)
  BY DEF Clock, Done
<1>2. StoreTime(r)' = StoreTime(r)
  BY <1>1 DEF StoreTime, At
<1>3. ASSUME NEW j PROVE (Did(r, j)' <=> Did(r, j)) /\ (Left(r, j)' <=> Left(r, j))
  BY <1>1 DEF Did, Left
<1> QED BY <1>1, <1>2, <1>3 DEF Stays

\* A rank makes the call it is at, and returns from it or is held in it.
Does(r) == /\ ~ Done(r) /\ ~ held[r]
           /\ \/ pc'[r] = pc[r] + 1 /\ held'[r] = FALSE
              \/ pc'[r] = pc[r] /\ held'[r] = TRUE

\* A rank returns from the call it is held in.
Leaves(r) == ~ Done(r) /\ held[r] /\ pc'[r] = pc[r] + 1 /\ held'[r] = FALSE

\* After a step of rank r at key k: what it has done, what it holds.
After(r, k) ==
  /\ \A j \in Keys : CallAt(r, j).kind # "none" => (Did(r, j)' <=> j <= k)
  /\ \A j \in Keys : CallAt(r, j).kind # "none" /\ j # k => (Left(r, j)' <=> Left(r, j))
  /\ held'[r] => ~ Done(r)' /\ At(r)' = CallAt(r, k)
  /\ held'[r] \in BOOLEAN
  /\ pc'[r] \in Nat /\ pc'[r] \in 1 .. Len(Script[r]) + 1
  /\ ~ held'[r] => StoreTime(r)' = Clock(r)'
  /\ held'[r] => StoreTime(r)' = (IF CallAt(r, k).kind # "matmul" THEN k + 1 ELSE k)
  /\ ~ held'[r] => \A name \in Names : Expected(r, name, Clock(r)') = Expected(r, name, k + 1)

\* A rank that returns from its call leaves that key and no other.
LEMMA ReturnStep ==
  ASSUME ShapeInv, NEW r \in Ranks, ~ Done(r), pc'[r] = pc[r] + 1, held'[r] = FALSE,
         NEW k, k = Clock(r)
  PROVE  After(r, k) /\ Left(r, k)'
<1> DEFINE m == ClockOf(r, pc[r] + 1)
<1>1. /\ k = ClockOf(r, pc[r]) /\ k \in Keys /\ k \in Nat /\ pc[r] \in 1 .. Len(Script[r]) /\ Len(Script[r]) \in Nat
      /\ CallAt(r, k).kind # "none"
  BY ClockIs, Keyed, WidthType
<1>2. pc'[r] \in Nat /\ pc'[r] \in 1 .. Len(Script[r]) + 1
  BY <1>1
<1>3. Clock(r)' = m
  BY DEF Clock, ClockOf, Done
<1>4. /\ k < m /\ \A j \in Keys : CallAt(r, j).kind # "none" => (j < m <=> j <= k)
  BY <1>1, ClockOfNext
<1>5. m \in Nat /\ m <= End
  BY <1>1, <1>2, ClockOfType
<1>6. \A j : Left(r, j)' <=> j < m
  BY <1>3 DEF Left
<1>7. \A j : Did(r, j)' <=> j < m
  BY <1>6 DEF Did
<1>8. \A j \in Keys : CallAt(r, j).kind # "none" /\ j # k => (Left(r, j)' <=> Left(r, j))
  <2>1. \A j \in Keys : j # k => (j <= k <=> j < k)
    BY <1>1, WidthType
  <2> QED BY <1>4, <1>6, <2>1 DEF Left
<1>9. ASSUME NEW name \in Names PROVE Expected(r, name, m) = Expected(r, name, k + 1)
  <2>1. \A j \in k + 1 .. m - 1 : CallAt(r, j).kind = "none"
    <3> TAKE j \in k + 1 .. m - 1
    <3>1. j \in Keys /\ j < m /\ ~ (j <= k)
      BY <1>1, <1>5, WidthType
    <3> QED BY <1>4, <3>1
  <2>2. k + 1 \in Nat /\ k + 1 <= m
    BY <1>1, <1>4, <1>5
  <2> QED BY <1>5, <2>1, <2>2, NothingChanges
<1>10. StoreTime(r)' = Clock(r)'
  BY DEF StoreTime
<1> HIDE DEF m
<1>11. After(r, k)
  BY <1>2, <1>3, <1>4, <1>7, <1>8, <1>9, <1>10 DEF After
<1>12. Left(r, k)'
  BY <1>1, <1>4, <1>6
<1> QED BY <1>11, <1>12

\* A rank that is held in its call has not left it.
LEMMA HoldStep ==
  ASSUME ShapeInv, NEW r \in Ranks, ~ Done(r), pc'[r] = pc[r], held'[r] = TRUE,
         NEW k, k = Clock(r)
  PROVE  After(r, k) /\ ~ Left(r, k)'
<1>1. k \in Keys /\ k \in Nat /\ pc[r] \in 1 .. Len(Script[r]) + 1 /\ Len(Script[r]) \in Nat /\ At(r) = CallAt(r, k)
  BY ClockIs, Keyed
<1>2. pc'[r] \in Nat /\ pc'[r] \in 1 .. Len(Script[r]) + 1
  BY <1>1
<1>3. Clock(r)' = k /\ ~ Done(r)' /\ At(r)' = CallAt(r, k)
  BY <1>1 DEF Clock, Done, At
<1>4. \A j : Left(r, j)' <=> Left(r, j)
  BY <1>3 DEF Left
<1>5. ASSUME NEW j \in Keys PROVE Did(r, j)' <=> j <= k
  <2>1. Did(r, j)' <=> (j < k \/ j = k)
    BY <1>3 DEF Did, Left
  <2> QED BY <1>1, <2>1, WidthType
<1>6. StoreTime(r)' = (IF CallAt(r, k).kind # "matmul" THEN k + 1 ELSE k)
  BY <1>3 DEF StoreTime
<1>7. ~ Left(r, k)'
  BY <1>1, <1>3 DEF Left
<1>8. After(r, k)
  BY <1>2, <1>3, <1>4, <1>5, <1>6 DEF After
<1> QED BY <1>7, <1>8

\* A call that has its effect does so at the rank's clock, once.
LEMMA DoesStep ==
  ASSUME ShapeInv, NEW r \in Ranks, Does(r), NEW k, k = Clock(r)
  PROVE  /\ k \in Keys /\ k \in Nat /\ At(r) = CallAt(r, k) /\ After(r, k)
         /\ \A j \in Keys : Did(r, j) <=> j < k
         /\ \A j \in Keys : CallAt(r, j).kind # "none" => (Did(r, j)' <=> Did(r, j) \/ j = k)
         /\ ~ Did(r, k) /\ Did(r, k)' /\ StoreTime(r) = k
         /\ Left(r, k)' <=> ~ held'[r]
<1>1. k \in Keys /\ k \in Nat /\ At(r) = CallAt(r, k) /\ At(r).kind # "none"
  BY ClockIs DEF Does
<1>2. After(r, k) /\ (Left(r, k)' <=> ~ held'[r])
  BY ReturnStep, HoldStep DEF Does
<1>3. \A j \in Keys : Did(r, j) <=> j < k
  BY Earlier DEF Does
<1>4. \A j \in Keys : CallAt(r, j).kind # "none" => (Did(r, j)' <=> Did(r, j) \/ j = k)
  <2>1. \A j \in Keys : j <= k <=> j < k \/ j = k
    BY <1>1, WidthType
  <2> QED BY <1>2, <1>3, <2>1 DEF After
<1>5. StoreTime(r) = k
  BY DEF StoreTime, Does
<1>6. ~ (k < k)
  BY <1>1
<1> QED BY <1>1, <1>2, <1>3, <1>4, <1>5, <1>6

\* A call that returns after it had its effect does nothing again.
LEMMA LeavesStep ==
  ASSUME ShapeInv, NEW r \in Ranks, Leaves(r), NEW k, k = Clock(r)
  PROVE  /\ k \in Keys /\ k \in Nat /\ At(r) = CallAt(r, k) /\ After(r, k)
         /\ \A j \in Keys : Did(r, j) <=> j <= k
         /\ \A j \in Keys : CallAt(r, j).kind # "none" => (Did(r, j)' <=> Did(r, j))
         /\ StoreTime(r) = (IF CallAt(r, k).kind # "matmul" THEN k + 1 ELSE k)
<1>1. k \in Keys /\ k \in Nat /\ At(r) = CallAt(r, k)
  BY ClockIs DEF Leaves
<1>2. After(r, k)
  BY ReturnStep DEF Leaves
<1>3. \A j \in Keys : Did(r, j) <=> j <= k
  BY Earlier DEF Leaves
<1>4. StoreTime(r) = (IF CallAt(r, k).kind # "matmul" THEN k + 1 ELSE k)
  BY <1>1 DEF StoreTime, Leaves
<1> QED BY <1>1, <1>2, <1>3, <1>4 DEF After

------------------------------------------------------------------------------
(* What a step that leaves something alone preserves.                      *)

\* What a channel and a queue of broadcasts should list.
ChanFun(c, s, d) == [k \in InChannel(c, s, d) |-> [eager |-> Left(s, k), load |-> Message(s, k)]]
BcastFun(c, r)   == [k \in InBroadcast(c, r) |-> Message(CallAt(r, k).peer, k)]

\* Key j of rank r is not touched.
Untouched(r, j) == (Did(r, j)' <=> Did(r, j)) /\ (Left(r, j)' <=> Left(r, j))

\* The keys are numbers, and index what the channels list.
LEMMA KeysAreInts == Keys \subseteq Int /\ \A c, s, d : InChannel(c, s, d) \subseteq Int /\ InBroadcast(c, s) \subseteq Int
                     /\ DOMAIN ChanFun(c, s, d) = InChannel(c, s, d) /\ DOMAIN BcastFun(c, s) = InBroadcast(c, s)
<1>1. Keys \subseteq Int
  BY DEF Keys
<1>2. ASSUME NEW c, NEW s, NEW d
      PROVE  /\ InChannel(c, s, d) \subseteq Int /\ InBroadcast(c, s) \subseteq Int
             /\ DOMAIN ChanFun(c, s, d) = InChannel(c, s, d) /\ DOMAIN BcastFun(c, s) = InBroadcast(c, s)
  <2>1. InChannel(c, s, d) \subseteq Keys /\ InBroadcast(c, s) \subseteq Keys
    BY DEF InChannel, InBroadcast
  <2> QED BY <1>1, <2>1 DEF ChanFun, BcastFun
<1> QED BY <1>1, <1>2

\* ChannelInv and BroadcastInv, by what the channels list.
LEMMA Channels ==
  /\ ChannelInv <=> \A c \in Comms, s \in Ranks, d \in Ranks : Listing(chan[c][s][d], ChanFun(c, s, d))
  /\ BroadcastInv <=> \A c \in Comms, r \in Ranks : Listing(coll[c][r], BcastFun(c, r))
  /\ ChannelInv' <=> \A c \in Comms, s \in Ranks, d \in Ranks : Listing(chan'[c][s][d], ChanFun(c, s, d)')
  /\ BroadcastInv' <=> \A c \in Comms, r \in Ranks : Listing(coll'[c][r], BcastFun(c, r)')
  BY DEF ChannelInv, BroadcastInv, ChanFun, BcastFun

\* A channel that nobody uses.
LEMMA ChannelKept ==
  ASSUME NEW c \in Comms, NEW s \in Ranks, NEW d \in Ranks, Listing(chan[c][s][d], ChanFun(c, s, d)),
         chan'[c][s][d] = chan[c][s][d],
         \A j \in Keys : CallAt(s, j).kind = "send" /\ CallAt(s, j).comm = c /\ CallAt(s, j).peer = d
                           => Untouched(s, j) /\ Untouched(d, j)
  PROVE  Listing(chan'[c][s][d], ChanFun(c, s, d)')
<1>1. InChannel(c, s, d)' = InChannel(c, s, d)
  <2>1. ASSUME NEW j \in Keys, CallAt(s, j).kind = "send", CallAt(s, j).comm = c, CallAt(s, j).peer = d
        PROVE  (Did(s, j)' /\ ~ Did(d, j)') <=> (Did(s, j) /\ ~ Did(d, j))
    BY <2>1 DEF Untouched
  <2> QED BY <2>1 DEF InChannel
<1>2. \A j \in InChannel(c, s, d) : Left(s, j)' <=> Left(s, j)
  BY DEF InChannel, Untouched
<1>3. \A j : Left(s, j) \in BOOLEAN /\ Left(s, j)' \in BOOLEAN
  BY DEF Left
<1>4. ChanFun(c, s, d)' = ChanFun(c, s, d)
  <2>1. \A j \in InChannel(c, s, d) : Left(s, j)' = Left(s, j)
    BY <1>2, <1>3
  <2>2. ChanFun(c, s, d)' = [j \in InChannel(c, s, d) |-> [eager |-> Left(s, j)', load |-> Message(s, j)]]
    BY <1>1 DEF ChanFun
  <2>3. [j \in InChannel(c, s, d) |-> [eager |-> Left(s, j)', load |-> Message(s, j)]]
          = [j \in InChannel(c, s, d) |-> [eager |-> Left(s, j), load |-> Message(s, j)]]
    BY <2>1, Zenon
  <2> QED BY <2>2, <2>3 DEF ChanFun
<1> QED BY <1>4

\* A step that sends and receives nothing keeps the channels.
LEMMA ChannelsKept ==
  ASSUME ChannelInv, chan' = chan,
         \A s \in Ranks, j \in Keys : CallAt(s, j).kind \in {"send", "recv"} => Untouched(s, j)
  PROVE  ChannelInv'
<1>1. ASSUME NEW c \in Comms, NEW s \in Ranks, NEW d \in Ranks
      PROVE  Listing(chan'[c][s][d], ChanFun(c, s, d)')
  <2>1. ASSUME NEW j \in Keys, CallAt(s, j).kind = "send", CallAt(s, j).peer = d
        PROVE  Untouched(s, j) /\ Untouched(d, j)
    <3>1. CallAt(d, j).kind = "recv"
      BY <2>1, SendMeets DEF Meets
    <3> QED BY <2>1, <3>1
  <2> QED BY <2>1, Channels, ChannelKept
<1> QED BY <1>1, Channels

\* A queue of broadcasts that nobody uses.
LEMMA BroadcastKept ==
  ASSUME NEW c \in Comms, NEW r \in Ranks, Listing(coll[c][r], BcastFun(c, r)), coll'[c][r] = coll[c][r],
         \A j \in Keys : CallAt(r, j).kind = "bcast" /\ CallAt(r, j).comm = c /\ CallAt(r, j).peer # r
                           => (Did(r, j)' <=> Did(r, j)) /\ (Did(CallAt(r, j).peer, j)' <=> Did(CallAt(r, j).peer, j))
  PROVE  Listing(coll'[c][r], BcastFun(c, r)')
<1>1. InBroadcast(c, r)' = InBroadcast(c, r)
  BY DEF InBroadcast
<1>2. BcastFun(c, r)' = BcastFun(c, r)
  BY <1>1 DEF BcastFun
<1> QED BY <1>2

\* A step without a broadcast keeps the queues of broadcasts.
LEMMA BroadcastsKept ==
  ASSUME BroadcastInv, coll' = coll,
         \A s \in Ranks, j \in Keys : CallAt(s, j).kind = "bcast" => (Did(s, j)' <=> Did(s, j))
  PROVE  BroadcastInv'
<1>1. ASSUME NEW c \in Comms, NEW r \in Ranks
      PROVE  Listing(coll'[c][r], BcastFun(c, r)')
  <2>1. ASSUME NEW j \in Keys, CallAt(r, j).kind = "bcast"
        PROVE  (Did(r, j)' <=> Did(r, j)) /\ (Did(CallAt(r, j).peer, j)' <=> Did(CallAt(r, j).peer, j))
    <3> DEFINE q == CallAt(r, j).peer
    <3>1. q \in Ranks /\ CallAt(q, j).kind = "bcast"
      BY <2>1, BcastMeets DEF AllMake
    <3> HIDE DEF q
    <3>2. Did(q, j)' <=> Did(q, j)
      BY <3>1
    <3> QED BY <2>1, <3>2 DEF q
  <2> QED BY <2>1, Channels, BroadcastKept
<1> QED BY <1>1, Channels

\* What was done stays done, and what is done now has been sent.
LEMMA CausalStep ==
  ASSUME CausalInv,
         \A s \in Ranks, j \in Keys : CallAt(s, j).kind \in {"send", "recv", "bcast"} /\ Did(s, j) => Did(s, j)',
         \A s \in Ranks, j \in Keys : CallAt(s, j).kind \in {"recv", "bcast"} /\ Did(s, j)' /\ ~ Did(s, j)
                                        => Did(CallAt(s, j).peer, j)'
  PROVE  CausalInv'
<1>1. ASSUME NEW s \in Ranks, NEW j \in Keys, CallAt(s, j).kind \in {"recv", "bcast"}, Did(s, j)'
      PROVE  Did(CallAt(s, j).peer, j)'
  <2>1. CASE Did(s, j)
    <3> DEFINE q == CallAt(s, j).peer
    <3>1. Did(q, j)
      BY <1>1, <2>1 DEF CausalInv
    <3>2. q \in Ranks /\ CallAt(q, j).kind \in {"send", "recv", "bcast"}
      BY <1>1, RecvMeets, BcastMeets DEF Meets, AllMake
    <3> HIDE DEF q
    <3>3. Did(q, j)'
      BY <3>1, <3>2
    <3> QED BY <3>3 DEF q
  <2> QED BY <1>1, <2>1
<1> QED BY <1>1 DEF CausalInv

\* The collectives that a rank has entered.
LEMMA KeysAreFinite == \A r : IsFiniteSet(SubKeys(r)) /\ \A S : S \subseteq SubKeys(r) => IsFiniteSet(S)
<1>1. IsFiniteSet(Keys)
  BY WidthType, FS_Interval DEF Keys
<1>2. ASSUME NEW r PROVE IsFiniteSet(SubKeys(r)) /\ \A S : S \subseteq SubKeys(r) => IsFiniteSet(S)
  <2>1. SubKeys(r) \subseteq Keys
    BY DEF SubKeys
  <2>2. \A S : S \subseteq SubKeys(r) => S \subseteq Keys
    BY <2>1
  <2> QED BY <1>1, <2>1, <2>2, FS_Subset
<1> QED BY <1>2

\* A rank that enters no collective keeps its count.
LEMMA EnteredKept ==
  ASSUME NEW r \in Ranks, entered[r]["sub"] = Cardinality({j \in SubKeys(r) : Did(r, j)}),
         entered'[r]["sub"] = entered[r]["sub"],
         \A j \in SubKeys(r) : Did(r, j)' <=> Did(r, j)
  PROVE  entered'[r]["sub"] = Cardinality({j \in SubKeys(r) : Did(r, j)'})
<1>1. {j \in SubKeys(r) : Did(r, j)'} = {j \in SubKeys(r) : Did(r, j)}
  OBVIOUS
<1> QED BY <1>1

\* A rank that enters a collective counts one more.
LEMMA EnteredGrows ==
  ASSUME NEW r \in Ranks, entered[r]["sub"] = Cardinality({j \in SubKeys(r) : Did(r, j)}),
         entered'[r]["sub"] = entered[r]["sub"] + 1,
         NEW k \in SubKeys(r), ~ Did(r, k),
         \A j \in SubKeys(r) : Did(r, j)' <=> Did(r, j) \/ j = k
  PROVE  entered'[r]["sub"] = Cardinality({j \in SubKeys(r) : Did(r, j)'})
<1> DEFINE S == {j \in SubKeys(r) : Did(r, j)}
<1>1. {j \in SubKeys(r) : Did(r, j)'} = S \cup {k}
  OBVIOUS
<1>2. IsFiniteSet(S) /\ k \notin S
  BY KeysAreFinite
<1>3. Cardinality(S \cup {k}) = Cardinality(S) + 1
  BY <1>2, FS_AddElement
<1> QED BY <1>1, <1>3

\* A rank that takes no part in a step keeps its store.
LEMMA StoreKept ==
  ASSUME NEW s \in Ranks, \A name \in Names : store[s][name] = Expected(s, name, StoreTime(s)),
         Stays(s), store'[s] = store[s], NEW name \in Names
  PROVE  store'[s][name] = Expected(s, name, StoreTime(s)')
  BY DEF Stays

\* A rank whose store is as its call leaves it.
LEMMA StoreStep ==
  ASSUME NEW r \in Ranks, NEW k, After(r, k),
         held'[r] => CallAt(r, k).kind # "matmul",
         \A name \in Names : store'[r][name] = Expected(r, name, k + 1), NEW name \in Names
  PROVE  store'[r][name] = Expected(r, name, StoreTime(r)')
<1>1. CASE held'[r]
  <2>1. StoreTime(r)' = k + 1
    BY <1>1 DEF After
  <2> QED BY <2>1
<1>2. CASE ~ held'[r]
  <2>1. StoreTime(r)' = Clock(r)' /\ Expected(r, name, Clock(r)') = Expected(r, name, k + 1)
    BY <1>2 DEF After
  <2> QED BY <2>1
<1> QED BY <1>1, <1>2

\* A call that stores nothing.
LEMMA NothingStored ==
  ASSUME NEW r \in Ranks, NEW k \in Nat,
         \A name \in Names : ~ Stores(CallAt(r, k), r, name), NEW name \in Names
  PROVE  Expected(r, name, k + 1) = Expected(r, name, k)
  BY Changes

\* A call that stores one matrix.
LEMMA OneStored ==
  ASSUME NEW r \in Ranks, NEW k \in Nat, NEW c, c = CallAt(r, k), c.kind # "matmul",
         NEW name \in Names, name # c.of
  PROVE  Expected(r, name, k + 1) = Expected(r, name, k)
<1>1. ~ Stores(c, r, name)
  BY DEF Stores
<1> QED BY <1>1, Changes

------------------------------------------------------------------------------
(* The invariant is kept by every step: one lemma for each action.         *)

\* A rank that stays is held where it was.
LEMMA HeldKept ==
  ASSUME HeldInv, NEW s \in Ranks, Stays(s)
  PROVE  held'[s] => ~ Done(s)' /\ (At(s)'.kind = "send" \/ IsCollective(At(s)'))
<1>1. pc'[s] = pc[s] /\ held'[s] = held[s]
  BY DEF Stays
<1>2. Done(s)' <=> Done(s)
  BY <1>1 DEF Done
<1>3. At(s)' = At(s)
  BY <1>1 DEF At
<1> QED BY <1>1, <1>2, <1>3 DEF HeldInv

\* A rank is held only in a call that can hold it.
LEMMA HeldNow ==
  ASSUME NEW r \in Ranks, NEW k, After(r, k), CallAt(r, k).kind \in {"send", "split", "bcast", "matmul"}
  PROVE  held'[r] => ~ Done(r)' /\ (At(r)'.kind = "send" \/ IsCollective(At(r)'))
<1>1. CallAt(r, k).kind = "send" \/ IsCollective(CallAt(r, k))
  BY DEF IsCollective
<1> QED BY <1>1 DEF After

\* A step in which only rank r moves.
LEMMA PcStep ==
  ASSUME ShapeInv, NEW r \in Ranks, pc' = [pc EXCEPT ![r] = @ + 1], held' = held, ~ Done(r), ~ held[r]
  PROVE  /\ Does(r) /\ ~ held'[r]
         /\ \A s \in Ranks \ {r} : Stays(s)
         /\ pc' \in [Ranks -> Nat] /\ held' \in [Ranks -> BOOLEAN]
<1>1. pc'[r] = pc[r] + 1 /\ held'[r] = FALSE
  BY DEF ShapeInv
<1>2. \A s \in Ranks \ {r} : pc'[s] = pc[s] /\ held'[s] = held[s]
  BY DEF ShapeInv
<1>3. pc' \in [Ranks -> Nat] /\ held' \in [Ranks -> BOOLEAN]
  BY DEF ShapeInv
<1> QED BY <1>1, <1>2, <1>3, StayStep DEF Does

\* Together.
LEMMA Together ==
  ASSUME NEW r \in Ranks, \A s \in Ranks \ {r} : Stays(s), ShapeInv, HeldInv,
         NEW k, After(r, k), held'[r] => CallAt(r, k).kind \in {"send", "split", "bcast", "matmul"},
         pc' \in [Ranks -> Nat], held' \in [Ranks -> BOOLEAN]
  PROVE  /\ \A s \in Ranks : pc'[s] \in 1 .. Len(Script[s]) + 1
         /\ HeldInv'
<1>1. ASSUME NEW s \in Ranks PROVE pc'[s] \in 1 .. Len(Script[s]) + 1
  <2>1. CASE s = r
    BY <2>1 DEF After
  <2>2. CASE s # r
    BY <2>2 DEF Stays, ShapeInv
  <2> QED BY <2>1, <2>2
<1>2. ASSUME NEW s \in Ranks PROVE held'[s] => ~ Done(s)' /\ (At(s)'.kind = "send" \/ IsCollective(At(s)'))
  <2>1. CASE s = r
    BY <2>1, HeldNow
  <2>2. CASE s # r
    BY <2>2, HeldKept
  <2> QED BY <2>1, <2>2
<1> QED BY <1>1, <1>2 DEF HeldInv

\* A local step keeps the invariant: it stores what was expected.
LEMMA LocalWorkKeeps ==
  ASSUME IInv, NEW r \in Ranks, LocalWork(r)
  PROVE  IInv'
<1> DEFINE c    == At(r)
           k    == Clock(r)
           from == store[r][c.part]
           V    == CASE c.kind = "serialize" -> [rows |-> [x \in {0} |-> <<c.part>>], cols |-> Empty.cols]
                     [] c.kind = "encrypt"   -> [axis \in Axes |-> [i \in Slots |-> <<c.part>>]]
                     [] c.kind = "alloc" -> Unfilled
                     [] c.kind = "own"   -> [rows |-> Overlay(Unfilled.rows, from.rows),
                                             cols |-> Overlay(Unfilled.cols, from.cols)]
                     [] c.kind = "full"  -> IF c.peer = r THEN from ELSE Empty
                     [] c.kind = "slice" -> [rows |-> [i \in RowsIn(r, c.comm) |-> from.rows[i]],
                                             cols |-> [j \in ColsIn(r, c.comm) |-> from.cols[j]]]
<1> USE DEF IInv
<1>1. /\ ~ Done(r) /\ ~ held[r] /\ c.kind \in {"serialize", "encrypt", "alloc", "own", "full", "slice"}
      /\ pc' = [pc EXCEPT ![r] = @ + 1] /\ held' = held
      /\ entered' = entered /\ chan' = chan /\ coll' = coll /\ failed' = failed
  BY DEF LocalWork, Makes
<1>2. store' = [store EXCEPT ![r][c.of] = V]
  BY DEF LocalWork
<1>3. Does(r) /\ ~ held'[r] /\ \A s \in Ranks \ {r} : Stays(s)
  BY <1>1, PcStep
<1>4. pc' \in [Ranks -> Nat] /\ held' \in [Ranks -> BOOLEAN]
  BY <1>1, PcStep
<1> HIDE DEF k
<1>5. /\ k \in Keys /\ k \in Nat /\ c = CallAt(r, k) /\ After(r, k) /\ StoreTime(r) = k
      /\ \A j \in Keys : CallAt(r, j).kind # "none" => (Did(r, j)' <=> Did(r, j) \/ j = k)
  BY <1>3, DoesStep DEF k
<1> HIDE DEF c, V
<1>6. HeldInv' /\ \A s \in Ranks : pc'[s] \in 1 .. Len(Script[s]) + 1
  BY <1>3, <1>4, <1>5, Together
<1>7. ASSUME NEW s \in Ranks, NEW j \in Keys, CallAt(s, j).kind \in {"send", "recv", "split", "bcast", "matmul"}
      PROVE  Untouched(s, j)
  <2>1. CASE s # r
    BY <1>3, <2>1 DEF Stays, Untouched
  <2>2. CASE s = r
    <3>1. CallAt(r, j).kind # "none" /\ j # k
      BY <1>1, <1>5, <1>7, <2>2
    <3> QED BY <1>5, <2>2, <3>1 DEF After, Untouched
  <2> QED BY <2>1, <2>2
<1>8. ChannelInv' /\ BroadcastInv'
  BY <1>1, <1>7, ChannelsKept, BroadcastsKept DEF Untouched
<1>9. CausalInv'
  BY <1>7, CausalStep DEF Untouched
<1>10. EnteredInv'
  <2>1. ASSUME NEW s \in Ranks PROVE entered'[s]["sub"] = Cardinality({j \in SubKeys(s) : Did(s, j)'})
    <3>1. \A j \in SubKeys(s) : Did(s, j)' <=> Did(s, j)
      BY <1>7 DEF SubKeys, IsCollective, Untouched
    <3> QED BY <1>1, <3>1, EnteredKept DEF EnteredInv
  <2> QED BY <2>1 DEF EnteredInv
<1>11. c.of \in Names /\ V = Expected(r, c.of, k + 1)
  <2>1. \A name \in Names : store[r][name] = Expected(r, name, k)
    BY <1>5 DEF StoreInv
  <2>2. CASE c.kind = "serialize"
    BY <1>5, <2>2, SerializeEffect DEF V
  <2>3. CASE c.kind = "encrypt"
    <3>1. V = [axis \in Axes |-> [i \in Slots |-> <<c.part>>]]
      BY <2>3 DEF V
    <3>2. c.of \in Names /\ Expected(r, c.of, k + 1) = Full(<<c.part>>)
      BY <1>5, <2>3, EncryptEffect
    <3>3. Full(<<c.part>>) = [axis \in Axes |-> [i \in Slots |-> <<c.part>>]]
      BY DEF Full, Axes
    <3> QED BY <3>1, <3>2, <3>3
  <2>4. CASE c.kind = "own"
    <3>1. c.part \in Names
      BY <1>5, <2>4, OwnEffect
    <3>2. from = Expected(r, c.part, k)
      BY <2>1, <3>1
    <3>3. V = [rows |-> Overlay(Unfilled.rows, from.rows), cols |-> Overlay(Unfilled.cols, from.cols)]
      BY <2>4 DEF V
    <3> HIDE DEF from
    <3> QED BY <1>5, <2>4, <3>2, <3>3, OwnEffect
  <2>5. CASE c.kind = "full"
    <3>1. c.part \in Names
      BY <1>5, <2>5, FullEffect
    <3>2. from = Expected(r, c.part, k)
      BY <2>1, <3>1
    <3>3. V = IF c.peer = r THEN from ELSE Empty
      BY <2>5 DEF V
    <3> HIDE DEF from
    <3> QED BY <1>5, <2>5, <3>2, <3>3, FullEffect
  <2>6. CASE c.kind = "slice"
    <3>1. c.part \in Names
      BY <1>5, <2>6, SliceEffect
    <3>2. from = Expected(r, c.part, k)
      BY <2>1, <3>1
    <3>3. V = [rows |-> [i \in RowsIn(r, c.comm) |-> from.rows[i]], cols |-> [j \in ColsIn(r, c.comm) |-> from.cols[j]]]
      BY <2>6 DEF V
    <3> HIDE DEF from
    <3> QED BY <1>5, <2>6, <3>2, <3>3, SliceEffect
  <2>7. c.kind # "alloc"
    BY <1>5, CallsByKind
  <2> QED BY <1>1, <2>2, <2>3, <2>4, <2>5, <2>6, <2>7
<1>12. ASSUME NEW s \in Ranks, NEW name \in Names
       PROVE  store'[s][name] = IF s = r /\ name = c.of THEN V ELSE store[s][name]
  BY <1>2, <1>11 DEF ShapeInv
<1>13. StoreInv'
  <2>1. ASSUME NEW s \in Ranks, NEW name \in Names PROVE store'[s][name] = Expected(s, name, StoreTime(s)')
    <3>1. CASE s # r
      <4>1. store'[s][name] = store[s][name]
        BY <1>12, <3>1
      <4> QED BY <1>3, <3>1, <4>1 DEF StoreInv, Stays
    <3>2. CASE s = r
      <4>1. ASSUME NEW m \in Names PROVE store'[r][m] = Expected(r, m, k + 1)
        <5>1. CASE m = c.of
          BY <1>11, <1>12, <5>1
        <5>2. CASE m # c.of
          <6>1. Expected(r, m, k + 1) = Expected(r, m, k)
            BY <1>1, <1>5, <5>2, OneStored
          <6>2. store'[r][m] = store[r][m]
            BY <1>12, <5>2
          <6>3. store[r][m] = Expected(r, m, k)
            BY <1>5 DEF StoreInv
          <6> QED BY <6>1, <6>2, <6>3
        <5> QED BY <5>1, <5>2
      <4> QED BY <1>3, <1>5, <3>2, <4>1, StoreStep
    <3> QED BY <3>1, <3>2
  <2> QED BY <2>1 DEF StoreInv
<1>14. ShapeInv'
  <2>1. store' = [s \in Ranks |-> [name \in Names |-> store'[s][name]]]
    BY <1>2, <1>11 DEF ShapeInv
  <2> QED BY <1>1, <1>4, <1>6, <2>1 DEF ShapeInv
<1> QED BY <1>6, <1>8, <1>9, <1>10, <1>13, <1>14

\* A message that a rank is about to send or broadcast.
LEMMA LoadIsMessage ==
  ASSUME ShapeInv, StoreInv, NEW r \in Ranks, NEW k, StoreTime(r) = k, NEW c, c = CallAt(r, k), c.of \in Names
  PROVE  Load(r, c) = Message(r, k)
<1>1. store[r][c.of] = Expected(r, c.of, k)
  BY DEF StoreInv
<1> QED BY <1>1 DEF Load, Message

\* The channels when one of them becomes v.
ChanSet(new, ch, a, b, e, v) == new = [ch EXCEPT ![a][b][e] = v]

ChanShape(ch) == ch = [q \in Comms |-> [s \in Ranks |-> [t \in Ranks |-> ch[q][s][t]]]]

ChanDiffers(new, ch, a, b, e, v) ==
  \A q \in Comms, s \in Ranks, t \in Ranks :
    new[q][s][t] = IF q = a /\ s = b /\ t = e THEN v ELSE ch[q][s][t]

\* A channel that is changed, and the others.
LEMMA ChanUpdate ==
  ASSUME NEW ch, ChanShape(ch), NEW a \in Comms, NEW b \in Ranks, NEW e \in Ranks, NEW v,
         NEW new, ChanSet(new, ch, a, b, e, v)
  PROVE  ChanDiffers(new, ch, a, b, e, v) /\ ChanShape(new)
<1>1. ch = [q \in Comms |-> [s \in Ranks |-> [t \in Ranks |-> ch[q][s][t]]]]
  BY DEF ChanShape
<1>2. new = [ch EXCEPT ![a][b][e] = v]
  BY DEF ChanSet
<1>3. ASSUME NEW q \in Comms, NEW s \in Ranks, NEW t \in Ranks
      PROVE  new[q][s][t] = IF q = a /\ s = b /\ t = e THEN v ELSE ch[q][s][t]
  <2>1. CASE q # a
    BY <1>1, <1>2, <2>1
  <2>2. CASE q = a /\ s # b
    BY <1>1, <1>2, <2>2
  <2>3. CASE q = a /\ s = b
    <3>1. new[q][s] = [ch[a][b] EXCEPT ![e] = v]
      BY <1>1, <1>2, <2>3
    <3>2. DOMAIN ch[a][b] = Ranks
      BY <1>1
    <3> QED BY <2>3, <3>1, <3>2
  <2> QED BY <2>1, <2>2, <2>3
<1>4. new = [q \in Comms |-> [s \in Ranks |-> [t \in Ranks |-> new[q][s][t]]]]
  <2>1. new = [q \in Comms |-> new[q]]
    BY <1>1, <1>2
  <2>2. ASSUME NEW q \in Comms PROVE new[q] = [s \in Ranks |-> [t \in Ranks |-> new[q][s][t]]]
    <3>1. ch[q] = [s \in Ranks |-> [t \in Ranks |-> ch[q][s][t]]]
      BY <1>1
    <3>2. CASE q # a
      <4>1. new[q] = ch[q]
        BY <1>1, <1>2, <3>2
      <4> QED BY <3>1, <4>1
    <3>3. CASE q = a
      <4>1. new[q] = [ch[q] EXCEPT ![b] = [ch[q][b] EXCEPT ![e] = v]]
        BY <1>1, <1>2, <3>3
      <4> DEFINE row == [ch[q][b] EXCEPT ![e] = v]
      <4>2. row = [t \in Ranks |-> row[t]]
        BY <3>1
      <4> HIDE DEF row
      <4>3. new[q] = [s \in Ranks |-> IF s = b THEN row ELSE ch[q][s]]
        BY <3>1, <4>1 DEF row
      <4>4. ASSUME NEW s \in Ranks PROVE new[q][s] = [t \in Ranks |-> new[q][s][t]]
        <5>1. CASE s = b
          BY <4>2, <4>3, <5>1
        <5>2. CASE s # b
          <6>1. new[q][s] = ch[q][s]
            BY <4>3, <5>2
          <6>2. ch[q][s] = [t \in Ranks |-> ch[q][s][t]]
            BY <3>1
          <6> QED BY <6>1, <6>2
        <5> QED BY <5>1, <5>2
      <4>5. new[q] = [s \in Ranks |-> new[q][s]]
        BY <4>3
      <4> QED BY <4>4, <4>5
    <3> QED BY <3>2, <3>3
  <2> QED BY <2>1, <2>2
<1> QED BY <1>3, <1>4 DEF ChanDiffers, ChanShape

\* A send keeps the invariant: its message joins the channel as the newest.
LEMMA SendKeeps ==
  ASSUME IInv, NEW r \in Ranks, Send(r)
  PROVE  IInv'
<1>c. PICK c : c = At(r)
  OBVIOUS
<1>k. PICK k : k = Clock(r)
  OBVIOUS
<1> USE DEF IInv
<1>1. PICK eager \in BOOLEAN :
        /\ ~ Done(r) /\ ~ held[r] /\ c.kind = "send"
        /\ chan' = [chan EXCEPT ![c.comm][r][c.peer] = Append(@, [eager |-> eager, load |-> Load(r, c)])]
        /\ held' = [held EXCEPT ![r] = ~ eager]
        /\ pc' = [pc EXCEPT ![r] = IF eager THEN @ + 1 ELSE @]
        /\ entered' = entered /\ store' = store /\ coll' = coll /\ failed' = failed
  BY <1>c DEF Send, Makes
<1>2. /\ Does(r) /\ (held'[r] <=> ~ eager)
      /\ pc' \in [Ranks -> Nat] /\ held' \in [Ranks -> BOOLEAN]
  <2>1. pc'[r] = (IF eager THEN pc[r] + 1 ELSE pc[r]) /\ held'[r] = ~ eager
    BY <1>1 DEF ShapeInv
  <2>2. pc' \in [Ranks -> Nat]
    <3>1. pc \in [Ranks -> Nat]
      BY DEF ShapeInv
    <3>2. pc' = [pc EXCEPT ![r] = IF eager THEN pc[r] + 1 ELSE pc[r]]
      BY <1>1
    <3>3. (IF eager THEN pc[r] + 1 ELSE pc[r]) \in Nat
      BY <3>1
    <3> QED BY <3>1, <3>2, <3>3
  <2>3. held' \in [Ranks -> BOOLEAN]
    <3>1. held \in [Ranks -> BOOLEAN]
      BY DEF ShapeInv
    <3>2. held' = [held EXCEPT ![r] = ~ eager] /\ (~ eager) \in BOOLEAN
      BY <1>1
    <3> QED BY <3>1, <3>2
  <2>4. Does(r)
    BY <1>1, <2>1 DEF Does
  <2> QED BY <2>1, <2>2, <2>3, <2>4
<1>3. \A s \in Ranks \ {r} : Stays(s)
  <2>1. \A s \in Ranks \ {r} : pc'[s] = pc[s] /\ held'[s] = held[s]
    BY <1>1 DEF ShapeInv
  <2> QED BY <2>1, StayStep
<1>4. /\ k \in Keys /\ k \in Nat /\ c = CallAt(r, k) /\ After(r, k) /\ StoreTime(r) = k
      /\ \A j \in Keys : Did(r, j) <=> j < k
      /\ \A j \in Keys : CallAt(r, j).kind # "none" => (Did(r, j)' <=> Did(r, j) \/ j = k)
      /\ ~ Did(r, k) /\ Did(r, k)' /\ (Left(r, k)' <=> eager)
  BY <1>c, <1>k, <1>2, DoesStep
<1>5. HeldInv' /\ \A s \in Ranks : pc'[s] \in 1 .. Len(Script[s]) + 1
  BY <1>1, <1>2, <1>3, <1>4, Together
<1> DEFINE d == CallAt(c.peer, k)
<1>6. Meets(c, r, d, c.peer)
  BY <1>1, <1>4, SendMeets
<1>7. c.peer \in Ranks /\ c.peer # r /\ c.comm \in Comms /\ c.of \in Names
      /\ d.kind = "recv" /\ d.peer = r
  BY <1>6 DEF Meets
<1>8. ASSUME NEW s \in Ranks, NEW j \in Keys, s # r \/ (CallAt(s, j).kind # "none" /\ j # k)
      PROVE  Untouched(s, j)
  <2>1. CASE s # r
    BY <1>3, <2>1 DEF Stays, Untouched
  <2>2. CASE s = r
    BY <1>4, <1>8, <2>2 DEF After, Untouched
  <2> QED BY <2>1, <2>2
<1>9. ~ Did(c.peer, k) /\ ~ Did(c.peer, k)'
  <2>1. ~ Did(c.peer, k)
    BY <1>4, <1>7 DEF CausalInv
  <2>2. Untouched(c.peer, k)
    BY <1>4, <1>7, <1>8
  <2> QED BY <2>1, <2>2 DEF Untouched
<1>10. Load(r, c) = Message(r, k)
  BY <1>4, <1>7, LoadIsMessage
<1> DEFINE v == Append(chan[c.comm][r][c.peer], [eager |-> eager, load |-> Load(r, c)])
<1>19. ChanDiffers(chan', chan, c.comm, r, c.peer, v) /\ ChanShape(chan')
  <2>1. ChanShape(chan)
    BY DEF ShapeInv, ChanShape
  <2>2. ChanSet(chan', chan, c.comm, r, c.peer, v)
    BY <1>1 DEF ChanSet
  <2> HIDE DEF v
  <2> QED BY <1>7, <2>1, <2>2, ChanUpdate
<1>11. ASSUME NEW q \in Comms, NEW s \in Ranks, NEW t \in Ranks
       PROVE  Listing(chan'[q][s][t], ChanFun(q, s, t)')
  <2>1. CASE q = c.comm /\ s = r /\ t = c.peer
    <3>1. chan'[q][s][t] = Append(chan[q][s][t], [eager |-> eager, load |-> Message(r, k)])
      <4>1. chan'[q][s][t] = v
        BY <1>19, <2>1 DEF ChanDiffers
      <4> QED BY <1>10, <2>1, <4>1
    <3>2. InChannel(q, s, t)' = InChannel(q, s, t) \cup {k}
      <4>1. ASSUME NEW j \in Keys, CallAt(s, j).kind = "send", j # k
            PROVE  (Did(s, j)' /\ ~ Did(t, j)') <=> (Did(s, j) /\ ~ Did(t, j))
        <5>1. Untouched(s, j) /\ Untouched(t, j)
          BY <1>7, <1>8, <2>1, <4>1
        <5> QED BY <5>1 DEF Untouched
      <4>2. CallAt(s, k).kind = "send" /\ CallAt(s, k).comm = q /\ CallAt(s, k).peer = t /\ Did(s, k)' /\ ~ Did(t, k)'
        BY <1>1, <1>4, <1>9, <2>1
      <4> QED BY <1>4, <4>1, <4>2 DEF InChannel
    <3>3. \A j \in InChannel(q, s, t) : j < k
      BY <1>4, <2>1 DEF InChannel
    <3>4. ASSUME NEW j \in InChannel(q, s, t) PROVE Left(s, j)' = Left(s, j) /\ j # k
      <4>1. j \in Keys /\ CallAt(s, j).kind = "send" /\ j # k
        BY <3>3, <1>4 DEF InChannel
      <4>2. Untouched(s, j)
        BY <1>8, <4>1
      <4>3. Left(s, j) \in BOOLEAN /\ Left(s, j)' \in BOOLEAN
        BY DEF Left
      <4> QED BY <4>1, <4>2, <4>3 DEF Untouched
    <3>5. Left(s, k)' = eager
      <4>1. Left(s, k)' \in BOOLEAN
        BY DEF Left
      <4> QED BY <1>4, <2>1, <4>1
    <3> DEFINE f == ChanFun(q, s, t)
               g == ChanFun(q, s, t)'
    <3>6. DOMAIN f = InChannel(q, s, t) /\ DOMAIN f \subseteq Int /\ k \in Int
      BY <1>4, KeysAreInts
    <3>7. g = [j \in DOMAIN f \cup {k} |-> IF j = k THEN [eager |-> eager, load |-> Message(r, k)] ELSE f[j]]
      <4>1. g = [j \in InChannel(q, s, t) \cup {k} |-> [eager |-> Left(s, j)', load |-> Message(s, j)]]
        BY <3>2 DEF ChanFun
      <4>2. \A j \in InChannel(q, s, t) : f[j] = [eager |-> Left(s, j)', load |-> Message(s, j)] /\ j # k
        BY <3>4 DEF ChanFun
      <4>3. \A j \in InChannel(q, s, t) \cup {k} :
               [eager |-> Left(s, j)', load |-> Message(s, j)]
                 = IF j = k THEN [eager |-> eager, load |-> Message(r, k)] ELSE f[j]
        BY <2>1, <3>5, <4>2
      <4> HIDE DEF f, g
      <4> QED BY <3>6, <4>1, <4>3
    <3>8. Listing(chan[q][s][t], f)
      BY Channels
    <3> HIDE DEF f, g
    <3>9. Listing(Append(chan[q][s][t], [eager |-> eager, load |-> Message(r, k)]), g)
      BY <3>3, <3>6, <3>7, <3>8, ListsPush
    <3> QED BY <3>1, <3>9 DEF g
  <2>2. CASE ~ (q = c.comm /\ s = r /\ t = c.peer)
    <3>1. chan'[q][s][t] = chan[q][s][t]
      BY <1>19, <2>2 DEF ChanDiffers
    <3>2. ASSUME NEW j \in Keys, CallAt(s, j).kind = "send", CallAt(s, j).comm = q, CallAt(s, j).peer = t
          PROVE  Untouched(s, j) /\ Untouched(t, j)
      <4>1. CallAt(t, j).kind = "recv"
        BY <3>2, SendMeets DEF Meets
      <4>2. s # r \/ j # k
        BY <1>4, <2>2, <3>2
      <4>3. t # r \/ j # k
        BY <1>1, <1>4, <4>1
      <4> QED BY <1>8, <3>2, <4>1, <4>2, <4>3
    <3>3. Listing(chan[q][s][t], ChanFun(q, s, t))
      BY Channels
    <3> QED BY <3>1, <3>2, <3>3, ChannelKept
  <2> QED BY <2>1, <2>2
<1>12. ChannelInv'
  BY <1>11, Channels
<1>13. ASSUME NEW s \in Ranks, NEW j \in Keys, CallAt(s, j).kind \in {"recv", "split", "bcast", "matmul"}
       PROVE  Untouched(s, j)
  <2>1. CallAt(s, j).kind # "none" /\ (s = r => j # k)
    BY <1>1, <1>4, <1>13
  <2> QED BY <1>8, <2>1
<1>14. BroadcastInv'
  BY <1>1, <1>13, BroadcastsKept DEF Untouched
<1>15. CausalInv'
  <2>1. ASSUME NEW s \in Ranks, NEW j \in Keys, CallAt(s, j).kind \in {"send", "recv", "bcast"}, Did(s, j)
        PROVE  Did(s, j)'
    BY <1>4, <1>8, <2>1 DEF Untouched
  <2>2. ASSUME NEW s \in Ranks, NEW j \in Keys, CallAt(s, j).kind \in {"recv", "bcast"}
        PROVE  ~ (Did(s, j)' /\ ~ Did(s, j))
    BY <1>13, <2>2 DEF Untouched
  <2> QED BY <2>1, <2>2, CausalStep
<1>16. EnteredInv'
  <2>1. ASSUME NEW s \in Ranks PROVE entered'[s]["sub"] = Cardinality({j \in SubKeys(s) : Did(s, j)'})
    <3>1. \A j \in SubKeys(s) : Did(s, j)' <=> Did(s, j)
      BY <1>13 DEF SubKeys, IsCollective, Untouched
    <3> QED BY <1>1, <3>1, EnteredKept DEF EnteredInv
  <2> QED BY <2>1 DEF EnteredInv
<1>17. StoreInv'
  <2>1. ASSUME NEW s \in Ranks, NEW name \in Names PROVE store'[s][name] = Expected(s, name, StoreTime(s)')
    <3>1. CASE s # r
      BY <1>1, <1>3, <3>1 DEF StoreInv, Stays
    <3>2. CASE s = r
      <4>1. ASSUME NEW m \in Names PROVE store'[r][m] = Expected(r, m, k + 1)
        <5>1. ~ Stores(c, r, m)
          BY <1>1 DEF Stores
        <5>2. Expected(r, m, k + 1) = Expected(r, m, k)
          BY <1>4, <5>1, Changes
        <5> QED BY <1>1, <1>4, <5>2 DEF StoreInv
      <4> QED BY <1>1, <1>4, <3>2, <4>1, StoreStep
    <3> QED BY <3>1, <3>2
  <2> QED BY <2>1 DEF StoreInv
<1>18. ShapeInv'
  <2>1. chan' = [q \in Comms |-> [s \in Ranks |-> [t \in Ranks |-> chan'[q][s][t]]]]
    BY <1>19 DEF ChanShape
  <2>2. /\ entered' \in [Ranks -> [Comms -> Nat]] /\ failed' = FALSE
        /\ store' = [s \in Ranks |-> [name \in Names |-> store'[s][name]]]
        /\ coll' = [q \in Comms |-> [s \in Ranks |-> coll'[q][s]]]
    BY <1>1 DEF ShapeInv
  <2> QED BY <1>2, <1>5, <2>1, <2>2 DEF ShapeInv
<1> QED BY <1>5, <1>12, <1>14, <1>15, <1>16, <1>17, <1>18

\* Function f without number k.
Without(g, f, k) == g = [j \in DOMAIN f \ {k} |-> f[j]]

\* The head of a channel is taken.
LEMMA HeadTaken ==
  ASSUME NEW seq, NEW f, DOMAIN f \subseteq Int, Listing(seq, f),
         NEW k \in DOMAIN f, \A j \in DOMAIN f : k <= j, NEW g, Without(g, f, k)
  PROVE  /\ seq # << >> /\ seq[1] = f[k] /\ 1 \in 1 .. Len(seq) /\ Len(seq) \in Nat
         /\ Listing(Tail(seq), g) /\ RemoveAt(seq, 1) = Tail(seq)
  BY ListsHead DEF Without

\* The place of the first message with that tag.
FirstWith(in, tag) == SelectInSeq(in, LAMBDA m : m.load.tag = tag)

\* MPI_Recv takes the first message when its tag is the one asked for.
LEMMA FirstIsTaken ==
  ASSUME NEW in, Len(in) \in Nat, 1 \in 1 .. Len(in), NEW tag, in[1].load.tag = tag
  PROVE  FirstWith(in, tag) = 1
<1> DEFINE I == {i \in 1 .. Len(in) : in[i].load.tag = tag}
<1>1. I \subseteq Nat /\ 1 \in I
  OBVIOUS
<1>2. \A x \in I : 1 =< x
  OBVIOUS
<1>3. FirstWith(in, tag) = IF I # {} THEN Min(I) ELSE 0
  BY Zenon DEF FirstWith, SelectInSeq
<1> HIDE DEF I
<1>4. Min(I) \in I /\ \A y \in I : Min(I) =< y
  BY <1>1, MinOf
<1>5. Min(I) = 1
  <2>1. Min(I) =< 1 /\ 1 =< Min(I) /\ Min(I) \in Nat
    BY <1>1, <1>2, <1>4, Zenon
  <2> QED BY <2>1
<1> QED BY <1>1, <1>3, <1>5

\* What a rank takes from a message is what it is expected to hold next.
LEMMA TakeStores ==
  ASSUME ShapeInv, StoreInv, NEW r \in Ranks, NEW k \in Keys, StoreTime(r) = k,
         NEW c, c = CallAt(r, k), c.kind \in {"recv", "bcast"}, c.peer # r, c.of \in Names,
         NEW m, m.batch = Message(c.peer, k).batch, store' = Take(r, c, m)
  PROVE  /\ \A s \in Ranks \ {r} : \A name \in Names : store'[s][name] = store[s][name]
         /\ \A name \in Names : store'[r][name] = Expected(r, name, k + 1)
         /\ store' = [s \in Ranks |-> [name \in Names |-> store'[s][name]]]
<1>1. k \in Nat /\ \A name \in Names : store[r][name] = Expected(r, name, k)
  BY WidthType DEF StoreInv, Keys
<1>2. CASE c.part # "payload"
  <2>1. store' = store
    BY <1>2 DEF Take
  <2>2. ASSUME NEW name \in Names PROVE Expected(r, name, k + 1) = Expected(r, name, k)
    <3>1. ~ Stores(c, r, name)
      BY <1>2 DEF Stores
    <3> QED BY <1>1, <3>1, Changes
  <2> QED BY <1>1, <2>1, <2>2 DEF ShapeInv
<1>3. CASE c.part = "payload"
  <2> DEFINE X == [store[r][c.of] EXCEPT ![c.axis] = Overlay(@, m.batch)]
  <2>1. store' = [store EXCEPT ![r][c.of] = X]
    BY <1>3, Zenon DEF Take
  <2>2. X = Expected(r, c.of, k + 1)
    <3>1. Expected(r, c.of, k + 1)
             = [Expected(r, c.of, k) EXCEPT ![c.axis] = Overlay(@, Message(c.peer, k).batch)]
      BY <1>3, RecvEffect, BcastEffect
    <3>2. store[r][c.of] = Expected(r, c.of, k)
      BY <1>1
    <3> QED BY <3>1, <3>2, Zenon
  <2> HIDE DEF X
  <2>3. ASSUME NEW name \in Names, name # c.of PROVE Expected(r, name, k + 1) = Expected(r, name, k)
    BY <1>1, <2>3, OneStored
  <2>4. ASSUME NEW s \in Ranks, NEW name \in Names
        PROVE  store'[s][name] = IF s = r /\ name = c.of THEN X ELSE store[s][name]
    BY <2>1 DEF ShapeInv
  <2>5. store' = [s \in Ranks |-> [name \in Names |-> store'[s][name]]]
    <3>1. ASSUME NEW s \in Ranks PROVE store'[s] = [name \in Names |-> store'[s][name]]
      <4>1. store[s] = [name \in Names |-> store[s][name]]
        BY DEF ShapeInv
      <4>2. CASE s # r
        <5>1. store'[s] = store[s]
          BY <2>1, <4>2 DEF ShapeInv
        <5> QED BY <4>1, <5>1
      <4>3. CASE s = r
        <5>1. store'[s] = [store[s] EXCEPT ![c.of] = X]
          BY <2>1, <4>3 DEF ShapeInv
        <5> QED BY <4>1, <5>1
      <4> QED BY <4>2, <4>3
    <3>2. store' = [s \in Ranks |-> store'[s]]
      BY <2>1 DEF ShapeInv
    <3> QED BY <3>1, <3>2
  <2>6. ASSUME NEW name \in Names PROVE store'[r][name] = Expected(r, name, k + 1)
    BY <1>1, <2>2, <2>3, <2>4
  <2>7. ASSUME NEW s \in Ranks \ {r}, NEW name \in Names PROVE store'[s][name] = store[s][name]
    BY <2>4
  <2> QED BY <2>5, <2>6, <2>7
<1> QED BY <1>2, <1>3

\* The head of the channel is the message that the receiver is at.
LEMMA RightMessage ==
  ASSUME IInv, NEW r \in Ranks, ~ Done(r), ~ held[r], NEW k, k = Clock(r),
         NEW c, c = CallAt(r, k), c.kind = "recv", chan[c.comm][c.peer][r] # << >>
  PROVE  /\ k \in InChannel(c.comm, c.peer, r)
         /\ \A j \in InChannel(c.comm, c.peer, r) : k <= j
<1> USE DEF IInv
<1>1. k \in Keys /\ k \in Nat
  BY ClockIs
<1>2. Meets(CallAt(c.peer, k), c.peer, c, r)
  BY <1>1, RecvMeets
<1>3. c.peer \in Ranks /\ c.comm \in Comms
  BY <1>2 DEF Meets
<1>4. Listing(chan[c.comm][c.peer][r], ChanFun(c.comm, c.peer, r))
  BY <1>3, Channels
<1>5. PICK j \in InChannel(c.comm, c.peer, r) : TRUE
  BY <1>4, KeysAreInts, ListsEmpty
<1>6. \A i \in Keys : Did(r, i) <=> i < k
  BY Earlier
<1>7. \A i \in InChannel(c.comm, c.peer, r) : k <= i
  BY <1>1, <1>6, KeysAreInts DEF InChannel
<1>8. Did(c.peer, k)
  BY <1>1, <1>3, <1>5, <1>7, Earlier DEF InChannel
<1>9. ~ Did(r, k)
  BY <1>1, <1>6
<1> QED BY <1>1, <1>2, <1>7, <1>8, <1>9 DEF InChannel, Meets

\* MPI_Recv takes nothing from an empty channel.
LEMMA NothingIsTaken ==
  ASSUME NEW in, in = << >>, NEW tag
  PROVE  FirstWith(in, tag) = 0
<1> DEFINE I == {i \in 1 .. Len(in) : in[i].load.tag = tag}
<1>1. Len(in) = 0
  OBVIOUS
<1>2. I = {}
  BY <1>1
<1>3. FirstWith(in, tag) = IF I # {} THEN Min(I) ELSE 0
  BY Zenon DEF FirstWith, SelectInSeq
<1> QED BY <1>2, <1>3, Zenon

\* What the sender of a message does when it is received: an eager sender has
\* gone on, another one returns from its call.
Released(s, k) ==
  \/ Stays(s) /\ Left(s, k)
  \/ Leaves(s) /\ After(s, k) /\ StoreTime(s) = k + 1 /\ ~ held'[s]
     /\ \A j \in Keys : CallAt(s, j).kind # "none" => (Did(s, j)' <=> Did(s, j))

\* When its message is taken, a sender that waited for that returns.
LEMMA SenderGoesOn ==
  ASSUME ShapeInv, HeldInv, NEW s \in Ranks, NEW k \in Keys, CallAt(s, k).kind = "send", Did(s, k),
         held'[s] = (IF Left(s, k) THEN held[s] ELSE FALSE),
         pc'[s] = (IF Left(s, k) THEN pc[s] ELSE pc[s] + 1)
  PROVE  Released(s, k)
<1>1. CASE Left(s, k)
  BY <1>1, StayStep DEF Released
<1>2. CASE ~ Left(s, k)
  <2>1. k = Clock(s) /\ held[s]
    BY <1>2 DEF Did
  <2>2. Leaves(s) /\ ~ held'[s]
    BY <1>2, <2>1 DEF Leaves, HeldInv
  <2>3. StoreTime(s) = k + 1
    BY <2>1, <2>2, LeavesStep
  <2>4. After(s, k) /\ \A j \in Keys : CallAt(s, j).kind # "none" => (Did(s, j)' <=> Did(s, j))
    BY <2>1, <2>2, LeavesStep
  <2> QED BY <2>2, <2>3, <2>4 DEF Released
<1> QED BY <1>1, <1>2

\* Rank r takes message i of channel in for call c.
Takes(r, c, in, i) ==
  /\ ~ failed /\ ~ Done(r) /\ ~ held[r] /\ c.kind = "recv" /\ i # 0
  /\ IF in[i].load.part = c.part
     THEN /\ store' = Take(r, c, in[i].load)
          /\ chan' = [chan EXCEPT ![c.comm][c.peer][r] = RemoveAt(@, i)]
          /\ held' = [held EXCEPT ![c.peer] = IF in[i].eager THEN @ ELSE FALSE]
          /\ pc' = [q \in Ranks |-> IF q = r \/ (q = c.peer /\ ~ in[i].eager)
                                    THEN pc[q] + 1 ELSE pc[q]]
          /\ failed' = failed
     ELSE failed' = TRUE
  /\ entered' = entered /\ coll' = coll

\* What a receive does, of message i of the channel.
LEMMA ReceiveTakes ==
  ASSUME NEW r, Receive(r), NEW c, c = At(r), NEW in, in = chan[c.comm][c.peer][r],
         NEW i, i = FirstWith(in, c.tag)
  PROVE  Takes(r, c, in, i)
<1>1. Takes(r, At(r), chan[At(r).comm][At(r).peer][r], FirstWith(chan[At(r).comm][At(r).peer][r], At(r).tag))
  BY Zenon DEF Receive, Makes, Takes, FirstWith
<1> QED BY <1>1, Zenon

\* A message received.
LEMMA ReceiveKeeps ==
  ASSUME IInv, NEW r \in Ranks, Receive(r)
  PROVE  IInv'
<1>c. PICK c : c = At(r)
  OBVIOUS
<1>k. PICK k : k = Clock(r)
  OBVIOUS
<1>s. PICK s : s = c.peer
  OBVIOUS
<1>in. PICK in : in = chan[c.comm][c.peer][r]
  OBVIOUS
<1>i. PICK i : i = FirstWith(in, c.tag)
  OBVIOUS
<1> USE DEF IInv
<1>1. /\ ~ Done(r) /\ ~ held[r] /\ c.kind = "recv" /\ i # 0
      /\ entered' = entered /\ coll' = coll
      /\ in[i].load.part = c.part =>
           /\ store' = Take(r, c, in[i].load)
           /\ chan' = [chan EXCEPT ![c.comm][c.peer][r] = RemoveAt(@, i)]
           /\ held' = [held EXCEPT ![c.peer] = IF in[i].eager THEN @ ELSE FALSE]
           /\ pc' = [q \in Ranks |-> IF q = r \/ (q = c.peer /\ ~ in[i].eager)
                                     THEN pc[q] + 1 ELSE pc[q]]
           /\ failed' = failed
  <2>1. Takes(r, c, in, i)
    BY <1>c, <1>in, <1>i, ReceiveTakes
  <2> QED BY <2>1 DEF Takes
<1>2. /\ k \in Keys /\ k \in Nat /\ c = CallAt(r, k)
  BY <1>c, <1>k, <1>1, ClockIs
<1>3. in # << >>
  BY <1>i, <1>1, NothingIsTaken
<1>4. k \in InChannel(c.comm, s, r) /\ \A j \in InChannel(c.comm, s, r) : k <= j
  BY <1>k, <1>s, <1>in, <1>1, <1>2, <1>3, RightMessage
<1> DEFINE d == CallAt(s, k)
<1>5. Meets(d, s, c, r)
  BY <1>s, <1>1, <1>2, RecvMeets
<1>6. /\ s \in Ranks /\ s # r /\ c.comm \in Comms /\ c.of \in Names /\ c.axis \in Axes
      /\ d.kind = "send" /\ d.peer = r /\ d.comm = c.comm /\ d.tag = c.tag /\ d.part = c.part
  BY <1>5 DEF Meets
<1>7. Did(s, k)
  BY <1>4 DEF InChannel
<1> DEFINE f == ChanFun(c.comm, s, r)
           g == [j \in DOMAIN f \ {k} |-> f[j]]
<1>8. /\ Listing(in, f) /\ DOMAIN f = InChannel(c.comm, s, r) /\ DOMAIN f \subseteq Int
      /\ f[k].eager = Left(s, k) /\ f[k].load = Message(s, k)
  <2>1. Listing(in, f)
    BY <1>s, <1>in, <1>6, Channels
  <2>2. DOMAIN f = InChannel(c.comm, s, r) /\ DOMAIN f \subseteq Int
    BY KeysAreInts
  <2>3. f[k] = [eager |-> Left(s, k), load |-> Message(s, k)]
    BY <1>4 DEF ChanFun
  <2> QED BY <2>1, <2>2, <2>3
<1> HIDE DEF f
<1>9. /\ in[1] = f[k] /\ 1 \in 1 .. Len(in) /\ Len(in) \in Nat
      /\ Listing(Tail(in), g) /\ RemoveAt(in, 1) = Tail(in)
  <2>1. k \in DOMAIN f /\ \A j \in DOMAIN f : k <= j
    BY <1>4, <1>8
  <2>2. Without(g, f, k)
    BY DEF Without
  <2> HIDE DEF g
  <2> QED BY <1>8, <2>1, <2>2, HeadTaken
<1> HIDE DEF g
<1>10. i = 1
  <2>1. in[1].load.tag = c.tag
    <3>1. Message(s, k).tag = c.tag
      BY <1>6 DEF Message
    <3> QED BY <1>8, <1>9, <3>1
  <2> QED BY <1>i, <1>9, <2>1, FirstIsTaken
<1>11. in[i].load = Message(s, k) /\ in[i].load.part = c.part /\ in[i].eager = Left(s, k)
  <2>1. Message(s, k).part = c.part
    BY <1>6 DEF Message
  <2> QED BY <1>8, <1>9, <1>10, <2>1
<1>12. store' = Take(r, c, Message(s, k)) /\ failed' = failed
  BY <1>1, <1>11
<1>13. ChanDiffers(chan', chan, c.comm, s, r, Tail(in)) /\ ChanShape(chan')
  <2>1. ChanShape(chan)
    BY DEF ShapeInv, ChanShape
  <2>2. chan' = [chan EXCEPT ![c.comm][s][r] = RemoveAt(@, i)]
    BY <1>s, <1>1, <1>11
  <2>3. ChanSet(chan', chan, c.comm, s, r, Tail(in))
    BY <1>s, <1>in, <1>9, <1>10, <2>2 DEF ChanSet
  <2> QED BY <1>6, <2>1, <2>3, ChanUpdate
<1>14. \A q \in Ranks : held'[q] = (IF q = s THEN (IF Left(s, k) THEN held[s] ELSE FALSE) ELSE held[q])
  <2>1. held' = [held EXCEPT ![s] = IF Left(s, k) THEN @ ELSE FALSE]
    BY <1>s, <1>1, <1>11
  <2> QED BY <1>6, <2>1 DEF ShapeInv
<1>15. \A q \in Ranks : pc'[q] = IF q = r \/ (q = s /\ ~ Left(s, k)) THEN pc[q] + 1 ELSE pc[q]
  BY <1>s, <1>1, <1>11
<1>16. pc' \in [Ranks -> Nat] /\ held' \in [Ranks -> BOOLEAN]
  <2>1. pc' = [q \in Ranks |-> IF q = r \/ (q = s /\ ~ Left(s, k)) THEN pc[q] + 1 ELSE pc[q]]
    BY <1>s, <1>1, <1>11
  <2>2. held' = [held EXCEPT ![s] = IF Left(s, k) THEN @ ELSE FALSE]
    BY <1>s, <1>1, <1>11
  <2>3. \A q \in Ranks : pc[q] \in Nat /\ pc[q] + 1 \in Nat
    BY DEF ShapeInv
  <2>4. pc' \in [Ranks -> Nat]
    BY <2>1, <2>3
  <2>5. held' \in [Ranks -> BOOLEAN]
    BY <1>6, <2>2 DEF ShapeInv
  <2> QED BY <2>4, <2>5
<1>17. Does(r) /\ ~ held'[r]
  <2>1. pc'[r] = pc[r] + 1 /\ held'[r] = held[r] /\ held[r] = FALSE
    <3>1. pc'[r] = pc[r] + 1
      BY <1>15
    <3>2. held'[r] = held[r]
      BY <1>6, <1>14
    <3>3. held[r] \in BOOLEAN
      BY DEF ShapeInv
    <3> QED BY <1>1, <3>1, <3>2, <3>3
  <2> QED BY <1>1, <2>1 DEF Does
<1>18. Released(s, k)
  BY <1>2, <1>6, <1>7, <1>14, <1>15, SenderGoesOn
<1>19. \A q \in Ranks \ {r, s} : Stays(q)
  BY <1>14, <1>15, StayStep
<1>20. /\ After(r, k) /\ StoreTime(r) = k
       /\ \A j \in Keys : Did(r, j) <=> j < k
       /\ \A j \in Keys : CallAt(r, j).kind # "none" => (Did(r, j)' <=> Did(r, j) \/ j = k)
       /\ ~ Did(r, k) /\ Did(r, k)'
  BY <1>k, <1>17, DoesStep
<1>21. ASSUME NEW q \in Ranks, NEW j \in Keys, CallAt(q, j).kind # "none", q # r \/ j # k
       PROVE  /\ Did(q, j)' <=> Did(q, j)
              /\ (q # s \/ j # k) => (Left(q, j)' <=> Left(q, j))
  <2>1. CASE q = r
    BY <1>20, <1>21, <2>1 DEF After
  <2>2. CASE q = s
    <3>1. CASE Stays(s)
      BY <2>2, <3>1 DEF Stays
    <3>2. CASE ~ Stays(s)
      BY <1>18, <1>21, <2>2, <3>2 DEF Released, After
    <3> QED BY <3>1, <3>2
  <2>3. CASE q \notin {r, s}
    BY <1>19, <2>3 DEF Stays
  <2> QED BY <2>1, <2>2, <2>3
<1>22. HeldInv' /\ \A q \in Ranks : pc'[q] \in 1 .. Len(Script[q]) + 1
  <2>1. ASSUME NEW q \in Ranks
        PROVE  /\ pc'[q] \in 1 .. Len(Script[q]) + 1
               /\ held'[q] => ~ Done(q)' /\ (At(q)'.kind = "send" \/ IsCollective(At(q)'))
    <3>1. CASE Stays(q)
      <4>1. pc'[q] \in 1 .. Len(Script[q]) + 1
        BY <3>1 DEF Stays, ShapeInv
      <4> QED BY <3>1, <4>1, HeldKept
    <3>2. CASE q = r
      BY <1>17, <1>20, <3>2 DEF After
    <3>3. CASE q = s /\ ~ Stays(s)
      BY <1>18, <3>3 DEF Released, After
    <3> QED BY <1>19, <3>1, <3>2, <3>3
  <2> QED BY <2>1 DEF HeldInv
<1>23. ASSUME NEW q \in Comms, NEW a \in Ranks, NEW b \in Ranks
       PROVE  Listing(chan'[q][a][b], ChanFun(q, a, b)')
  <2>1. CASE q = c.comm /\ a = s /\ b = r
    <3>1. chan'[q][a][b] = Tail(in)
      BY <1>13, <2>1 DEF ChanDiffers
    <3>2. InChannel(q, a, b)' = InChannel(q, a, b) \ {k}
      <4>1. ASSUME NEW j \in Keys, CallAt(a, j).kind = "send", CallAt(a, j).peer = b
            PROVE  (Did(a, j)' /\ ~ Did(b, j)') <=> (Did(a, j) /\ ~ Did(b, j)) /\ j # k
        <5>1. Did(a, j)' <=> Did(a, j)
          BY <1>6, <1>21, <2>1, <4>1
        <5>2. CallAt(b, j).kind = "recv"
          BY <4>1, SendMeets DEF Meets
        <5>3. Did(b, j)' <=> Did(b, j) \/ j = k
          BY <1>20, <2>1, <5>2
        <5> QED BY <5>1, <5>3
      <4> QED BY <4>1 DEF InChannel
    <3>3. ASSUME NEW j \in InChannel(q, a, b) \ {k} PROVE Left(a, j)' = Left(a, j)
      <4>1. j \in Keys /\ CallAt(a, j).kind = "send" /\ j # k
        BY DEF InChannel
      <4>2. Left(a, j)' <=> Left(a, j)
        BY <1>21, <4>1
      <4>3. Left(a, j) \in BOOLEAN /\ Left(a, j)' \in BOOLEAN
        BY DEF Left
      <4> QED BY <4>2, <4>3
    <3>4. ChanFun(q, a, b)' = g
      <4>1. ChanFun(q, a, b)' = [j \in InChannel(q, a, b) \ {k} |-> [eager |-> Left(a, j)', load |-> Message(a, j)]]
        BY <3>2 DEF ChanFun
      <4>2. \A j \in InChannel(q, a, b) : f[j] = [eager |-> Left(a, j), load |-> Message(a, j)]
        BY <2>1 DEF f, ChanFun
      <4>3. \A j \in InChannel(q, a, b) \ {k} : [eager |-> Left(a, j)', load |-> Message(a, j)] = f[j]
        BY <3>3, <4>2
      <4> QED BY <1>8, <2>1, <4>1, <4>3 DEF g
    <3> QED BY <1>9, <3>1, <3>4
  <2>2. CASE ~ (q = c.comm /\ a = s /\ b = r)
    <3>1. chan'[q][a][b] = chan[q][a][b]
      BY <1>13, <2>2 DEF ChanDiffers
    <3>2. ASSUME NEW j \in Keys, CallAt(a, j).kind = "send", CallAt(a, j).comm = q, CallAt(a, j).peer = b
          PROVE  Untouched(a, j) /\ Untouched(b, j)
      <4>1. CallAt(b, j).kind = "recv" /\ CallAt(b, j).peer = a /\ CallAt(b, j).comm = q
        BY <3>2, SendMeets DEF Meets
      <4>2. a = r => j # k
        BY <1>1, <1>2, <3>2
      <4>3. b = r => j # k
        BY <1>s, <1>2, <2>2, <4>1
      <4>4. a = s => j # k
        BY <1>6, <2>2, <3>2
      <4>5. b = s => j # k
        BY <1>6, <4>1
      <4>6. Untouched(a, j)
        BY <1>21, <3>2, <4>2, <4>4 DEF Untouched
      <4>7. Untouched(b, j)
        BY <1>21, <4>1, <4>3, <4>5 DEF Untouched
      <4> QED BY <4>6, <4>7
    <3>3. Listing(chan[q][a][b], ChanFun(q, a, b))
      BY Channels
    <3> QED BY <3>1, <3>2, <3>3, ChannelKept
  <2> QED BY <2>1, <2>2
<1>24. ChannelInv'
  BY <1>23, Channels
<1>25. ASSUME NEW q \in Ranks, NEW j \in Keys, CallAt(q, j).kind \in {"split", "bcast", "matmul"}
       PROVE  Did(q, j)' <=> Did(q, j)
  <2>1. CallAt(q, j).kind # "none" /\ (q = r => j # k)
    BY <1>1, <1>2, <1>25
  <2> QED BY <1>21, <2>1
<1>26. BroadcastInv'
  BY <1>1, <1>25, BroadcastsKept
<1>27. CausalInv'
  <2>1. ASSUME NEW q \in Ranks, NEW j \in Keys, CallAt(q, j).kind \in {"send", "recv", "bcast"}, Did(q, j)
        PROVE  Did(q, j)'
    <3>1. CASE q = r /\ j = k
      BY <1>20, <3>1
    <3>2. CASE ~ (q = r /\ j = k)
      BY <1>21, <2>1, <3>2
    <3> QED BY <3>1, <3>2
  <2>2. ASSUME NEW q \in Ranks, NEW j \in Keys, CallAt(q, j).kind \in {"recv", "bcast"},
               Did(q, j)', ~ Did(q, j)
        PROVE  Did(CallAt(q, j).peer, j)'
    <3>1. q = r /\ j = k
      BY <1>21, <2>2
    <3>2. Did(s, k)'
      BY <1>2, <1>6, <1>7, <2>1
    <3> QED BY <1>s, <1>2, <3>1, <3>2
  <2> QED BY <2>1, <2>2, CausalStep
<1>28. EnteredInv'
  <2>1. ASSUME NEW q \in Ranks PROVE entered'[q]["sub"] = Cardinality({j \in SubKeys(q) : Did(q, j)'})
    <3>1. \A j \in SubKeys(q) : Did(q, j)' <=> Did(q, j)
      BY <1>25 DEF SubKeys, IsCollective
    <3> QED BY <1>1, <3>1, EnteredKept DEF EnteredInv
  <2> QED BY <2>1 DEF EnteredInv
<1>29. /\ \A q \in Ranks \ {r} : \A name \in Names : store'[q][name] = store[q][name]
       /\ \A name \in Names : store'[r][name] = Expected(r, name, k + 1)
       /\ store' = [q \in Ranks |-> [name \in Names |-> store'[q][name]]]
  <2> DEFINE m == Message(s, k)
  <2>1. m.batch = Message(c.peer, k).batch /\ store' = Take(r, c, m) /\ c.peer # r
    BY <1>s, <1>6, <1>12
  <2> HIDE DEF m
  <2> QED BY <1>1, <1>2, <1>6, <1>20, <2>1, TakeStores
<1>30. StoreInv'
  <2>1. ASSUME NEW q \in Ranks, NEW name \in Names PROVE store'[q][name] = Expected(q, name, StoreTime(q)')
    <3>1. CASE q = r
      BY <1>17, <1>20, <1>29, <3>1, StoreStep
    <3>2. CASE q # r /\ Stays(q)
      <4>1. store'[q][name] = store[q][name]
        BY <1>29, <3>2
      <4> QED BY <3>2, <4>1 DEF StoreInv, Stays
    <3>3. CASE q = s /\ ~ Stays(s)
      <4>1. After(s, k) /\ ~ held'[s] /\ StoreTime(s) = k + 1
        BY <1>18, <3>3 DEF Released
      <4>2. \A m \in Names : store'[s][m] = Expected(s, m, k + 1)
        BY <1>6, <1>29, <4>1 DEF StoreInv
      <4> QED BY <1>6, <3>3, <4>1, <4>2, StoreStep
    <3> QED BY <1>19, <3>1, <3>2, <3>3
  <2> QED BY <2>1 DEF StoreInv
<1>31. ShapeInv'
  <2>1. chan' = [q \in Comms |-> [a \in Ranks |-> [b \in Ranks |-> chan'[q][a][b]]]]
    BY <1>13 DEF ChanShape
  <2>2. /\ entered' \in [Ranks -> [Comms -> Nat]] /\ failed' = FALSE
        /\ coll' = [q \in Comms |-> [a \in Ranks |-> coll'[q][a]]]
    <3>1. entered' = entered /\ coll' = coll /\ failed' = FALSE
      BY <1>1, <1>12 DEF ShapeInv
    <3>2. entered \in [Ranks -> [Comms -> Nat]]
      BY DEF ShapeInv
    <3>3. coll = [q \in Comms |-> [a \in Ranks |-> coll[q][a]]]
      BY DEF ShapeInv
    <3> QED BY <3>1, <3>2, <3>3
  <2> QED BY <1>16, <1>22, <1>29, <2>1, <2>2 DEF ShapeInv
<1> QED BY <1>22, <1>24, <1>26, <1>27, <1>28, <1>30, <1>31

\* The count of collectives that a rank has entered on communicator q.
EnteredOne(r, q) ==
  /\ entered' \in [Ranks -> [Comms -> Nat]]
  /\ \A s \in Ranks : entered'[s]["sub"] = IF s = r /\ q = "sub" THEN entered[s]["sub"] + 1 ELSE entered[s]["sub"]

\* Entering a collective counts for its rank and communicator only.
LEMMA EnteredMore ==
  ASSUME ShapeInv, NEW r \in Ranks, NEW q \in Comms, entered' = [entered EXCEPT ![r][q] = @ + 1]
  PROVE  EnteredOne(r, q)
<1>1. entered \in [Ranks -> [Comms -> Nat]] /\ "sub" \in Comms
  BY DEF ShapeInv, Comms
<1>2. entered[r] \in [Comms -> Nat] /\ entered[r][q] + 1 \in Nat
  BY <1>1
<1> DEFINE row == [entered[r] EXCEPT ![q] = @ + 1]
<1>3. row \in [Comms -> Nat]
  BY <1>2
<1>4. row["sub"] = IF q = "sub" THEN entered[r]["sub"] + 1 ELSE entered[r]["sub"]
  BY <1>1, <1>2
<1>5. entered' = [entered EXCEPT ![r] = row]
  OBVIOUS
<1> HIDE DEF row
<1>6. entered' \in [Ranks -> [Comms -> Nat]]
  BY <1>1, <1>3, <1>5
<1>7. ASSUME NEW s \in Ranks
      PROVE  entered'[s]["sub"] = IF s = r /\ q = "sub" THEN entered[s]["sub"] + 1 ELSE entered[s]["sub"]
  <2>1. CASE s = r
    BY <1>1, <1>4, <1>5, <2>1
  <2>2. CASE s # r
    BY <1>1, <1>5, <2>2
  <2> QED BY <2>1, <2>2
<1> QED BY <1>6, <1>7 DEF EnteredOne

\* The counts of collectives are right when rank r has entered that of key k.
LEMMA EnteredStep ==
  ASSUME EnteredInv, NEW r \in Ranks, NEW k \in Keys, IsCollective(CallAt(r, k)), ~ Did(r, k),
         EnteredOne(r, CallAt(r, k).comm),
         \A j \in Keys : CallAt(r, j).kind # "none" => (Did(r, j)' <=> Did(r, j) \/ j = k),
         \A s \in Ranks \ {r} : Stays(s)
  PROVE  EnteredInv'
<1>1. ASSUME NEW s \in Ranks PROVE entered'[s]["sub"] = Cardinality({j \in SubKeys(s) : Did(s, j)'})
  <2>0. entered[s]["sub"] = Cardinality({j \in SubKeys(s) : Did(s, j)})
    BY DEF EnteredInv
  <2>1. CASE s # r
    <3>1. \A j \in SubKeys(s) : Did(s, j)' <=> Did(s, j)
      BY <2>1 DEF Stays
    <3>2. entered'[s]["sub"] = entered[s]["sub"]
      BY <2>1 DEF EnteredOne
    <3> QED BY <2>0, <3>1, <3>2, EnteredKept
  <2>2. CASE s = r
    <3>1. \A j \in SubKeys(r) : j \in Keys /\ CallAt(r, j).kind # "none"
      BY DEF SubKeys, IsCollective
    <3>2. CASE CallAt(r, k).comm = "sub"
      <4>1. k \in SubKeys(r)
        BY <3>2 DEF SubKeys
      <4>2. entered'[r]["sub"] = entered[r]["sub"] + 1
        BY <3>2 DEF EnteredOne
      <4> QED BY <2>0, <2>2, <3>1, <4>1, <4>2, EnteredGrows
    <3>3. CASE CallAt(r, k).comm # "sub"
      <4>1. k \notin SubKeys(r)
        BY <3>3 DEF SubKeys
      <4>2. entered'[r]["sub"] = entered[r]["sub"]
        BY <3>3 DEF EnteredOne
      <4>3. \A j \in SubKeys(r) : Did(r, j)' <=> Did(r, j)
        BY <3>1, <4>1
      <4> QED BY <2>0, <2>2, <4>2, <4>3, EnteredKept
    <3> QED BY <3>2, <3>3
  <2> QED BY <2>1, <2>2
<1> QED BY <1>1 DEF EnteredInv

\* A rank enters a broadcast.
LEMMA EnterStep ==
  ASSUME ShapeInv, NEW r \in Ranks, ~ Done(r), ~ held[r], NEW c, c.comm \in Comms, EnterAndMayLeave(r, c)
  PROVE  /\ Does(r) /\ EnteredOne(r, c.comm)
         /\ \A s \in Ranks \ {r} : Stays(s)
         /\ pc' \in [Ranks -> Nat] /\ held' \in [Ranks -> BOOLEAN]
<1>1. /\ entered' = [entered EXCEPT ![r][c.comm] = @ + 1]
      /\ \/ pc' = [pc EXCEPT ![r] = @ + 1] /\ held' = held
         \/ held' = [held EXCEPT ![r] = TRUE] /\ pc' = pc
  BY DEF EnterAndMayLeave
<1>2. EnteredOne(r, c.comm)
  BY <1>1, EnteredMore
<1>3. CASE pc' = [pc EXCEPT ![r] = @ + 1] /\ held' = held
  BY <1>2, <1>3, PcStep
<1>4. CASE held' = [held EXCEPT ![r] = TRUE] /\ pc' = pc
  <2>1. pc'[r] = pc[r] /\ held'[r] = TRUE
    BY <1>4 DEF ShapeInv
  <2>2. \A s \in Ranks \ {r} : pc'[s] = pc[s] /\ held'[s] = held[s]
    BY <1>4 DEF ShapeInv
  <2>3. pc' \in [Ranks -> Nat] /\ held' \in [Ranks -> BOOLEAN]
    BY <1>4 DEF ShapeInv
  <2> QED BY <1>2, <2>1, <2>2, <2>3, StayStep DEF Does
<1> QED BY <1>1, <1>3, <1>4

\* All members of a communicator broadcast together; no message of a
\* broadcast is out before its root has entered it.
LEMMA BcastOrder ==
  ASSUME IInv, NEW r \in Ranks, NEW k \in Keys, CallAt(r, k).kind = "bcast",
         NEW t \in Members(r, CallAt(r, k).comm), NEW j \in InBroadcast(CallAt(r, k).comm, t), k <= j
  PROVE  Did(CallAt(r, k).peer, k)
<1> DEFINE c == CallAt(r, k)
           d == CallAt(t, j)
<1> USE DEF IInv
<1>1. AllMake(c, r, k) /\ c.peer \in Members(r, c.comm) /\ c.peer \in Ranks
  BY BcastMeets
<1>2. t \in Ranks /\ Members(t, c.comm) = Members(r, c.comm)
  BY MembersAgree
<1>3. j \in Keys /\ d.kind = "bcast" /\ d.comm = c.comm /\ Did(d.peer, j)
  BY DEF InBroadcast
<1>4. d.peer \in Members(t, d.comm) /\ d.peer \in Ranks
  BY <1>2, <1>3, BcastMeets
<1>5. CallAt(d.peer, k) = c
  BY <1>1, <1>2, <1>3, <1>4 DEF AllMake
<1>6. Did(d.peer, k)
  BY <1>3, <1>4, Earlier
<1> QED BY <1>4, <1>5, <1>6 DEF CausalInv

\* The queues of a communicator when rank s gets message v.
CollDiffers(new, old, q, X, v) ==
  \A a \in Comms, s \in Ranks : new[a][s] = IF a = q /\ s \in X THEN Append(old[a][s], v) ELSE old[a][s]

CollShape(co) == co = [q \in Comms |-> [s \in Ranks |-> co[q][s]]]

CollPushed(new, old, q, X, v) ==
  new = [old EXCEPT ![q] = [s \in Ranks |-> IF s \in X THEN Append(@[s], v) ELSE @[s]]]

\* The queues to which a broadcast appends its message, and the others.
LEMMA CollPush ==
  ASSUME NEW old, CollShape(old), NEW q \in Comms, NEW X, NEW v, NEW new, CollPushed(new, old, q, X, v)
  PROVE  CollDiffers(new, old, q, X, v) /\ CollShape(new)
<1>1. old = [a \in Comms |-> [s \in Ranks |-> old[a][s]]]
  BY DEF CollShape
<1> DEFINE row == [s \in Ranks |-> IF s \in X THEN Append(old[q][s], v) ELSE old[q][s]]
<1>2. new = [old EXCEPT ![q] = row]
  BY DEF CollPushed
<1>3. row = [s \in Ranks |-> row[s]] /\ \A s \in Ranks : row[s] = IF s \in X THEN Append(old[q][s], v) ELSE old[q][s]
  OBVIOUS
<1> HIDE DEF row
<1>4. \A a \in Comms : new[a] = IF a = q THEN row ELSE old[a]
  BY <1>1, <1>2
<1>5. new = [a \in Comms |-> new[a]]
  BY <1>1, <1>2
<1>6. ASSUME NEW a \in Comms PROVE new[a] = [s \in Ranks |-> new[a][s]]
  <2>1. CASE a = q
    BY <1>3, <1>4, <2>1
  <2>2. CASE a # q
    <3>1. old[a] = [s \in Ranks |-> old[a][s]]
      BY <1>1
    <3>2. new[a] = old[a]
      BY <1>4, <2>2
    <3> QED BY <3>1, <3>2
  <2> QED BY <2>1, <2>2
<1>7. CollDiffers(new, old, q, X, v)
  BY <1>3, <1>4 DEF CollDiffers
<1>8. CollShape(new)
  BY <1>5, <1>6 DEF CollShape
<1> QED BY <1>7, <1>8

\* What entering a broadcast does to everything but the queues and the stores.
LEMMA BcastEntered ==
  ASSUME IInv, NEW r \in Ranks, NEW k, k = Clock(r), Does(r),
         NEW c, c = CallAt(r, k), c.kind = "bcast", c.peer = r \/ Did(c.peer, k),
         \A s \in Ranks \ {r} : Stays(s), EnteredOne(r, c.comm), chan' = chan,
         pc' \in [Ranks -> Nat], held' \in [Ranks -> BOOLEAN]
  PROVE  /\ HeldInv' /\ \A s \in Ranks : pc'[s] \in 1 .. Len(Script[s]) + 1
         /\ ChannelInv' /\ CausalInv' /\ EnteredInv'
         /\ k \in Keys /\ k \in Nat /\ After(r, k) /\ StoreTime(r) = k /\ ~ Did(r, k) /\ Did(r, k)'
         /\ \A j \in Keys : Did(r, j) <=> j < k
         /\ \A s \in Ranks, j \in Keys : CallAt(s, j).kind # "none" /\ (s # r \/ j # k) => Untouched(s, j)
<1> USE DEF IInv
<1>1. /\ k \in Keys /\ k \in Nat /\ After(r, k) /\ StoreTime(r) = k
      /\ \A j \in Keys : Did(r, j) <=> j < k
      /\ \A j \in Keys : CallAt(r, j).kind # "none" => (Did(r, j)' <=> Did(r, j) \/ j = k)
      /\ ~ Did(r, k) /\ Did(r, k)'
  BY DoesStep
<1>2. HeldInv' /\ \A s \in Ranks : pc'[s] \in 1 .. Len(Script[s]) + 1
  BY <1>1, Together
<1>3. ASSUME NEW s \in Ranks, NEW j \in Keys, CallAt(s, j).kind # "none", s # r \/ j # k
      PROVE  Untouched(s, j)
  <2>1. CASE s # r
    BY <2>1 DEF Stays, Untouched
  <2>2. CASE s = r
    BY <1>1, <1>3, <2>2 DEF After, Untouched
  <2> QED BY <2>1, <2>2
<1>4. ASSUME NEW s \in Ranks, NEW j \in Keys, CallAt(s, j).kind \in {"send", "recv"}
      PROVE  Untouched(s, j)
  BY <1>3, <1>4
<1>5. ChannelInv'
  BY <1>4, ChannelsKept
<1>6. CausalInv'
  <2>1. ASSUME NEW s \in Ranks, NEW j \in Keys, CallAt(s, j).kind \in {"send", "recv", "bcast"}, Did(s, j)
        PROVE  Did(s, j)'
    <3>1. CASE s = r /\ j = k
      BY <1>1, <3>1
    <3>2. CASE ~ (s = r /\ j = k)
      BY <1>3, <2>1, <3>2 DEF Untouched
    <3> QED BY <3>1, <3>2
  <2>2. ASSUME NEW s \in Ranks, NEW j \in Keys, CallAt(s, j).kind \in {"recv", "bcast"}, Did(s, j)', ~ Did(s, j)
        PROVE  Did(CallAt(s, j).peer, j)'
    <3>1. s = r /\ j = k
      BY <1>3, <2>2 DEF Untouched
    <3>2. CASE c.peer = r
      BY <1>1, <3>1, <3>2
    <3>3. CASE c.peer # r
      <4>1. CallAt(c.peer, k).kind = "bcast" /\ c.peer \in Ranks
        BY <1>1, BcastMeets DEF AllMake
      <4> QED BY <1>1, <2>1, <3>1, <3>3, <4>1
    <3> QED BY <3>2, <3>3
  <2> QED BY <2>1, <2>2, CausalStep
<1>7. EnteredInv'
  BY <1>1, EnteredStep DEF IsCollective
<1> QED BY <1>1, <1>2, <1>3, <1>5, <1>6, <1>7

\* A broadcast entered by its root.
LEMMA BcastAsRootKeeps ==
  ASSUME IInv, NEW r \in Ranks, BcastAsRoot(r)
  PROVE  IInv'
<1>c. PICK c : c = At(r)
  OBVIOUS
<1>k. PICK k : k = Clock(r)
  OBVIOUS
<1> USE DEF IInv
<1>1. /\ ~ Done(r) /\ ~ held[r] /\ c.kind = "bcast" /\ c.peer = r
      /\ coll' = [coll EXCEPT ![c.comm] =
                    [s \in Ranks |-> IF s \in Members(r, c.comm) \ {r}
                                     THEN Append(@[s], Load(r, c)) ELSE @[s]]]
      /\ EnterAndMayLeave(r, c)
      /\ store' = store /\ chan' = chan /\ failed' = failed
  BY <1>c DEF BcastAsRoot, Makes
<1>2. k \in Keys /\ k \in Nat /\ c = CallAt(r, k)
  BY <1>c, <1>k, <1>1, ClockIs
<1>3. /\ AllMake(c, r, k) /\ c.comm \in Comms /\ c.of \in Names
      /\ r \in Members(r, c.comm) /\ Members(r, c.comm) \subseteq Ranks
  <2>1. AllMake(c, r, k) /\ c.of \in Names
    BY <1>1, <1>2, BcastMeets
  <2>2. c.comm \in Comms
    BY <2>1 DEF AllMake
  <2>3. r \in Members(r, c.comm) /\ Members(r, c.comm) \subseteq Ranks
    BY MembersAre
  <2> QED BY <2>1, <2>2, <2>3
<1>4. /\ Does(r) /\ EnteredOne(r, c.comm) /\ \A s \in Ranks \ {r} : Stays(s)
      /\ pc' \in [Ranks -> Nat] /\ held' \in [Ranks -> BOOLEAN]
  BY <1>1, <1>3, EnterStep
<1>5. /\ HeldInv' /\ \A s \in Ranks : pc'[s] \in 1 .. Len(Script[s]) + 1
      /\ ChannelInv' /\ CausalInv' /\ EnteredInv'
      /\ After(r, k) /\ StoreTime(r) = k /\ ~ Did(r, k) /\ Did(r, k)'
      /\ \A s \in Ranks, j \in Keys : CallAt(s, j).kind # "none" /\ (s # r \/ j # k) => Untouched(s, j)
  BY <1>k, <1>1, <1>2, <1>4, BcastEntered
<1>6. Load(r, c) = Message(r, k)
  BY <1>2, <1>3, <1>5, LoadIsMessage
<1> DEFINE X == Members(r, c.comm) \ {r}
<1>7. CollDiffers(coll', coll, c.comm, X, Message(r, k)) /\ CollShape(coll')
  <2>1. CollShape(coll)
    BY DEF ShapeInv, CollShape
  <2>2. CollPushed(coll', coll, c.comm, X, Message(r, k))
    BY <1>1, <1>6 DEF CollPushed
  <2> QED BY <1>3, <2>1, <2>2, CollPush
<1>8. ASSUME NEW q \in Comms, NEW t \in Ranks
      PROVE  Listing(coll'[q][t], BcastFun(q, t)')
  <2>0. Listing(coll[q][t], BcastFun(q, t))
    BY Channels
  <2>1. CASE q = c.comm /\ t \in X
    <3>1. coll'[q][t] = Append(coll[q][t], Message(r, k))
      BY <1>7, <2>1 DEF CollDiffers
    <3>2. t # r /\ t \in Members(r, c.comm) /\ CallAt(t, k) = c
      BY <1>3, <2>1 DEF AllMake
    <3>3. ~ Did(t, k) /\ ~ Did(t, k)'
      <4>1. ~ Did(t, k)
        BY <1>1, <1>2, <1>5, <3>2 DEF CausalInv
      <4>2. Untouched(t, k)
        BY <1>1, <1>2, <1>5, <3>2
      <4> QED BY <4>1, <4>2 DEF Untouched
    <3>4. InBroadcast(q, t)' = InBroadcast(q, t) \cup {k}
      <4>1. ASSUME NEW j \in Keys, CallAt(t, j).kind = "bcast", j # k
            PROVE  (Did(CallAt(t, j).peer, j)' /\ ~ Did(t, j)') <=> (Did(CallAt(t, j).peer, j) /\ ~ Did(t, j))
        <5>1. CallAt(t, j).peer \in Ranks /\ CallAt(CallAt(t, j).peer, j).kind = "bcast"
          BY <4>1, BcastMeets DEF AllMake
        <5>2. Untouched(CallAt(t, j).peer, j) /\ Untouched(t, j)
          BY <1>5, <4>1, <5>1
        <5> QED BY <5>2 DEF Untouched
      <4>2. CallAt(t, k).kind = "bcast" /\ CallAt(t, k).comm = q /\ CallAt(t, k).peer = r /\ Did(r, k)' /\ ~ Did(t, k)'
        BY <1>1, <1>5, <2>1, <3>2, <3>3
      <4> QED BY <1>2, <3>2, <4>1, <4>2 DEF InBroadcast
    <3>5. \A j \in InBroadcast(q, t) : j < k
      <4>1. ASSUME NEW j \in InBroadcast(q, t), k <= j PROVE FALSE
        BY <1>1, <1>2, <1>5, <2>1, <3>2, <4>1, BcastOrder
      <4> QED BY <1>2, <4>1, KeysAreInts
    <3> DEFINE f == BcastFun(q, t)
               g == BcastFun(q, t)'
    <3>6. DOMAIN f = InBroadcast(q, t) /\ DOMAIN f \subseteq Int /\ k \in Int
      BY <1>2, KeysAreInts
    <3>7. g = [j \in DOMAIN f \cup {k} |-> IF j = k THEN Message(r, k) ELSE f[j]]
      <4>1. g = [j \in InBroadcast(q, t) \cup {k} |-> Message(CallAt(t, j).peer, j)]
        BY <3>4 DEF BcastFun
      <4>2. \A j \in InBroadcast(q, t) : f[j] = Message(CallAt(t, j).peer, j) /\ j # k
        BY <1>2, <3>5, KeysAreInts DEF BcastFun
      <4>3. \A j \in InBroadcast(q, t) \cup {k} :
               Message(CallAt(t, j).peer, j) = IF j = k THEN Message(r, k) ELSE f[j]
        BY <1>1, <3>2, <4>2
      <4> HIDE DEF f, g
      <4> QED BY <3>6, <4>1, <4>3
    <3> HIDE DEF f, g
    <3>8. Listing(coll[q][t], f)
      BY <2>0 DEF f
    <3>9. Listing(Append(coll[q][t], Message(r, k)), g)
      BY <3>5, <3>6, <3>7, <3>8, ListsPush
    <3> QED BY <3>1, <3>9 DEF g
  <2>2. CASE ~ (q = c.comm /\ t \in X)
    <3>1. coll'[q][t] = coll[q][t]
      BY <1>7, <2>2 DEF CollDiffers
    <3>2. ASSUME NEW j \in Keys, CallAt(t, j).kind = "bcast", CallAt(t, j).comm = q, CallAt(t, j).peer # t
          PROVE  (Did(t, j)' <=> Did(t, j)) /\ (Did(CallAt(t, j).peer, j)' <=> Did(CallAt(t, j).peer, j))
      <4> DEFINE p == CallAt(t, j).peer
      <4>1. /\ p \in Ranks /\ p \in Members(t, q) /\ CallAt(p, j) = CallAt(t, j)
        BY <3>2, BcastMeets DEF AllMake
      <4>2. t # r \/ j # k
        BY <1>1, <1>2, <3>2
      <4>3. p # r \/ j # k
        <5>1. SUFFICES ASSUME p = r, j = k PROVE FALSE
          OBVIOUS
        <5>2. q = c.comm
          BY <1>2, <3>2, <4>1, <5>1
        <5>3. Members(r, q) = Members(t, q) /\ t \in Members(t, q)
          BY <4>1, <5>1, MembersAgree, MembersAre
        <5> QED BY <2>2, <3>2, <5>1, <5>2, <5>3
      <4>4. Untouched(t, j)
        BY <1>5, <3>2, <4>2
      <4>5. Untouched(p, j)
        BY <1>5, <3>2, <4>1, <4>3
      <4> QED BY <4>4, <4>5 DEF Untouched
    <3> QED BY <2>0, <3>1, <3>2, BroadcastKept
  <2> QED BY <2>1, <2>2
<1>9. BroadcastInv'
  BY <1>8, Channels
<1>10. StoreInv'
  <2>1. ASSUME NEW s \in Ranks, NEW name \in Names PROVE store'[s][name] = Expected(s, name, StoreTime(s)')
    <3>1. CASE s # r
      BY <1>1, <1>4, <3>1 DEF StoreInv, Stays
    <3>2. CASE s = r
      <4>1. ASSUME NEW m \in Names PROVE store'[r][m] = Expected(r, m, k + 1)
        <5>1. ~ Stores(c, r, m)
          BY <1>1 DEF Stores
        <5>2. Expected(r, m, k + 1) = Expected(r, m, k)
          BY <1>2, <5>1, Changes
        <5> QED BY <1>1, <1>5, <5>2 DEF StoreInv
      <4> QED BY <1>1, <1>2, <1>5, <3>2, <4>1, StoreStep
    <3> QED BY <3>1, <3>2
  <2> QED BY <2>1 DEF StoreInv
<1>11. ShapeInv'
  <2>1. coll' = [q \in Comms |-> [s \in Ranks |-> coll'[q][s]]]
    BY <1>7 DEF CollShape
  <2>2. /\ failed' = FALSE
        /\ store' = [s \in Ranks |-> [name \in Names |-> store'[s][name]]]
        /\ chan' = [q \in Comms |-> [s \in Ranks |-> [t \in Ranks |-> chan'[q][s][t]]]]
    BY <1>1 DEF ShapeInv
  <2> QED BY <1>4, <1>5, <2>1, <2>2 DEF ShapeInv, EnteredOne
<1> QED BY <1>5, <1>9, <1>10, <1>11

\* The queue of rank r on communicator q becomes v.
CollSet(new, old, q, r, v) == new = [old EXCEPT ![q][r] = v]

CollOne(new, old, q, r, v) ==
  \A a \in Comms, s \in Ranks : new[a][s] = IF a = q /\ s = r THEN v ELSE old[a][s]

\* The queue from which a message is taken, and the others.
LEMMA CollTake ==
  ASSUME NEW old, CollShape(old), NEW q \in Comms, NEW r \in Ranks, NEW v, NEW new, CollSet(new, old, q, r, v)
  PROVE  CollOne(new, old, q, r, v) /\ CollShape(new)
<1>1. old = [a \in Comms |-> [s \in Ranks |-> old[a][s]]]
  BY DEF CollShape
<1>2. new = [old EXCEPT ![q] = [old[q] EXCEPT ![r] = v]]
  BY <1>1 DEF CollSet
<1> DEFINE row == [old[q] EXCEPT ![r] = v]
<1>3. old[q] = [s \in Ranks |-> old[q][s]]
  BY <1>1
<1>4. row = [s \in Ranks |-> row[s]] /\ \A s \in Ranks : row[s] = IF s = r THEN v ELSE old[q][s]
  BY <1>3
<1>5. new = [old EXCEPT ![q] = row]
  BY <1>2
<1> HIDE DEF row
<1>6. \A a \in Comms : new[a] = IF a = q THEN row ELSE old[a]
  BY <1>1, <1>5
<1>7. new = [a \in Comms |-> new[a]]
  BY <1>1, <1>5
<1>8. ASSUME NEW a \in Comms PROVE new[a] = [s \in Ranks |-> new[a][s]]
  <2>1. CASE a = q
    BY <1>4, <1>6, <2>1
  <2>2. CASE a # q
    <3>1. old[a] = [s \in Ranks |-> old[a][s]]
      BY <1>1
    <3>2. new[a] = old[a]
      BY <1>6, <2>2
    <3> QED BY <3>1, <3>2
  <2> QED BY <2>1, <2>2
<1>9. CollOne(new, old, q, r, v)
  BY <1>4, <1>6 DEF CollOne
<1>10. CollShape(new)
  BY <1>7, <1>8 DEF CollShape
<1> QED BY <1>9, <1>10

\* A message of a broadcast taken by a receiver.
LEMMA BcastAsReceiverKeeps ==
  ASSUME IInv, NEW r \in Ranks, BcastAsReceiver(r)
  PROVE  IInv'
<1>c. PICK c : c = At(r)
  OBVIOUS
<1>k. PICK k : k = Clock(r)
  OBVIOUS
<1>in. PICK in : in = coll[c.comm][r]
  OBVIOUS
<1> USE DEF IInv
<1>1. /\ ~ Done(r) /\ ~ held[r] /\ c.kind = "bcast" /\ c.peer # r /\ in # << >>
      /\ coll' = [coll EXCEPT ![c.comm][r] = Tail(@)]
      /\ Head(in).part = c.part /\ Head(in).root = c.peer =>
           store' = Take(r, c, Head(in)) /\ EnterAndMayLeave(r, c) /\ failed' = failed
      /\ chan' = chan
  BY <1>c, <1>in DEF BcastAsReceiver, Makes
<1>2. k \in Keys /\ k \in Nat /\ c = CallAt(r, k)
  BY <1>c, <1>k, <1>1, ClockIs
<1>3. /\ AllMake(c, r, k) /\ c.comm \in Comms /\ c.of \in Names /\ c.peer \in Ranks
      /\ c.peer \in Members(r, c.comm) /\ r \in Members(r, c.comm) /\ Members(r, c.comm) \subseteq Ranks
  <2>1. AllMake(c, r, k) /\ c.of \in Names /\ c.peer \in Members(r, c.comm)
    BY <1>1, <1>2, BcastMeets
  <2>2. c.comm \in Comms
    BY <2>1 DEF AllMake
  <2>3. r \in Members(r, c.comm) /\ Members(r, c.comm) \subseteq Ranks
    BY MembersAre
  <2> QED BY <2>1, <2>2, <2>3
<1>4. \A j \in Keys : Did(r, j) <=> j < k
  BY <1>k, <1>1, Earlier
<1> DEFINE f == BcastFun(c.comm, r)
           g == [j \in DOMAIN f \ {k} |-> f[j]]
<1>5. Listing(in, f) /\ DOMAIN f = InBroadcast(c.comm, r) /\ DOMAIN f \subseteq Int
  BY <1>in, <1>3, Channels, KeysAreInts
<1>6. \A j \in InBroadcast(c.comm, r) : k <= j
  BY <1>2, <1>4, KeysAreInts DEF InBroadcast
<1>7. Did(c.peer, k)
  <2> HIDE DEF f
  <2>1. PICK j \in InBroadcast(c.comm, r) : TRUE
    BY <1>1, <1>5, ListsEmpty
  <2> QED BY <1>1, <1>2, <1>3, <1>6, <2>1, BcastOrder
<1>8. k \in InBroadcast(c.comm, r)
  BY <1>1, <1>2, <1>4, <1>7 DEF InBroadcast
<1>9. f[k] = Message(c.peer, k)
  BY <1>2, <1>8 DEF BcastFun
<1> HIDE DEF f
<1>10. in[1] = f[k] /\ Listing(Tail(in), g)
  <2>1. k \in DOMAIN f /\ \A j \in DOMAIN f : k <= j
    BY <1>5, <1>6, <1>8
  <2>2. Without(g, f, k)
    BY DEF Without
  <2> HIDE DEF g
  <2> QED BY <1>5, <2>1, <2>2, HeadTaken
<1> HIDE DEF g
<1>11. Head(in) = Message(c.peer, k)
  BY <1>9, <1>10
<1>12. Head(in).part = c.part /\ Head(in).root = c.peer
  <2>1. CallAt(c.peer, k) = c
    BY <1>3 DEF AllMake
  <2> QED BY <1>11, <2>1 DEF Message
<1>13. store' = Take(r, c, Message(c.peer, k)) /\ EnterAndMayLeave(r, c) /\ failed' = failed
  BY <1>1, <1>11, <1>12
<1>14. /\ Does(r) /\ EnteredOne(r, c.comm) /\ \A s \in Ranks \ {r} : Stays(s)
       /\ pc' \in [Ranks -> Nat] /\ held' \in [Ranks -> BOOLEAN]
  BY <1>1, <1>3, <1>13, EnterStep
<1>15. /\ HeldInv' /\ \A s \in Ranks : pc'[s] \in 1 .. Len(Script[s]) + 1
       /\ ChannelInv' /\ CausalInv' /\ EnteredInv'
       /\ After(r, k) /\ StoreTime(r) = k /\ ~ Did(r, k) /\ Did(r, k)'
       /\ \A s \in Ranks, j \in Keys : CallAt(s, j).kind # "none" /\ (s # r \/ j # k) => Untouched(s, j)
  BY <1>k, <1>1, <1>2, <1>7, <1>14, BcastEntered
<1>16. CollOne(coll', coll, c.comm, r, Tail(in)) /\ CollShape(coll')
  <2>1. CollShape(coll)
    BY DEF ShapeInv, CollShape
  <2>2. CollSet(coll', coll, c.comm, r, Tail(in))
    BY <1>in, <1>1 DEF CollSet
  <2> QED BY <1>3, <2>1, <2>2, CollTake
<1>17. ASSUME NEW q \in Comms, NEW t \in Ranks
       PROVE  Listing(coll'[q][t], BcastFun(q, t)')
  <2>1. CASE q = c.comm /\ t = r
    <3>1. coll'[q][t] = Tail(in)
      BY <1>16, <2>1 DEF CollOne
    <3>2. InBroadcast(q, t)' = InBroadcast(q, t) \ {k}
      <4>1. ASSUME NEW j \in Keys, CallAt(t, j).kind = "bcast", CallAt(t, j).peer # t
            PROVE  (Did(CallAt(t, j).peer, j)' /\ ~ Did(t, j)') <=> (Did(CallAt(t, j).peer, j) /\ ~ Did(t, j)) /\ j # k
        <5>1. CallAt(t, j).peer \in Ranks /\ CallAt(CallAt(t, j).peer, j).kind = "bcast"
          BY <4>1, BcastMeets DEF AllMake
        <5>2. Untouched(CallAt(t, j).peer, j)
          BY <1>15, <2>1, <4>1, <5>1
        <5>3. CASE j = k
          BY <1>15, <2>1, <5>3
        <5>4. CASE j # k
          <6>1. Untouched(t, j)
            BY <1>15, <4>1, <5>4
          <6> QED BY <5>2, <5>4, <6>1 DEF Untouched
        <5> QED BY <5>3, <5>4
      <4> QED BY <4>1 DEF InBroadcast
    <3>3. BcastFun(q, t)' = g
      <4>1. BcastFun(q, t)' = [j \in InBroadcast(q, t) \ {k} |-> Message(CallAt(t, j).peer, j)]
        BY <3>2 DEF BcastFun
      <4>2. \A j \in InBroadcast(q, t) : f[j] = Message(CallAt(t, j).peer, j)
        BY <2>1 DEF f, BcastFun
      <4> QED BY <1>5, <2>1, <4>1, <4>2 DEF g
    <3> QED BY <1>10, <3>1, <3>3
  <2>2. CASE ~ (q = c.comm /\ t = r)
    <3>1. coll'[q][t] = coll[q][t]
      BY <1>16, <2>2 DEF CollOne
    <3>2. ASSUME NEW j \in Keys, CallAt(t, j).kind = "bcast", CallAt(t, j).comm = q, CallAt(t, j).peer # t
          PROVE  (Did(t, j)' <=> Did(t, j)) /\ (Did(CallAt(t, j).peer, j)' <=> Did(CallAt(t, j).peer, j))
      <4> DEFINE p == CallAt(t, j).peer
      <4>1. p \in Ranks /\ CallAt(p, j) = CallAt(t, j)
        BY <3>2, BcastMeets DEF AllMake
      <4>2. t # r \/ j # k
        BY <1>2, <2>2, <3>2
      <4>3. p # r \/ j # k
        BY <1>1, <1>2, <4>1
      <4>4. Untouched(t, j)
        BY <1>15, <3>2, <4>2
      <4>5. Untouched(p, j)
        BY <1>15, <3>2, <4>1, <4>3
      <4> QED BY <4>4, <4>5 DEF Untouched
    <3>3. Listing(coll[q][t], BcastFun(q, t))
      BY Channels
    <3> QED BY <3>1, <3>2, <3>3, BroadcastKept
  <2> QED BY <2>1, <2>2
<1>18. BroadcastInv'
  BY <1>17, Channels
<1>19. /\ \A q \in Ranks \ {r} : \A name \in Names : store'[q][name] = store[q][name]
       /\ \A name \in Names : store'[r][name] = Expected(r, name, k + 1)
       /\ store' = [q \in Ranks |-> [name \in Names |-> store'[q][name]]]
  <2> DEFINE m == Message(c.peer, k)
  <2>1. m.batch = Message(c.peer, k).batch /\ store' = Take(r, c, m)
    BY <1>13
  <2> HIDE DEF m
  <2> QED BY <1>1, <1>2, <1>3, <1>15, <2>1, TakeStores
<1>20. StoreInv'
  <2>1. ASSUME NEW s \in Ranks, NEW name \in Names PROVE store'[s][name] = Expected(s, name, StoreTime(s)')
    <3>1. CASE s = r
      BY <1>1, <1>2, <1>15, <1>19, <3>1, StoreStep
    <3>2. CASE s # r
      <4>1. store'[s][name] = store[s][name]
        BY <1>19, <3>2
      <4> QED BY <1>14, <3>2, <4>1 DEF StoreInv, Stays
    <3> QED BY <3>1, <3>2
  <2> QED BY <2>1 DEF StoreInv
<1>21. ShapeInv'
  <2>1. coll' = [q \in Comms |-> [s \in Ranks |-> coll'[q][s]]]
    BY <1>16 DEF CollShape
  <2>2. failed' = FALSE /\ chan' = [q \in Comms |-> [s \in Ranks |-> [t \in Ranks |-> chan'[q][s][t]]]]
    BY <1>1, <1>13 DEF ShapeInv
  <2> QED BY <1>14, <1>15, <1>19, <2>1, <2>2 DEF ShapeInv, EnteredOne
<1> QED BY <1>15, <1>18, <1>20, <1>21

\* The product as the model and the lemma write it.
LEMMA ProductIs == \A r : MatMulOnGrid(r) = GridProduct(r, Members(r, "sub"), store)
  BY DEF MatMulOnGrid, GridProduct

\* What a barrier does to the messages: nothing.
LEMMA BarrierRest ==
  ASSUME IInv, chan' = chan, coll' = coll,
         \A s \in Ranks, j \in Keys : CallAt(s, j).kind \in {"send", "recv", "bcast"} =>
            (Did(s, j)' <=> Did(s, j)) /\ (CallAt(s, j).kind # "bcast" => (Left(s, j)' <=> Left(s, j)))
  PROVE  ChannelInv' /\ BroadcastInv' /\ CausalInv'
<1> USE DEF IInv
<1>1. ASSUME NEW s \in Ranks, NEW j \in Keys, CallAt(s, j).kind \in {"send", "recv"} PROVE Untouched(s, j)
  BY <1>1 DEF Untouched
<1>2. ChannelInv'
  BY <1>1, ChannelsKept
<1>3. ASSUME NEW s \in Ranks, NEW j \in Keys, CallAt(s, j).kind = "bcast" PROVE Did(s, j)' <=> Did(s, j)
  BY <1>3
<1>4. BroadcastInv'
  BY <1>3, BroadcastsKept
<1>5. CausalInv'
  <2>1. ASSUME NEW s \in Ranks, NEW j \in Keys, CallAt(s, j).kind \in {"send", "recv", "bcast"}
        PROVE  Did(s, j)' <=> Did(s, j)
    BY <2>1
  <2>2. ASSUME NEW s \in Ranks, NEW j \in Keys, CallAt(s, j).kind \in {"send", "recv", "bcast"}, Did(s, j)
        PROVE  Did(s, j)'
    BY <2>1, <2>2
  <2>3. ASSUME NEW s \in Ranks, NEW j \in Keys, CallAt(s, j).kind \in {"recv", "bcast"}
        PROVE  ~ (Did(s, j)' /\ ~ Did(s, j))
    BY <2>1, <2>3
  <2> QED BY <2>2, <2>3, CausalStep
<1> QED BY <1>2, <1>4, <1>5

\* A rank that comes to the multiplication has the bundle and its operands.
LEMMA MultiplyReady ==
  ASSUME StoreInv, NEW r \in Ranks, NEW k, StoreTime(r) = k, k = 12 * Width
  PROVE  MayMultiply(r)
<1>1. k \in Int /\ k >= 12 * Width
  BY WidthType
<1>2. /\ "A_local" \in Names /\ "B_local" \in Names
      /\ \A part \in Parts : part \in Names
  BY NamesKnown DEF Names
<1>3. \A name \in Names : store[r][name] = Expected(r, name, k)
  BY DEF StoreInv
<1>4. \A part \in Parts : store[r][part].rows = [x \in {0} |-> <<part>>]
  BY <1>1, <1>2, <1>3, OperandsReady
<1>5. /\ store[r]["A_local"] = Blocks(r, "sub", ValueOf(r, "A_local"))
      /\ store[r]["B_local"] = Blocks(r, "sub", ValueOf(r, "B_local"))
  BY <1>1, <1>2, <1>3, OperandsReady
<1>6. /\ DOMAIN store[r]["A_local"].rows = RowsIn(r, "sub")
      /\ DOMAIN store[r]["B_local"].cols = ColsIn(r, "sub")
  BY <1>5 DEF Blocks
<1> QED BY <1>4, <1>6 DEF MayMultiply

\* A barrier entered.
LEMMA EnterBarrierKeeps ==
  ASSUME IInv, NEW r \in Ranks, EnterBarrier(r)
  PROVE  IInv'
<1>c. PICK c : c = At(r)
  OBVIOUS
<1>k. PICK k : k = Clock(r)
  OBVIOUS
<1> USE DEF IInv
<1>1. /\ ~ Done(r) /\ ~ held[r] /\ c.kind \in {"split", "matmul"}
      /\ ~ (c.kind = "matmul" /\ ~ MayMultiply(r)) =>
           /\ entered' = [entered EXCEPT ![r][c.comm] = @ + 1]
           /\ held' = [held EXCEPT ![r] = TRUE]
           /\ failed' = failed
      /\ pc' = pc /\ store' = store /\ chan' = chan /\ coll' = coll
  BY <1>c DEF EnterBarrier, Makes
<1>2. k \in Keys /\ k \in Nat /\ c = CallAt(r, k)
  BY <1>c, <1>k, <1>1, ClockIs
<1>3. c.comm \in Comms /\ (c.kind = "matmul" => k = 12 * Width)
  BY <1>1, <1>2, BarrierMeets
<1>4. c.kind = "matmul" => MayMultiply(r)
  <2>1. StoreTime(r) = k
    BY <1>k, <1>1 DEF StoreTime
  <2> QED BY <1>3, <2>1, MultiplyReady
<1>5. /\ entered' = [entered EXCEPT ![r][c.comm] = @ + 1]
      /\ held' = [held EXCEPT ![r] = TRUE]
      /\ failed' = failed
  BY <1>1, <1>4
<1>6. EnteredOne(r, c.comm)
  BY <1>3, <1>5, EnteredMore
<1>7. /\ \A s \in Ranks : pc'[s] = pc[s] /\ (s # r => held'[s] = held[s])
      /\ held'[r] = TRUE /\ pc' \in [Ranks -> Nat] /\ held' \in [Ranks -> BOOLEAN]
  BY <1>1, <1>5 DEF ShapeInv
<1>8. Does(r) /\ \A s \in Ranks \ {r} : Stays(s)
  BY <1>1, <1>7, StayStep DEF Does
<1>9. /\ After(r, k) /\ StoreTime(r) = k /\ ~ Did(r, k)
      /\ \A j \in Keys : CallAt(r, j).kind # "none" => (Did(r, j)' <=> Did(r, j) \/ j = k)
  BY <1>k, <1>8, DoesStep
<1>10. HeldInv' /\ \A s \in Ranks : pc'[s] \in 1 .. Len(Script[s]) + 1
  BY <1>1, <1>2, <1>7, <1>8, <1>9, Together
<1>11. ChannelInv' /\ BroadcastInv' /\ CausalInv'
  <2>1. ASSUME NEW s \in Ranks, NEW j \in Keys, CallAt(s, j).kind \in {"send", "recv", "bcast"}
        PROVE  (Did(s, j)' <=> Did(s, j)) /\ (Left(s, j)' <=> Left(s, j))
    <3>1. CASE s # r
      BY <1>8, <3>1 DEF Stays
    <3>2. CASE s = r
      <4>1. j # k /\ CallAt(r, j).kind # "none"
        BY <1>1, <1>2, <2>1, <3>2
      <4> QED BY <1>9, <3>2, <4>1 DEF After
    <3> QED BY <3>1, <3>2
  <2> QED BY <1>1, <2>1, BarrierRest
<1>12. EnteredInv'
  BY <1>1, <1>2, <1>6, <1>8, <1>9, EnteredStep DEF IsCollective
<1>13. StoreInv'
  <2>1. ASSUME NEW s \in Ranks, NEW name \in Names PROVE store'[s][name] = Expected(s, name, StoreTime(s)')
    <3>1. CASE s # r
      BY <1>1, <1>8, <3>1 DEF StoreInv, Stays
    <3>2. CASE s = r /\ c.kind = "matmul"
      <4>1. StoreTime(r)' = k
        BY <1>2, <1>7, <1>9, <3>2 DEF After
      <4> QED BY <1>1, <1>9, <3>2, <4>1 DEF StoreInv
    <3>3. CASE s = r /\ c.kind # "matmul"
      <4>1. ASSUME NEW m \in Names PROVE store'[r][m] = Expected(r, m, k + 1)
        <5>1. ~ Stores(c, r, m)
          BY <1>1, <3>3 DEF Stores
        <5>2. Expected(r, m, k + 1) = Expected(r, m, k)
          BY <1>2, <5>1, Changes
        <5> QED BY <1>1, <1>9, <5>2 DEF StoreInv
      <4> QED BY <1>2, <1>9, <3>3, <4>1, StoreStep
    <3> QED BY <3>1, <3>2, <3>3
  <2> QED BY <2>1 DEF StoreInv
<1>14. ShapeInv'
  <2>1. /\ failed' = FALSE
        /\ store' = [s \in Ranks |-> [name \in Names |-> store'[s][name]]]
        /\ chan' = [q \in Comms |-> [s \in Ranks |-> [t \in Ranks |-> chan'[q][s][t]]]]
        /\ coll' = [q \in Comms |-> [s \in Ranks |-> coll'[q][s]]]
    BY <1>1, <1>5 DEF ShapeInv
  <2> QED BY <1>6, <1>7, <1>10, <2>1 DEF ShapeInv, EnteredOne
<1> QED BY <1>10, <1>11, <1>12, <1>13, <1>14

\* The collectives of a grid that a rank makes up to key k.
UpTo(r, k) == {j \in SubKeys(r) : j <= k}

\* Collective counts the collectives of a grid by their keys.
LEMMA CollectiveCounts ==
  ASSUME NEW r \in Ranks, NEW p \in 1 .. Len(Script[r]), IsCollective(Script[r][p]), Script[r][p].comm = "sub",
         NEW k, k = KeyAt[r][p]
  PROVE  Collective[r][p] = Cardinality(UpTo(r, k))
<1> DEFINE n == Len(Script[r])
           S == {j \in 1 .. p : IsCollective(Script[r][j]) /\ Script[r][j].comm = "sub"}
           T == UpTo(r, k)
           h == [j \in S |-> KeyAt[r][j]]
<1>1. n \in Nat /\ DOMAIN Script[r] = 1 .. n /\ p \in Nat /\ \A j \in 1 .. p : j \in 1 .. n
  BY Keyed
<1>2. Collective[r][p] = Cardinality(S)
  BY <1>1 DEF Collective
<1>3. /\ \A i \in 1 .. n : KeyAt[r][i] \in Keys /\ Script[r][i] = CallAt(r, KeyAt[r][i])
      /\ \A i, j \in 1 .. n : KeyAt[r][i] < KeyAt[r][j] <=> i < j
      /\ \A j \in CallKeys(r) : \E i \in 1 .. n : KeyAt[r][i] = j
  BY Keyed
<1>4. Keys \subseteq Int
  BY KeysAreInts
<1>5. ASSUME NEW j \in S PROVE h[j] \in T
  <2>1. j \in 1 .. n /\ ~ (p < j)
    BY <1>1
  <2>2. h[j] \in Keys /\ k \in Keys /\ ~ (k < h[j]) /\ IsCollective(CallAt(r, h[j])) /\ CallAt(r, h[j]).comm = "sub"
    BY <1>3, <2>1
  <2>3. h[j] \in Int /\ k \in Int
    BY <1>4, <2>2
  <2>4. h[j] <= k
    BY <2>2, <2>3
  <2> QED BY <2>2, <2>4 DEF UpTo, SubKeys
<1>6. ASSUME NEW i \in S, NEW j \in S, h[i] = h[j] PROVE i = j
  <2>1. i \in 1 .. n /\ j \in 1 .. n
    BY <1>1
  <2>2. ~ (KeyAt[r][i] < KeyAt[r][j]) /\ ~ (KeyAt[r][j] < KeyAt[r][i])
    BY <1>3, <1>4, <1>6, <2>1
  <2>3. ~ (i < j) /\ ~ (j < i)
    BY <1>3, <2>1, <2>2
  <2> QED BY <2>1, <2>3
<1>7. ASSUME NEW x \in T PROVE \E j \in S : h[j] = x
  <2>1. x \in Keys /\ x <= k /\ IsCollective(CallAt(r, x)) /\ CallAt(r, x).comm = "sub" /\ x \in CallKeys(r)
    BY DEF UpTo, SubKeys, CallKeys, IsCollective
  <2>2. PICK j \in 1 .. n : KeyAt[r][j] = x
    BY <1>3, <2>1
  <2>3. ~ (k < x)
    <3>1. k \in Int /\ x \in Int
      BY <1>1, <1>3, <1>4, <2>1
    <3> QED BY <2>1, <3>1
  <2>4. ~ (p < j)
    BY <1>3, <2>2, <2>3
  <2>5. j \in S
    BY <1>1, <1>3, <2>1, <2>2, <2>4
  <2> QED BY <2>2, <2>5
<1>8. IsFiniteSet(S)
  <2>1. IsFiniteSet(1 .. p)
    BY <1>1, FS_Interval
  <2> QED BY <2>1, FS_Subset
<1> HIDE DEF S, T
<1>9. h \in Bijection(S, T)
  <2>1. h \in [S -> T]
    BY <1>5
  <2>2. \A i, j \in S : h[i] = h[j] => i = j
    BY <1>6
  <2>3. \A x \in T : \E j \in S : h[j] = x
    BY <1>7
  <2> HIDE DEF h
  <2>4. h \in Injection(S, T) /\ h \in Surjection(S, T)
    BY <2>1, <2>2, <2>3 DEF Injection, Surjection, IsInjective
  <2> QED BY <2>4 DEF Bijection
<1>10. ExistsBijection(S, T)
  BY <1>9 DEF ExistsBijection
<1>11. Cardinality(T) = Cardinality(S)
  BY <1>8, <1>10, FS_Bijection
<1> QED BY <1>2, <1>11 DEF T

\* When all members of a grid have entered a collective of rank r, each of
\* them has come to its key.
LEMMA AllHaveCome ==
  ASSUME IInv, NEW r \in Ranks, ~ Done(r), NEW k, k = Clock(r), IsCollective(At(r)), At(r).comm = "sub",
         AllEntered(r), NEW s \in Members(r, "sub")
  PROVE  Did(s, k)
<1> USE DEF IInv
<1>1. /\ k \in Keys /\ At(r) = CallAt(r, k) /\ pc[r] \in 1 .. Len(Script[r]) /\ k = KeyAt[r][pc[r]]
      /\ At(r) = Script[r][pc[r]]
  BY ClockIs DEF Clock, At
<1>2. Collective[r][pc[r]] = Cardinality(UpTo(r, k))
  <2>1. PICK p : p = pc[r]
    OBVIOUS
  <2>2. IsCollective(Script[r][p]) /\ Script[r][p].comm = "sub" /\ p \in 1 .. Len(Script[r]) /\ k = KeyAt[r][p]
    BY <1>1, <2>1
  <2> QED BY <2>1, <2>2, CollectiveCounts
<1>3. s \in Ranks /\ SubKeys(s) = SubKeys(r)
  BY MembersAgree, SubKeysAgree
<1> DEFINE T == UpTo(r, k)
           D == {j \in SubKeys(r) : Did(s, j)}
<1>4. entered[s]["sub"] = Cardinality(D)
  BY <1>3 DEF EnteredInv
<1>5. entered[s]["sub"] >= Cardinality(T)
  BY <1>2 DEF AllEntered
<1>6. k \in T /\ IsFiniteSet(T) /\ IsFiniteSet(D)
  <2>1. T \subseteq SubKeys(r) /\ D \subseteq SubKeys(r)
    BY DEF UpTo
  <2>2. k \in T
    BY <1>1, KeysAreInts DEF UpTo, SubKeys
  <2> QED BY <2>1, <2>2, KeysAreFinite
<1>7. SUFFICES ASSUME ~ Did(s, k) PROVE FALSE
  OBVIOUS
<1>8. D \subseteq T \ {k}
  <2>1. ASSUME NEW j \in D PROVE j \in T \ {k}
    <3>1. j \in SubKeys(r) /\ j \in Keys /\ Did(s, j)
      BY DEF SubKeys
    <3>2. ~ (k <= j)
      BY <1>1, <1>3, <1>7, <3>1, Earlier
    <3> QED BY <1>1, <3>1, <3>2, KeysAreInts DEF UpTo
  <2> QED BY <2>1
<1> HIDE DEF T, D
<1>9. Cardinality(T \ {k}) = Cardinality(T) - 1 /\ IsFiniteSet(T \ {k})
  BY <1>6, FS_RemoveElement
<1>10. Cardinality(D) <= Cardinality(T \ {k})
  BY <1>8, <1>9, FS_Subset
<1>11. Cardinality(T) \in Nat /\ Cardinality(D) \in Nat
  BY <1>6, FS_CardinalityType
<1> QED BY <1>4, <1>5, <1>9, <1>10, <1>11

\* Two lists of one matrix make the list of both.
LEMMA PairConcat ==
  ASSUME NEW x, NEW y
  PROVE  <<x>> \o <<y>> = <<x, y>>
<1> DEFINE T == {x, y}
           s == <<x>>
           t == <<y>>
           u == <<x, y>>
<1>1. s \in Seq(T) /\ t \in Seq(T) /\ u \in Seq(T)
  OBVIOUS
<1>2. Len(s) = 1 /\ Len(t) = 1 /\ Len(u) = 2 /\ s[1] = x /\ t[1] = y /\ u[1] = x /\ u[2] = y
  OBVIOUS
<1> HIDE DEF s, t, u, T
<1>3. /\ s \o t \in Seq(T) /\ Len(s \o t) = 2
      /\ \A i \in 1 .. 2 : (s \o t)[i] = IF i <= 1 THEN s[i] ELSE t[i - 1]
  BY <1>1, <1>2, ConcatProperties
<1>4. \A i \in 1 .. 2 : (s \o t)[i] = u[i]
  BY <1>2, <1>3
<1>5. s \o t = u
  BY <1>1, <1>2, <1>3, <1>4, SeqEqual
<1> QED BY <1>5 DEF s, t, u

\* The product that a rank stores when all members of its grid have entered.
LEMMA ProductRight ==
  ASSUME IInv, NEW r \in Ranks, ~ Done(r), NEW k, k = Clock(r), At(r).kind = "matmul", AllEntered(r)
  PROVE  MatMulOnGrid(r) = Blocks(r, "sub", Product(color(r)))
<1> USE DEF IInv
<1>1. k \in Keys /\ At(r) = CallAt(r, k)
  BY ClockIs
<1>2. k = 12 * Width /\ At(r).comm = "sub"
  BY <1>1, BarrierMeets
<1> DEFINE a == ValueOf(r, "A_local")
           b == ValueOf(r, "B_local")
<1>3. ASSUME NEW s \in Members(r, "sub")
      PROVE  store[s]["A_local"] = Blocks(s, "sub", a) /\ store[s]["B_local"] = Blocks(s, "sub", b)
  <2>1. Did(s, k) /\ s \in Ranks /\ color(s) = color(r)
    BY <1>2, AllHaveCome, MembersAgree DEF IsCollective
  <2>2. Clock(s) \in Nat /\ StoreTime(s) \in Int /\ StoreTime(s) >= Clock(s)
    <3>1. Clock(s) \in Nat
      BY <2>1, ClockIs
    <3> QED BY <3>1 DEF StoreTime
  <2>3. k <= Clock(s)
    BY <1>1, <2>1, <2>2, KeysAreInts DEF Did, Left
  <2>4. StoreTime(s) >= 12 * Width
    BY <1>2, <2>2, <2>3, WidthType
  <2>5. "A_local" \in Names /\ "B_local" \in Names
    BY DEF Names
  <2>6. /\ store[s]["A_local"] = Expected(s, "A_local", StoreTime(s))
        /\ store[s]["B_local"] = Expected(s, "B_local", StoreTime(s))
    BY <2>1, <2>5 DEF StoreInv
  <2>7. ValueOf(s, "A_local") = a /\ ValueOf(s, "B_local") = b
    BY <2>1, Matrices
  <2>8. /\ Expected(s, "A_local", StoreTime(s)) = Blocks(s, "sub", ValueOf(s, "A_local"))
        /\ Expected(s, "B_local", StoreTime(s)) = Blocks(s, "sub", ValueOf(s, "B_local"))
    BY <2>1, <2>2, <2>4, OperandsReady
  <2> QED BY <2>6, <2>7, <2>8
<1>4. a # Null /\ b # Null /\ a \o b = Product(color(r))
  <2>1. a = (IF color(r) = 0 THEN <<"A1">> ELSE <<"A2">>) /\ b = (IF color(r) = 0 THEN <<"B1">> ELSE <<"B2">>)
    BY Matrices
  <2>2. a # Null /\ b # Null
    BY ValueTypes DEF Scattered
  <2>3. <<"A1">> \o <<"B1">> = <<"A1", "B1">>
    BY PairConcat
  <2>4. <<"A2">> \o <<"B2">> = <<"A2", "B2">>
    BY PairConcat
  <2> QED BY <2>1, <2>2, <2>3, <2>4, Zenon DEF Product
<1> HIDE DEF a, b
<1>5. GridProduct(r, Members(r, "sub"), store) = Blocks(r, "sub", a \o b)
  <2>1. PICK M : M = Members(r, "sub")
    OBVIOUS
  <2>2. HoldOperands(M, store, a, b)
    BY <1>3, <2>1 DEF HoldOperands
  <2>3. a # Null /\ b # Null
    BY <1>4
  <2>4. PICK x, y, st : x = a /\ y = b /\ st = store
    OBVIOUS
  <2>5. HoldOperands(M, st, x, y) /\ x # Null /\ y # Null
    BY <2>2, <2>3, <2>4
  <2>6. GridProduct(r, M, st) = Blocks(r, "sub", x \o y)
    BY <2>1, <2>5, ProductOnGrid
  <2> QED BY <2>1, <2>4, <2>6
<1> QED BY <1>4, <1>5, ProductIs

\* A rank that returns from a collective holds what it is expected to.
LEMMA LeaveStores ==
  ASSUME IInv, NEW r \in Ranks, ~ Done(r), NEW k, k = Clock(r), IsCollective(At(r)), AllEntered(r),
         StoreTime(r) = (IF CallAt(r, k).kind # "matmul" THEN k + 1 ELSE k),
         store' = IF At(r).kind = "matmul"
                  THEN [store EXCEPT ![r]["local_result"] = MatMulOnGrid(r)] ELSE store
  PROVE  /\ \A s \in Ranks \ {r} : \A name \in Names : store'[s][name] = store[s][name]
         /\ \A name \in Names : store'[r][name] = Expected(r, name, k + 1)
         /\ store' = [s \in Ranks |-> [name \in Names |-> store'[s][name]]]
<1> USE DEF IInv
<1>1. k \in Keys /\ k \in Nat /\ At(r) = CallAt(r, k)
  BY ClockIs
<1>2. CASE At(r).kind # "matmul"
  BY <1>1, <1>2 DEF StoreInv, ShapeInv
<1>3. CASE At(r).kind = "matmul"
  <2> DEFINE X == MatMulOnGrid(r)
  <2>1. X = Blocks(r, "sub", Product(color(r)))
    BY <1>3, ProductRight
  <2>2. store' = [store EXCEPT ![r]["local_result"] = X]
    BY <1>3
  <2> HIDE DEF X
  <2>3. \A name \in Names : store[r][name] = Expected(r, name, k)
    BY <1>1, <1>3 DEF StoreInv
  <2>4. "local_result" \in Names
    BY NamesKnown
  <2>5. X = Expected(r, "local_result", k + 1)
    <3>1. k = 12 * Width
      BY <1>1, <1>3, BarrierMeets
    <3>2. ~ (k + 1 <= 12 * Width)
      BY <1>1, <3>1, WidthType
    <3> QED BY <2>1, <3>2, ExpectedIs
  <2>6. ASSUME NEW name \in Names, name # "local_result" PROVE Expected(r, name, k + 1) = Expected(r, name, k)
    <3>1. ~ Stores(CallAt(r, k), r, name)
      BY <1>1, <1>3, <2>6 DEF Stores
    <3> QED BY <1>1, <3>1, Changes
  <2>7. ASSUME NEW s \in Ranks, NEW name \in Names
        PROVE  store'[s][name] = IF s = r /\ name = "local_result" THEN X ELSE store[s][name]
    BY <2>2 DEF ShapeInv
  <2>8. store' = [s \in Ranks |-> [name \in Names |-> store'[s][name]]]
    <3>1. ASSUME NEW s \in Ranks PROVE store'[s] = [name \in Names |-> store'[s][name]]
      <4>1. store[s] = [name \in Names |-> store[s][name]]
        BY DEF ShapeInv
      <4>2. CASE s # r
        <5>1. store'[s] = store[s]
          BY <2>2, <4>2 DEF ShapeInv
        <5> QED BY <4>1, <5>1
      <4>3. CASE s = r
        <5>1. store'[s] = [store[s] EXCEPT !["local_result"] = X]
          BY <2>2, <4>3 DEF ShapeInv
        <5> QED BY <4>1, <5>1
      <4> QED BY <4>2, <4>3
    <3>2. store' = [s \in Ranks |-> store'[s]]
      BY <2>2 DEF ShapeInv
    <3> QED BY <3>1, <3>2
  <2>9. ASSUME NEW name \in Names PROVE store'[r][name] = Expected(r, name, k + 1)
    BY <2>3, <2>5, <2>6, <2>7
  <2>10. ASSUME NEW s \in Ranks \ {r}, NEW name \in Names PROVE store'[s][name] = store[s][name]
    BY <2>7
  <2> QED BY <2>8, <2>9, <2>10
<1> QED BY <1>2, <1>3

\* A rank returns from a collective.
LEMMA LeaveCollectiveKeeps ==
  ASSUME IInv, NEW r \in Ranks, LeaveCollective(r)
  PROVE  IInv'
<1>k. PICK k : k = Clock(r)
  OBVIOUS
<1> USE DEF IInv
<1>1. /\ ~ Done(r) /\ held[r] /\ IsCollective(At(r)) /\ AllEntered(r)
      /\ store' = IF At(r).kind = "matmul"
                  THEN [store EXCEPT ![r]["local_result"] = MatMulOnGrid(r)] ELSE store
      /\ held' = [held EXCEPT ![r] = FALSE]
      /\ pc' = [pc EXCEPT ![r] = @ + 1]
      /\ entered' = entered /\ chan' = chan /\ coll' = coll /\ failed' = failed
  BY DEF LeaveCollective
<1>2. /\ \A s \in Ranks \ {r} : pc'[s] = pc[s] /\ held'[s] = held[s]
      /\ pc'[r] = pc[r] + 1 /\ held'[r] = FALSE
  BY <1>1 DEF ShapeInv
<1>3. pc' \in [Ranks -> Nat] /\ held' \in [Ranks -> BOOLEAN]
  BY <1>1 DEF ShapeInv
<1>4. Leaves(r) /\ \A s \in Ranks \ {r} : Stays(s)
  BY <1>1, <1>2, StayStep DEF Leaves
<1>5. /\ k \in Keys /\ k \in Nat /\ At(r) = CallAt(r, k) /\ After(r, k)
      /\ \A j \in Keys : CallAt(r, j).kind # "none" => (Did(r, j)' <=> Did(r, j))
      /\ StoreTime(r) = (IF CallAt(r, k).kind # "matmul" THEN k + 1 ELSE k)
  BY <1>k, <1>4, LeavesStep
<1>6. HeldInv' /\ \A s \in Ranks : pc'[s] \in 1 .. Len(Script[s]) + 1
  BY <1>2, <1>3, <1>4, <1>5, Together
<1>7. ASSUME NEW s \in Ranks, NEW j \in Keys, CallAt(s, j).kind # "none"
      PROVE  /\ Did(s, j)' <=> Did(s, j)
             /\ (s # r \/ j # k) => (Left(s, j)' <=> Left(s, j))
  <2>1. CASE s # r
    BY <1>4, <2>1 DEF Stays
  <2>2. CASE s = r
    BY <1>5, <1>7, <2>2 DEF After
  <2> QED BY <2>1, <2>2
<1>8. ChannelInv' /\ BroadcastInv' /\ CausalInv'
  <2>1. ASSUME NEW s \in Ranks, NEW j \in Keys, CallAt(s, j).kind \in {"send", "recv", "bcast"}
        PROVE  (Did(s, j)' <=> Did(s, j)) /\ (CallAt(s, j).kind # "bcast" => (Left(s, j)' <=> Left(s, j)))
    <3>1. CallAt(s, j).kind # "none"
      BY <2>1
    <3>2. CallAt(s, j).kind # "bcast" => s # r \/ j # k
      BY <1>1, <1>5, <2>1 DEF IsCollective
    <3> QED BY <1>7, <3>1, <3>2
  <2> QED BY <1>1, <2>1, BarrierRest
<1>9. EnteredInv'
  <2>1. ASSUME NEW s \in Ranks PROVE entered'[s]["sub"] = Cardinality({j \in SubKeys(s) : Did(s, j)'})
    <3>1. \A j \in SubKeys(s) : Did(s, j)' <=> Did(s, j)
      BY <1>7 DEF SubKeys, IsCollective
    <3> QED BY <1>1, <3>1, EnteredKept DEF EnteredInv
  <2> QED BY <2>1 DEF EnteredInv
<1>10. /\ \A s \in Ranks \ {r} : \A name \in Names : store'[s][name] = store[s][name]
       /\ \A name \in Names : store'[r][name] = Expected(r, name, k + 1)
       /\ store' = [s \in Ranks |-> [name \in Names |-> store'[s][name]]]
  BY <1>k, <1>1, <1>5, LeaveStores
<1>11. StoreInv'
  <2>1. ASSUME NEW s \in Ranks, NEW name \in Names PROVE store'[s][name] = Expected(s, name, StoreTime(s)')
    <3>1. CASE s = r
      BY <1>2, <1>5, <1>10, <3>1, StoreStep
    <3>2. CASE s # r
      <4>1. store'[s][name] = store[s][name]
        BY <1>10, <3>2
      <4> QED BY <1>4, <3>2, <4>1 DEF StoreInv, Stays
    <3> QED BY <3>1, <3>2
  <2> QED BY <2>1 DEF StoreInv
<1>12. ShapeInv'
  <2>1. /\ failed' = FALSE /\ entered' \in [Ranks -> [Comms -> Nat]]
        /\ chan' = [q \in Comms |-> [s \in Ranks |-> [t \in Ranks |-> chan'[q][s][t]]]]
        /\ coll' = [q \in Comms |-> [s \in Ranks |-> coll'[q][s]]]
    BY <1>1 DEF ShapeInv
  <2> QED BY <1>3, <1>6, <1>10, <2>1 DEF ShapeInv
<1> QED BY <1>6, <1>8, <1>9, <1>11, <1>12

\* No rank has made a call.
LEMMA NothingDone ==
  ASSUME Init, NEW r \in Ranks
  PROVE  /\ pc[r] = 1 /\ 1 \in 1 .. Len(Script[r]) + 1 /\ held[r] = FALSE
         /\ StoreTime(r) = ClockOf(r, 1) /\ ClockOf(r, 1) \in Nat
         /\ \A j \in Keys : CallAt(r, j).kind # "none" => ~ Did(r, j)
<1>1. pc[r] = 1 /\ held[r] = FALSE
  BY DEF Init
<1>2. Len(Script[r]) \in Nat /\ 1 \in 1 .. Len(Script[r]) + 1
  BY Keyed
<1>3. Clock(r) = ClockOf(r, 1)
  BY <1>1 DEF Clock, ClockOf, Done
<1>4. StoreTime(r) = ClockOf(r, 1)
  BY <1>1, <1>3 DEF StoreTime
<1>5. ClockOf(r, 1) \in Nat
  BY <1>2, ClockOfType
<1>6. ASSUME NEW j \in Keys, CallAt(r, j).kind # "none" PROVE ~ Did(r, j)
  BY <1>1, <1>3, <1>6, FirstClock DEF Did, Left
<1> QED BY <1>1, <1>2, <1>4, <1>5, <1>6

\* The invariant holds initially.
LEMMA InitHolds ==
  ASSUME Init
  PROVE  IInv
<1>1. ShapeInv
  <2>1. pc \in [Ranks -> Nat]
    BY DEF Init
  <2>2. \A r \in Ranks : pc[r] \in 1 .. Len(Script[r]) + 1
    BY NothingDone
  <2>3. held \in [Ranks -> BOOLEAN] /\ entered \in [Ranks -> [Comms -> Nat]] /\ failed = FALSE
    BY DEF Init
  <2>4. store = [r \in Ranks |-> [name \in Names |-> store[r][name]]]
    BY DEF Init
  <2>5. coll = [c \in Comms |-> [r \in Ranks |-> coll[c][r]]]
    BY DEF Init
  <2>6. chan = [c \in Comms |-> [s \in Ranks |-> [d \in Ranks |-> chan[c][s][d]]]]
    BY DEF Init
  <2> QED BY <2>1, <2>2, <2>3, <2>4, <2>5, <2>6 DEF ShapeInv
<1>2. HeldInv
  BY NothingDone DEF HeldInv
<1>3. StoreInv
  <2>1. ASSUME NEW r \in Ranks, NEW name \in Names PROVE store[r][name] = Expected(r, name, StoreTime(r))
    <3>1. store[r][name] = Empty
      BY DEF Init
    <3>2. PICK m \in Nat : m = ClockOf(r, 1) /\ m = StoreTime(r)
      BY NothingDone
    <3>3. 1 \in 1 .. Len(Script[r]) + 1
      BY NothingDone
    <3>4. m <= End /\ End \in Nat
      BY <3>2, <3>3, ClockOfType, WidthType
    <3>5. \A j \in 0 .. m - 1 : CallAt(r, j).kind = "none"
      <4>1. ASSUME NEW j \in 0 .. m - 1, CallAt(r, j).kind # "none" PROVE FALSE
        <5>1. j \in Keys /\ j < m
          BY <3>4 DEF Keys
        <5> QED BY <3>2, <4>1, <5>1, FirstClock
      <4> QED BY <4>1
    <3>6. Expected(r, name, m) = Expected(r, name, 0)
      <4>1. 0 \in Nat /\ 0 <= m
        OBVIOUS
      <4> QED BY <3>5, <4>1, NothingChanges
    <3> QED BY <3>1, <3>2, <3>6, InitiallyEmpty
  <2> QED BY <2>1 DEF StoreInv
<1>4. ChannelInv
  <2>1. ASSUME NEW c \in Comms, NEW s \in Ranks, NEW d \in Ranks
        PROVE  Listing(chan[c][s][d], ChanFun(c, s, d))
    <3>1. chan[c][s][d] = << >>
      BY DEF Init
    <3>2. InChannel(c, s, d) = {}
      BY NothingDone DEF InChannel
    <3>3. ChanFun(c, s, d) = [k \in {} |-> 0]
      BY <3>2 DEF ChanFun
    <3> QED BY <3>1, <3>3, ListsEmpty
  <2> QED BY <2>1, Channels
<1>5. BroadcastInv
  <2>1. ASSUME NEW c \in Comms, NEW r \in Ranks
        PROVE  Listing(coll[c][r], BcastFun(c, r))
    <3>1. coll[c][r] = << >>
      BY DEF Init
    <3>2. ASSUME NEW j \in InBroadcast(c, r) PROVE FALSE
      <4>1. j \in Keys /\ CallAt(r, j).kind = "bcast" /\ Did(CallAt(r, j).peer, j)
        BY DEF InBroadcast
      <4>2. CallAt(r, j).peer \in Ranks /\ CallAt(CallAt(r, j).peer, j).kind = "bcast"
        BY <4>1, BcastMeets DEF AllMake
      <4> QED BY <4>1, <4>2, NothingDone
    <3>3. InBroadcast(c, r) = {}
      BY <3>2
    <3>4. BcastFun(c, r) = [k \in {} |-> 0]
      BY <3>3 DEF BcastFun
    <3> QED BY <3>1, <3>4, ListsEmpty
  <2> QED BY <2>1, Channels
<1>6. CausalInv
  BY NothingDone DEF CausalInv
<1>7. EnteredInv
  <2>1. ASSUME NEW r \in Ranks PROVE entered[r]["sub"] = Cardinality({k \in SubKeys(r) : Did(r, k)})
    <3>1. entered[r]["sub"] = 0
      BY DEF Init, Comms
    <3>2. {k \in SubKeys(r) : Did(r, k)} = {}
      BY NothingDone DEF SubKeys, IsCollective
    <3>3. Cardinality({}) = 0
      BY FS_EmptySet
    <3> QED BY <3>1, <3>2, <3>3
  <2> QED BY <2>1 DEF EnteredInv
<1> QED BY <1>1, <1>2, <1>3, <1>4, <1>5, <1>6, <1>7 DEF IInv

------------------------------------------------------------------------------
(* The theorems.                                                           *)

\* Every call keeps the invariant.
LEMMA StepKeeps ==
  ASSUME IInv, [Next]_vars
  PROVE  IInv'
<1>1. ASSUME NEW r \in Ranks, Step(r) PROVE IInv'
  BY <1>1, SendKeeps, ReceiveKeeps, BcastAsRootKeeps, BcastAsReceiverKeeps, EnterBarrierKeeps,
     LeaveCollectiveKeeps, LocalWorkKeeps DEF Step
<1>2. CASE UNCHANGED vars
  <2>1. \A r \in Ranks : Stays(r)
    BY <1>2, StayStep DEF vars
  <2> USE DEF IInv
  <2>2. ShapeInv'
    BY <1>2 DEF ShapeInv, vars
  <2>3. HeldInv'
    BY <2>1, HeldKept DEF HeldInv
  <2>4. StoreInv'
    BY <1>2, <2>1 DEF StoreInv, Stays, vars
  <2>5. ChannelInv' /\ BroadcastInv' /\ CausalInv'
    <3>1. chan' = chan /\ coll' = coll
      BY <1>2 DEF vars
    <3>2. ASSUME NEW s \in Ranks, NEW j \in Keys
          PROVE  (Did(s, j)' <=> Did(s, j)) /\ (Left(s, j)' <=> Left(s, j))
      BY <2>1 DEF Stays
    <3> QED BY <3>1, <3>2, BarrierRest
  <2>6. EnteredInv'
    <3>1. ASSUME NEW r \in Ranks PROVE entered'[r]["sub"] = Cardinality({j \in SubKeys(r) : Did(r, j)'})
      <4>1. \A j \in SubKeys(r) : Did(r, j)' <=> Did(r, j)
        BY <2>1 DEF Stays
      <4> QED BY <1>2, <4>1, EnteredKept DEF EnteredInv, vars
    <3> QED BY <3>1 DEF EnteredInv
  <2> QED BY <2>2, <2>3, <2>4, <2>5, <2>6
<1> QED BY <1>1, <1>2 DEF Next

\* IInv is an invariant: however the ranks' calls interleave and however much
\* MPI buffers, every rank holds what it would hold had they gone in step.
THEOREM Invariance == Spec => []IInv
<1>1. Init => IInv
  BY InitHolds
<1>2. IInv /\ [Next]_vars => IInv'
  BY StepKeeps
<1> QED BY <1>1, <1>2, PTL DEF Spec

\* The variables keep their types, and no default-constructed ciphertext is
\* ever outside the arrays that a gather is still filling.
THEOREM TypeCorrect == Spec => []TypeOK
<1>1. ASSUME IInv PROVE TypeOK
  <2>0. ShapeInv /\ HeldInv /\ StoreInv /\ ChannelInv /\ BroadcastInv
    BY <1>1 DEF IInv
  <2>1. ASSUME NEW r \in Ranks, NEW name \in Names, NEW axis \in Axes
        PROVE  IsBatch(store[r][name][axis],
                       IF name \in {"A1_full", "B1_full", "A2_full", "B2_full", "gathered", "decrypted"}
                       THEN Values ELSE Values \ {Null})
    <3>1. StoreTime(r) \in Int
      BY <2>0, ClockIs DEF StoreTime
    <3>2. store[r][name] = Expected(r, name, StoreTime(r))
      BY <2>0 DEF StoreInv
    <3>3. IsBatch(Expected(r, name, StoreTime(r))[axis], IF name \in Gathered THEN Values ELSE Values \ {Null})
      BY <3>1, ExpectedTypes
    <3> QED BY <3>2, <3>3 DEF Gathered
  <2>2. \A r \in Ranks : pc[r] \in 1 .. Len(Script[r]) + 1
    BY <2>0 DEF ShapeInv
  <2>3. held \in [Ranks -> BOOLEAN] /\ entered \in [Ranks -> [Comms -> Nat]] /\ failed \in BOOLEAN
    BY <2>0 DEF ShapeInv
  <2> QED BY <2>1, <2>2, <2>3 DEF TypeOK
<1> QED BY <1>1, Invariance, PTL

\* No receive takes a message that another receive was posted for, no
\* broadcast is taken for another one, and no rank multiplies without its
\* operands and the keys.
THEOREM NoMismatch == Spec => []MessagesMatch
<1>1. IInv => MessagesMatch
  BY DEF IInv, ShapeInv, MessagesMatch
<1> QED BY <1>1, Invariance, PTL

\* Every rank that returns from matmul_pair holds its blocks of both products
\* in the partition of the whole grid, and rank 0 decrypts all of A2 * B2.
THEOREM PairIsReturned == Spec => []BothProducts
<1>1. ASSUME IInv PROVE BothProducts
  <2>0. ShapeInv /\ HeldInv /\ StoreInv /\ ChannelInv /\ BroadcastInv
    BY <1>1 DEF IInv
  <2>1. ASSUME NEW r \in Ranks, Done(r)
        PROVE  /\ store[r]["result1"] = Blocks(r, "grid", <<"A1", "B1">>)
               /\ store[r]["result2"] = Blocks(r, "grid", <<"A2", "B2">>)
               /\ r = 0 => store[r]["decrypted"] = [axis \in Axes |-> [i \in Slots |-> <<"A2", "B2">>]]
    <3>1. ~ held[r] /\ Clock(r) = End
      BY <2>0, <2>1, ClockIs DEF HeldInv
    <3>2. StoreTime(r) = End
      BY <3>1 DEF StoreTime
    <3>3. "result1" \in Names /\ "result2" \in Names /\ "decrypted" \in Names
      BY DEF Names
    <3>4. \A name \in Names : store[r][name] = Expected(r, name, End)
      BY <2>0, <3>2 DEF StoreInv
    <3> QED BY <3>3, <3>4, FinallyHolds
  <2> QED BY <2>1 DEF BothProducts
<1> QED BY <1>1, Invariance, PTL

\* When every rank has returned no message is left, on any communicator.
THEOREM ChannelsEmpty == Spec => []NothingPending
<1>1. ASSUME IInv PROVE NothingPending
  <2>0. ShapeInv /\ HeldInv /\ StoreInv /\ ChannelInv /\ BroadcastInv
    BY <1>1 DEF IInv
  <2>1. ASSUME \A r \in Ranks : Done(r), NEW c \in Comms, NEW r \in Ranks
        PROVE  coll[c][r] = << >> /\ \A d \in Ranks : chan[c][r][d] = << >>
    <3>1. ASSUME NEW s \in Ranks, NEW j \in Keys PROVE Did(s, j)
      <4>1. Clock(s) = End
        BY <2>0, <2>1, ClockIs
      <4>2. j < End
        BY WidthType DEF Keys
      <4> QED BY <4>1, <4>2 DEF Did, Left
    <3>2. InBroadcast(c, r) = {}
      BY <3>1 DEF InBroadcast
    <3>3. coll[c][r] = << >>
      <4>1. Listing(coll[c][r], BcastFun(c, r)) /\ DOMAIN BcastFun(c, r) = {}
        BY <2>0, <3>2, Channels, KeysAreInts
      <4> QED BY <4>1, ListsEmpty
    <3>4. ASSUME NEW d \in Ranks PROVE chan[c][r][d] = << >>
      <4>1. InChannel(c, r, d) = {}
        BY <3>1 DEF InChannel
      <4>2. Listing(chan[c][r][d], ChanFun(c, r, d)) /\ DOMAIN ChanFun(c, r, d) = {}
        BY <2>0, <4>1, Channels, KeysAreInts
      <4> QED BY <4>2, ListsEmpty
    <3> QED BY <3>3, <3>4
  <2> QED BY <2>1 DEF NothingPending
<1> QED BY <1>1, Invariance, PTL
==============================================================================
