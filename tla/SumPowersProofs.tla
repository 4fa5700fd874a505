--------------------------- MODULE SumPowersProofs ---------------------------
(***************************************************************************)
(* Proofs for SumPowers, for every dimension, every graph and every T: the *)
(* result is what walks of up to T edges join, and that is the closure     *)
(* that floyd_warshall computes.                                           *)
(***************************************************************************)
EXTENDS SumPowers, TLAPS, WellFoundedInduction, FiniteSetTheorems

\* A relation is contained in another if all its pairs are.
LEMMA PairSubset ==
  ASSUME NEW X, NEW Y, X \subseteq Nodes \X Nodes,
         \A i, j \in Nodes : <<i, j>> \in X => <<i, j>> \in Y
  PROVE  X \subseteq Y
<1> SUFFICES ASSUME NEW e \in X PROVE e \in Y
  OBVIOUS
<1>1. PICK i \in Nodes, j \in Nodes : e = <<i, j>>
  OBVIOUS
<1> QED BY <1>1

\* Membership in a product of matrices and in the walks, pair by pair.
LEMMA InMatMul ==
  ASSUME NEW X, NEW Y, NEW i \in Nodes, NEW j \in Nodes
  PROVE  <<i, j>> \in MatMul(X, Y) <=> \E k \in Nodes : <<i, k>> \in X /\ <<k, j>> \in Y
BY DEF MatMul

\* As above, for walks.
LEMMA InWalks ==
  ASSUME NEW G, NEW k, NEW i \in Nodes, NEW j \in Nodes
  PROVE  <<i, j>> \in Walks(G, k) <=>
           \E f \in [0 .. k -> Nodes] : f[0] = i /\ f[k] = j /\ IsWalk(G, f, k)
<1> DEFINE Q(a, b) == \E f \in [0 .. k -> Nodes] : f[0] = a /\ f[k] = b /\ IsWalk(G, f, k)
<1>1. Walks(G, k) = {e \in Nodes \X Nodes : Q(e[1], e[2])}
  BY Zenon DEF Walks
<1> HIDE DEF Q
<1>2. <<i, j>> \in Walks(G, k) <=> Q(i, j)
  BY <1>1
<1> QED BY <1>2, Zenon DEF Q

\* Two walks joined end to end are a walk: A^m A^n = A^(m+n).
LEMMA WalksCompose ==
  ASSUME NEW G, NEW m \in Nat, NEW n \in Nat
  PROVE  MatMul(Walks(G, m), Walks(G, n)) = Walks(G, m + n)
<1>1. ASSUME NEW i \in Nodes, NEW j \in Nodes, NEW k \in Nodes,
             <<i, k>> \in Walks(G, m), <<k, j>> \in Walks(G, n)
      PROVE  <<i, j>> \in Walks(G, m + n)
  <2>1. PICK f \in [0 .. m -> Nodes] : f[0] = i /\ f[m] = k /\ IsWalk(G, f, m)
    BY <1>1 DEF Walks
  <2>2. PICK g \in [0 .. n -> Nodes] : g[0] = k /\ g[n] = j /\ IsWalk(G, g, n)
    BY <1>1 DEF Walks
  <2> DEFINE h == [x \in 0 .. m + n |-> IF x <= m THEN f[x] ELSE g[x - m]]
  <2>3. h \in [0 .. m + n -> Nodes]
    OBVIOUS
  <2>4. h[0] = i /\ h[m + n] = j
    BY <2>1, <2>2
  <2>5. ASSUME NEW x \in 0 .. m + n - 1 PROVE <<h[x], h[x + 1]>> \in G
    <3>1. CASE x + 1 <= m
      BY <3>1, <2>1 DEF IsWalk
    <3>2. CASE x >= m
      <4>1. x - m \in 0 .. n - 1 /\ (x + 1) - m = (x - m) + 1
        BY <3>2
      <4>2. h[x] = g[x - m]
        BY <3>2, <2>1, <2>2
      <4>3. h[x + 1] = g[(x - m) + 1]
        BY <3>2, <4>1
      <4> QED BY <4>1, <4>2, <4>3, <2>2 DEF IsWalk
    <3> QED BY <3>1, <3>2
  <2> HIDE DEF h
  <2>6. IsWalk(G, h, m + n)
    BY <2>5 DEF IsWalk
  <2>7. \E hh \in [0 .. m + n -> Nodes] :
          hh[0] = i /\ hh[m + n] = j /\ IsWalk(G, hh, m + n)
    BY <2>3, <2>4, <2>6
  <2> DEFINE l == m + n
  <2> HIDE DEF l
  <2>8. \E hh \in [0 .. l -> Nodes] : hh[0] = i /\ hh[l] = j /\ IsWalk(G, hh, l)
    BY <2>7, Zenon DEF l
  <2>9. <<i, j>> \in Walks(G, l)
    BY <2>8, InWalks, Zenon
  <2> QED BY <2>9, Zenon DEF l
<1>2. ASSUME NEW i \in Nodes, NEW j \in Nodes, <<i, j>> \in Walks(G, m + n)
      PROVE  \E k \in Nodes : <<i, k>> \in Walks(G, m) /\ <<k, j>> \in Walks(G, n)
  <2>1. PICK h \in [0 .. m + n -> Nodes] :
          h[0] = i /\ h[m + n] = j /\ IsWalk(G, h, m + n)
    BY <1>2 DEF Walks
  <2> DEFINE f == [x \in 0 .. m |-> h[x]]
             g == [x \in 0 .. n |-> h[m + x]]
  <2>2. /\ f \in [0 .. m -> Nodes] /\ f[0] = i /\ f[m] = h[m]
        /\ IsWalk(G, f, m)
    BY <2>1 DEF IsWalk
  <2>3. /\ g \in [0 .. n -> Nodes] /\ g[0] = h[m] /\ g[n] = j
        /\ IsWalk(G, g, n)
    <3>1. g \in [0 .. n -> Nodes] /\ g[0] = h[m] /\ g[n] = j
      BY <2>1
    <3>2. ASSUME NEW x \in 0 .. n - 1 PROVE <<g[x], g[x + 1]>> \in G
      <4>1. m + x \in 0 .. m + n - 1 /\ m + (x + 1) = (m + x) + 1
        OBVIOUS
      <4>2. g[x] = h[m + x] /\ g[x + 1] = h[(m + x) + 1]
        BY <4>1
      <4> QED BY <4>1, <4>2, <2>1 DEF IsWalk
    <3> QED BY <3>1, <3>2 DEF IsWalk
  <2>4. h[m] \in Nodes
    BY <2>1
  <2> HIDE DEF f, g
  <2> QED BY <2>2, <2>3, <2>4 DEF Walks
<1>3. MatMul(Walks(G, m), Walks(G, n)) \subseteq Walks(G, m + n)
  <2>1. MatMul(Walks(G, m), Walks(G, n)) \subseteq Nodes \X Nodes
    BY DEF MatMul
  <2>2. \A i, j \in Nodes : <<i, j>> \in MatMul(Walks(G, m), Walks(G, n)) =>
                            <<i, j>> \in Walks(G, m + n)
    BY <1>1, InMatMul, Zenon
  <2> QED BY <2>1, <2>2, PairSubset
<1>4. Walks(G, m + n) \subseteq MatMul(Walks(G, m), Walks(G, n))
  <2>1. Walks(G, m + n) \subseteq Nodes \X Nodes
    BY DEF Walks
  <2>2. \A i, j \in Nodes : <<i, j>> \in Walks(G, m + n) =>
                            <<i, j>> \in MatMul(Walks(G, m), Walks(G, n))
    BY <1>2, InMatMul, Zenon
  <2> QED BY <2>1, <2>2, PairSubset, Zenon
<1> QED BY <1>3, <1>4

\* A walk of one edge is an edge: A^1 = A.
LEMMA WalksOne ==
  ASSUME NEW G, G \subseteq Nodes \X Nodes
  PROVE  Walks(G, 1) = G
<1>1. ASSUME NEW i \in Nodes, NEW j \in Nodes, <<i, j>> \in Walks(G, 1)
      PROVE  <<i, j>> \in G
  <2>1. PICK f \in [0 .. 1 -> Nodes] : f[0] = i /\ f[1] = j /\ IsWalk(G, f, 1)
    BY <1>1 DEF Walks
  <2>2. 0 \in 0 .. 1 - 1 /\ 0 + 1 = 1
    OBVIOUS
  <2> QED BY <2>1, <2>2 DEF IsWalk
<1>2. ASSUME NEW i \in Nodes, NEW j \in Nodes, <<i, j>> \in G
      PROVE  <<i, j>> \in Walks(G, 1)
  <2> DEFINE f == [x \in 0 .. 1 |-> IF x = 0 THEN i ELSE j]
  <2>1. f \in [0 .. 1 -> Nodes] /\ f[0] = i /\ f[1] = j
    OBVIOUS
  <2>2. IsWalk(G, f, 1)
    BY <1>2 DEF IsWalk
  <2> HIDE DEF f
  <2> QED BY <2>1, <2>2 DEF Walks
<1>3. Walks(G, 1) \subseteq G
  BY <1>1 DEF Walks
<1>4. G \subseteq Walks(G, 1)
  BY <1>2
<1> QED BY <1>3, <1>4

\* S(1) = A.
LEMMA ReachOne ==
  ASSUME NEW G, G \subseteq Nodes \X Nodes
  PROVE  Reach(G, 1) = G
<1>1. 1 .. 1 = {1}
  OBVIOUS
<1> QED BY <1>1, WalksOne DEF Reach

\* S(2h) = S(h) | P(h)S(h).
LEMMA ReachDouble ==
  ASSUME NEW G, NEW h \in Nat
  PROVE  OrMat(Reach(G, h), MatMul(Walks(G, h), Reach(G, h))) = Reach(G, 2 * h)
<1> DEFINE X == MatMul(Walks(G, h), Reach(G, h))
<1>1. ASSUME NEW e \in Nodes \X Nodes, NEW k \in 1 .. 2 * h, e \in Walks(G, k)
      PROVE  e \in Reach(G, h) \/ e \in X
  <2>1. CASE k <= h
    BY <2>1, <1>1 DEF Reach
  <2>2. CASE k > h
    <3>1. k - h \in 1 .. h /\ h + (k - h) = k
      BY <2>2
    <3>2. e \in MatMul(Walks(G, h), Walks(G, k - h))
      BY <1>1, <3>1, WalksCompose
    <3>3. Walks(G, k - h) \subseteq Reach(G, h)
      BY <3>1 DEF Reach, Walks
    <3> QED BY <3>2, <3>3 DEF MatMul
  <2> QED BY <2>1, <2>2
<1>2. ASSUME NEW i \in Nodes, NEW j \in Nodes, <<i, j>> \in X
      PROVE  <<i, j>> \in Reach(G, 2 * h)
  <2>1. PICK k \in Nodes : <<i, k>> \in Walks(G, h) /\ <<k, j>> \in Reach(G, h)
    BY <1>2 DEF MatMul
  <2>2. PICK l \in 1 .. h : <<k, j>> \in Walks(G, l)
    BY <2>1 DEF Reach
  <2>3. <<i, j>> \in MatMul(Walks(G, h), Walks(G, l))
    BY <2>1, <2>2 DEF MatMul
  <2>4. <<i, j>> \in Walks(G, h + l)
    BY <2>3, WalksCompose
  <2> QED BY <2>4 DEF Reach
<1>3. Reach(G, h) \subseteq Reach(G, 2 * h)
  BY DEF Reach
<1>4. X \subseteq Reach(G, 2 * h)
  BY <1>2 DEF MatMul
<1>5. Reach(G, 2 * h) \subseteq Reach(G, h) \cup X
  <2> HIDE DEF X
  <2> QED BY <1>1 DEF Reach
<1> QED BY <1>3, <1>4, <1>5 DEF OrMat

\* S(t) = S(t-1) | P(t).
LEMMA ReachNext ==
  ASSUME NEW G, NEW t \in Nat, t >= 1
  PROVE  OrMat(Reach(G, t - 1), Walks(G, t)) = Reach(G, t)
<1>1. \A k : k \in 1 .. t <=> k \in 1 .. t - 1 \/ k = t
  OBVIOUS
<1>2. Walks(G, t) \subseteq Nodes \X Nodes
  BY DEF Walks
<1> QED BY <1>1, <1>2 DEF OrMat, Reach

------------------------------------------------------------------------------
\* What pushing an invocation on the stack makes of it.
LEMMA PushFacts ==
  ASSUME NEW X, NEW s \in Seq(X), NEW x \in X
  PROVE  /\ <<x>> \o s \in Seq(X)
         /\ <<x>> \o s # << >>
         /\ Len(s) \in Nat
         /\ Len(<<x>> \o s) = Len(s) + 1
         /\ \A i \in 1 .. Len(s) + 1 :
              (<<x>> \o s)[i] = IF i = 1 THEN x ELSE s[i - 1]
<1>1. Len(<<x>>) = 1 /\ <<x>>[1] = x /\ <<x>> \in Seq(X) /\ Len(s) \in Nat
  OBVIOUS
<1>2. /\ <<x>> \o s \in Seq(X) /\ Len(<<x>> \o s) = Len(s) + 1
      /\ \A i \in 1 .. Len(s) + 1 :
              (<<x>> \o s)[i] = IF i = 1 THEN x ELSE s[i - 1]
  BY <1>1
<1>3. <<x>> \o s # << >>
  BY <1>1, <1>2
<1> QED BY <1>1, <1>2, <1>3

\* What popping the innermost one leaves.
LEMMA PopFacts ==
  ASSUME NEW X, NEW s \in Seq(X), s # << >>
  PROVE  /\ Head(s) = s[1] /\ Head(s) \in X
         /\ Tail(s) \in Seq(X)
         /\ Len(s) \in Nat /\ Len(s) > 0 /\ Len(Tail(s)) = Len(s) - 1
         /\ \A i \in 1 .. Len(s) - 1 : Tail(s)[i] = s[i + 1]
         /\ Tail(s) = << >> <=> Len(s) = 1
<1>1. /\ Head(s) = s[1] /\ Head(s) \in X
      /\ Tail(s) \in Seq(X)
      /\ Len(s) \in Nat /\ Len(s) > 0 /\ Len(Tail(s)) = Len(s) - 1
      /\ \A i \in 1 .. Len(s) - 1 : Tail(s)[i] = s[i + 1]
  OBVIOUS
<1>2. Tail(s) = << >> <=> Len(s) = 1
  <2>1. \A q \in Seq(X) : Len(q) = 0 => q = << >>
    OBVIOUS
  <2>2. Len(<< >>) = 0
    OBVIOUS
  <2> PICK q \in Seq(X) : q = Tail(s) /\ Len(q) = Len(s) - 1
    BY <1>1
  <2>3. q = << >> => Len(q) = 0
    BY <2>2, Zenon
  <2> QED BY <1>1, <2>1, <2>3
<1> QED BY <1>1, <1>2

\* What the recursion asks its callee for.
LEMMA CalleeFacts ==
  ASSUME NEW t \in Nat, t > 1
  PROVE  /\ Callee(t) \in 1 .. t - 1
         /\ t % 2 = 0 => t = 2 * Callee(t)
         /\ t % 2 = 1 => Callee(t) = t - 1
         /\ t % 2 \in {0, 1}
BY DEF Callee

\* Products of relations on the nodes are relations on the nodes.
LEMMA MatMulType == ASSUME NEW X, NEW Y PROVE MatMul(X, Y) \subseteq Nodes \X Nodes
BY DEF MatMul

------------------------------------------------------------------------------
\* The outermost call starts with an empty stack.
LEMMA InitIInv == Init => IInv
<1> SUFFICES ASSUME Init PROVE IInv
  OBVIOUS
<1>1. TypeOK
  BY DEF Init, TypeOK
<1>2. FramesInv
  <2>1. Len(<< >>) = 0 /\ 1 .. 0 = {}
    OBVIOUS
  <2> QED BY <2>1 DEF Init, FramesInv
<1> QED BY <1>1, <1>2 DEF Init, IInv, PowersCorrect

\* A recursive call extends the chain of waiting invocations by its caller.
LEMMA RecurseKeeps == ASSUME IInv, Recurse PROVE IInv'
<1> USE DEF Recurse
<1>0. /\ arg \in Nat /\ arg > 1 /\ arg \in 2 .. MaxT
      /\ frames \in Seq(2 .. MaxT)
  BY MaxTAssumption DEF IInv, TypeOK
<1>1. Callee(arg) \in 1 .. arg - 1
  BY <1>0, CalleeFacts
<1>2. /\ frames' \in Seq(2 .. MaxT) /\ frames' # << >>
      /\ Len(frames) \in Nat /\ Len(frames') = Len(frames) + 1
      /\ \A i \in 1 .. Len(frames) + 1 :
           frames'[i] = IF i = 1 THEN arg ELSE frames[i - 1]
  BY <1>0, PushFacts
<1>3. TypeOK'
  <2>1. arg' \in 0 .. MaxT
    BY <1>0, <1>1, MaxTAssumption
  <2> QED BY <2>1, <1>2, Zenon DEF IInv, TypeOK
<1>4. FramesInv'
  <2>1. ASSUME NEW i \in 1 .. Len(frames')
        PROVE  /\ frames'[i] > 1
               /\ Callee(frames'[i]) = IF i = 1 THEN arg' ELSE frames'[i - 1]
    <3>1. CASE i = 1
      BY <3>1, <1>0, <1>2
    <3>2. CASE i # 1
      <4>1. i - 1 \in 1 .. Len(frames) /\ i - 1 \in 1 .. Len(frames) + 1
        BY <3>2, <1>2
      <4>2. /\ frames[i - 1] > 1
            /\ Callee(frames[i - 1]) = IF i - 1 = 1 THEN arg ELSE frames[(i - 1) - 1]
        BY <4>1 DEF IInv, FramesInv
      <4>3. frames'[i] = frames[i - 1]
        BY <3>2, <1>2
      <4>4. frames'[i - 1] = IF i - 1 = 1 THEN arg ELSE frames[(i - 1) - 1]
        BY <4>1, <1>2
      <4> QED BY <3>2, <4>2, <4>3, <4>4
    <3> QED BY <3>1, <3>2
  <2>2. T = frames'[Len(frames')]
    <3>1. CASE frames = << >>
      <4>1. Len(frames) = 0
        BY <3>1
      <4> QED BY <3>1, <4>1, <1>2 DEF IInv, FramesInv
    <3>2. CASE frames # << >>
      <4>1. Len(frames) > 0
        BY <3>2, <1>0, PopFacts
      <4> QED BY <3>2, <4>1, <1>2 DEF IInv, FramesInv
    <3> QED BY <3>1, <3>2
  <2> QED BY <2>1, <2>2, <1>2 DEF FramesInv
<1> QED BY <1>3, <1>4, Zenon DEF IInv, PowersCorrect

\* A return shortens the chain, and the invocation it returns to is the one
\* whose callee has just answered.
LEMMA PopKeeps ==
  ASSUME IInv, Pop
  PROVE  /\ FramesInv'
         /\ frames' \in Seq(2 .. MaxT)
         /\ Head(frames) \in 2 .. MaxT
         /\ Callee(Head(frames)) = arg
<1> USE DEF Pop
<1>0. /\ frames \in Seq(2 .. MaxT) /\ frames # << >>
  BY DEF IInv, TypeOK
<1>1. /\ Head(frames) = frames[1] /\ Head(frames) \in 2 .. MaxT
      /\ frames' \in Seq(2 .. MaxT)
      /\ Len(frames) \in Nat /\ Len(frames) > 0 /\ Len(frames') = Len(frames) - 1
      /\ \A i \in 1 .. Len(frames) - 1 : frames'[i] = frames[i + 1]
      /\ frames' = << >> <=> Len(frames) = 1
  BY <1>0, PopFacts
<1>2. /\ \A i \in 1 .. Len(frames) :
           /\ frames[i] > 1
           /\ Callee(frames[i]) = IF i = 1 THEN arg ELSE frames[i - 1]
      /\ T = frames[Len(frames)]
  BY <1>0 DEF IInv, FramesInv
<1>3. Callee(Head(frames)) = arg
  BY <1>1, <1>2
<1>4. ASSUME NEW i \in 1 .. Len(frames')
      PROVE  /\ frames'[i] > 1
             /\ Callee(frames'[i]) = IF i = 1 THEN arg' ELSE frames'[i - 1]
  <2>1. i \in 1 .. Len(frames) - 1 /\ i + 1 \in 1 .. Len(frames)
    BY <1>1
  <2>2. frames'[i] = frames[i + 1] /\ frames[i + 1] > 1
    BY <2>1, <1>1, <1>2
  <2>3. Callee(frames[i + 1]) = frames[i]
    <3>1. (i + 1) - 1 = i /\ i + 1 # 1
      BY <2>1
    <3> QED BY <2>1, <3>1, <1>2
  <2>4. CASE i = 1
    BY <2>2, <2>3, <2>4, <1>1
  <2>5. CASE i # 1
    <3>1. i - 1 \in 1 .. Len(frames) - 1 /\ (i - 1) + 1 = i
      BY <2>1, <2>5
    <3> QED BY <3>1, <2>2, <2>3, <2>5, <1>1
  <2> QED BY <2>4, <2>5
<1>5. T = IF frames' = << >> THEN arg' ELSE frames'[Len(frames')]
  <2>1. CASE Len(frames) = 1
    BY <2>1, <1>1, <1>2
  <2>2. CASE Len(frames) # 1
    <3>1. Len(frames') \in 1 .. Len(frames) - 1 /\ Len(frames') + 1 = Len(frames)
      BY <2>2, <1>1
    <3>2. frames'[Len(frames')] = frames[Len(frames)]
      BY <3>1, <1>1
    <3> QED BY <2>2, <3>2, <1>1, <1>2
  <2> QED BY <2>1, <2>2
<1> QED BY <1>1, <1>3, <1>4, <1>5 DEF FramesInv

\* S(2h) = S(h) | P(h)S(h) and P(2h) = P(h)P(h).
LEMMA EvenStepKeeps == ASSUME IInv, EvenStep PROVE IInv'
<1> USE DEF EvenStep
<1>1. /\ FramesInv' /\ frames' \in Seq(2 .. MaxT)
      /\ Head(frames) \in 2 .. MaxT /\ Callee(Head(frames)) = arg
  BY PopKeeps
<1>2. phase = "return" /\ arg' = Head(frames) /\ UNCHANGED <<A, T, phase>>
  BY DEF Pop
<1>3. arg \in Nat /\ arg' = 2 * arg
  <2>1. arg' \in Nat /\ arg' > 1
    BY <1>1, <1>2, MaxTAssumption
  <2> QED BY <2>1, <1>1, <1>2, CalleeFacts
<1>4. S = Reach(A, arg) /\ P = Walks(A, arg)
  BY <1>2 DEF IInv, PowersCorrect
<1>5. S' = Reach(A, arg')
  BY <1>3, <1>4, ReachDouble
<1>6. P' = Walks(A, arg')
  <2>1. P' = Walks(A, arg + arg)
    BY <1>3, <1>4, WalksCompose
  <2> QED BY <2>1, <1>3
<1>7. TypeOK'
  <2>1. S' \subseteq Nodes \X Nodes /\ P' \subseteq Nodes \X Nodes
    BY <1>5, <1>6 DEF Reach, Walks
  <2> QED BY <2>1, <1>1, <1>2 DEF IInv, TypeOK
<1>8. arg' >= 1
  BY <1>1, <1>2
<1> QED BY <1>1, <1>2, <1>5, <1>6, <1>7, <1>8 DEF IInv, PowersCorrect

\* P(T) = P(T-1)A and S(T) = S(T-1) | P(T).
LEMMA OddStepKeeps == ASSUME IInv, OddStep PROVE IInv'
<1> USE DEF OddStep
<1>1. /\ FramesInv' /\ frames' \in Seq(2 .. MaxT)
      /\ Head(frames) \in 2 .. MaxT /\ Callee(Head(frames)) = arg
  BY PopKeeps
<1>2. phase = "return" /\ arg' = Head(frames) /\ UNCHANGED <<A, T, phase>>
  BY DEF Pop
<1>3. arg \in Nat /\ arg' = arg + 1 /\ arg' \in Nat /\ arg' >= 1 /\ arg' - 1 = arg
  <2>1. arg' \in Nat /\ arg' > 1
    BY <1>1, <1>2, MaxTAssumption
  <2>2. arg' % 2 = 1
    BY <1>2
  <2>3. arg = arg' - 1
    BY <2>1, <2>2, <1>1, <1>2, CalleeFacts
  <2>4. \A n \in Nat : n > 1 => n - 1 \in Nat /\ n = (n - 1) + 1 /\ n >= 1
    OBVIOUS
  <2> QED BY <2>1, <2>3, <2>4, Zenon
<1>4. S = Reach(A, arg) /\ P = Walks(A, arg) /\ A \subseteq Nodes \X Nodes
  BY <1>2 DEF IInv, PowersCorrect, TypeOK
<1>5. P' = Walks(A, arg')
  <2>1. P' = MatMul(Walks(A, arg), Walks(A, 1))
    BY <1>4, WalksOne
  <2>2. P' = Walks(A, arg + 1)
    BY <2>1, <1>3, WalksCompose
  <2> QED BY <2>2, <1>3
<1>6. S' = Reach(A, arg')
  BY <1>3, <1>4, <1>5, ReachNext
<1>7. TypeOK'
  <2>1. S' \subseteq Nodes \X Nodes /\ P' \subseteq Nodes \X Nodes
    BY <1>5, <1>6 DEF Reach, Walks
  <2> QED BY <2>1, <1>1, <1>2 DEF IInv, TypeOK
<1> QED BY <1>1, <1>2, <1>3, <1>5, <1>6, <1>7 DEF IInv, PowersCorrect

\* Every step of the recursion keeps the invariant.
THEOREM NextIInv == IInv /\ [Next]_vars => IInv'
<1> SUFFICES ASSUME IInv, [Next]_vars PROVE IInv'
  OBVIOUS
<1>1. CASE Reject
  <2>1. TypeOK' /\ FramesInv'
    BY <1>1 DEF Reject, IInv, TypeOK, FramesInv
  <2>2. T < 1
    <3>1. CASE frames = << >>
      BY <3>1, <1>1 DEF Reject, IInv, FramesInv
    <3>2. CASE frames # << >>
      <4>1. frames \in Seq(2 .. MaxT) /\ arg < 1
        BY <1>1 DEF Reject, IInv, TypeOK
      <4>2. frames[1] \in 2 .. MaxT /\ 1 \in 1 .. Len(frames)
        <5>1. /\ Head(frames) = frames[1] /\ Head(frames) \in 2 .. MaxT
              /\ Len(frames) \in Nat /\ Len(frames) > 0
          BY <3>2, <4>1, PopFacts, Zenon
        <5> QED BY <5>1
      <4>3. Callee(frames[1]) = arg
        BY <4>2 DEF IInv, FramesInv
      <4>4. frames[1] \in Nat /\ frames[1] > 1
        BY <4>2, MaxTAssumption
      <4>5. Callee(frames[1]) >= 1
        BY <4>4, CalleeFacts
      <4> QED BY <4>1, <4>3, <4>5, MaxTAssumption DEF IInv, TypeOK
    <3> QED BY <3>1, <3>2
  <2> QED BY <1>1, <2>1, <2>2 DEF Reject, IInv, PowersCorrect
<1>2. CASE Base
  <2>1. A \subseteq Nodes \X Nodes
    BY DEF IInv, TypeOK
  <2>2. S' = Reach(A, 1) /\ P' = Walks(A, 1)
    BY <1>2, <2>1, ReachOne, WalksOne DEF Base
  <2>3. TypeOK' /\ FramesInv'
    BY <1>2, <2>1 DEF Base, IInv, TypeOK, FramesInv
  <2> QED BY <1>2, <2>2, <2>3 DEF Base, IInv, PowersCorrect
<1>3. CASE Recurse
  BY <1>3, RecurseKeeps
<1>4. CASE EvenStep
  BY <1>4, EvenStepKeeps
<1>5. CASE OddStep
  BY <1>5, OddStepKeeps
<1>6. CASE Finished \/ UNCHANGED vars
  BY <1>6, Zenon DEF Finished, vars, IInv, TypeOK, FramesInv, PowersCorrect
<1> QED BY <1>1, <1>2, <1>3, <1>4, <1>5, <1>6 DEF Next

\* The invariant holds in every reachable state.
THEOREM Invariance == Spec => []IInv
  BY InitIInv, NextIInv, PTL DEF Spec

\* Type correctness of the recursion.
THEOREM TypeCorrect == Spec => []TypeOK
<1>1. IInv => TypeOK
  BY DEF IInv
<1> QED BY <1>1, Invariance, PTL

\* Every invocation of sum_powers_recursive returns (A^1 | .. | A^arg, A^arg),
\* whatever the dimension, the graph and the recursion that led to it.
THEOREM PowersAreCorrect == Spec => []PowersCorrect
<1>1. IInv => PowersCorrect
  BY DEF IInv
<1> QED BY <1>1, Invariance, PTL

\* bounded_transitive_closure(A, T) returns exactly the pairs joined by a walk
\* of 1 to T edges.
THEOREM ComputesBoundedClosure == Spec => []BoundedClosure
<1>1. IInv => BoundedClosure
  BY DEF IInv, FramesInv, PowersCorrect, BoundedClosure, Result
<1> QED BY <1>1, Invariance, PTL

------------------------------------------------------------------------------
\* floyd_warshall.  Two facts make it the closure: a walk of more than N edges
\* can be cut short, and a round keeps what the rounds before have closed.

\* A set of numbers that is not empty has a least element.
LEMMA LeastNat ==
  ASSUME NEW X, X \subseteq Nat, X # {}
  PROVE  \E x \in X : \A y \in X : ~(y < x)
<1>1. \E x \in X : \A y \in X : <<y, x>> \notin OpToRel(<, Nat)
  BY NatLessThanWellFounded, WFMin, Zenon
<1> QED BY <1>1 DEF OpToRel

\* Induction over a set of numbers.
LEMMA NatInSet ==
  ASSUME NEW X, 0 \in X, \A k \in Nat : k \in X => k + 1 \in X
  PROVE  \A k \in Nat : k \in X
<1> DEFINE Y == {k \in Nat : k \notin X}
<1> SUFFICES ASSUME Y # {} PROVE FALSE
  OBVIOUS
<1>1. Y \subseteq Nat
  OBVIOUS
<1>2. PICK k \in Y : \A y \in Y : ~(y < k)
  <2> HIDE DEF Y
  <2> QED BY <1>1, LeastNat
<1>3. k \in Nat /\ k # 0 /\ k \notin X
  BY <1>2
<1>4. k - 1 \in Nat /\ k - 1 < k /\ (k - 1) + 1 = k
  BY <1>3
<1>5. k - 1 \in X
  BY <1>2, <1>4
<1> QED BY <1>3, <1>4, <1>5

\* A part of a walk is a walk.
LEMMA PartOfWalk ==
  ASSUME NEW G, NEW k \in Nat, NEW f \in [0 .. k -> Nodes], IsWalk(G, f, k),
         NEW a \in 0 .. k, NEW b \in 0 .. k, a <= b
  PROVE  <<f[a], f[b]>> \in Walks(G, b - a)
<1> DEFINE l == b - a
           g == [x \in 0 .. l |-> f[a + x]]
<1>1. l \in Nat /\ \A x \in 0 .. l : a + x \in 0 .. k
  OBVIOUS
<1>2. g \in [0 .. l -> Nodes] /\ f[a] \in Nodes /\ f[b] \in Nodes
  BY <1>1
<1>3. g[0] = f[a] /\ g[l] = f[b]
  BY <1>1
<1>4. ASSUME NEW x \in 0 .. l - 1 PROVE <<g[x], g[x + 1]>> \in G
  <2>1. a + x \in 0 .. k - 1 /\ x \in 0 .. l /\ x + 1 \in 0 .. l /\ a + (x + 1) = (a + x) + 1
    BY <1>1
  <2>2. <<f[a + x], f[(a + x) + 1]>> \in G
    BY <2>1 DEF IsWalk
  <2> QED BY <2>1, <2>2
<1> HIDE DEF g, l
<1>5. IsWalk(G, g, l)
  BY <1>4 DEF IsWalk
<1>6. <<f[a], f[b]>> \in Walks(G, l)
  BY <1>2, <1>3, <1>5, InWalks
<1> QED BY <1>6 DEF l

\* There are not more than N nodes: a longer stretch of a walk has one twice.
LEMMA SameNodeTwice ==
  ASSUME NEW k \in Nat, NEW f \in [0 .. k -> Nodes], NEW a \in 0 .. 1, k >= N + a
  PROVE  \E x \in a .. k, y \in a .. k : x < y /\ f[x] = f[y]
<1> DEFINE g == [x \in a .. k |-> f[x]]
<1>1. /\ IsFiniteSet(a .. k) /\ Cardinality(a .. k) = IF a > k THEN 0 ELSE k - a + 1
      /\ IsFiniteSet(0 .. N - 1) /\ Cardinality(0 .. N - 1) = IF 0 > N - 1 THEN 0 ELSE N - 1 - 0 + 1
  BY NAssumption, FS_Interval
<1>2. Cardinality(Nodes) < Cardinality(a .. k) /\ IsFiniteSet(Nodes)
  BY <1>1, NAssumption DEF Nodes
<1>3. g \in [a .. k -> Nodes]
  BY NAssumption
<1>4. PICK x \in a .. k, y \in a .. k : x # y /\ g[x] = g[y]
  <2> HIDE DEF g
  <2> QED BY <1>1, <1>2, <1>3, FS_PigeonHole
<1>5. f[x] = f[y] /\ (x < y \/ y < x)
  BY <1>4
<1> QED BY <1>5

\* A walk that is cut short at a node it has twice.
LEMMA CutWalk ==
  ASSUME NEW G, NEW k \in Nat, NEW f \in [0 .. k -> Nodes], IsWalk(G, f, k),
         NEW x \in 0 .. k, NEW y \in 0 .. k, x < y, f[x] = f[y]
  PROVE  <<f[0], f[k]>> \in Walks(G, k - (y - x))
<1>1. 0 \in 0 .. k /\ k \in 0 .. k /\ 0 <= x /\ y <= k
      /\ x - 0 = x /\ x \in Nat /\ k - y \in Nat
  OBVIOUS
<1>2. <<f[0], f[x]>> \in Walks(G, x - 0)
  BY <1>1, PartOfWalk
<1>3. <<f[y], f[k]>> \in Walks(G, k - y)
  BY <1>1, PartOfWalk
<1>4. f[0] \in Nodes /\ f[x] \in Nodes /\ f[k] \in Nodes
  BY <1>1
<1>5. <<f[0], f[k]>> \in MatMul(Walks(G, x), Walks(G, k - y))
  BY <1>1, <1>2, <1>3, <1>4, InMatMul
<1>6. MatMul(Walks(G, x), Walks(G, k - y)) = Walks(G, x + (k - y))
  BY <1>1, WalksCompose
<1>7. x + (k - y) = k - (y - x)
  OBVIOUS
<1> QED BY <1>5, <1>6, <1>7

\* Walks of at most N edges join whatever walks of any length join.
LEMMA ShortWalks ==
  ASSUME NEW G, NEW k \in Nat \ {0}, NEW e \in Walks(G, k)
  PROVE  e \in Reach(G, N)
<1> DEFINE X == {l \in Nat \ {0} : e \in Walks(G, l)}
<1>1. X \subseteq Nat /\ X # {}
  OBVIOUS
<1>2. PICK l \in X : \A y \in X : ~(y < l)
  <2> HIDE DEF X
  <2> QED BY <1>1, LeastNat
<1>3. l \in Nat \ {0} /\ e \in Walks(G, l) /\ e \in Nodes \X Nodes
  BY <1>2 DEF Walks
<1>4. ASSUME l > N PROVE FALSE
  <2>1. PICK i \in Nodes, j \in Nodes : e = <<i, j>>
    BY <1>3
  <2>2. PICK f \in [0 .. l -> Nodes] : f[0] = i /\ f[l] = j /\ IsWalk(G, f, l)
    <3>1. <<i, j>> \in Walks(G, l)
      BY <1>3, <2>1
    <3> HIDE DEF X
    <3> QED BY <3>1, InWalks
  <2>3. 1 \in 0 .. 1 /\ l \in Nat /\ l >= N + 1
    BY <1>3, <1>4, NAssumption
  <2>4. PICK x \in 1 .. l, y \in 1 .. l : x < y /\ f[x] = f[y]
    BY <2>3, SameNodeTwice
  <2>5. x \in 0 .. l /\ y \in 0 .. l
    BY <1>3
  <2>6. e \in Walks(G, l - (y - x))
    BY <2>1, <2>2, <2>3, <2>4, <2>5, CutWalk
  <2>7. l - (y - x) \in Nat \ {0} /\ l - (y - x) < l
    BY <1>3, <2>4
  <2> QED BY <1>2, <2>6, <2>7
<1>5. l \in 1 .. N
  BY <1>3, <1>4, NAssumption
<1> QED BY <1>3, <1>5 DEF Reach

\* In an acyclic graph even one edge less will do.
LEMMA AcyclicWalks ==
  ASSUME NEW G, Acyclic(G), NEW e \in Reach(G, N)
  PROVE  e \in Reach(G, N - 1)
<1>1. PICK k \in 1 .. N : e \in Walks(G, k)
  BY DEF Reach
<1>2. e \in Nodes \X Nodes
  BY DEF Reach
<1>3. ASSUME k = N PROVE FALSE
  <2>1. PICK i \in Nodes, j \in Nodes : e = <<i, j>>
    BY <1>2
  <2>2. PICK f \in [0 .. k -> Nodes] : f[0] = i /\ f[k] = j /\ IsWalk(G, f, k)
    <3>1. <<i, j>> \in Walks(G, k)
      BY <1>1, <2>1
    <3> QED BY <3>1, InWalks
  <2>3. k \in Nat /\ 0 \in 0 .. 1 /\ k >= N + 0
    BY <1>1, <1>3, NAssumption
  <2>4. PICK x \in 0 .. k, y \in 0 .. k : x < y /\ f[x] = f[y]
    BY <2>3, SameNodeTwice
  <2>5. <<f[x], f[y]>> \in Walks(G, y - x)
    BY <2>2, <2>3, <2>4, PartOfWalk
  <2>6. y - x \in 1 .. N /\ f[x] \in Nodes
    BY <1>1, <2>4, NAssumption
  <2>7. <<f[x], f[x]>> \in Reach(G, N)
    BY <2>4, <2>5, <2>6 DEF Reach
  <2> QED BY <2>6, <2>7 DEF Acyclic
<1>4. k \in 1 .. N - 1
  BY <1>1, <1>3, NAssumption
<1> QED BY <1>1, <1>2, <1>4 DEF Reach

\* A round of floyd_warshall.
Round(X, v) == X \cup {e \in Nodes \X Nodes : <<e[1], v>> \in X /\ <<v, e[2]>> \in X}

\* Its rounds, as a sequence of relations.
IsRounds(R, G, m) == R[0] = G /\ \A k \in 1 .. m : R[k] = Round(R[k - 1], k - 1)

\* FloydWarshall is the result of the last of N rounds.
LEMMA Rounds ==
  ASSUME NEW G
  PROVE  \E R : IsRounds(R, G, N) /\ FloydWarshall(G) = R[N]
<1> DEFINE Rec(R) == [k \in 0 .. N |->
                        IF k = 0 THEN G
                        ELSE R[k - 1] \cup {e \in Nodes \X Nodes :
                                              <<e[1], k - 1>> \in R[k - 1] /\ <<k - 1, e[2]>> \in R[k - 1]}]
           H      == CHOOSE R : R = Rec(R)
           X      == {m \in Nat : \E R : IsRounds(R, G, m)}
<1>1. FloydWarshall(G) = H[N]
  BY Zenon DEF FloydWarshall
<1>2. 0 \in X
  <2>1. IsRounds([k \in {0} |-> G], G, 0)
    BY DEF IsRounds
  <2> QED BY <2>1
<1>3. ASSUME NEW m \in Nat, m \in X PROVE m + 1 \in X
  <2>1. PICK R : IsRounds(R, G, m)
    BY <1>3
  <2> DEFINE Q == [k \in 0 .. m + 1 |-> IF k = m + 1 THEN Round(R[m], m) ELSE R[k]]
  <2>2. ASSUME NEW k \in 1 .. m + 1 PROVE Q[k] = Round(Q[k - 1], k - 1)
    <3>1. k \in 0 .. m + 1 /\ k - 1 \in 0 .. m + 1 /\ k - 1 # m + 1
      OBVIOUS
    <3>2. Q[k - 1] = R[k - 1]
      BY <3>1
    <3>3. CASE k = m + 1
      <4>1. Q[k] = Round(R[m], m) /\ k - 1 = m
        BY <3>1, <3>3
      <4> QED BY <3>2, <4>1
    <3>4. CASE k # m + 1
      <4>1. k \in 1 .. m /\ Q[k] = R[k]
        BY <3>1, <3>4
      <4>2. R[k] = Round(R[k - 1], k - 1)
        BY <2>1, <4>1 DEF IsRounds
      <4> QED BY <3>2, <4>1, <4>2
    <3> QED BY <3>3, <3>4
  <2>3. Q[0] = G
    BY <2>1 DEF IsRounds
  <2> HIDE DEF Q
  <2>4. IsRounds(Q, G, m + 1)
    BY <2>2, <2>3 DEF IsRounds
  <2> QED BY <2>4
<1>4. \A m \in Nat : m \in X
  <2> HIDE DEF X
  <2> QED BY <1>2, <1>3, NatInSet
<1>5. PICK R : IsRounds(R, G, N)
  BY <1>4, NAssumption
<1> DEFINE Q == [k \in 0 .. N |-> R[k]]
<1>6. Q = Rec(Q)
  <2>1. ASSUME NEW k \in 0 .. N PROVE Q[k] = Rec(Q)[k]
    <3>1. CASE k = 0
      BY <1>5, <3>1 DEF IsRounds
    <3>2. CASE k # 0
      <4>1. k \in 1 .. N /\ k - 1 \in 0 .. N
        BY <3>2, NAssumption
      <4>2. Q[k] = Round(R[k - 1], k - 1) /\ Q[k - 1] = R[k - 1]
        BY <1>5, <4>1 DEF IsRounds
      <4> QED BY <3>2, <4>2 DEF Round
    <3> QED BY <3>1, <3>2
  <2> QED BY <2>1
<1>7. H = Rec(H)
  <2> HIDE DEF Rec, Q
  <2> QED BY <1>6, Zenon
<1>8. IsRounds(H, G, N)
  <2> HIDE DEF H
  <2>1. H[0] = G
    BY <1>7, NAssumption
  <2>2. ASSUME NEW k \in 1 .. N PROVE H[k] = Round(H[k - 1], k - 1)
    <3>1. k \in 0 .. N /\ k # 0
      BY NAssumption
    <3> QED BY <1>7, <3>1 DEF Round
  <2> QED BY <2>1, <2>2 DEF IsRounds
<1> QED BY <1>1, <1>8

\* A relation that has i and j whenever it has a way from i to j through v.
ClosedVia(X, v) == \A i, j \in Nodes : <<i, v>> \in X /\ <<v, j>> \in X => <<i, j>> \in X

\* A round closes the relation under ways through its node, and keeps it
\* closed under ways through the nodes of the rounds before.
LEMMA RoundCloses ==
  ASSUME NEW X, NEW v \in Nodes, NEW u \in Nodes, ClosedVia(X, u) \/ u = v
  PROVE  ClosedVia(Round(X, v), u)
<1> SUFFICES ASSUME NEW i \in Nodes, NEW j \in Nodes,
                    <<i, u>> \in Round(X, v), <<u, j>> \in Round(X, v)
             PROVE  <<i, j>> \in Round(X, v)
  BY DEF ClosedVia
<1>1. \A a, b \in Nodes : <<a, b>> \in Round(X, v) <=>
         <<a, b>> \in X \/ (<<a, v>> \in X /\ <<v, b>> \in X)
  BY DEF Round
<1>2. CASE u = v
  BY <1>1, <1>2
<1>3. CASE ClosedVia(X, u)
  <2>1. \A a, b \in Nodes : <<a, u>> \in X /\ <<u, b>> \in X => <<a, b>> \in X
    BY <1>3 DEF ClosedVia
  <2> QED BY <1>1, <2>1
<1> QED BY <1>2, <1>3

\* The rounds make a relation on the nodes that contains the graph, is closed
\* under ways through any node, and joins only what a walk joins.
LEMMA RoundsAreClosure ==
  ASSUME NEW G, G \subseteq Nodes \X Nodes, NEW R, IsRounds(R, G, N)
  PROVE  /\ G \subseteq R[N] /\ \A v \in Nodes : ClosedVia(R[N], v)
         /\ \A e \in R[N] : \E l \in Nat \ {0} : e \in Walks(G, l)
<1> DEFINE Joined(X) == \A e \in X : \E l \in Nat \ {0} : e \in Walks(G, l)
           Good(k)   == /\ G \subseteq R[k] /\ R[k] \subseteq Nodes \X Nodes
                        /\ \A v \in 0 .. k - 1 : ClosedVia(R[k], v)
                        /\ Joined(R[k])
           X         == {k \in Nat : k <= N => Good(k)}
<1>1. 0 \in X
  <2>1. R[0] = G
    BY DEF IsRounds
  <2>2. Joined(G)
    <3>1. \A e \in G : e \in Walks(G, 1) /\ 1 \in Nat \ {0}
      BY WalksOne
    <3> QED BY <3>1
  <2> HIDE DEF Joined
  <2> QED BY <2>1, <2>2
<1>2. ASSUME NEW k \in Nat, k \in X PROVE k + 1 \in X
  <2> SUFFICES ASSUME k + 1 <= N PROVE Good(k + 1)
    OBVIOUS
  <2>0. k <= N /\ k \in Nodes /\ k + 1 \in 1 .. N /\ (k + 1) - 1 = k
    BY NAssumption DEF Nodes
  <2>1. Good(k)
    BY <1>2, <2>0
  <2>2. R[k + 1] = Round(R[k], k)
    BY <2>0 DEF IsRounds
  <2>3. ASSUME NEW v \in 0 .. k PROVE ClosedVia(R[k + 1], v)
    <3>1. v \in Nodes
      BY <2>0, NAssumption DEF Nodes
    <3>2. ClosedVia(R[k], v) \/ v = k
      BY <2>1
    <3> QED BY <2>0, <2>2, <3>1, <3>2, RoundCloses
  <2>4. G \subseteq R[k + 1] /\ R[k + 1] \subseteq Nodes \X Nodes
    BY <2>1, <2>2 DEF Round
  <2>5. Joined(R[k + 1])
    <3> SUFFICES ASSUME NEW e \in R[k + 1] PROVE \E l \in Nat \ {0} : e \in Walks(G, l)
      OBVIOUS
    <3>1. CASE e \in R[k]
      BY <2>1, <3>1
    <3>2. CASE e \notin R[k]
      <4>1. e \in Nodes \X Nodes /\ <<e[1], k>> \in R[k] /\ <<k, e[2]>> \in R[k]
        BY <2>2, <3>2 DEF Round
      <4>2. PICK i \in Nodes, j \in Nodes : e = <<i, j>> /\ <<i, k>> \in R[k] /\ <<k, j>> \in R[k]
        BY <4>1
      <4>3. PICK l \in Nat \ {0} : <<i, k>> \in Walks(G, l)
        BY <2>1, <4>2
      <4>4. PICK m \in Nat \ {0} : <<k, j>> \in Walks(G, m)
        BY <2>1, <4>2
      <4>5. <<i, j>> \in MatMul(Walks(G, l), Walks(G, m))
        BY <2>0, <4>3, <4>4, InMatMul
      <4>6. <<i, j>> \in Walks(G, l + m) /\ l + m \in Nat \ {0}
        <5>1. MatMul(Walks(G, l), Walks(G, m)) = Walks(G, l + m)
          BY WalksCompose
        <5> QED BY <4>5, <5>1
      <4> QED BY <4>2, <4>6
    <3> QED BY <3>1, <3>2
  <2> HIDE DEF Joined
  <2> QED BY <2>0, <2>3, <2>4, <2>5
<1>3. \A k \in Nat : k \in X
  <2> HIDE DEF X
  <2> QED BY <1>1, <1>2, NatInSet
<1>4. Good(N)
  BY <1>3, NAssumption
<1> QED BY <1>4 DEF Nodes

\* floyd_warshall joins what a walk of 1 to N edges joins.
THEOREM WarshallIsReach ==
  ASSUME NEW G, G \subseteq Nodes \X Nodes
  PROVE  FloydWarshall(G) = Reach(G, N)
<1>1. PICK R : IsRounds(R, G, N) /\ FloydWarshall(G) = R[N]
  BY Rounds
<1> DEFINE F == R[N]
<1>2. /\ G \subseteq F /\ \A v \in Nodes : ClosedVia(F, v)
      /\ \A e \in F : \E l \in Nat \ {0} : e \in Walks(G, l)
  BY <1>1, RoundsAreClosure
<1> HIDE DEF F
<1>3. F \subseteq Reach(G, N)
  BY <1>2, ShortWalks
<1> DEFINE X == {k \in Nat : k >= 1 => Walks(G, k) \subseteq F}
<1>4. 0 \in X
  OBVIOUS
<1>5. ASSUME NEW k \in Nat, k \in X PROVE k + 1 \in X
  <2>1. CASE k = 0
    <3>1. Walks(G, 1) = G
      BY WalksOne
    <3> QED BY <1>2, <2>1, <3>1
  <2>2. CASE k # 0
    <3>1. Walks(G, k) \subseteq F /\ Walks(G, 1) \subseteq F
      BY <1>2, <1>5, <2>2, WalksOne
    <3>2. Walks(G, k + 1) = MatMul(Walks(G, k), Walks(G, 1))
      BY WalksCompose
    <3>3. ASSUME NEW i \in Nodes, NEW j \in Nodes, <<i, j>> \in Walks(G, k + 1)
          PROVE  <<i, j>> \in F
      <4>1. PICK v \in Nodes : <<i, v>> \in Walks(G, k) /\ <<v, j>> \in Walks(G, 1)
        BY <3>2, <3>3, InMatMul
      <4> QED BY <1>2, <3>1, <4>1 DEF ClosedVia
    <3>4. Walks(G, k + 1) \subseteq Nodes \X Nodes
      BY DEF Walks
    <3>5. Walks(G, k + 1) \subseteq F
      BY <3>3, <3>4, PairSubset
    <3> QED BY <3>5
  <2> QED BY <2>1, <2>2
<1>6. \A k \in Nat : k \in X
  <2> HIDE DEF X
  <2> QED BY <1>4, <1>5, NatInSet
<1>7. Reach(G, N) \subseteq F
  <2> SUFFICES ASSUME NEW e \in Reach(G, N) PROVE e \in F
    OBVIOUS
  <2>1. PICK k \in 1 .. N : e \in Walks(G, k)
    BY DEF Reach
  <2> QED BY <1>6, <2>1, NAssumption
<1> QED BY <1>1, <1>3, <1>7 DEF F

\* bounded_transitive_closure is floyd_warshall from T = N on, and from
\* T = N - 1 on if the graph has no cycle.
THEOREM BoundedClosureIsWarshall == Spec => []ClosureIsWarshall
<1>1. IInv => ClosureIsWarshall
  <2> SUFFICES ASSUME IInv, Result, T >= N \/ (T = N - 1 /\ Acyclic(A))
               PROVE  S = FloydWarshall(A)
    BY DEF ClosureIsWarshall
  <2>1. S = Reach(A, T) /\ A \subseteq Nodes \X Nodes /\ T \in Nat
    BY MaxTAssumption DEF IInv, TypeOK, FramesInv, PowersCorrect, Result
  <2>2. FloydWarshall(A) = Reach(A, N)
    BY <2>1, WarshallIsReach
  <2>3. CASE T >= N
    <3>1. Reach(A, N) \subseteq Reach(A, T)
      <4>1. \A k \in 1 .. N : k \in 1 .. T
        BY <2>1, <2>3, NAssumption
      <4> QED BY <4>1 DEF Reach
    <3>2. ASSUME NEW e \in Reach(A, T) PROVE e \in Reach(A, N)
      <4>1. PICK k \in 1 .. T : e \in Walks(A, k)
        BY DEF Reach
      <4>2. k \in Nat \ {0}
        BY <2>1
      <4> QED BY <4>1, <4>2, ShortWalks
    <3> QED BY <2>1, <2>2, <3>1, <3>2
  <2>4. CASE T = N - 1 /\ Acyclic(A)
    <3>1. Reach(A, N) \subseteq Reach(A, N - 1)
      BY <2>4, AcyclicWalks
    <3>2. Reach(A, N - 1) \subseteq Reach(A, N)
      <4>1. \A k \in 1 .. N - 1 : k \in 1 .. N
        BY NAssumption
      <4> QED BY <4>1 DEF Reach
    <3> QED BY <2>1, <2>2, <2>4, <3>1, <3>2
  <2> QED BY <2>3, <2>4
<1> QED BY <1>1, Invariance, PTL
==============================================================================
