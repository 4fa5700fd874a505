------------------------------ MODULE SumPowers ------------------------------
(***************************************************************************)
(* sum_powers_recursive and bounded_transitive_closure of algorithms.hpp   *)
(* (and DistributedSumPowersRecursive, the same recurrence with the two    *)
(* multiplications of an even step issued as one matmul_pair).             *)
(*                                                                         *)
(* A Boolean matrix over N nodes is the set of its 1-entries, a relation   *)
(* on Nodes.  The C++ call stack is `frames`: the argument T of every      *)
(* invocation that waits for its callee, innermost first.                  *)
(***************************************************************************)
EXTENDS Integers, Sequences

CONSTANTS N,     \* dimension of the matrix
          MaxT   \* bound: the largest walk length T asked for

ASSUME NAssumption    == N \in Nat
ASSUME MaxTAssumption == MaxT \in Nat

Nodes == 0 .. N - 1

VARIABLES
  A,       \* the adjacency matrix, never written
  T,       \* the argument of the outermost call, never written
  frames,  \* the invocations that wait for their callee's result
  arg,     \* the argument of the innermost invocation
  phase,   \* "call": entering it; "return": back from it; "failed": it threw
  S, P     \* the pair it returned

vars == <<A, T, frames, arg, phase, S, P>>

\* matmul: C[i][j] = OR_k (X[i][k] AND Y[k][j])
MatMul(X, Y) ==
  {e \in Nodes \X Nodes : \E k \in Nodes : <<e[1], k>> \in X /\ <<k, e[2]>> \in Y}

OrMat(X, Y) == X \cup Y

\* The argument of the recursive call an invocation makes.
Callee(t) == IF t % 2 = 0 THEN t \div 2 ELSE t - 1

------------------------------------------------------------------------------

Init == /\ A \in SUBSET (Nodes \X Nodes)
        /\ T \in 0 .. MaxT
        /\ frames = << >>
        /\ arg = T
        /\ phase = "call"
        /\ S = {} /\ P = {}

\* T < 1 throws std::invalid_argument.
Reject == /\ phase = "call"
          /\ arg < 1
          /\ phase' = "failed"
          /\ UNCHANGED <<A, T, frames, arg, S, P>>

Base == /\ phase = "call"
        /\ arg = 1
        /\ S' = A /\ P' = A
        /\ phase' = "return"
        /\ UNCHANGED <<A, T, frames, arg>>

\* Faulty variant: an odd T > 1 is halved as well.
Recurse_Halves == /\ phase = "call"
                  /\ arg > 1
                  /\ frames' = <<arg>> \o frames
                  /\ arg' = arg \div 2
                  /\ UNCHANGED <<A, T, phase, S, P>>

\* Faulty variant: T = 1 is not a base case.
Recurse_PastBase == /\ phase = "call"
                    /\ arg >= 1
                    /\ frames' = <<arg>> \o frames
                    /\ arg' = Callee(arg)
                    /\ UNCHANGED <<A, T, phase, S, P>>

Recurse == /\ phase = "call"
           /\ arg > 1
           /\ frames' = <<arg>> \o frames
           /\ arg' = Callee(arg)
           /\ UNCHANGED <<A, T, phase, S, P>>

Pop == /\ phase = "return"
       /\ frames # << >>
       /\ arg' = Head(frames)
       /\ frames' = Tail(frames)
       /\ UNCHANGED <<A, T, phase>>

\* Faulty variant: P is squared before S uses it.
EvenStep_SquareFirst == /\ Pop
                        /\ Head(frames) % 2 = 0
                        /\ P' = MatMul(P, P)
                        /\ S' = OrMat(S, MatMul(P', S))

\* Faulty variant: the second half is not ORed with the first.
EvenStep_DropsFirstHalf == /\ Pop
                           /\ Head(frames) % 2 = 0
                           /\ S' = MatMul(P, S)
                           /\ P' = MatMul(P, P)

\* T = 2h: S(2h) = S(h) | P(h)S(h), then P(2h) = P(h)P(h).
EvenStep == /\ Pop
            /\ Head(frames) % 2 = 0
            /\ S' = OrMat(S, MatMul(P, S))
            /\ P' = MatMul(P, P)

\* Odd T: P(T) = P(T-1)A, then S(T) = S(T-1) | P(T).
OddStep == /\ Pop
           /\ Head(frames) % 2 = 1
           /\ P' = MatMul(P, A)
           /\ S' = OrMat(S, P')

\* The outermost call has returned or thrown: the computation is over.
Finished == /\ phase = "failed" \/ (phase = "return" /\ frames = << >>)
            /\ UNCHANGED vars

Next == Reject \/ Base \/ Recurse \/ EvenStep \/ OddStep \/ Finished

Spec == Init /\ [][Next]_vars

------------------------------------------------------------------------------
\* Reference: walks of the graph G, as sequences of nodes.

IsWalk(G, f, k) == \A m \in 0 .. k - 1 : <<f[m], f[m + 1]>> \in G

\* The pairs joined by a walk of exactly k edges.
Walks(G, k) ==
  {e \in Nodes \X Nodes :
     \E f \in [0 .. k -> Nodes] : f[0] = e[1] /\ f[k] = e[2] /\ IsWalk(G, f, k)}

\* The pairs joined by a walk of 1 to t edges.
Reach(G, t) == {e \in Nodes \X Nodes : \E k \in 1 .. t : e \in Walks(G, k)}

\* floyd_warshall: round k lets the walks pass through node k.
FloydWarshall(G) ==
  LET R[k \in 0 .. N] ==
        IF k = 0 THEN G
        ELSE R[k - 1] \cup {e \in Nodes \X Nodes :
                              <<e[1], k - 1>> \in R[k - 1] /\ <<k - 1, e[2]>> \in R[k - 1]}
  IN R[N]

Acyclic(G) == \A i \in Nodes : <<i, i>> \notin Reach(G, N)

\* The variables have their types.
TypeOK == /\ A \subseteq Nodes \X Nodes
          /\ T \in 0 .. MaxT
          /\ frames \in Seq(2 .. MaxT)
          /\ arg \in 0 .. MaxT
          /\ phase \in {"call", "return", "failed"}
          /\ S \subseteq Nodes \X Nodes /\ P \subseteq Nodes \X Nodes

\* At every level of the recursion, sum_powers_recursive(A, arg) returns the
\* pairs joined by a walk of 1..arg edges and those joined by one of exactly arg.
PowersCorrect ==
  phase = "return" => S = Reach(A, arg) /\ P = Walks(A, arg)

\* The outermost call has returned.
Result == phase = "return" /\ frames = << >>

\* bounded_transitive_closure(A, T) is the OR of A^1 .. A^T, for the T it was
\* asked for; it throws only when T < 1.
BoundedClosure ==
  /\ Result => S = Reach(A, T)
  /\ phase = "failed" => T < 1

\* "BTC(A, N) == floyd_warshall(A) for every directed graph; for acyclic
\* graphs, T = N-1 already suffices" (algorithms.hpp:63-66).
ClosureIsWarshall ==
  Result /\ (T >= N \/ (T = N - 1 /\ Acyclic(A))) => S = FloydWarshall(A)

------------------------------------------------------------------------------
\* The chain of waiting invocations: each one is the callee of the one that
\* waits for it, and the outermost was called with T.
FramesInv ==
  /\ \A i \in 1 .. Len(frames) :
       /\ frames[i] > 1
       /\ Callee(frames[i]) = IF i = 1 THEN arg ELSE frames[i - 1]
  /\ T = IF frames = << >> THEN arg ELSE frames[Len(frames)]

\* The inductive invariant: PowersCorrect is about the innermost invocation,
\* and only FramesInv says whose result that is.
IInv == /\ TypeOK
        /\ FramesInv
        /\ PowersCorrect
        /\ phase = "return" => arg >= 1
        /\ phase = "failed" => T < 1
==============================================================================
