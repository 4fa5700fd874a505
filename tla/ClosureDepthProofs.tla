------------------------- MODULE ClosureDepthProofs -------------------------
(***************************************************************************)
(* Proofs about the depth of the closure and about the profile database it *)
(* takes its parameters from: for every dimension, walk length and key,    *)
(* every request, list of nodes, number of runs and sequence of OpenFHE    *)
(* versions.                                                               *)
(*                                                                         *)
(* SavedIsServed speaks of whole files only, so it is not inductive: IInv  *)
(* adds that a file which is no longer whole keeps nothing, that every     *)
(* profile has passed its checks, and that the memory of a running         *)
(* generator holds all it will replace.                                    *)
(*                                                                         *)
(* BudgetSuffices and NoiseFits compare with the budget of the whole       *)
(* computation.  ClosureInv adds how much of it an invocation may have     *)
(* spent when it returns: one charge for each level of recursion below it. *)
(* That needs the values of the recursive functions of the model, which    *)
(* are found by induction: a least counterexample, LeastNat, is refuted.   *)
(***************************************************************************)
EXTENDS ClosureDepth, TLAPS, WellFoundedInduction

\* The depth that the generator budgets for a node count, and what serves it.
DepthFor(k)  == Estimate("batched", k, k)
Suits(p, k)  == p.validated /\ p.depth_capacity >= DepthFor(k) /\ p.ring_dimension >= k * k
Serves(S, K) == \A k \in K : \E p \in S : Suits(p, k)

\* What a profile has passed before it gets into the database.
Sound(S) == \A p \in S : /\ p \in Profiles
                         /\ NTTCompatible(p)
                         /\ p.plaintext_modulus > 2
                         /\ p.depth_capacity >= 1

FileInv   == /\ Sound(file.profiles)
             /\ file.state # "whole" => file.profiles = {}
             /\ file.state = "whole" => Serves(file.profiles, Kept)
             /\ file.state # "whole" /\ step # "write" => Kept = {}

MemoryInv == /\ Sound(db)
             /\ step = "idle" => passed = {}
             /\ Serves(db, passed)
             /\ step \in {"next", "power", "search"} => file.profiles \subseteq db
             /\ step = "write" => Serves(db, Kept)

SearchInv == step \in {"power", "search"} => nodes # << >> /\ required = DepthFor(Head(nodes))

IInv == ProfilesTypeOK /\ FileInv /\ MemoryInv /\ SearchInv

------------------------------------------------------------------------------

\* An N whose square fits a size_t fits an int, or turns negative.
LEMMA NarrowedIsSame ==
  ASSUME NEW k \in Nat \ {0}, k <= (Word - 1) \div k, AsInt(k) >= 1
  PROVE  AsInt(k) = k
<1> DEFINE V == IntValues
           q == (V * V - 1) \div k
<1>1. V \in Nat \ {0} /\ V % 2 = 0
  BY IntAssumption
<1>2. V * V - 1 \in Nat
  BY <1>1
<1>3. q \in Nat /\ q * k <= V * V - 1
  <2> DEFINE X == V * V - 1
  <2>1. X \in Nat
    BY <1>2
  <2> HIDE DEF X
  <2>2. X \div k \in Nat /\ (X \div k) * k <= X
    BY <2>1
  <2> QED BY <2>2 DEF X
<1>4. k <= q
  BY DEF Word
<1> HIDE DEF q
<1>5. k * k <= q * k
  BY <1>3, <1>4
<1>6. k < V
  <2> SUFFICES ASSUME k >= V PROVE FALSE
    BY <1>1
  <2>1. k * k >= V * V
    BY <1>1
  <2> QED BY <2>1, <1>1, <1>3, <1>5
<1>7. k % V = k
  BY <1>1, <1>6
<1> QED BY <1>1, <1>6, <1>7 DEF AsInt

\* The two integers that NarrowedIsSame compares are integers.
LEMMA NarrowedTypes ==
  ASSUME NEW k \in Nat \ {0}
  PROVE  (Word - 1) \div k \in Int /\ AsInt(k) \in Int
<1>1. IntValues \in Nat \ {0} /\ Word - 1 \in Int
  BY IntAssumption DEF Word
<1>2. (Word - 1) \div k \in Int
  BY <1>1
<1>3. k % IntValues \in Int
  BY <1>1
<1> QED BY <1>1, <1>2, <1>3 DEF AsInt

\* The least element of a nonempty set of natural numbers.
LEMMA LeastNat ==
  ASSUME NEW X, X \subseteq Nat, X # {}
  PROVE  \E x \in X : \A y \in X : ~(y < x)
<1>1. \E x \in X : \A y \in X : <<y, x>> \notin OpToRel(<, Nat)
  BY NatLessThanWellFounded, WFMin, Zenon
<1> QED BY <1>1 DEF OpToRel

\* Among candidates there is one that no other precedes.
LEMMA LeastProfile ==
  ASSUME NEW C, C \subseteq Profiles, C # {}
  PROVE  \E p \in C : \A q \in C : ~ProfileLessThan(q, p)
<1> DEFINE Rs == {p.ring_dimension : p \in C}
<1>0. \A p \in C : /\ p.ring_dimension \in Nat
                   /\ p.depth_capacity \in Nat
                   /\ p.plaintext_modulus \in Nat
  BY DEF Profiles, UInt32, Word
<1>1. PICK r \in Rs : \A x \in Rs : ~(x < r)
  <2> Rs \subseteq Nat /\ Rs # {}
    BY <1>0
  <2> HIDE DEF Rs
  <2> QED BY LeastNat
<1> DEFINE C1 == {p \in C : p.ring_dimension = r}
           Ds == {p.depth_capacity : p \in C1}
<1>2. PICK d \in Ds : \A x \in Ds : ~(x < d)
  <2> Ds \subseteq Nat /\ Ds # {}
    BY <1>0, <1>1
  <2> HIDE DEF Ds
  <2> QED BY LeastNat
<1> DEFINE C2 == {p \in C1 : p.depth_capacity = d}
           Ms == {p.plaintext_modulus : p \in C2}
<1>3. PICK t \in Ms : \A x \in Ms : ~(x < t)
  <2> Ms \subseteq Nat /\ Ms # {}
    BY <1>0, <1>2
  <2> HIDE DEF Ms
  <2> QED BY LeastNat
<1>4. PICK p \in C2 : p.plaintext_modulus = t
  BY <1>3
<1>5. ASSUME NEW q \in C PROVE ~ProfileLessThan(q, p)
  <2>1. ~(q.ring_dimension < r) /\ p.ring_dimension = r
    BY <1>1, <1>4
  <2>2. q.ring_dimension = r => ~(q.depth_capacity < d) /\ p.depth_capacity = d
    BY <1>2, <1>4
  <2>3. q.ring_dimension = r /\ q.depth_capacity = d => ~(q.plaintext_modulus < t)
    BY <1>3
  <2> QED BY <2>1, <2>2, <2>3, <1>4 DEF ProfileLessThan
<1> QED BY <1>4, <1>5

\* Serving is monotone in the database.
LEMMA ServesMore ==
  ASSUME NEW S, NEW X, NEW K, S \subseteq X, Serves(S, K)
  PROVE  Serves(X, K)
BY DEF Serves

------------------------------------------------------------------------------

\* A whole and sound file serves what is kept, if OpenFHE accepts the profile
\* that is selected.
LEMMA IInvServes == IInv => SavedIsServed
<1> SUFFICES ASSUME IInv, file.state = "whole", NEW k \in Kept
             PROVE  /\ CandidatesFor(k) # {}
                    /\ (\A p \in SelectedFor(k) : SetupAccepts(p)) =>
                         setup_from_profile(DepthFor(k), k * k) # {}
  BY DEF SavedIsServed, DepthFor
<1> DEFINE S == file.profiles
           D == DepthFor(k)
           C == Candidates(S, D, k * k)
<1>1. Sound(S) /\ Serves(S, Kept)
  BY DEF IInv, FileInv
<1>2. C \subseteq Profiles /\ C # {} /\ CandidatesFor(k) = C
  BY <1>1 DEF Sound, Serves, Suits, Candidates, CandidatesFor, DepthFor
<1>3. PICK p \in C : \A q \in C : ~ProfileLessThan(q, p)
  <2> HIDE DEF C
  <2> QED BY <1>2, LeastProfile
<1>4. p \in SelectProfile(S, D, k * k) /\ SelectedFor(k) = SelectProfile(S, D, k * k)
  BY <1>3 DEF SelectProfile, SelectedFor, DepthFor
<1>5. /\ p \in S /\ p.validated
      /\ p.depth_capacity >= D
      /\ p.ring_dimension >= k * k
  BY <1>3 DEF Candidates
<1>6. NTTCompatible(p)
  BY <1>1, <1>5 DEF Sound
<1> HIDE DEF D
<1>7. SetupAccepts(p) => p \in setup_from_profile(D, k * k)
  BY <1>4, <1>5, <1>6 DEF setup_from_profile
<1> QED BY <1>2, <1>4, <1>7 DEF D

\* The invariant holds before any closure or setup.
LEMMA InitIInv == Init => IInv
<1> SUFFICES ASSUME ProfilesInit PROVE IInv
  BY DEF Init
<1> USE DEF ProfilesInit
<1>1. ProfilesTypeOK
  <2>1. /\ file \in [state : {"missing", "torn", "whole"}, profiles : SUBSET Profiles]
        /\ file.state # "whole" => file.profiles = {}
    BY CheckedInAssumption DEF Missing, Whole
  <2>2. saved \subseteq Nat \ {0} /\ lost \subseteq saved
    BY CheckedInAssumption
  <2>3. 0 \in UInt32
    BY IntAssumption DEF UInt32
  <2> QED BY <2>1, <2>2, <2>3, BoundsAssumption DEF ProfilesTypeOK
<1>2. FileInv
  <2>1. CASE file = Missing /\ saved = {}
    BY <2>1 DEF FileInv, Missing, Sound, Serves, Kept
  <2>2. CASE file = Whole(CheckedIn) /\ saved = CheckedInNodes
    <3>1. file.state = "whole" /\ file.profiles = CheckedIn
      BY <2>2 DEF Whole
    <3>2. Sound(CheckedIn) /\ Serves(CheckedIn, CheckedInNodes)
      BY CheckedInAssumption DEF Sound, Serves, Suits, DepthFor
    <3>3. Kept = CheckedInNodes
      BY <2>2 DEF Kept
    <3> QED BY <3>1, <3>2, <3>3 DEF FileInv
  <2> QED BY <2>1, <2>2
<1>3. MemoryInv /\ SearchInv
  BY DEF MemoryInv, SearchInv, Sound, Serves
<1> QED BY <1>1, <1>2, <1>3 DEF IInv

\* The steps of the generator and of its surroundings, one by one.
LEMMA ProfilesStep == IInv /\ ProfilesNext => IInv'
<1> SUFFICES ASSUME IInv, ProfilesNext PROVE IInv'
  OBVIOUS
<1> USE DEF IInv, generatorVars
<1>0. ProfilesTypeOK /\ FileInv /\ MemoryInv /\ SearchInv
  OBVIOUS
<1>k. UNCHANGED <<saved, lost>> => Kept' = Kept
  BY DEF Kept
<1>1. CASE StartGenerator
  <2> USE <1>1 DEF StartGenerator
  <2>0. nodes' \in Seq(Nat \ {0}) /\ minimum' \in Minimums \cup {0}
    BY NodeListsAssumption
  <2>a. runs' \in 0 .. MaxRuns /\ db' \subseteq Profiles
    BY <1>0, BoundsAssumption DEF ProfilesTypeOK
  <2>1. ProfilesTypeOK'
    BY <1>0, <2>0, <2>a DEF ProfilesTypeOK
  <2>2. FileInv'
    BY <1>k, <1>0 DEF FileInv, Sound, Serves, Suits
  <2>3. MemoryInv'
    BY <1>k, <1>0 DEF MemoryInv, FileInv, Sound, Serves
  <2>4. SearchInv'
    BY DEF SearchInv
  <2> QED BY <2>1, <2>2, <2>3, <2>4
<1>2. CASE ComputeRequirement
  <2> DEFINE k == Head(nodes)
             refused == k > (Word - 1) \div k \/ AsInt(k) < 1
  <2>0. k \in Nat \ {0} /\ Tail(nodes) \in Seq(Nat \ {0}) /\ nodes # << >> /\ step = "next"
    BY <1>0, <1>2 DEF ProfilesTypeOK, ComputeRequirement
  <2>1. UNCHANGED <<version, file, saved, lost, runs, minimum, db, passed>>
    BY <1>2 DEF ComputeRequirement
  <2>2. \/ nodes' = Tail(nodes) /\ UNCHANGED <<step, required, ring>>
        \/ /\ ~refused
           /\ required' \in UInt32 /\ required' = Estimate("batched", k, AsInt(k))
           /\ ring' = 1 /\ step' = "power" /\ nodes' = nodes
    BY <1>2, Zenon DEF ComputeRequirement
  <2>3. ~refused => AsInt(k) = k
    <3> HIDE DEF k
    <3>1. (Word - 1) \div k \in Int /\ AsInt(k) \in Int
      BY <2>0, NarrowedTypes
    <3>2. ASSUME ~refused PROVE k <= (Word - 1) \div k /\ AsInt(k) >= 1
      BY <2>0, <3>1, <3>2
    <3> QED BY <2>0, <3>2, NarrowedIsSame
  <2> HIDE DEF k, refused
  <2>4. FileInv' /\ MemoryInv'
    <3>1. step' \in {"next", "power"}
      BY <2>0, <2>2
    <3> QED BY <1>k, <1>0, <2>0, <2>1, <3>1 DEF FileInv, MemoryInv, Sound, Serves, Suits
  <2>5. CASE nodes' = Tail(nodes) /\ UNCHANGED <<step, required, ring>>
    BY <1>0, <2>0, <2>1, <2>4, <2>5 DEF ProfilesTypeOK, SearchInv
  <2>6. CASE /\ ~refused
             /\ required' \in UInt32 /\ required' = Estimate("batched", k, AsInt(k))
             /\ ring' = 1 /\ step' = "power" /\ nodes' = nodes
    <3>1. ProfilesTypeOK'
      BY <1>0, <2>0, <2>1, <2>6 DEF ProfilesTypeOK
    <3>2. SearchInv'
      BY <2>0, <2>3, <2>6 DEF SearchInv, DepthFor, k
    <3> QED BY <3>1, <3>2, <2>4
  <2> QED BY <2>2, <2>5, <2>6
<1>3. CASE NextPowerOfTwo
  <2> USE <1>3 DEF NextPowerOfTwo
  <2>1. ProfilesTypeOK'
    <3>1. ring' \in Nat
      <4>1. Word \in Nat \ {0}
        BY IntAssumption DEF Word
      <4>2. ring \in Nat
        BY <1>0 DEF ProfilesTypeOK
      <4>3. (2 * ring) % Word \in Nat
        BY <4>1, <4>2
      <4> QED BY <4>2, <4>3
    <3> QED BY <1>0, <3>1 DEF ProfilesTypeOK
  <2>2. FileInv'
    BY <1>k, <1>0 DEF FileInv, Sound, Serves, Suits
  <2>3. MemoryInv'
    BY <1>k, <1>0 DEF MemoryInv, Sound, Serves, Suits
  <2>4. SearchInv'
    BY <1>0 DEF SearchInv
  <2> QED BY <2>1, <2>2, <2>3, <2>4
<1>4. CASE DoubleRing
  <2> USE <1>4 DEF DoubleRing
  <2>1. ProfilesTypeOK'
    BY <1>0 DEF ProfilesTypeOK
  <2>2. FileInv'
    BY <1>k, <1>0 DEF FileInv, Sound, Serves, Suits
  <2>3. MemoryInv'
    BY <1>k, <1>0 DEF MemoryInv, Sound, Serves, Suits
  <2>4. SearchInv'
    BY <1>0 DEF SearchInv
  <2> QED BY <2>1, <2>2, <2>3, <2>4
<1>5. CASE KeepProfile
  <2> USE <1>5 DEF KeepProfile
  <2> DEFINE k == Head(nodes)
  <2>0. k \in Nat \ {0} /\ nodes' \in Seq(Nat \ {0})
    BY <1>0 DEF ProfilesTypeOK, SearchInv
  <2>1. ProfilesTypeOK'
    BY <1>0, <2>0 DEF ProfilesTypeOK
  <2>2. FileInv'
    BY <1>k, <1>0 DEF FileInv, Sound, Serves, Suits
  <2>3. Sound({Candidate}) /\ Suits(Candidate, k)
    <3>1. Sound({Candidate})
      BY DEF Sound, SetupAccepts
    <3>2. Candidate.validated /\ Candidate.depth_capacity = required /\ Candidate.ring_dimension = ring
      BY DEF Candidate
    <3>3. required = DepthFor(k) /\ required \in Nat
      BY <1>0 DEF SearchInv, ProfilesTypeOK, UInt32
    <3> QED BY <3>1, <3>2, <3>3 DEF Suits, Slots
  <2>4. Sound(db') /\ Serves(db', passed')
    BY <1>0, <2>3 DEF MemoryInv, Sound, Serves
  <2>5. MemoryInv'
    BY <1>k, <1>0, <2>4 DEF MemoryInv, Sound, Serves, Suits
  <2>6. SearchInv'
    BY DEF SearchInv
  <2> QED BY <2>1, <2>2, <2>5, <2>6
<1>6. CASE GiveUp
  <2> USE <1>6 DEF GiveUp
  <2>1. ProfilesTypeOK'
    BY <1>0 DEF ProfilesTypeOK, SearchInv
  <2>2. FileInv'
    BY <1>k, <1>0 DEF FileInv, Sound, Serves, Suits
  <2>3. MemoryInv'
    BY <1>k, <1>0 DEF MemoryInv, Sound, Serves, Suits
  <2>4. SearchInv'
    BY DEF SearchInv
  <2> QED BY <2>1, <2>2, <2>3, <2>4
<1>7. CASE OpenDatabase
  <2> USE <1>7 DEF OpenDatabase
  <2>1. ProfilesTypeOK'
    BY <1>0 DEF ProfilesTypeOK, Torn
  <2>2. FileInv'
    BY DEF FileInv, Torn, Sound
  <2>3. Serves(db, Kept)
    <3>1. CASE file.state = "whole"
      BY <1>0, <3>1, ServesMore DEF FileInv, MemoryInv
    <3>2. CASE file.state # "whole"
      BY <1>0, <3>2 DEF FileInv, Serves
    <3> QED BY <3>1, <3>2
  <2>4. MemoryInv'
    BY <1>k, <1>0, <2>3 DEF MemoryInv, Sound, Serves, Suits
  <2>5. SearchInv'
    BY DEF SearchInv
  <2> QED BY <2>1, <2>2, <2>4, <2>5
<1>8. CASE CannotOpenDatabase
  <2> USE <1>8 DEF CannotOpenDatabase, Exit
  <2>1. ProfilesTypeOK'
    BY <1>0, IntAssumption DEF ProfilesTypeOK, UInt32
  <2>2. FileInv'
    BY <1>k, <1>0 DEF FileInv, Sound, Serves, Suits
  <2>3. MemoryInv' /\ SearchInv'
    BY DEF MemoryInv, SearchInv, Sound, Serves
  <2> QED BY <2>1, <2>2, <2>3
<1>9. CASE SaveDatabase
  <2> USE <1>9 DEF SaveDatabase, Exit
  <2>0. file'.state = "whole" /\ file'.profiles = db
    BY DEF Whole
  <2>1. ProfilesTypeOK'
    BY <1>0, IntAssumption DEF ProfilesTypeOK, UInt32, Whole
  <2>2. Kept' \subseteq Kept \cup passed
    BY DEF Kept
  <2>5. Serves(db, Kept')
    BY <1>0, <2>2 DEF MemoryInv, Serves
  <2>3. FileInv'
    BY <1>0, <2>0, <2>5 DEF FileInv, MemoryInv, Sound, Serves, Suits
  <2>4. MemoryInv' /\ SearchInv'
    BY DEF MemoryInv, SearchInv, Sound, Serves
  <2> QED BY <2>1, <2>3, <2>4
<1>10. CASE WriteShort
  <2> USE <1>10 DEF WriteShort, Exit
  <2>0. Kept' = {}
    BY DEF Kept
  <2>1. ProfilesTypeOK'
    BY <1>0, IntAssumption DEF ProfilesTypeOK, UInt32
  <2>2. FileInv'
    BY <1>0, <2>0 DEF FileInv, Sound, Serves
  <2>3. MemoryInv' /\ SearchInv'
    BY DEF MemoryInv, SearchInv, Sound, Serves
  <2> QED BY <2>1, <2>2, <2>3
<1>11. CASE Die
  <2> USE <1>11 DEF Die, Exit
  <2>0. lost' \subseteq saved /\ Kept' = IF step = "write" THEN {} ELSE Kept
    BY <1>0 DEF ProfilesTypeOK, Kept
  <2>1. ProfilesTypeOK'
    BY <1>0, <2>0, IntAssumption DEF ProfilesTypeOK, UInt32
  <2>2. FileInv'
    BY <1>0, <2>0 DEF FileInv, Sound, Serves, Suits
  <2>3. MemoryInv' /\ SearchInv'
    BY DEF MemoryInv, SearchInv, Sound, Serves
  <2> QED BY <2>1, <2>2, <2>3
<1>12. CASE InstallOpenFHE
  <2> USE <1>12 DEF InstallOpenFHE
  <2>1. ProfilesTypeOK'
    BY <1>0, BoundsAssumption DEF ProfilesTypeOK
  <2>2. FileInv'
    BY <1>k, <1>0 DEF FileInv, Sound, Serves, Suits
  <2>3. MemoryInv' /\ SearchInv'
    BY <1>k, <1>0 DEF MemoryInv, SearchInv, Sound, Serves, Suits
  <2> QED BY <2>1, <2>2, <2>3
<1> QED
  BY <1>1, <1>2, <1>3, <1>4, <1>5, <1>6, <1>7, <1>8, <1>9, <1>10, <1>11, <1>12
     DEF ProfilesNext, GeneratorStep

\* Nothing else of ClosureDepth touches the database.
LEMMA NextIInv == IInv /\ [Next]_vars => IInv'
<1> SUFFICES ASSUME IInv, [Next]_vars PROVE IInv'
  OBVIOUS
<1>1. CASE ProfileStep(ProfilesNext)
  BY <1>1, ProfilesStep DEF ProfileStep
<1>2. CASE UNCHANGED profileVars
  BY <1>2 DEF profileVars, generatorVars, IInv, ProfilesTypeOK, FileInv, MemoryInv, SearchInv,
              Sound, Serves, Suits, Kept
<1>3. UNCHANGED profileVars \/ ProfileStep(ProfilesNext)
  <2> USE DEF vars, fixedVars
  <2> QED BY DEF Next, SetupFromEstimate, SetupFromProfile, Base, Recurse, EvenStep, OddStep, Pop, Finished
<1> QED BY <1>1, <1>2, <1>3

\* It holds throughout.
THEOREM DatabaseInvariant == Spec => []IInv
BY InitIInv, NextIInv, PTL DEF Spec

\* The variables of the database and of its generator have their types.
THEOREM DatabaseTypes == Spec => []ProfilesTypeOK
<1>1. IInv => ProfilesTypeOK
  BY DEF IInv
<1> QED BY DatabaseInvariant, <1>1, PTL

\* A node count that was generated, and that no cut write has taken away since,
\* has a candidate in every file that can be read, whatever runs, deaths and
\* upgrades came after; it is served if OpenFHE accepts the selected profile.
THEOREM SavedStaysServed == Spec => []SavedIsServed
BY DatabaseInvariant, IInvServes, PTL

------------------------------------------------------------------------------
\* Recursion and induction.

\* A linear recursion: x of B is a base case, next[x] the argument of the call
\* that x makes, comb[x] what x makes of its result, and m decreases.
Recurses(D, V, B, base, next, comb, m) ==
  /\ B \subseteq D /\ base \in [B -> V]
  /\ next \in [D \ B -> D] /\ comb \in [D \ B -> [V -> V]]
  /\ m \in [D -> Nat] /\ \A x \in D \ B : m[next[x]] < m[x]

\* The function it defines.
Defines(F, D, V, B, base, next, comb) ==
  /\ F \in [D -> V]
  /\ \A x \in B : F[x] = base[x]
  /\ \A x \in D \ B : F[x] = comb[x][F[next[x]]]
  /\ \A G : /\ \A x \in B : G[x] = base[x]
            /\ \A x \in D \ B : G[next[x]] \in V => G[x] = comb[x][G[next[x]]]
           => \A x \in D : G[x] = F[x]

\* Such a function exists, and whatever solves the recursion is that function.
LEMMA Recursion ==
  ASSUME NEW D, NEW V, NEW B, NEW base, NEW next, NEW comb, NEW m,
         Recurses(D, V, B, base, next, comb, m)
  PROVE  \E F : Defines(F, D, V, B, base, next, comb)
<1>a. /\ B \subseteq D /\ base \in [B -> V]
      /\ next \in [D \ B -> D] /\ comb \in [D \ B -> [V -> V]]
      /\ m \in [D -> Nat] /\ \A x \in D \ B : m[next[x]] < m[x]
  BY DEF Recurses
<1> DEFINE Below(k)   == {x \in D : m[x] < k}
           Rule(f, x) == f[x] = IF x \in B THEN base[x] ELSE comb[x][f[next[x]]]
           Solves(k, f) == f \in [Below(k) -> V] /\ \A x \in Below(k) : Rule(f, x)
<1> USE <1>a
<1>0. \A x \in D : m[x] \in Nat
  BY <1>a
<1>1. ASSUME NEW k \in Nat, NEW l \in Nat, NEW f, NEW g, Solves(k, f), Solves(l, g),
             NEW z \in Below(k), z \in Below(l)
      PROVE  f[z] = g[z]
  <2> DEFINE Y == {y \in Below(k) : y \in Below(l) /\ f[y] # g[y]}
             X == {m[x] : x \in Y}
  <2> SUFFICES ASSUME f[z] # g[z] PROVE FALSE
    OBVIOUS
  <2>1. X \subseteq Nat /\ X # {}
    <3>1. z \in Y /\ \A x \in Y : m[x] \in Nat
      BY <1>0, <1>1
    <3> HIDE DEF Y
    <3> QED BY <3>1
  <2>2. PICK v \in X : \A y \in X : ~(y < v)
    <3> HIDE DEF X
    <3> QED BY <2>1, LeastNat
  <2>3. PICK x \in Y : m[x] = v
    OBVIOUS
  <2>4. Rule(f, x) /\ Rule(g, x)
    BY <1>1, <2>3
  <2>5. x \in D \ B
    BY <2>3, <2>4
  <2>6. next[x] \in D /\ m[next[x]] < m[x] /\ m[next[x]] \in Nat /\ m[x] \in Nat
    BY <1>0, <2>5
  <2>7. next[x] \in Below(k) /\ next[x] \in Below(l)
    BY <2>3, <2>6
  <2>8. f[next[x]] = g[next[x]]
    BY <2>2, <2>3, <2>6, <2>7
  <2> QED BY <2>3, <2>4, <2>8
<1>2. ASSUME NEW k \in Nat PROVE \E f : Solves(k, f)
  <2> DEFINE X == {l \in Nat : ~\E f : Solves(l, f)}
  <2> SUFFICES ASSUME X # {} PROVE FALSE
    OBVIOUS
  <2>1. PICK l \in X : \A y \in X : ~(y < l)
    <3>1. X \subseteq Nat
      OBVIOUS
    <3> HIDE DEF X
    <3> QED BY <3>1, LeastNat
  <2>2. CASE l = 0
    <3>1. Below(l) = {}
      BY <1>0, <2>2
    <3> DEFINE f == [x \in Below(l) |-> base[x]]
    <3>2. Solves(l, f)
      BY <3>1
    <3> QED BY <2>1, <3>2
  <2>3. CASE l # 0
    <3>1. l - 1 \in Nat /\ l \in Nat /\ l - 1 < l
      BY <2>1, <2>3
    <3>2. PICK f : Solves(l - 1, f)
      BY <2>1, <3>1
    <3> DEFINE g == [x \in Below(l) |-> IF x \in B THEN base[x] ELSE comb[x][f[next[x]]]]
    <3>3. ASSUME NEW x \in Below(l) \ B PROVE next[x] \in Below(l - 1) /\ next[x] \in Below(l)
      <4>1. next[x] \in D /\ m[next[x]] < m[x] /\ m[next[x]] \in Nat /\ m[x] \in Nat /\ m[x] < l
        BY <1>0
      <4> QED BY <3>1, <4>1
    <3>4. ASSUME NEW x \in Below(l - 1) PROVE x \in Below(l) /\ g[x] = f[x]
      <4>1. x \in Below(l)
        BY <1>0, <3>1
      <4> QED BY <3>2, <4>1
    <3>5. ASSUME NEW x \in Below(l) PROVE Rule(g, x) /\ g[x] \in V
      <4>1. CASE x \in B
        BY <4>1
      <4>2. CASE x \notin B
        <5>1. g[x] = comb[x][f[next[x]]] /\ f[next[x]] = g[next[x]] /\ f[next[x]] \in V
          BY <3>2, <3>3, <3>4, <4>2
        <5>2. x \in D \ B
          BY <4>2
        <5> QED BY <4>2, <5>1, <5>2
      <4> QED BY <4>1, <4>2
    <3>6. Solves(l, g)
      BY <3>5
    <3> QED BY <2>1, <3>6
  <2> QED BY <2>2, <2>3
<1> DEFINE At(x) == CHOOSE f : Solves(m[x] + 1, f)
           F == [x \in D |-> At(x)[x]]
<1>3. ASSUME NEW x \in D PROVE Solves(m[x] + 1, At(x)) /\ x \in Below(m[x] + 1) /\ m[x] + 1 \in Nat
  <2>1. m[x] + 1 \in Nat /\ m[x] < m[x] + 1
    BY <1>0
  <2>2. \E f : Solves(m[x] + 1, f)
    BY <1>2, <2>1
  <2> HIDE DEF Solves
  <2> QED BY <2>1, <2>2
<1>4. ASSUME NEW x \in D PROVE F[x] \in V /\ Rule(F, x)
  <2>1. At(x)[x] \in V /\ Rule(At(x), x)
    BY <1>3
  <2>2. CASE x \in B
    BY <2>1, <2>2
  <2>3. CASE x \notin B
    <3>1. next[x] \in D /\ m[next[x]] < m[x] /\ m[next[x]] \in Nat /\ m[x] \in Nat
      BY <1>0, <2>3
    <3>2. next[x] \in Below(m[x] + 1) /\ next[x] \in Below(m[next[x]] + 1)
      BY <3>1
    <3>3. At(x)[next[x]] = At(next[x])[next[x]]
      <4>1. Solves(m[x] + 1, At(x)) /\ Solves(m[next[x]] + 1, At(next[x]))
            /\ m[x] + 1 \in Nat /\ m[next[x]] + 1 \in Nat
        BY <1>3, <3>1
      <4> HIDE DEF Solves, At, Below
      <4> QED BY <1>1, <3>2, <4>1
    <3>4. F[next[x]] = At(next[x])[next[x]] /\ F[x] = At(x)[x]
      BY <3>1
    <3> HIDE DEF At, F
    <3> QED BY <2>1, <2>3, <3>3, <3>4
  <2> QED BY <2>1, <2>2, <2>3
<1>5. F \in [D -> V]
  BY <1>4
<1>6. ASSUME NEW G, \A x \in B : G[x] = base[x],
             \A x \in D \ B : G[next[x]] \in V => G[x] = comb[x][G[next[x]]], NEW z \in D
      PROVE  G[z] = F[z]
  <2> DEFINE Y == {y \in D : G[y] # F[y]}
             X == {m[x] : x \in Y}
  <2> HIDE DEF F
  <2> SUFFICES ASSUME G[z] # F[z] PROVE FALSE
    OBVIOUS
  <2>1. X \subseteq Nat /\ X # {}
    <3>1. z \in Y /\ \A x \in Y : m[x] \in Nat
      BY <1>0, <1>6
    <3> HIDE DEF Y
    <3> QED BY <3>1
  <2>2. PICK v \in X : \A y \in X : ~(y < v)
    <3> HIDE DEF X
    <3> QED BY <2>1, LeastNat
  <2>3. PICK x \in Y : m[x] = v
    OBVIOUS
  <2>4. x \in D \ B
    BY <1>4, <1>6, <2>3
  <2>5. next[x] \in D /\ m[next[x]] < m[x]
    BY <2>4
  <2>6. G[next[x]] = F[next[x]] /\ F[next[x]] \in V
    BY <1>4, <2>2, <2>3, <2>5
  <2> QED BY <1>4, <1>6, <2>3, <2>4, <2>6
<1> HIDE DEF F
<1>7. /\ \A x \in B : F[x] = base[x]
      /\ \A x \in D \ B : F[x] = comb[x][F[next[x]]]
  BY <1>4
<1> QED BY <1>5, <1>6, <1>7 DEF Defines

\* Induction over a set of numbers.
LEMMA NatInSet ==
  ASSUME NEW X, 0 \in X, \A k \in Nat : k \in X => k + 1 \in X
  PROVE  \A k \in Nat : k \in X
<1> DEFINE Y == {k \in Nat : k \notin X}
<1> SUFFICES ASSUME Y # {} PROVE FALSE
  OBVIOUS
<1>1. Y \subseteq Nat
  OBVIOUS
<1>2. PICK k \in Y : \A y \in Y : ~(y < k)
  <2> HIDE DEF Y
  <2> QED BY <1>1, LeastNat
<1>3. k \in Nat /\ k # 0 /\ k \notin X
  BY <1>2
<1>4. k - 1 \in Nat /\ k - 1 < k /\ (k - 1) + 1 = k
  BY <1>3
<1>5. k - 1 \in X
  BY <1>2, <1>4
<1> QED BY <1>3, <1>4, <1>5

------------------------------------------------------------------------------
\* The recursive functions of the model.

\* The depth of an OR of two ciphertexts.
LEMMA OrDepths ==
  ASSUME NEW a \in Nat, NEW b \in Nat
  PROVE  /\ OrDepth(a, b) \in Nat
         /\ OrDepth(a, b) = (IF a <= b THEN b ELSE a) + 1
<1>1. Max({a, b}) \in {a, b} /\ \A y \in {a, b} : Max({a, b}) >= y
  <2>1. \E x \in {a, b} : \A y \in {a, b} : x >= y
    OBVIOUS
  <2> QED BY <2>1 DEF Max
<1> QED BY <1>1 DEF OrDepth

\* HalvingLevels counts the halvings, rounded up, down to one.
LEMMA Halvings ==
  \A r \in Nat : /\ HalvingLevels(r) \in Nat
                 /\ HalvingLevels(r) = IF r <= 1 THEN 0 ELSE 1 + HalvingLevels((r + 1) \div 2)
<1> DEFINE Rec(g) == [r \in Nat |->
                        IF r <= 1 THEN 0 ELSE 1 + g[(r + 1) \div 2]]
           H == CHOOSE g : g = Rec(g)
           B == {r \in Nat : r <= 1}
           base == [r \in B |-> 0]
           next == [r \in Nat \ B |-> (r + 1) \div 2]
           comb == [r \in Nat \ B |-> [v \in Nat |-> 1 + v]]
           m == [r \in Nat |-> r]
<1>1. ASSUME NEW r \in Nat
      PROVE  /\ r \in B <=> r <= 1
             /\ r \in B => 0 \in Nat
             /\ r \notin B => (r + 1) \div 2 \in Nat /\ (r + 1) \div 2 < r
             /\ r \in Nat
  OBVIOUS
<1>a. \A r \in Nat : /\ r \in B <=> r <= 1
                     /\ r \in B => 0 \in Nat
                     /\ r \notin B => (r + 1) \div 2 \in Nat /\ (r + 1) \div 2 < r
                     /\ r \in Nat
  BY <1>1
<1>b. ASSUME NEW r \in Nat \ B PROVE (r + 1) \div 2 \in Nat /\ (r + 1) \div 2 < r
  <2>1. r \in Nat /\ r \notin B
    OBVIOUS
  <2> HIDE DEF B
  <2> QED BY <1>1, <2>1
<1>d. ASSUME NEW r \in B PROVE 0 \in Nat
  <2>1. r \in Nat /\ r \in B
    OBVIOUS
  <2> HIDE DEF B
  <2> QED BY <1>1, <2>1
<1>c. ASSUME NEW r \in Nat, ~(r <= 1) PROVE r \in Nat \ B
  BY <1>c
<1>2. Recurses(Nat, Nat, B, base, next, comb, m)
  <2>1. B \subseteq Nat
    OBVIOUS
  <2> HIDE DEF B
  <2>2. base \in [B -> Nat]
    BY <1>d
  <2>3. comb \in [Nat \ B -> [Nat -> Nat]]
    <3>1. \A r \in Nat \ B : \A v \in Nat : 1 + v \in Nat
      OBVIOUS
    <3> QED BY <3>1
  <2>4. m \in [Nat -> Nat]
    BY <1>a
  <2>5. next \in [Nat \ B -> Nat] /\ \A x \in Nat \ B : m[next[x]] < m[x]
    <3>1. ASSUME NEW r \in Nat \ B PROVE (r + 1) \div 2 \in Nat /\ (r + 1) \div 2 < r
      BY <1>b
    <3>2. next \in [Nat \ B -> Nat]
      BY <3>1
    <3>3. ASSUME NEW r \in Nat \ B PROVE m[next[r]] < m[r]
      <4>1. next[r] = (r + 1) \div 2 /\ m[(r + 1) \div 2] = (r + 1) \div 2 /\ m[r] = r
        BY <3>1
      <4> QED BY <3>1, <4>1
    <3> QED BY <3>2, <3>3
  <2> HIDE DEF base, next, comb, m
  <2> QED BY <2>1, <2>2, <2>3, <2>4, <2>5 DEF Recurses
<1>3. PICK F : Defines(F, Nat, Nat, B, base, next, comb)
  <2> HIDE DEF B, base, next, comb, m
  <2> QED BY <1>2, Recursion, Zenon
<1>4. F \in [Nat -> Nat]
  BY <1>3 DEF Defines
<1>5. ASSUME NEW r \in Nat
      PROVE  F[r] = IF r <= 1 THEN 0 ELSE 1 + F[(r + 1) \div 2]
  <2>1. CASE r \in B
    BY <1>a, <1>3, <2>1 DEF Defines
  <2>2. CASE r \in Nat \ B
    <3>1. F[r] = comb[r][F[next[r]]] /\ next[r] = (r + 1) \div 2 /\ F[(r + 1) \div 2] \in Nat
      <4>1. (r + 1) \div 2 \in Nat /\ next[r] = (r + 1) \div 2
        BY <1>b, <2>2
      <4>2. F[r] = comb[r][F[next[r]]]
        BY <1>3, <2>2 DEF Defines
      <4> QED BY <1>4, <4>1, <4>2
    <3>2. comb[r][F[(r + 1) \div 2]] = 1 + F[(r + 1) \div 2]
      BY <2>2, <3>1
    <3> QED BY <1>a, <2>2, <3>1, <3>2
  <2> QED BY <2>1, <2>2
<1>6. H = Rec(H)
  <2>1. F = Rec(F)
    BY <1>4, <1>5
  <2> HIDE DEF Rec
  <2> QED BY <2>1, Zenon
<1>7. \A x \in Nat : H[x] = F[x]
  <2>1. \A r \in Nat :
          H[r] = IF r <= 1 THEN 0 ELSE 1 + H[(r + 1) \div 2]
    <3> HIDE DEF H
    <3> QED BY <1>6
  <2>2. (\A x \in B : H[x] = base[x])
        /\ \A x \in Nat \ B : H[next[x]] \in Nat => H[x] = comb[x][H[next[x]]]
    <3> HIDE DEF H
    <3> QED BY <1>a, <2>1
  <2> HIDE DEF H, B, base, next, comb
  <2> QED BY <1>3, <2>2 DEF Defines
<1>8. \A r \in Nat :
        /\ F[r] \in Nat
        /\ F[r] = IF r <= 1 THEN 0 ELSE 1 + F[(r + 1) \div 2]
  BY <1>4, <1>5
<1>9. \A r \in Nat : HalvingLevels(r) = H[r]
  BY Zenon DEF HalvingLevels
<1> HIDE DEF H, B, base, next, comb, m
<1>10. ASSUME NEW r \in Nat
       PROVE  /\ HalvingLevels(r) \in Nat
              /\ HalvingLevels(r) = IF r <= 1 THEN 0 ELSE 1 + HalvingLevels((r + 1) \div 2)
  <2>1. HalvingLevels(r) = F[r]
    BY <1>7, <1>9
  <2>2. ~(r <= 1) => HalvingLevels((r + 1) \div 2) = F[(r + 1) \div 2]
    <3> SUFFICES ASSUME ~(r <= 1) PROVE HalvingLevels((r + 1) \div 2) = F[(r + 1) \div 2]
      OBVIOUS
    <3>1. (r + 1) \div 2 \in Nat
      BY <1>b, <1>c
    <3> QED BY <1>7, <1>9, <3>1
  <2> HIDE DEF Rec
  <2> QED BY <1>8, <2>1, <2>2
<1> QED BY <1>10

\* RecursionLevels counts the calls that sum_powers_recursive makes.
LEMMA Levels ==
  \A r \in Nat : /\ RecursionLevels(r) \in Nat
                 /\ RecursionLevels(r) = IF r <= 1 THEN 0 ELSE 1 + RecursionLevels(Callee(r))
<1> DEFINE Rec(g) == [r \in Nat |->
                        IF r <= 1 THEN 0 ELSE 1 + g[Callee(r)]]
           H == CHOOSE g : g = Rec(g)
           B == {r \in Nat : r <= 1}
           base == [r \in B |-> 0]
           next == [r \in Nat \ B |-> Callee(r)]
           comb == [r \in Nat \ B |-> [v \in Nat |-> 1 + v]]
           m == [r \in Nat |-> r]
<1>1. ASSUME NEW r \in Nat
      PROVE  /\ r \in B <=> r <= 1
             /\ r \in B => 0 \in Nat
             /\ r \notin B => Callee(r) \in Nat /\ Callee(r) < r
             /\ r \in Nat
  <2>1. CASE r <= 1
    BY <2>1
  <2>2. CASE r > 1
    BY <2>2 DEF Callee
  <2> QED BY <2>1, <2>2
<1>a. \A r \in Nat : /\ r \in B <=> r <= 1
                     /\ r \in B => 0 \in Nat
                     /\ r \notin B => Callee(r) \in Nat /\ Callee(r) < r
                     /\ r \in Nat
  BY <1>1
<1>b. ASSUME NEW r \in Nat \ B PROVE Callee(r) \in Nat /\ Callee(r) < r
  <2>1. r \in Nat /\ r \notin B
    OBVIOUS
  <2> HIDE DEF B
  <2> QED BY <1>1, <2>1
<1>d. ASSUME NEW r \in B PROVE 0 \in Nat
  <2>1. r \in Nat /\ r \in B
    OBVIOUS
  <2> HIDE DEF B
  <2> QED BY <1>1, <2>1
<1>c. ASSUME NEW r \in Nat, ~(r <= 1) PROVE r \in Nat \ B
  BY <1>c
<1>2. Recurses(Nat, Nat, B, base, next, comb, m)
  <2>1. B \subseteq Nat
    OBVIOUS
  <2> HIDE DEF B
  <2>2. base \in [B -> Nat]
    BY <1>d
  <2>3. comb \in [Nat \ B -> [Nat -> Nat]]
    <3>1. \A r \in Nat \ B : \A v \in Nat : 1 + v \in Nat
      OBVIOUS
    <3> QED BY <3>1
  <2>4. m \in [Nat -> Nat]
    BY <1>a
  <2>5. next \in [Nat \ B -> Nat] /\ \A x \in Nat \ B : m[next[x]] < m[x]
    <3>1. ASSUME NEW r \in Nat \ B PROVE Callee(r) \in Nat /\ Callee(r) < r
      BY <1>b
    <3>2. next \in [Nat \ B -> Nat]
      BY <3>1
    <3>3. ASSUME NEW r \in Nat \ B PROVE m[next[r]] < m[r]
      <4>1. next[r] = Callee(r) /\ m[Callee(r)] = Callee(r) /\ m[r] = r
        BY <3>1
      <4> QED BY <3>1, <4>1
    <3> QED BY <3>2, <3>3
  <2> HIDE DEF base, next, comb, m
  <2> QED BY <2>1, <2>2, <2>3, <2>4, <2>5 DEF Recurses
<1>3. PICK F : Defines(F, Nat, Nat, B, base, next, comb)
  <2> HIDE DEF B, base, next, comb, m
  <2> QED BY <1>2, Recursion, Zenon
<1>4. F \in [Nat -> Nat]
  BY <1>3 DEF Defines
<1>5. ASSUME NEW r \in Nat
      PROVE  F[r] = IF r <= 1 THEN 0 ELSE 1 + F[Callee(r)]
  <2>1. CASE r \in B
    BY <1>a, <1>3, <2>1 DEF Defines
  <2>2. CASE r \in Nat \ B
    <3>1. F[r] = comb[r][F[next[r]]] /\ next[r] = Callee(r) /\ F[Callee(r)] \in Nat
      <4>1. Callee(r) \in Nat /\ next[r] = Callee(r)
        BY <1>b, <2>2
      <4>2. F[r] = comb[r][F[next[r]]]
        BY <1>3, <2>2 DEF Defines
      <4> QED BY <1>4, <4>1, <4>2
    <3>2. comb[r][F[Callee(r)]] = 1 + F[Callee(r)]
      BY <2>2, <3>1
    <3> QED BY <1>a, <2>2, <3>1, <3>2
  <2> QED BY <2>1, <2>2
<1>6. H = Rec(H)
  <2>1. F = Rec(F)
    BY <1>4, <1>5
  <2> HIDE DEF Rec
  <2> QED BY <2>1, Zenon
<1>7. \A x \in Nat : H[x] = F[x]
  <2>1. \A r \in Nat :
          H[r] = IF r <= 1 THEN 0 ELSE 1 + H[Callee(r)]
    <3> HIDE DEF H
    <3> QED BY <1>6
  <2>2. (\A x \in B : H[x] = base[x])
        /\ \A x \in Nat \ B : H[next[x]] \in Nat => H[x] = comb[x][H[next[x]]]
    <3> HIDE DEF H
    <3> QED BY <1>a, <2>1
  <2> HIDE DEF H, B, base, next, comb
  <2> QED BY <1>3, <2>2 DEF Defines
<1>8. \A r \in Nat :
        /\ F[r] \in Nat
        /\ F[r] = IF r <= 1 THEN 0 ELSE 1 + F[Callee(r)]
  BY <1>4, <1>5
<1>9. \A r \in Nat : RecursionLevels(r) = H[r]
  BY Zenon DEF RecursionLevels
<1> HIDE DEF H, B, base, next, comb, m
<1>10. ASSUME NEW r \in Nat
       PROVE  /\ RecursionLevels(r) \in Nat
              /\ RecursionLevels(r) = IF r <= 1 THEN 0 ELSE 1 + RecursionLevels(Callee(r))
  <2>1. RecursionLevels(r) = F[r]
    BY <1>7, <1>9
  <2>2. ~(r <= 1) => RecursionLevels(Callee(r)) = F[Callee(r)]
    <3> SUFFICES ASSUME ~(r <= 1) PROVE RecursionLevels(Callee(r)) = F[Callee(r)]
      OBVIOUS
    <3>1. Callee(r) \in Nat
      BY <1>b, <1>c
    <3> QED BY <1>7, <1>9, <3>1
  <2> HIDE DEF Rec
  <2> QED BY <1>8, <2>1, <2>2
<1> QED BY <1>10

\* The powers of two.
LEMMA Powers ==
  \A e \in Nat : /\ Pow2[e] \in Nat
                 /\ Pow2[e] = IF e = 0 THEN 1 ELSE 2 * Pow2[e - 1]
<1> DEFINE Rec(g) == [e \in Nat |->
                        IF e = 0 THEN 1 ELSE 2 * g[e - 1]]
           H == CHOOSE g : g = Rec(g)
           B == {e \in Nat : e = 0}
           base == [e \in B |-> 1]
           next == [e \in Nat \ B |-> e - 1]
           comb == [e \in Nat \ B |-> [v \in Nat |-> 2 * v]]
           m == [e \in Nat |-> e]
<1>1. ASSUME NEW e \in Nat
      PROVE  /\ e \in B <=> e = 0
             /\ e \in B => 1 \in Nat
             /\ e \notin B => e - 1 \in Nat /\ e - 1 < e
             /\ e \in Nat
  OBVIOUS
<1>a. \A e \in Nat : /\ e \in B <=> e = 0
                     /\ e \in B => 1 \in Nat
                     /\ e \notin B => e - 1 \in Nat /\ e - 1 < e
                     /\ e \in Nat
  BY <1>1
<1>b. ASSUME NEW e \in Nat \ B PROVE e - 1 \in Nat /\ e - 1 < e
  <2>1. e \in Nat /\ e \notin B
    OBVIOUS
  <2> HIDE DEF B
  <2> QED BY <1>1, <2>1
<1>d. ASSUME NEW e \in B PROVE 1 \in Nat
  <2>1. e \in Nat /\ e \in B
    OBVIOUS
  <2> HIDE DEF B
  <2> QED BY <1>1, <2>1
<1>c. ASSUME NEW e \in Nat, ~(e = 0) PROVE e \in Nat \ B
  BY <1>c
<1>2. Recurses(Nat, Nat, B, base, next, comb, m)
  <2>1. B \subseteq Nat
    OBVIOUS
  <2> HIDE DEF B
  <2>2. base \in [B -> Nat]
    BY <1>d
  <2>3. comb \in [Nat \ B -> [Nat -> Nat]]
    <3>1. \A e \in Nat \ B : \A v \in Nat : 2 * v \in Nat
      OBVIOUS
    <3> QED BY <3>1
  <2>4. m \in [Nat -> Nat]
    BY <1>a
  <2>5. next \in [Nat \ B -> Nat] /\ \A x \in Nat \ B : m[next[x]] < m[x]
    <3>1. ASSUME NEW e \in Nat \ B PROVE e - 1 \in Nat /\ e - 1 < e
      BY <1>b
    <3>2. next \in [Nat \ B -> Nat]
      BY <3>1
    <3>3. ASSUME NEW e \in Nat \ B PROVE m[next[e]] < m[e]
      <4>1. next[e] = e - 1 /\ m[e - 1] = e - 1 /\ m[e] = e
        BY <3>1
      <4> QED BY <3>1, <4>1
    <3> QED BY <3>2, <3>3
  <2> HIDE DEF base, next, comb, m
  <2> QED BY <2>1, <2>2, <2>3, <2>4, <2>5 DEF Recurses
<1>3. PICK F : Defines(F, Nat, Nat, B, base, next, comb)
  <2> HIDE DEF B, base, next, comb, m
  <2> QED BY <1>2, Recursion, Zenon
<1>4. F \in [Nat -> Nat]
  BY <1>3 DEF Defines
<1>5. ASSUME NEW e \in Nat
      PROVE  F[e] = IF e = 0 THEN 1 ELSE 2 * F[e - 1]
  <2>1. CASE e \in B
    BY <1>a, <1>3, <2>1 DEF Defines
  <2>2. CASE e \in Nat \ B
    <3>1. F[e] = comb[e][F[next[e]]] /\ next[e] = e - 1 /\ F[e - 1] \in Nat
      <4>1. e - 1 \in Nat /\ next[e] = e - 1
        BY <1>b, <2>2
      <4>2. F[e] = comb[e][F[next[e]]]
        BY <1>3, <2>2 DEF Defines
      <4> QED BY <1>4, <4>1, <4>2
    <3>2. comb[e][F[e - 1]] = 2 * F[e - 1]
      BY <2>2, <3>1
    <3> QED BY <1>a, <2>2, <3>1, <3>2
  <2> QED BY <2>1, <2>2
<1>6. H = Rec(H)
  <2>1. F = Rec(F)
    BY <1>4, <1>5
  <2> HIDE DEF Rec
  <2> QED BY <2>1, Zenon
<1>7. \A x \in Nat : H[x] = F[x]
  <2>1. \A e \in Nat :
          H[e] = IF e = 0 THEN 1 ELSE 2 * H[e - 1]
    <3> HIDE DEF H
    <3> QED BY <1>6
  <2>2. (\A x \in B : H[x] = base[x])
        /\ \A x \in Nat \ B : H[next[x]] \in Nat => H[x] = comb[x][H[next[x]]]
    <3> HIDE DEF H
    <3> QED BY <1>a, <2>1
  <2> HIDE DEF H, B, base, next, comb
  <2> QED BY <1>3, <2>2 DEF Defines
<1>8. \A e \in Nat :
        /\ F[e] \in Nat
        /\ F[e] = IF e = 0 THEN 1 ELSE 2 * F[e - 1]
  BY <1>4, <1>5
<1>9. \A e \in Nat : Pow2[e] = H[e]
  BY Zenon DEF Pow2
<1> HIDE DEF H, B, base, next, comb, m
<1>10. ASSUME NEW e \in Nat
       PROVE  /\ Pow2[e] \in Nat
              /\ Pow2[e] = IF e = 0 THEN 1 ELSE 2 * Pow2[e - 1]
  <2>1. Pow2[e] = F[e]
    BY <1>7, <1>9
  <2>2. ~(e = 0) => Pow2[e - 1] = F[e - 1]
    <3> SUFFICES ASSUME ~(e = 0) PROVE Pow2[e - 1] = F[e - 1]
      OBVIOUS
    <3>1. e - 1 \in Nat
      BY <1>b, <1>c
    <3> QED BY <1>7, <1>9, <3>1
  <2> HIDE DEF Rec
  <2> QED BY <1>8, <2>1, <2>2
<1> QED BY <1>10

\* The noise bits after a number of levels, as KeyGen counts them.
LEMMA Bits ==
  ASSUME NEW rho \in Nat
  PROVE  \A d \in Nat :
           /\ noise_bits_after_depth(rho, d) \in Nat
           /\ noise_bits_after_depth(rho, d) = IF d = 0 THEN rho
                                              ELSE 2 * noise_bits_after_depth(rho, d - 1) + 2
<1> DEFINE Rec(g) == [level \in Nat |->
                        IF level = 0 THEN rho ELSE 2 * g[level - 1] + 2]
           H == CHOOSE g : g = Rec(g)
           B == {level \in Nat : level = 0}
           base == [level \in B |-> rho]
           next == [level \in Nat \ B |-> level - 1]
           comb == [level \in Nat \ B |-> [v \in Nat |-> 2 * v + 2]]
           m == [level \in Nat |-> level]
<1>1. ASSUME NEW level \in Nat
      PROVE  /\ level \in B <=> level = 0
             /\ level \in B => rho \in Nat
             /\ level \notin B => level - 1 \in Nat /\ level - 1 < level
             /\ level \in Nat
  OBVIOUS
<1>a. \A level \in Nat : /\ level \in B <=> level = 0
                         /\ level \in B => rho \in Nat
                         /\ level \notin B => level - 1 \in Nat /\ level - 1 < level
                         /\ level \in Nat
  BY <1>1
<1>b. ASSUME NEW level \in Nat \ B PROVE level - 1 \in Nat /\ level - 1 < level
  <2>1. level \in Nat /\ level \notin B
    OBVIOUS
  <2> HIDE DEF B
  <2> QED BY <1>1, <2>1
<1>d. ASSUME NEW level \in B PROVE rho \in Nat
  <2>1. level \in Nat /\ level \in B
    OBVIOUS
  <2> HIDE DEF B
  <2> QED BY <1>1, <2>1
<1>c. ASSUME NEW level \in Nat, ~(level = 0) PROVE level \in Nat \ B
  BY <1>c
<1>2. Recurses(Nat, Nat, B, base, next, comb, m)
  <2>1. B \subseteq Nat
    OBVIOUS
  <2> HIDE DEF B
  <2>2. base \in [B -> Nat]
    BY <1>d
  <2>3. comb \in [Nat \ B -> [Nat -> Nat]]
    <3>1. \A level \in Nat \ B : \A v \in Nat : 2 * v + 2 \in Nat
      OBVIOUS
    <3> QED BY <3>1
  <2>4. m \in [Nat -> Nat]
    BY <1>a
  <2>5. next \in [Nat \ B -> Nat] /\ \A x \in Nat \ B : m[next[x]] < m[x]
    <3>1. ASSUME NEW level \in Nat \ B PROVE level - 1 \in Nat /\ level - 1 < level
      BY <1>b
    <3>2. next \in [Nat \ B -> Nat]
      BY <3>1
    <3>3. ASSUME NEW level \in Nat \ B PROVE m[next[level]] < m[level]
      <4>1. next[level] = level - 1 /\ m[level - 1] = level - 1 /\ m[level] = level
        BY <3>1
      <4> QED BY <3>1, <4>1
    <3> QED BY <3>2, <3>3
  <2> HIDE DEF base, next, comb, m
  <2> QED BY <2>1, <2>2, <2>3, <2>4, <2>5 DEF Recurses
<1>3. PICK F : Defines(F, Nat, Nat, B, base, next, comb)
  <2> HIDE DEF B, base, next, comb, m
  <2> QED BY <1>2, Recursion, Zenon
<1>4. F \in [Nat -> Nat]
  BY <1>3 DEF Defines
<1>5. ASSUME NEW level \in Nat
      PROVE  F[level] = IF level = 0 THEN rho ELSE 2 * F[level - 1] + 2
  <2>1. CASE level \in B
    BY <1>a, <1>3, <2>1 DEF Defines
  <2>2. CASE level \in Nat \ B
    <3>1. F[level] = comb[level][F[next[level]]] /\ next[level] = level - 1 /\ F[level - 1] \in Nat
      <4>1. level - 1 \in Nat /\ next[level] = level - 1
        BY <1>b, <2>2
      <4>2. F[level] = comb[level][F[next[level]]]
        BY <1>3, <2>2 DEF Defines
      <4> QED BY <1>4, <4>1, <4>2
    <3>2. comb[level][F[level - 1]] = 2 * F[level - 1] + 2
      BY <2>2, <3>1
    <3> QED BY <1>a, <2>2, <3>1, <3>2
  <2> QED BY <2>1, <2>2
<1>6. H = Rec(H)
  <2>1. F = Rec(F)
    BY <1>4, <1>5
  <2> HIDE DEF Rec
  <2> QED BY <2>1, Zenon
<1>7. \A x \in Nat : H[x] = F[x]
  <2>1. \A level \in Nat :
          H[level] = IF level = 0 THEN rho ELSE 2 * H[level - 1] + 2
    <3> HIDE DEF H
    <3> QED BY <1>6
  <2>2. (\A x \in B : H[x] = base[x])
        /\ \A x \in Nat \ B : H[next[x]] \in Nat => H[x] = comb[x][H[next[x]]]
    <3> HIDE DEF H
    <3> QED BY <1>a, <2>1
  <2> HIDE DEF H, B, base, next, comb
  <2> QED BY <1>3, <2>2 DEF Defines
<1>8. \A level \in Nat :
        /\ F[level] \in Nat
        /\ F[level] = IF level = 0 THEN rho ELSE 2 * F[level - 1] + 2
  BY <1>4, <1>5
<1>9. \A level \in Nat : noise_bits_after_depth(rho, level) = H[level]
  BY Zenon DEF noise_bits_after_depth
<1> HIDE DEF H, B, base, next, comb, m
<1>10. ASSUME NEW level \in Nat
       PROVE  /\ noise_bits_after_depth(rho, level) \in Nat
              /\ noise_bits_after_depth(rho, level) = IF level = 0 THEN rho ELSE 2 * noise_bits_after_depth(rho, level - 1) + 2
  <2>1. noise_bits_after_depth(rho, level) = F[level]
    BY <1>7, <1>9
  <2>2. ~(level = 0) => noise_bits_after_depth(rho, level - 1) = F[level - 1]
    <3> SUFFICES ASSUME ~(level = 0) PROVE noise_bits_after_depth(rho, level - 1) = F[level - 1]
      OBVIOUS
    <3>1. level - 1 \in Nat
      BY <1>b, <1>c
    <3> QED BY <1>7, <1>9, <3>1
  <2> HIDE DEF Rec
  <2> QED BY <1>8, <2>1, <2>2
<1> QED BY <1>10

\* The depth of SumOR: each doubling of the shift adds a mask and an OR.
LEMMA SumORLoop ==
  ASSUME NEW d \in Nat
  PROVE  \A s \in Nat :
           /\ SumORDepth(d, s) \in Nat
           /\ SumORDepth(d, s) = IF s <= 1 THEN d ELSE SumORDepth(d, s \div 2) + 2
<1> DEFINE Rec(g) == [shift \in Nat |->
                        IF shift <= 1 THEN d ELSE OrDepth(g[shift \div 2], MaskDepth(g[shift \div 2]))]
           H == CHOOSE g : g = Rec(g)
           B == {shift \in Nat : shift <= 1}
           base == [shift \in B |-> d]
           next == [shift \in Nat \ B |-> shift \div 2]
           comb == [shift \in Nat \ B |-> [v \in Nat |-> OrDepth(v, MaskDepth(v))]]
           m == [shift \in Nat |-> shift]
<1>1. ASSUME NEW shift \in Nat
      PROVE  /\ shift \in B <=> shift <= 1
             /\ shift \in B => d \in Nat
             /\ shift \notin B => shift \div 2 \in Nat /\ shift \div 2 < shift
             /\ shift \in Nat
  OBVIOUS
<1>a. \A shift \in Nat : /\ shift \in B <=> shift <= 1
                         /\ shift \in B => d \in Nat
                         /\ shift \notin B => shift \div 2 \in Nat /\ shift \div 2 < shift
                         /\ shift \in Nat
  BY <1>1
<1>b. ASSUME NEW shift \in Nat \ B PROVE shift \div 2 \in Nat /\ shift \div 2 < shift
  <2>1. shift \in Nat /\ shift \notin B
    OBVIOUS
  <2> HIDE DEF B
  <2> QED BY <1>1, <2>1
<1>d. ASSUME NEW shift \in B PROVE d \in Nat
  <2>1. shift \in Nat /\ shift \in B
    OBVIOUS
  <2> HIDE DEF B
  <2> QED BY <1>1, <2>1
<1>c. ASSUME NEW shift \in Nat, ~(shift <= 1) PROVE shift \in Nat \ B
  BY <1>c
<1>2. Recurses(Nat, Nat, B, base, next, comb, m)
  <2>1. B \subseteq Nat
    OBVIOUS
  <2> HIDE DEF B
  <2>2. base \in [B -> Nat]
    BY <1>d
  <2>3. comb \in [Nat \ B -> [Nat -> Nat]]
    <3>1. \A shift \in Nat \ B : \A v \in Nat : OrDepth(v, MaskDepth(v)) \in Nat
      BY OrDepths DEF MaskDepth
    <3> QED BY <3>1
  <2>4. m \in [Nat -> Nat]
    BY <1>a
  <2>5. next \in [Nat \ B -> Nat] /\ \A x \in Nat \ B : m[next[x]] < m[x]
    <3>1. ASSUME NEW shift \in Nat \ B PROVE shift \div 2 \in Nat /\ shift \div 2 < shift
      BY <1>b
    <3>2. next \in [Nat \ B -> Nat]
      BY <3>1
    <3>3. ASSUME NEW shift \in Nat \ B PROVE m[next[shift]] < m[shift]
      <4>1. next[shift] = shift \div 2 /\ m[shift \div 2] = shift \div 2 /\ m[shift] = shift
        BY <3>1
      <4> QED BY <3>1, <4>1
    <3> QED BY <3>2, <3>3
  <2> HIDE DEF base, next, comb, m
  <2> QED BY <2>1, <2>2, <2>3, <2>4, <2>5 DEF Recurses
<1>3. PICK F : Defines(F, Nat, Nat, B, base, next, comb)
  <2> HIDE DEF B, base, next, comb, m
  <2> QED BY <1>2, Recursion, Zenon
<1>4. F \in [Nat -> Nat]
  BY <1>3 DEF Defines
<1>5. ASSUME NEW shift \in Nat
      PROVE  F[shift] = IF shift <= 1 THEN d ELSE OrDepth(F[shift \div 2], MaskDepth(F[shift \div 2]))
  <2>1. CASE shift \in B
    BY <1>a, <1>3, <2>1 DEF Defines
  <2>2. CASE shift \in Nat \ B
    <3>1. F[shift] = comb[shift][F[next[shift]]] /\ next[shift] = shift \div 2 /\ F[shift \div 2] \in Nat
      <4>1. shift \div 2 \in Nat /\ next[shift] = shift \div 2
        BY <1>b, <2>2
      <4>2. F[shift] = comb[shift][F[next[shift]]]
        BY <1>3, <2>2 DEF Defines
      <4> QED BY <1>4, <4>1, <4>2
    <3>2. comb[shift][F[shift \div 2]] = OrDepth(F[shift \div 2], MaskDepth(F[shift \div 2]))
      BY <2>2, <3>1
    <3> QED BY <1>a, <2>2, <3>1, <3>2
  <2> QED BY <2>1, <2>2
<1>6. H = Rec(H)
  <2>1. F = Rec(F)
    BY <1>4, <1>5
  <2> HIDE DEF Rec
  <2> QED BY <2>1, Zenon
<1>7. \A x \in Nat : H[x] = F[x]
  <2>1. \A shift \in Nat :
          H[shift] = IF shift <= 1 THEN d ELSE OrDepth(H[shift \div 2], MaskDepth(H[shift \div 2]))
    <3> HIDE DEF H
    <3> QED BY <1>6
  <2>2. (\A x \in B : H[x] = base[x])
        /\ \A x \in Nat \ B : H[next[x]] \in Nat => H[x] = comb[x][H[next[x]]]
    <3> HIDE DEF H
    <3> QED BY <1>a, <2>1
  <2> HIDE DEF H, B, base, next, comb
  <2> QED BY <1>3, <2>2 DEF Defines
<1>8. \A shift \in Nat :
        /\ F[shift] \in Nat
        /\ F[shift] = IF shift <= 1 THEN d ELSE OrDepth(F[shift \div 2], MaskDepth(F[shift \div 2]))
  BY <1>4, <1>5
<1>9. \A shift \in Nat : SumORDepth(d, shift) = H[shift]
  BY Zenon DEF SumORDepth
<1> HIDE DEF H, B, base, next, comb, m
<1>10. ASSUME NEW shift \in Nat
       PROVE  /\ SumORDepth(d, shift) \in Nat
              /\ SumORDepth(d, shift) = IF shift <= 1 THEN d ELSE OrDepth(SumORDepth(d, shift \div 2), MaskDepth(SumORDepth(d, shift \div 2)))
  <2>1. SumORDepth(d, shift) = F[shift]
    BY <1>7, <1>9
  <2>2. ~(shift <= 1) => SumORDepth(d, shift \div 2) = F[shift \div 2]
    <3> SUFFICES ASSUME ~(shift <= 1) PROVE SumORDepth(d, shift \div 2) = F[shift \div 2]
      OBVIOUS
    <3>1. shift \div 2 \in Nat
      BY <1>b, <1>c
    <3> QED BY <1>7, <1>9, <3>1
  <2> HIDE DEF Rec
  <2> QED BY <1>8, <2>1, <2>2
<1>11. ASSUME NEW s \in Nat, s > 1
       PROVE  SumORDepth(d, s) = SumORDepth(d, s \div 2) + 2
  <2>1. s \div 2 \in Nat
    OBVIOUS
  <2>2. SumORDepth(d, s \div 2) \in Nat
    BY <1>10, <2>1
  <2>3. SumORDepth(d, s) = OrDepth(SumORDepth(d, s \div 2), SumORDepth(d, s \div 2) + 1)
    <3>1. ~(s <= 1)
      BY <1>11
    <3> QED BY <1>10, <3>1 DEF MaskDepth
  <2> QED BY <2>2, <2>3, OrDepths
<1> QED BY <1>10, <1>11

\* The sequences of terms that or_reduce_tree is called with.
Terms == Seq(Nat) \ {<< >>}

\* A level of the tree: half as many terms, rounded up.
LEMMA PairedFacts ==
  ASSUME NEW ts \in Terms, Len(ts) # 1
  PROVE  /\ Paired(ts) \in Terms
         /\ Len(Paired(ts)) = (Len(ts) + 1) \div 2
         /\ (Len(ts) + 1) \div 2 \in 1 .. Len(ts) - 1
         /\ \A k \in 1 .. (Len(ts) + 1) \div 2 :
              Paired(ts)[k] = IF 2 * k <= Len(ts) THEN OrDepth(ts[2 * k - 1], ts[2 * k]) ELSE ts[2 * k - 1]
<1> DEFINE L == Len(ts)
           h == (L + 1) \div 2
           f(k) == IF 2 * k <= L THEN OrDepth(ts[2 * k - 1], ts[2 * k]) ELSE ts[2 * k - 1]
<1>1. /\ L \in Nat /\ L > 1 /\ \A k \in 1 .. L : ts[k] \in Nat
      /\ ts \in Seq(Nat)
  <2>1. ts \in Seq(Nat) /\ ts # << >>
    BY DEF Terms
  <2>2. L \in Nat /\ L # 0
    BY <2>1
  <2>3. L # 1
    OBVIOUS
  <2> HIDE DEF f, h
  <2>4. L > 1
    <3> HIDE DEF L
    <3> QED BY <2>2, <2>3
  <2>5. \A k \in 1 .. L : ts[k] \in Nat
    BY <2>1
  <2> QED BY <2>1, <2>2, <2>4, <2>5
<1>2. h \in 1 .. L - 1 /\ 2 * h <= L + 1
  BY <1>1
<1>3. ASSUME NEW k \in 1 .. h PROVE f(k) \in Nat
  <2>1. k \in Nat /\ 2 * k - 1 \in 1 .. L
    BY <1>1, <1>2
  <2>2. 2 * k <= L => 2 * k \in 1 .. L
    BY <2>1
  <2>3. ts[2 * k - 1] \in Nat
    BY <1>1, <2>1
  <2>4. CASE 2 * k <= L
    BY <1>1, <2>2, <2>3, <2>4, OrDepths
  <2> QED BY <2>3, <2>4
<1>4. Paired(ts) = [k \in 1 .. h |-> f(k)]
  BY DEF Paired
<1> HIDE DEF h, f
<1>5. [k \in 1 .. h |-> f(k)] \in Seq(Nat) /\ Len([k \in 1 .. h |-> f(k)]) = h
  BY <1>1, <1>2, <1>3
<1>6. [k \in 1 .. h |-> f(k)] # << >>
  BY <1>2, <1>5
<1>7. \A k \in 1 .. h : Paired(ts)[k] = f(k)
  BY <1>4
<1>8. Paired(ts) \in Terms /\ Len(Paired(ts)) = h
  BY <1>4, <1>5, <1>6 DEF Terms
<1> QED BY <1>2, <1>7, <1>8 DEF h, f

\* or_reduce_tree halves the number of terms until one is left.
LEMMA Reductions ==
  \A ts \in Terms : /\ OrReduceTree[ts] \in Nat
                    /\ OrReduceTree[ts] = IF Len(ts) = 1 THEN ts[1] ELSE OrReduceTree[Paired(ts)]
<1> DEFINE Rec(g) == [ts \in Terms |->
                        IF Len(ts) = 1 THEN ts[1] ELSE g[Paired(ts)]]
           H == CHOOSE g : g = Rec(g)
           B == {ts \in Terms : Len(ts) = 1}
           base == [ts \in B |-> ts[1]]
           next == [ts \in Terms \ B |-> Paired(ts)]
           comb == [ts \in Terms \ B |-> [v \in Nat |-> v]]
           m == [ts \in Terms |-> Len(ts)]
<1>1. ASSUME NEW ts \in Terms
      PROVE  /\ ts \in B <=> Len(ts) = 1
             /\ ts \in B => ts[1] \in Nat
             /\ ts \notin B => Paired(ts) \in Terms /\ Len(Paired(ts)) < Len(ts)
             /\ Len(ts) \in Nat
  <2>1. ts \in Seq(Nat) /\ ts # << >>
    BY DEF Terms
  <2>2. Len(ts) \in Nat \ {0} /\ ts[1] \in Nat
    BY <2>1
  <2>3. ASSUME Len(ts) # 1
        PROVE  Paired(ts) \in Terms /\ Len(Paired(ts)) < Len(ts)
    BY <2>1, <2>2, <2>3, PairedFacts
  <2> QED BY <2>1, <2>2, <2>3
<1>a. \A ts \in Terms : /\ ts \in B <=> Len(ts) = 1
                        /\ ts \in B => ts[1] \in Nat
                        /\ ts \notin B => Paired(ts) \in Terms /\ Len(Paired(ts)) < Len(ts)
                        /\ Len(ts) \in Nat
  BY <1>1
<1>b. ASSUME NEW ts \in Terms \ B PROVE Paired(ts) \in Terms /\ Len(Paired(ts)) < Len(ts)
  <2>1. ts \in Terms /\ ts \notin B
    OBVIOUS
  <2> HIDE DEF B
  <2> QED BY <1>1, <2>1
<1>d. ASSUME NEW ts \in B PROVE ts[1] \in Nat
  <2>1. ts \in Terms /\ ts \in B
    OBVIOUS
  <2> HIDE DEF B
  <2> QED BY <1>1, <2>1
<1>c. ASSUME NEW ts \in Terms, ~(Len(ts) = 1) PROVE ts \in Terms \ B
  BY <1>c
<1>2. Recurses(Terms, Nat, B, base, next, comb, m)
  <2>1. B \subseteq Terms
    OBVIOUS
  <2> HIDE DEF B
  <2>2. base \in [B -> Nat]
    BY <1>d
  <2>3. comb \in [Terms \ B -> [Nat -> Nat]]
    <3>1. \A ts \in Terms \ B : \A v \in Nat : v \in Nat
      OBVIOUS
    <3> QED BY <3>1
  <2>4. m \in [Terms -> Nat]
    BY <1>a
  <2>5. next \in [Terms \ B -> Terms] /\ \A x \in Terms \ B : m[next[x]] < m[x]
    <3>1. ASSUME NEW ts \in Terms \ B PROVE Paired(ts) \in Terms /\ Len(Paired(ts)) < Len(ts)
      BY <1>b
    <3>2. next \in [Terms \ B -> Terms]
      BY <3>1
    <3>3. ASSUME NEW ts \in Terms \ B PROVE m[next[ts]] < m[ts]
      <4>1. next[ts] = Paired(ts) /\ m[Paired(ts)] = Len(Paired(ts)) /\ m[ts] = Len(ts)
        BY <3>1
      <4> QED BY <3>1, <4>1
    <3> QED BY <3>2, <3>3
  <2> HIDE DEF base, next, comb, m
  <2> QED BY <2>1, <2>2, <2>3, <2>4, <2>5 DEF Recurses
<1>3. PICK F : Defines(F, Terms, Nat, B, base, next, comb)
  <2> HIDE DEF B, base, next, comb, m
  <2> QED BY <1>2, Recursion, Zenon
<1>4. F \in [Terms -> Nat]
  BY <1>3 DEF Defines
<1>5. ASSUME NEW ts \in Terms
      PROVE  F[ts] = IF Len(ts) = 1 THEN ts[1] ELSE F[Paired(ts)]
  <2>1. CASE ts \in B
    BY <1>a, <1>3, <2>1 DEF Defines
  <2>2. CASE ts \in Terms \ B
    <3>1. F[ts] = comb[ts][F[next[ts]]] /\ next[ts] = Paired(ts) /\ F[Paired(ts)] \in Nat
      <4>1. Paired(ts) \in Terms /\ next[ts] = Paired(ts)
        BY <1>b, <2>2
      <4>2. F[ts] = comb[ts][F[next[ts]]]
        BY <1>3, <2>2 DEF Defines
      <4> QED BY <1>4, <4>1, <4>2
    <3>2. comb[ts][F[Paired(ts)]] = F[Paired(ts)]
      BY <2>2, <3>1
    <3> QED BY <1>a, <2>2, <3>1, <3>2
  <2> QED BY <2>1, <2>2
<1>6. H = Rec(H)
  <2>1. F = Rec(F)
    BY <1>4, <1>5
  <2> HIDE DEF Rec
  <2> QED BY <2>1, Zenon
<1>7. \A x \in Terms : H[x] = F[x]
  <2>1. \A ts \in Terms :
          H[ts] = IF Len(ts) = 1 THEN ts[1] ELSE H[Paired(ts)]
    <3> HIDE DEF H
    <3> QED BY <1>6
  <2>2. (\A x \in B : H[x] = base[x])
        /\ \A x \in Terms \ B : H[next[x]] \in Nat => H[x] = comb[x][H[next[x]]]
    <3> HIDE DEF H
    <3> QED BY <1>a, <2>1
  <2> HIDE DEF H, B, base, next, comb
  <2> QED BY <1>3, <2>2 DEF Defines
<1>8. \A ts \in Terms :
        /\ F[ts] \in Nat
        /\ F[ts] = IF Len(ts) = 1 THEN ts[1] ELSE F[Paired(ts)]
  BY <1>4, <1>5
<1>9. \A ts \in Terms : OrReduceTree[ts] = H[ts]
  BY Zenon DEF OrReduceTree, Terms
<1> HIDE DEF H, B, base, next, comb, m
<1>10. ASSUME NEW ts \in Terms
       PROVE  /\ OrReduceTree[ts] \in Nat
              /\ OrReduceTree[ts] = IF Len(ts) = 1 THEN ts[1] ELSE OrReduceTree[Paired(ts)]
  <2>1. OrReduceTree[ts] = F[ts]
    BY <1>7, <1>9
  <2>2. ~(Len(ts) = 1) => OrReduceTree[Paired(ts)] = F[Paired(ts)]
    <3> SUFFICES ASSUME ~(Len(ts) = 1) PROVE OrReduceTree[Paired(ts)] = F[Paired(ts)]
      OBVIOUS
    <3>1. Paired(ts) \in Terms
      BY <1>b, <1>c
    <3> QED BY <1>7, <1>9, <3>1
  <2> HIDE DEF Rec
  <2> QED BY <1>8, <2>1, <2>2
<1> QED BY <1>10

------------------------------------------------------------------------------
\* The depth of a matmul.

\* The larger of two numbers.
LEMMA MaxOfTwo ==
  ASSUME NEW a \in Nat, NEW b \in Nat
  PROVE  /\ Max({a, b}) \in Nat
         /\ Max({a, b}) = IF a <= b THEN b ELSE a
<1>1. Max({a, b}) \in {a, b} /\ \A y \in {a, b} : Max({a, b}) >= y
  <2>1. \E x \in {a, b} : \A y \in {a, b} : x >= y
    OBVIOUS
  <2> QED BY <2>1 DEF Max
<1> QED BY <1>1

\* A power of two is at least one.
LEMMA PowerPositive == \A e \in Nat : Pow2[e] \in Nat /\ Pow2[e] >= 1
<1> DEFINE X == {e \in Nat : Pow2[e] >= 1}
<1>1. 0 \in X
  BY Powers
<1>2. ASSUME NEW k \in Nat, k \in X PROVE k + 1 \in X
  <2>1. Pow2[k + 1] = 2 * Pow2[k] /\ Pow2[k] \in Nat /\ Pow2[k + 1] \in Nat
    BY Powers
  <2> QED BY <1>2, <2>1
<1>3. \A k \in Nat : k \in X
  <2> HIDE DEF X
  <2> QED BY <1>1, <1>2, NatInSet
<1> QED BY <1>3, Powers

\* The next power of two is twice as much.
LEMMA PowerDoubles ==
  ASSUME NEW e \in Nat
  PROVE  /\ e + 1 \in Nat /\ Pow2[e + 1] = 2 * Pow2[e]
         /\ Pow2[e] \in Nat /\ Pow2[e + 1] \in Nat /\ Pow2[e] >= 1
<1>1. e + 1 \in Nat /\ e + 1 # 0 /\ (e + 1) - 1 = e
  OBVIOUS
<1>2. Pow2[e + 1] = 2 * Pow2[(e + 1) - 1]
  BY <1>1, Powers
<1> QED BY <1>1, <1>2, PowerPositive

\* A power of two is halved as often as it has been doubled.
LEMMA HalvingsOfPower == \A e \in Nat : HalvingLevels(Pow2[e]) = e
<1> DEFINE X == {e \in Nat : HalvingLevels(Pow2[e]) = e}
<1>1. 0 \in X
  <2>1. Pow2[0] = 1
    BY Powers
  <2> QED BY <2>1, Halvings
<1>2. ASSUME NEW k \in Nat, k \in X PROVE k + 1 \in X
  <2> DEFINE p == Pow2[k]
  <2>1. Pow2[k + 1] = 2 * p /\ p \in Nat /\ p >= 1 /\ k + 1 \in Nat
    BY PowerDoubles
  <2>2. HalvingLevels(p) = k
    BY <1>2
  <2> HIDE DEF p
  <2>3. 2 * p \in Nat /\ ~(2 * p <= 1) /\ (2 * p + 1) \div 2 = p
    BY <2>1
  <2>4. HalvingLevels(2 * p) = 1 + HalvingLevels((2 * p + 1) \div 2)
    BY <2>3, Halvings
  <2>5. HalvingLevels(Pow2[k + 1]) = k + 1
    BY <2>1, <2>2, <2>3, <2>4
  <2> QED BY <2>1, <2>5
<1>3. \A k \in Nat : k \in X
  <2> HIDE DEF X
  <2> QED BY <1>1, <1>2, NatInSet
<1> QED BY <1>3

\* SumOR of a power of two costs two levels for each doubling of the shift.
LEMMA SumOROfPower ==
  ASSUME NEW d \in Nat
  PROVE  \A e \in Nat : SumORDepth(d, Pow2[e]) = d + 2 * e
<1> DEFINE X == {e \in Nat : SumORDepth(d, Pow2[e]) = d + 2 * e}
<1>1. 0 \in X
  <2>1. Pow2[0] = 1 /\ 1 \in Nat
    BY Powers
  <2>2. SumORDepth(d, 1) = d
    BY SumORLoop
  <2> QED BY <2>1, <2>2
<1>2. ASSUME NEW k \in Nat, k \in X PROVE k + 1 \in X
  <2> DEFINE p == Pow2[k]
  <2>1. Pow2[k + 1] = 2 * p /\ p \in Nat /\ p >= 1 /\ k + 1 \in Nat
    BY PowerDoubles
  <2>2. SumORDepth(d, p) = d + 2 * k
    BY <1>2
  <2> HIDE DEF p
  <2>3. 2 * p \in Nat /\ ~(2 * p <= 1) /\ (2 * p) \div 2 = p
    BY <2>1
  <2>4. SumORDepth(d, 2 * p) = SumORDepth(d, (2 * p) \div 2) + 2
    BY <2>3, SumORLoop
  <2>5. SumORDepth(d, Pow2[k + 1]) = d + 2 * (k + 1)
    BY <2>1, <2>2, <2>3, <2>4
  <2> QED BY <2>1, <2>5
<1>3. \A k \in Nat : k \in X
  <2> HIDE DEF X
  <2> QED BY <1>1, <1>2, NatInSet
<1> QED BY <1>3

\* Terms of one depth e, but for the last, which may be less deep; a single
\* term is not.
EvenTerms(ts, e) == /\ \A k \in 1 .. Len(ts) - 1 : ts[k] = e
                    /\ ts[Len(ts)] <= e
                    /\ Len(ts) = 1 => ts[1] = e

\* A level of the tree makes such terms one deeper.
LEMMA PairedEven ==
  ASSUME NEW ts \in Terms, NEW e \in Nat, Len(ts) # 1, EvenTerms(ts, e)
  PROVE  EvenTerms(Paired(ts), e + 1)
<1> DEFINE L == Len(ts)
           h == (L + 1) \div 2
           us == Paired(ts)
<1>1. /\ us \in Terms /\ Len(us) = h /\ h \in 1 .. L - 1
      /\ \A k \in 1 .. h :
           us[k] = IF 2 * k <= L THEN OrDepth(ts[2 * k - 1], ts[2 * k]) ELSE ts[2 * k - 1]
  BY PairedFacts
<1>2. L \in Nat /\ \A k \in 1 .. L : ts[k] \in Nat
  <2>1. ts \in Seq(Nat)
    BY DEF Terms
  <2> QED BY <2>1
<1>3. /\ \A k \in 1 .. L - 1 : ts[k] = e
      /\ ts[L] <= e
  BY DEF EvenTerms
<1> HIDE DEF us, L
<1>h. L > 1 /\ h \in Nat /\ 2 * h \in L .. L + 1
  BY <1>1, <1>2
<1>4. ASSUME NEW k \in 1 .. h, 2 * k <= L PROVE us[k] = e + 1
  <2>1. k \in Nat /\ 2 * k - 1 \in 1 .. L - 1 /\ 2 * k \in 1 .. L /\ 2 * k - 1 \in 1 .. L
    BY <1>2, <1>4, <1>h
  <2>2. us[k] = OrDepth(ts[2 * k - 1], ts[2 * k])
    BY <1>1, <1>4
  <2>3. ts[2 * k - 1] = e
    BY <1>3, <2>1
  <2>4. ts[2 * k] \in Nat /\ ts[2 * k] <= e
    <3>1. CASE 2 * k = L
      BY <1>2, <1>3, <2>1, <3>1
    <3>2. CASE 2 * k # L
      <4>1. 2 * k \in 1 .. L - 1
        BY <1>2, <2>1, <3>2
      <4> QED BY <1>3, <4>1
    <3> QED BY <3>1, <3>2
  <2>5. OrDepth(e, ts[2 * k]) = (IF e <= ts[2 * k] THEN ts[2 * k] ELSE e) + 1
    BY <2>4, OrDepths
  <2> QED BY <2>2, <2>3, <2>4, <2>5
<1>5. ASSUME NEW k \in 1 .. h - 1 PROVE us[k] = e + 1
  <2>1. k \in 1 .. h /\ 2 * k <= L
    BY <1>2, <1>h
  <2> QED BY <1>4, <2>1
<1>6. us[h] <= e + 1 /\ (h = 1 => us[h] = e + 1)
  <2>1. h \in 1 .. h
    BY <1>1, <1>h
  <2>2. CASE 2 * h <= L
    BY <1>4, <2>1, <2>2
  <2>3. CASE ~(2 * h <= L)
    <3>1. 2 * h - 1 = L /\ h # 1
      BY <1>2, <1>h, <2>3
    <3>2. us[h] = ts[2 * h - 1]
      BY <1>1, <2>1, <2>3
    <3>3. ts[L] \in Nat
      BY <1>2, <1>h
    <3> QED BY <1>3, <3>1, <3>2, <3>3
  <2> QED BY <2>2, <2>3
<1> HIDE DEF h
<1> QED BY <1>1, <1>5, <1>6 DEF EvenTerms, us

\* or_reduce_tree adds one level for each halving of the number of its terms.
LEMMA TreeDepth ==
  ASSUME NEW ts \in Terms, NEW e \in Nat, EvenTerms(ts, e)
  PROVE  OrReduceTree[ts] = e + HalvingLevels(Len(ts))
<1> DEFINE Deep(u, d) == EvenTerms(u, d) => OrReduceTree[u] = d + HalvingLevels(Len(u))
           Bad == {l \in Nat : \E u \in Terms, d \in Nat : Len(u) = l /\ ~Deep(u, d)}
<1>0. ASSUME NEW u \in Terms PROVE Len(u) \in Nat \ {0}
  <2>1. u \in Seq(Nat) /\ u # << >>
    BY DEF Terms
  <2> QED BY <2>1
<1>1. Bad = {}
  <2> SUFFICES ASSUME Bad # {} PROVE FALSE
    OBVIOUS
  <2>1. PICK l \in Bad : \A y \in Bad : ~(y < l)
    <3>1. Bad \subseteq Nat
      OBVIOUS
    <3> HIDE DEF Bad
    <3> QED BY <3>1, LeastNat
  <2>2. PICK u \in Terms, d \in Nat : Len(u) = l /\ EvenTerms(u, d) /\ OrReduceTree[u] # d + HalvingLevels(l)
    BY <2>1
  <2>3. l \in Nat /\ l # 0
    BY <1>0, <2>2
  <2>4. CASE l = 1
    <3>1. OrReduceTree[u] = u[1] /\ u[1] = d
      BY <2>2, <2>4, Reductions DEF EvenTerms
    <3>2. HalvingLevels(1) = 0
      BY Halvings
    <3> QED BY <2>2, <2>4, <3>1, <3>2
  <2>5. CASE l # 1
    <3> DEFINE w == Paired(u)
               h == (l + 1) \div 2
    <3>1. OrReduceTree[u] = OrReduceTree[w]
      BY <2>2, <2>5, Reductions
    <3>2. w \in Terms /\ Len(w) = h /\ h \in 1 .. l - 1
      BY <2>2, <2>5, PairedFacts
    <3>3. EvenTerms(w, d + 1) /\ d + 1 \in Nat
      <4>1. u \in Terms /\ d \in Nat /\ Len(u) # 1 /\ EvenTerms(u, d)
        BY <2>2, <2>5
      <4>2. EvenTerms(Paired(u), d + 1)
        BY <4>1, PairedEven, Zenon
      <4> QED BY <4>1, <4>2
    <3>4. h \in Nat /\ h < l
      BY <2>3, <3>2
    <3>5. HalvingLevels(l) = 1 + HalvingLevels(h) /\ HalvingLevels(h) \in Nat
      BY <2>3, <2>5, <3>4, Halvings
    <3> HIDE DEF w, h
    <3>6. Deep(w, d + 1)
      BY <2>1, <3>2, <3>3, <3>4
    <3> QED BY <2>2, <3>1, <3>2, <3>3, <3>5, <3>6
  <2> QED BY <2>4, <2>5
<1> QED BY <1>0, <1>1

\* The tree of the dim terms of an entry of a product.
LEMMA TermsDepth ==
  ASSUME NEW d \in Nat, NEW dim \in Nat \ {0}
  PROVE  OrReduceTree[TermsOf(d, dim)] = d + HalvingLevels(dim)
<1> DEFINE ts == TermsOf(d, dim)
<1>1. ts \in Seq(Nat) /\ Len(ts) = dim /\ ts # << >> /\ \A k \in 1 .. dim : ts[k] = d
  BY DEF TermsOf
<1>2. ts \in Terms
  BY <1>1 DEF Terms
<1> HIDE DEF ts
<1>3. EvenTerms(ts, d)
  BY <1>1 DEF EvenTerms
<1>4. OrReduceTree[ts] = d + HalvingLevels(Len(ts))
  BY <1>2, <1>3, TreeDepth
<1> QED BY <1>1, <1>4 DEF ts

\* The backends that have levels to spend.
Levelled == {"bgv", "dghv", "rowcol", "batched"}

\* One matmul adds exactly the levels that the formulas charge for it, whatever
\* the dimension and however deep its operands are.
THEOREM MatMulIsFormula ==
  ASSUME NEW b \in Levelled, NEW dim \in Nat \ {0},
         NEW x \in Nat, NEW y \in Nat, b = "rowcol" => IsPowerOfTwo(dim)
  PROVE  /\ FormulaMatMulDepth(b, dim) \in Nat \ {0}
         /\ MatMulDepth(b, dim, x, y) = Max({x, y}) + FormulaMatMulDepth(b, dim)
<1> DEFINE H == HalvingLevels(dim)
<1>1. H \in Nat
  BY Halvings
<1>2. Max({x, y}) \in Nat /\ AndDepth(x, y) = Max({x, y}) + 1 /\ AndDepth(x, y) \in Nat
  BY MaxOfTwo DEF AndDepth
<1>3. CASE b \in {"bgv", "dghv"}
  <2>1. MatMulDepth(b, dim, x, y) = OrReduceTree[TermsOf(AndDepth(x, y), dim)]
    BY <1>3 DEF MatMulDepth
  <2>2. OrReduceTree[TermsOf(AndDepth(x, y), dim)] = AndDepth(x, y) + H
    BY <1>2, TermsDepth
  <2>3. FormulaMatMulDepth(b, dim) = 1 + H
    BY <1>3 DEF FormulaMatMulDepth
  <2> QED BY <1>1, <1>2, <2>1, <2>2, <2>3
<1>4. CASE b = "batched"
  <2> DEFINE c == MaskDepth(MaskDepth(x))
             r == MaskDepth(MaskDepth(y))
  <2>1. MatMulDepth(b, dim, x, y) = OrReduceTree[TermsOf(AndDepth(c, r), dim)]
    BY <1>4 DEF MatMulDepth
  <2>2. AndDepth(c, r) = Max({x, y}) + 3 /\ AndDepth(c, r) \in Nat
    <3>1. c = x + 2 /\ r = y + 2 /\ c \in Nat /\ r \in Nat
      BY DEF MaskDepth
    <3> HIDE DEF c, r
    <3>2. Max({c, r}) = IF c <= r THEN r ELSE c
      BY <3>1, MaxOfTwo
    <3>3. Max({x, y}) = IF x <= y THEN y ELSE x
      BY MaxOfTwo
    <3>4. Max({c, r}) = Max({x, y}) + 2
      BY <3>1, <3>2, <3>3
    <3> QED BY <1>2, <3>4 DEF AndDepth
  <2>3. OrReduceTree[TermsOf(AndDepth(c, r), dim)] = AndDepth(c, r) + H
    BY <2>2, TermsDepth
  <2>4. FormulaMatMulDepth(b, dim) = 3 + H
    BY <1>4 DEF FormulaMatMulDepth
  <2> HIDE DEF c, r
  <2> QED BY <1>1, <1>2, <2>1, <2>2, <2>3, <2>4
<1>5. CASE b = "rowcol"
  <2>1. MatMulDepth(b, dim, x, y) = SumORDepth(AndDepth(x, y), dim) + 1
    BY <1>5 DEF MatMulDepth, MaskDepth
  <2>2. PICK k \in 0 .. dim : dim = Pow2[k]
    BY <1>5 DEF IsPowerOfTwo
  <2>3. k \in Nat /\ H = k
    BY <2>2, HalvingsOfPower
  <2>4. SumORDepth(AndDepth(x, y), dim) = AndDepth(x, y) + 2 * k
    BY <1>2, <2>2, <2>3, SumOROfPower
  <2>5. FormulaMatMulDepth(b, dim) = 2 + 2 * H
    BY <1>5 DEF FormulaMatMulDepth
  <2> HIDE DEF H
  <2> QED BY <1>1, <1>2, <2>1, <2>3, <2>4, <2>5
<1> QED BY <1>3, <1>4, <1>5 DEF Levelled

------------------------------------------------------------------------------
\* What a level of the recursion costs.

\* Multiplication by a natural number is monotonic.
LEMMA TimesMonotonic ==
  ASSUME NEW a \in Nat, NEW b \in Nat, NEW c \in Nat, a <= b
  PROVE  c * a <= c * b /\ c * a \in Nat /\ c * b \in Nat
<1> DEFINE d == b - a
<1>1. d \in Nat /\ b = a + d
  OBVIOUS
<1> HIDE DEF d
<1>2. c * b = c * a + c * d /\ c * d \in Nat /\ c * a \in Nat
  BY <1>1
<1> QED BY <1>2

\* Powers of two multiply by adding their exponents.
LEMMA PowerOfSum ==
  ASSUME NEW a \in Nat
  PROVE  \A b \in Nat : Pow2[a + b] = Pow2[a] * Pow2[b]
<1> DEFINE X == {b \in Nat : Pow2[a + b] = Pow2[a] * Pow2[b]}
<1>1. 0 \in X
  <2>1. Pow2[0] = 1 /\ Pow2[a] \in Nat /\ a + 0 = a
    BY Powers
  <2> QED BY <2>1
<1>2. ASSUME NEW k \in Nat, k \in X PROVE k + 1 \in X
  <2> DEFINE p == Pow2[a]
             q == Pow2[k]
  <2>1. Pow2[k + 1] = 2 * q /\ q \in Nat /\ p \in Nat
    BY PowerDoubles
  <2>2. a + k \in Nat /\ (a + k) + 1 = a + (k + 1)
    OBVIOUS
  <2>3. Pow2[a + (k + 1)] = 2 * Pow2[a + k]
    BY <2>2, PowerDoubles
  <2>4. Pow2[a + k] = p * q
    BY <1>2
  <2> HIDE DEF p, q
  <2>5. 2 * (p * q) = p * (2 * q)
    BY <2>1
  <2>6. Pow2[a + (k + 1)] = p * Pow2[k + 1]
    BY <2>1, <2>3, <2>4, <2>5
  <2> QED BY <2>6 DEF p
<1>3. \A k \in Nat : k \in X
  <2> HIDE DEF X
  <2> QED BY <1>1, <1>2, NatInSet
<1> QED BY <1>3

\* Powers of two grow with their exponent.
LEMMA PowerMonotonic ==
  ASSUME NEW a \in Nat, NEW b \in Nat, a <= b
  PROVE  Pow2[a] <= Pow2[b] /\ Pow2[a] \in Nat /\ Pow2[b] \in Nat
<1> DEFINE d == b - a
<1>1. d \in Nat /\ b = a + d
  OBVIOUS
<1> HIDE DEF d
<1>2. Pow2[b] = Pow2[a] * Pow2[d] /\ Pow2[d] >= 1 /\ Pow2[d] \in Nat /\ Pow2[a] \in Nat
  BY <1>1, PowerOfSum, PowerPositive
<1>3. Pow2[a] * 1 <= Pow2[a] * Pow2[d]
  BY <1>2, TimesMonotonic
<1> QED BY <1>2, <1>3

\* A dimension is at most the power of two with as many halvings.
LEMMA HalvingsBound == \A r \in Nat : r <= Pow2[HalvingLevels(r)]
<1> DEFINE Bad == {r \in Nat : ~(r <= Pow2[HalvingLevels(r)])}
<1> SUFFICES ASSUME Bad # {} PROVE FALSE
  OBVIOUS
<1>1. Bad \subseteq Nat
  OBVIOUS
<1>2. PICK r \in Bad : \A y \in Bad : ~(y < r)
  <2> HIDE DEF Bad
  <2> QED BY <1>1, LeastNat
<1>3. r \in Nat /\ ~(r <= Pow2[HalvingLevels(r)])
  BY <1>2
<1>4. CASE r <= 1
  <2>1. HalvingLevels(r) = 0 /\ Pow2[0] = 1
    BY <1>3, <1>4, Halvings, Powers
  <2> QED BY <1>3, <1>4, <2>1
<1>5. CASE ~(r <= 1)
  <2> DEFINE h == (r + 1) \div 2
  <2>1. h \in Nat /\ h < r /\ r <= 2 * h
    BY <1>3, <1>5
  <2> DEFINE e == HalvingLevels(h)
  <2>2. HalvingLevels(r) = 1 + e /\ e \in Nat
    BY <1>3, <1>5, <2>1, Halvings
  <2>3. h <= Pow2[e]
    BY <1>2, <2>1
  <2> HIDE DEF e, h
  <2>4. Pow2[e + 1] = 2 * Pow2[e] /\ Pow2[e] \in Nat
    BY <2>2, PowerDoubles
  <2>5. r <= Pow2[1 + e]
    BY <1>3, <2>1, <2>2, <2>3, <2>4
  <2> QED BY <1>3, <2>2, <2>5
<1> QED BY <1>4, <1>5

\* The callee's T is smaller, and one level below.
LEMMA CalleeIsBelow ==
  ASSUME NEW t \in Nat, t > 1
  PROVE  /\ Callee(t) \in 1 .. t - 1
         /\ RecursionLevels(Callee(t)) \in Nat
         /\ RecursionLevels(t) = RecursionLevels(Callee(t)) + 1
<1>1. Callee(t) \in 1 .. t - 1
  BY DEF Callee
<1>2. Callee(t) \in Nat
  BY <1>1
<1>3. RecursionLevels(Callee(t)) \in Nat
  BY <1>2, Levels
<1>4. RecursionLevels(t) = 1 + RecursionLevels(Callee(t))
  BY Levels
<1> QED BY <1>1, <1>3, <1>4

\* What a matmul and a level of the recursion are charged.
LEMMA EstimateIsCost ==
  ASSUME NEW b \in Levelled, NEW dim \in Nat \ {0}, NEW t \in Nat
  PROVE  /\ FormulaMatMulDepth(b, dim) \in Nat
         /\ RecursionLevels(t) * (FormulaMatMulDepth(b, dim) + 1) \in Nat
         /\ Estimate(b, dim, t) \in Nat
         /\ RecursionLevels(t) * (FormulaMatMulDepth(b, dim) + 1) <= Estimate(b, dim, t)
         /\ b = "dghv" => /\ Estimate(b, dim, t) = RecursionLevels(t) * (FormulaMatMulDepth(b, dim) + 1)
                          /\ FormulaMatMulDepth(b, dim) = HalvingLevels(dim) + 1
<1>1. HalvingLevels(dim) \in Nat /\ RecursionLevels(t) \in Nat
  BY Halvings, Levels
<1>2. FormulaMatMulDepth(b, dim) \in Nat
      /\ (b = "dghv" => FormulaMatMulDepth(b, dim) = HalvingLevels(dim) + 1)
  BY <1>1 DEF FormulaMatMulDepth, Levelled
<1> DEFINE levels == RecursionLevels(t) * (FormulaMatMulDepth(b, dim) + 1)
<1>3. levels \in Nat
  BY <1>1, <1>2
<1>4. Estimate(b, dim, t) = IF b \in {"bgv", "dghv"} THEN levels ELSE Max({1, levels})
  BY DEF Estimate
<1> HIDE DEF levels
<1>5. Max({1, levels}) \in Nat /\ levels <= Max({1, levels})
  BY <1>3, MaxOfTwo
<1>6. Estimate(b, dim, t) \in Nat /\ levels <= Estimate(b, dim, t)
      /\ (b = "dghv" => Estimate(b, dim, t) = levels)
  BY <1>3, <1>4, <1>5
<1> QED BY <1>2, <1>3, <1>6 DEF levels

\* A level of the recursion deepens the pair by what it is charged.
LEMMA StepDepth ==
  ASSUME NEW b \in Levelled, NEW dim \in Nat \ {0},
         b = "rowcol" => IsPowerOfTwo(dim),
         NEW s \in Nat, NEW p \in Nat, NEW bound \in Nat, s <= bound, p <= bound,
         NEW q \in {p, 0, s}
  PROVE  /\ MatMulDepth(b, dim, p, q) \in Nat
         /\ OrDepth(s, MatMulDepth(b, dim, p, q)) \in Nat
         /\ MatMulDepth(b, dim, p, q) <= bound + (FormulaMatMulDepth(b, dim) + 1)
         /\ OrDepth(s, MatMulDepth(b, dim, p, q)) <= bound + (FormulaMatMulDepth(b, dim) + 1)
<1> DEFINE F == FormulaMatMulDepth(b, dim)
           M == MatMulDepth(b, dim, p, q)
<1>1. q \in Nat /\ q <= bound
  OBVIOUS
<1>2. F \in Nat /\ M = Max({p, q}) + F
  <2>1. q \in Nat /\ dim \in Nat \ {0} /\ p \in Nat
    BY <1>1
  <2>2. FormulaMatMulDepth(b, dim) \in Nat \ {0}
        /\ MatMulDepth(b, dim, p, q) = Max({p, q}) + FormulaMatMulDepth(b, dim)
    BY <2>1, MatMulIsFormula, Zenon
  <2> QED BY <2>2
<1>3. Max({p, q}) \in Nat /\ Max({p, q}) <= bound
  BY <1>1, MaxOfTwo
<1> HIDE DEF F, M
<1>4. M \in Nat /\ M <= bound + F
  BY <1>2, <1>3
<1>5. OrDepth(s, M) \in Nat /\ OrDepth(s, M) = (IF s <= M THEN M ELSE s) + 1
  BY <1>4, OrDepths
<1>6. OrDepth(s, M) <= bound + (F + 1)
  BY <1>2, <1>4, <1>5
<1>7. M <= bound + (F + 1)
  BY <1>2, <1>4
<1> QED BY <1>4, <1>5, <1>6, <1>7 DEF F, M

\* And makes its noise exponent at most so many times larger.
LEMMA StepNoise ==
  ASSUME NEW dim \in Nat \ {0}, NEW e \in Nat,
         NEW s \in Nat \ {0}, NEW p \in Nat \ {0}, s <= Pow2[e], p <= Pow2[e],
         NEW q \in {p, s, FreshNoise}
  PROVE  /\ MatMulNoise(dim, p, q) \in Nat \ {0}
         /\ OrNoise(s, MatMulNoise(dim, p, q)) \in Nat \ {0}
         /\ MatMulNoise(dim, p, q) <= Pow2[e + (HalvingLevels(dim) + 2)]
         /\ OrNoise(s, MatMulNoise(dim, p, q)) <= Pow2[e + (HalvingLevels(dim) + 2)]
<1> DEFINE P == Pow2[e]
           H == HalvingLevels(dim)
           Q == Pow2[H]
           M == MatMulNoise(dim, p, q)
<1>1. P \in Nat /\ P >= 1 /\ H \in Nat /\ Q \in Nat /\ dim <= Q
  BY PowerPositive, Halvings, HalvingsBound
<1>2. q \in Nat \ {0} /\ q <= P
  BY <1>1 DEF FreshNoise
<1>3. Pow2[H + 2] = 4 * Q /\ H + 2 \in Nat
  <2>1. Pow2[H + 1] = 2 * Q /\ H + 1 \in Nat
    BY <1>1, PowerDoubles
  <2>2. Pow2[(H + 1) + 1] = 2 * Pow2[H + 1] /\ (H + 1) + 1 = H + 2
    BY <1>1, <2>1, PowerDoubles
  <2> HIDE DEF H
  <2> QED BY <1>1, <2>1, <2>2
<1>4. Pow2[e + (H + 2)] = P * (4 * Q)
  <2>1. \A k \in Nat : Pow2[e + k] = Pow2[e] * Pow2[k]
    BY PowerOfSum
  <2> HIDE DEF H, Q
  <2> QED BY <1>3, <2>1
<1>5. M = dim * (p + q)
  BY DEF MatMulNoise, AndNoise
<1>6. s <= P /\ p <= P
  OBVIOUS
<1> HIDE DEF P, H, Q, M
<1>7. M <= dim * (2 * P) /\ M \in Nat
  <2>1. p + q \in Nat /\ 2 * P \in Nat /\ p + q <= 2 * P
    BY <1>1, <1>2, <1>6
  <2> HIDE DEF MatMulNoise
  <2> QED BY <1>5, <2>1, TimesMonotonic
<1>8. M # 0
  <2>1. dim * 1 <= dim * (p + q)
    <3>1. 1 <= p + q /\ p + q \in Nat /\ 1 \in Nat /\ dim \in Nat
      BY <1>2
    <3> QED BY <3>1, TimesMonotonic
  <2> QED BY <1>5, <2>1
<1>9. P + dim * (2 * P) <= P * (4 * Q)
  <2>1. 1 + 2 * dim <= 4 * Q /\ 1 + 2 * dim \in Nat /\ 4 * Q \in Nat
    BY <1>1
  <2>2. P * (1 + 2 * dim) <= P * (4 * Q)
    BY <1>1, <2>1, TimesMonotonic
  <2>3. P * (1 + 2 * dim) = P + dim * (2 * P)
    BY <1>1
  <2> QED BY <2>2, <2>3
<1>10. OrNoise(s, M) = s + M
  BY DEF OrNoise
<1>11. P * (4 * Q) \in Nat /\ dim * (2 * P) \in Nat
  BY <1>1
<1>12. M <= Pow2[e + (H + 2)] /\ s + M <= Pow2[e + (H + 2)]
  <2> DEFINE U == P * (4 * Q)
             W == dim * (2 * P)
  <2>1. U \in Nat /\ W \in Nat /\ P + W <= U /\ M <= W /\ M \in Nat /\ s <= P /\ P \in Nat
    BY <1>1, <1>6, <1>7, <1>9, <1>11
  <2> HIDE DEF U, W
  <2>2. M <= U /\ s + M <= U
    BY <2>1
  <2> QED BY <1>4, <2>2 DEF U
<1>13. M \in Nat \ {0} /\ s + M \in Nat \ {0}
  BY <1>7, <1>8
<1> QED BY <1>10, <1>12, <1>13 DEF M, H

------------------------------------------------------------------------------
\* What a DGHV key supports.

\* The noise bits after d levels, in closed form.
LEMMA BitsClosedForm ==
  ASSUME NEW rho \in Nat
  PROVE  \A d \in Nat : noise_bits_after_depth(rho, d) + 2 = Pow2[d] * (rho + 2)
<1> DEFINE X == {d \in Nat : noise_bits_after_depth(rho, d) + 2 = Pow2[d] * (rho + 2)}
<1>1. 0 \in X
  <2>1. Pow2[0] = 1 /\ noise_bits_after_depth(rho, 0) = rho
    BY Powers, Bits
  <2> QED BY <2>1
<1>2. ASSUME NEW k \in Nat, k \in X PROVE k + 1 \in X
  <2> DEFINE p == Pow2[k]
             b == noise_bits_after_depth(rho, k)
  <2>1. Pow2[k + 1] = 2 * p /\ p \in Nat
    BY PowerDoubles
  <2>2. k + 1 \in Nat /\ k + 1 # 0 /\ (k + 1) - 1 = k
    OBVIOUS
  <2>3. noise_bits_after_depth(rho, k + 1) = 2 * noise_bits_after_depth(rho, (k + 1) - 1) + 2
    BY <2>2, Bits
  <2>4. noise_bits_after_depth(rho, k + 1) = 2 * b + 2 /\ b \in Nat
    BY <2>2, <2>3, Bits
  <2>5. b + 2 = p * (rho + 2)
    BY <1>2
  <2> HIDE DEF p, b
  <2>6. 2 * (b + 2) = (2 * p) * (rho + 2)
    BY <2>1, <2>5
  <2>7. noise_bits_after_depth(rho, k + 1) + 2 = Pow2[k + 1] * (rho + 2)
    BY <2>1, <2>4, <2>6
  <2> QED BY <2>2, <2>7
<1>3. \A k \in Nat : k \in X
  <2> HIDE DEF X
  <2> QED BY <1>1, <1>2, NatInSet
<1> QED BY <1>3

\* Every level adds a bit at least.
LEMMA BitsAtLeast ==
  ASSUME NEW rho \in Nat
  PROVE  \A d \in Nat : noise_bits_after_depth(rho, d) >= d
<1> DEFINE X == {d \in Nat : noise_bits_after_depth(rho, d) >= d}
<1>1. 0 \in X
  BY Bits
<1>2. ASSUME NEW k \in Nat, k \in X PROVE k + 1 \in X
  <2>1. k + 1 \in Nat /\ k + 1 # 0 /\ (k + 1) - 1 = k
    OBVIOUS
  <2>2. noise_bits_after_depth(rho, k + 1) = 2 * noise_bits_after_depth(rho, (k + 1) - 1) + 2
    BY <2>1, Bits
  <2>3. noise_bits_after_depth(rho, k) \in Nat
    BY Bits
  <2> QED BY <1>2, <2>1, <2>2, <2>3
<1>3. \A k \in Nat : k \in X
  <2> HIDE DEF X
  <2> QED BY <1>1, <1>2, NatInSet
<1> QED BY <1>3

\* A depth that max_supported_depth allows leaves room for its noise.
LEMMA SupportedDepth ==
  ASSUME NEW eta \in Nat, NEW rho \in Nat
  PROVE  \A d \in Nat : d >= 1 /\ d <= max_supported_depth(eta, rho) => noise_bits_after_depth(rho, d) < eta - 1
<1> DEFINE Rec(g) == [depth \in Nat |->
                        IF noise_bits_after_depth(rho, depth + 1) < eta - 1 THEN g[depth + 1] ELSE depth]
           H == CHOOSE g : g = Rec(g)
           B == {depth \in Nat : ~(noise_bits_after_depth(rho, depth + 1) < eta - 1)}
           base == [depth \in B |-> depth]
           next == [depth \in Nat \ B |-> depth + 1]
           comb == [depth \in Nat \ B |-> [v \in Nat |-> v]]
           m == [depth \in Nat |-> (IF depth < eta THEN eta - (depth) ELSE 0)]
<1>0. max_supported_depth(eta, rho) = H[0]
  BY Zenon DEF max_supported_depth
<1>1. ASSUME NEW depth \in Nat
      PROVE  /\ depth \in B <=> ~(noise_bits_after_depth(rho, depth + 1) < eta - 1)
             /\ depth \in B => depth \in Nat
             /\ depth \notin B => depth + 1 \in Nat /\ (IF depth + 1 < eta THEN eta - (depth + 1) ELSE 0) < (IF depth < eta THEN eta - (depth) ELSE 0)
             /\ (IF depth < eta THEN eta - (depth) ELSE 0) \in Nat
  <2>1. depth + 1 \in Nat
    OBVIOUS
  <2>2. noise_bits_after_depth(rho, depth + 1) \in Nat /\ noise_bits_after_depth(rho, depth + 1) >= depth + 1
    BY <2>1, Bits, BitsAtLeast
  <2> QED BY <2>1, <2>2
<1>a. \A depth \in Nat : /\ depth \in B <=> ~(noise_bits_after_depth(rho, depth + 1) < eta - 1)
                         /\ depth \in B => depth \in Nat
                         /\ depth \notin B => depth + 1 \in Nat /\ (IF depth + 1 < eta THEN eta - (depth + 1) ELSE 0) < (IF depth < eta THEN eta - (depth) ELSE 0)
                         /\ (IF depth < eta THEN eta - (depth) ELSE 0) \in Nat
  BY <1>1
<1>b. ASSUME NEW depth \in Nat \ B PROVE depth + 1 \in Nat /\ (IF depth + 1 < eta THEN eta - (depth + 1) ELSE 0) < (IF depth < eta THEN eta - (depth) ELSE 0)
  <2>1. depth \in Nat /\ depth \notin B
    OBVIOUS
  <2> HIDE DEF B
  <2> QED BY <1>1, <2>1
<1>d. ASSUME NEW depth \in B PROVE depth \in Nat
  <2>1. depth \in Nat /\ depth \in B
    OBVIOUS
  <2> HIDE DEF B
  <2> QED BY <1>1, <2>1
<1>c. ASSUME NEW depth \in Nat, ~(~(noise_bits_after_depth(rho, depth + 1) < eta - 1)) PROVE depth \in Nat \ B
  BY <1>c
<1>2. Recurses(Nat, Nat, B, base, next, comb, m)
  <2>1. B \subseteq Nat
    OBVIOUS
  <2> HIDE DEF B
  <2>2. base \in [B -> Nat]
    BY <1>d
  <2>3. comb \in [Nat \ B -> [Nat -> Nat]]
    <3>1. \A depth \in Nat \ B : \A v \in Nat : v \in Nat
      OBVIOUS
    <3> QED BY <3>1
  <2>4. m \in [Nat -> Nat]
    BY <1>a
  <2>5. next \in [Nat \ B -> Nat] /\ \A x \in Nat \ B : m[next[x]] < m[x]
    <3>1. ASSUME NEW depth \in Nat \ B PROVE depth + 1 \in Nat /\ (IF depth + 1 < eta THEN eta - (depth + 1) ELSE 0) < (IF depth < eta THEN eta - (depth) ELSE 0)
      BY <1>b
    <3>2. next \in [Nat \ B -> Nat]
      BY <3>1
    <3>3. ASSUME NEW depth \in Nat \ B PROVE m[next[depth]] < m[depth]
      <4>1. next[depth] = depth + 1 /\ m[depth + 1] = (IF depth + 1 < eta THEN eta - (depth + 1) ELSE 0) /\ m[depth] = (IF depth < eta THEN eta - (depth) ELSE 0)
        BY <3>1
      <4> QED BY <3>1, <4>1
    <3> QED BY <3>2, <3>3
  <2> HIDE DEF base, next, comb, m
  <2> QED BY <2>1, <2>2, <2>3, <2>4, <2>5 DEF Recurses
<1>3. PICK F : Defines(F, Nat, Nat, B, base, next, comb)
  <2> HIDE DEF B, base, next, comb, m
  <2> QED BY <1>2, Recursion, Zenon
<1>4. F \in [Nat -> Nat]
  BY <1>3 DEF Defines
<1>5. ASSUME NEW depth \in Nat
      PROVE  F[depth] = IF noise_bits_after_depth(rho, depth + 1) < eta - 1 THEN F[depth + 1] ELSE depth
  <2>1. CASE depth \in B
    BY <1>a, <1>3, <2>1 DEF Defines
  <2>2. CASE depth \in Nat \ B
    <3>1. F[depth] = comb[depth][F[next[depth]]] /\ next[depth] = depth + 1 /\ F[depth + 1] \in Nat
      <4>1. depth + 1 \in Nat /\ next[depth] = depth + 1
        BY <1>b, <2>2
      <4>2. F[depth] = comb[depth][F[next[depth]]]
        BY <1>3, <2>2 DEF Defines
      <4> QED BY <1>4, <4>1, <4>2
    <3>2. comb[depth][F[depth + 1]] = F[depth + 1]
      BY <2>2, <3>1
    <3> QED BY <1>a, <2>2, <3>1, <3>2
  <2> QED BY <2>1, <2>2
<1>6. H = Rec(H)
  <2>1. F = Rec(F)
    BY <1>4, <1>5
  <2> HIDE DEF Rec
  <2> QED BY <2>1, Zenon
<1>7. \A x \in Nat : H[x] = F[x]
  <2>1. \A depth \in Nat :
          H[depth] = IF noise_bits_after_depth(rho, depth + 1) < eta - 1 THEN H[depth + 1] ELSE depth
    <3> HIDE DEF H
    <3> QED BY <1>6
  <2>2. (\A x \in B : H[x] = base[x])
        /\ \A x \in Nat \ B : H[next[x]] \in Nat => H[x] = comb[x][H[next[x]]]
    <3> HIDE DEF H
    <3> QED BY <1>a, <2>1
  <2> HIDE DEF H, B, base, next, comb
  <2> QED BY <1>3, <2>2 DEF Defines
<1>8. \A depth \in Nat :
        /\ F[depth] \in Nat
        /\ F[depth] = IF noise_bits_after_depth(rho, depth + 1) < eta - 1 THEN F[depth + 1] ELSE depth
  BY <1>4, <1>5
<1>9. \A depth \in Nat : H[depth] = H[depth]
  OBVIOUS
<1> HIDE DEF H, B, base, next, comb, m
<1>10. ASSUME NEW depth \in Nat
       PROVE  /\ H[depth] \in Nat
              /\ H[depth] = IF noise_bits_after_depth(rho, depth + 1) < eta - 1 THEN H[depth + 1] ELSE depth
  <2>1. H[depth] = F[depth]
    BY <1>7, <1>9
  <2>2. ~(~(noise_bits_after_depth(rho, depth + 1) < eta - 1)) => H[depth + 1] = F[depth + 1]
    <3> SUFFICES ASSUME ~(~(noise_bits_after_depth(rho, depth + 1) < eta - 1)) PROVE H[depth + 1] = F[depth + 1]
      OBVIOUS
    <3>1. depth + 1 \in Nat
      BY <1>b, <1>c
    <3> QED BY <1>7, <1>9, <3>1
  <2> HIDE DEF Rec
  <2> QED BY <1>8, <2>1, <2>2
<1> DEFINE fits(d)   == noise_bits_after_depth(rho, d) < eta - 1
           left(d)   == IF d < eta THEN eta - (d) ELSE 0
           Room(x)   == x <= H[x] /\ \A d \in x + 1 .. H[x] : fits(d)
           Bad       == {x \in Nat : ~Room(x)}
           Lefts     == {left(x) : x \in Bad}
<1>r. ASSUME NEW x \in Nat
      PROVE  /\ H[x] \in Nat /\ x + 1 \in Nat
             /\ fits(x + 1) => H[x] = H[x + 1] /\ left(x + 1) < left(x)
             /\ ~fits(x + 1) => H[x] = x
             /\ left(x) \in Nat
  <2>1. H[x] \in Nat /\ H[x] = IF fits(x + 1) THEN H[x + 1] ELSE x
    BY <1>10
  <2>2. fits(x + 1) => left(x + 1) < left(x)
    BY <1>1
  <2> QED BY <2>1, <2>2
<1>11. Bad = {}
  <2> SUFFICES ASSUME Bad # {} PROVE FALSE
    OBVIOUS
  <2>1. Lefts \subseteq Nat /\ Lefts # {}
    <3>1. \A x \in Bad : left(x) \in Nat
      BY <1>r
    <3> HIDE DEF Bad, left
    <3> QED BY <3>1
  <2>2. PICK l \in Lefts : \A y \in Lefts : ~(y < l)
    <3> HIDE DEF Lefts
    <3> QED BY <2>1, LeastNat
  <2>3. PICK x \in Bad : left(x) = l
    OBVIOUS
  <2>4. x \in Nat /\ ~Room(x)
    BY <2>3
  <2>5. CASE ~fits(x + 1)
    <3>1. H[x] = x
      BY <1>r, <2>4, <2>5
    <3> QED BY <2>4, <3>1
  <2>6. CASE fits(x + 1)
    <3>1. H[x] = H[x + 1] /\ left(x + 1) < left(x) /\ H[x] \in Nat /\ x + 1 \in Nat
      BY <1>r, <2>4, <2>6
    <3>2. Room(x + 1)
      <4>1. x + 1 \notin Bad
        <5>1. x + 1 \in Bad => left(x + 1) \in Lefts
          OBVIOUS
        <5> HIDE DEF Bad, Lefts, left
        <5> QED BY <2>2, <2>3, <3>1, <5>1
      <4> QED BY <3>1, <4>1
    <3>3. ASSUME NEW d \in x + 1 .. H[x] PROVE fits(d)
      <4>1. CASE d = x + 1
        BY <2>6, <4>1
      <4>2. CASE d # x + 1
        <5>1. d \in (x + 1) + 1 .. H[x + 1]
          BY <2>4, <3>1, <4>2
        <5> HIDE DEF fits
        <5> QED BY <3>2, <5>1
      <4> QED BY <4>1, <4>2
    <3>4. x <= H[x]
      BY <2>4, <3>1, <3>2
    <3> QED BY <2>4, <3>3, <3>4
  <2> QED BY <2>5, <2>6
<1>12. Room(0)
  BY <1>11
<1>13. H[0] \in Nat
  BY <1>r
<1>14. ASSUME NEW d \in Nat, d >= 1, d <= H[0] PROVE fits(d)
  <2>1. d \in 0 + 1 .. H[0]
    BY <1>13, <1>14
  <2> HIDE DEF fits
  <2> QED BY <1>12, <2>1
<1> QED BY <1>0, <1>14

\* The arithmetic of require_depth: noise of at most 2 ^ d fits into a key that
\* supports d levels, from two levels on.
LEMMA SupportedNoise ==
  ASSUME NEW eta \in Nat, NEW rho \in Nat, NEW d \in Nat, d >= 2,
         d <= max_supported_depth(eta, rho), NEW noise \in Nat, noise <= Pow2[d]
  PROVE  noise * (3 * rho + 4) <= 3 * (eta - 2)
<1> DEFINE p == Pow2[d]
           b == noise_bits_after_depth(rho, d)
<1>1. b < eta - 1 /\ b \in Nat
  BY SupportedDepth, Bits
<1>2. b + 2 = p * (rho + 2)
  BY BitsClosedForm
<1>3. p >= 4 /\ p \in Nat
  <2>1. 2 \in Nat /\ 1 \in Nat /\ 0 \in Nat /\ 0 + 1 = 1 /\ 1 + 1 = 2
    OBVIOUS
  <2>2. Pow2[0] = 1
    BY Powers
  <2>3. Pow2[1] = 2 * Pow2[0] /\ Pow2[2] = 2 * Pow2[1]
    BY <2>1, PowerDoubles
  <2>4. Pow2[2] <= Pow2[d] /\ Pow2[d] \in Nat
    BY <2>1, PowerMonotonic
  <2> QED BY <2>2, <2>3, <2>4
<1>4. noise <= p
  OBVIOUS
<1> HIDE DEF p, b
<1>5. (3 * rho + 4) * noise <= (3 * rho + 4) * p
  <2>1. 3 * rho + 4 \in Nat
    OBVIOUS
  <2> QED BY <1>3, <1>4, <2>1, TimesMonotonic
<1>6. (3 * rho + 4) * p = 3 * (p * (rho + 2)) - 2 * p
  BY <1>3
<1>7. (3 * rho + 4) * noise = noise * (3 * rho + 4) /\ (3 * rho + 4) * noise \in Nat
  OBVIOUS
<1>8. 3 * (b + 2) - 2 * p <= 3 * (eta - 2)
  BY <1>1, <1>3
<1> DEFINE u == (3 * rho + 4) * noise
           w == p * (rho + 2)
<1>9. u \in Int /\ w \in Int /\ u <= 3 * w - 2 * p /\ b + 2 = w
  BY <1>2, <1>3, <1>5, <1>6, <1>7
<1>10. noise * (3 * rho + 4) = u
  BY <1>7
<1> HIDE DEF u, w
<1> QED BY <1>1, <1>3, <1>8, <1>9, <1>10

------------------------------------------------------------------------------
\* The inductive invariant.

\* What a level of the recursion is charged.
Cost == FormulaMatMulDepth(backend, n) + 1

\* The part of TypeOK that is not the database's.
ClosureTypeOK ==
  /\ backend \in Backends
  /\ n \in 1 .. MaxN /\ T \in 1 .. MaxT /\ arg \in 1 .. MaxT
  /\ budget \in Nat /\ slots \in Nat
  /\ frames \in Seq(2 .. MaxT)
  /\ phase \in {"setup", "call", "return", "failed"}
  /\ depthS \in Nat /\ depthP \in Nat
  /\ noiseS \in Nat \ {0} /\ noiseP \in Nat \ {0}
  /\ key \in Keys \cup {<< >>}

\* Each frame waits for the one inside it, and the levels above and below the
\* innermost invocation add up to those of T.
StackInv ==
  /\ \A i \in 1 .. Len(frames) : Callee(frames[i]) = (IF i = 1 THEN arg ELSE frames[i - 1])
  /\ RecursionLevels(arg) + Len(frames) = RecursionLevels(T)
  /\ phase = "setup" => frames = << >>

\* What the setup has made sure of.
SetupInv ==
  /\ backend = "dghv" => key \in Keys
  /\ phase \in {"call", "return"} =>
       /\ Estimate(backend, n, T) <= budget
       /\ backend = "batched" => n * n <= slots /\ SecureRing(version, budget) <= slots
       /\ backend = "rowcol" => IsPowerOfTwo(n)
       /\ backend = "dghv" => /\ budget = RecursionLevels(T) * Cost
                              /\ budget <= max_supported_depth(key[1], key[2])

\* The depth the innermost invocation may return, none before the first returns.
Bound == IF phase = "return" THEN RecursionLevels(arg) * Cost ELSE 0

DepthInv == depthS <= Bound /\ depthP <= Bound

\* A level that DGHV spends doubles the exponent of its noise at most.
NoiseInv ==
  backend = "dghv" /\ phase = "return" =>
    /\ noiseS <= Pow2[RecursionLevels(arg) * Cost]
    /\ noiseP <= Pow2[RecursionLevels(arg) * Cost]

ClosureInv == ClosureTypeOK /\ StackInv /\ SetupInv /\ DepthInv /\ NoiseInv

------------------------------------------------------------------------------

\* What the invariant says of the constants' types.
LEMMA Typed ==
  ASSUME ClosureTypeOK
  PROVE  /\ backend \in Levelled
         /\ n \in Nat \ {0} /\ T \in Nat \ {0} /\ arg \in Nat \ {0}
         /\ Cost \in Nat
         /\ RecursionLevels(T) \in Nat /\ RecursionLevels(arg) \in Nat
<1>1. MaxN \in Nat /\ MaxT \in Nat
  BY DimensionsAssumption
<1>2. backend \in Levelled
  BY BackendsAssumption DEF ClosureTypeOK, Levelled
<1>3. n \in Nat \ {0} /\ T \in Nat \ {0} /\ arg \in Nat \ {0}
  BY <1>1 DEF ClosureTypeOK
<1>4. RecursionLevels(T) \in Nat /\ RecursionLevels(arg) \in Nat
  BY <1>3, Levels
<1>5. FormulaMatMulDepth(backend, n) \in Nat
  <2>1. backend \in Levelled /\ n \in Nat \ {0} /\ 0 \in Nat
    BY <1>2, <1>3
  <2> QED BY <2>1, EstimateIsCost
<1> QED BY <1>2, <1>3, <1>4, <1>5 DEF Cost

\* Initially nothing waits.
LEMMA InitClosureInv == Init => ClosureInv
<1> SUFFICES ASSUME Init PROVE ClosureInv
  OBVIOUS
<1> USE DEF Init, FreshNoise
<1>1. MaxN \in Nat \ {0} /\ MaxT \in Nat \ {0}
  BY DimensionsAssumption
<1>2. ClosureTypeOK
  <2>1. 1 \in 1 .. MaxN /\ 1 \in 1 .. MaxT
    BY <1>1
  <2>2. frames \in Seq(2 .. MaxT)
    OBVIOUS
  <2>3. key \in Keys \cup {<< >>}
    OBVIOUS
  <2> QED BY <2>1, <2>2, <2>3 DEF ClosureTypeOK
<1>3. StackInv
  <2>1. Len(frames) = 0 /\ frames = << >>
    OBVIOUS
  <2>2. RecursionLevels(arg) \in Nat /\ arg = T
    BY Levels
  <2> QED BY <2>1, <2>2 DEF StackInv
<1>4. SetupInv
  BY DEF SetupInv
<1>5. DepthInv
  BY DEF DepthInv, Bound
<1>6. NoiseInv
  BY DEF NoiseInv
<1> QED BY <1>2, <1>3, <1>4, <1>5, <1>6 DEF ClosureInv

\* The setup from the estimate.
LEMMA EstimateSetup == ClosureInv /\ SetupFromEstimate => ClosureInv'
<1> SUFFICES ASSUME ClosureInv, SetupFromEstimate PROVE ClosureInv'
  OBVIOUS
<1>0. ClosureTypeOK /\ StackInv /\ SetupInv /\ DepthInv
  BY DEF ClosureInv
<1>1. /\ n' \in 1 .. MaxN /\ T' \in 1 .. MaxT /\ arg' = T'
      /\ backend = "rowcol" => IsPowerOfTwo(n')
      /\ budget' = Estimate(backend, n', T')
      /\ phase' = IF Accepted(budget') THEN "call" ELSE "failed"
      /\ phase = "setup" /\ backend # "batched"
      /\ UNCHANGED <<backend, slots, frames, depthS, depthP, noiseS, noiseP, key>>
  BY DEF SetupFromEstimate
<1>2. backend \in Levelled /\ n' \in Nat \ {0} /\ T' \in Nat
  BY <1>0, <1>1, Typed, DimensionsAssumption
<1> DEFINE R == RecursionLevels(T')
           F == FormulaMatMulDepth(backend, n')
<1>3. /\ budget' \in Nat /\ Estimate(backend, n', T') <= budget'
      /\ backend = "dghv" => budget' = R * (F + 1)
  BY <1>1, <1>2, EstimateIsCost
<1>4. phase' \in {"call", "failed"} /\ (phase' = "call" => Accepted(budget'))
  BY <1>1
<1>5. ClosureTypeOK'
  BY <1>0, <1>1, <1>3, <1>4 DEF ClosureTypeOK
<1>6. StackInv'
  <2>1. frames' = << >> /\ Len(frames') = 0
    BY <1>0, <1>1 DEF StackInv
  <2>2. R \in Nat
    BY <1>2, Levels
  <2> QED BY <1>1, <1>4, <2>1, <2>2 DEF StackInv
<1>7. SetupInv'
  <2>1. Cost' = F + 1
    BY <1>1 DEF Cost
  <2>2. phase' = "call" /\ backend = "dghv" => budget' <= max_supported_depth(key[1], key[2])
    BY <1>4 DEF Accepted
  <2>3. (backend = "dghv" => key \in Keys) /\ backend' = backend /\ key' = key /\ backend # "batched"
    BY <1>0, <1>1 DEF SetupInv
  <2> HIDE DEF R, F
  <2>4. backend = "dghv" => budget' = RecursionLevels(T') * Cost'
    BY <1>3, <2>1 DEF R
  <2>5. Estimate(backend', n', T') <= budget'
    BY <1>3, <2>3
  <2> HIDE DEF Cost
  <2> QED BY <1>1, <2>2, <2>3, <2>4, <2>5 DEF SetupInv
<1>8. DepthInv'
  BY <1>0, <1>1, <1>4 DEF DepthInv, Bound
<1>9. NoiseInv'
  BY <1>4 DEF NoiseInv
<1> QED BY <1>5, <1>6, <1>7, <1>8, <1>9 DEF ClosureInv

\* The setup from a profile of the database.
LEMMA ProfileSetup == IInv /\ ClosureInv /\ SetupFromProfile => ClosureInv'
<1> SUFFICES ASSUME IInv, ClosureInv, SetupFromProfile PROVE ClosureInv'
  OBVIOUS
<1>0. ClosureTypeOK /\ StackInv /\ SetupInv /\ DepthInv
  BY DEF ClosureInv
<1> DEFINE D == Estimate(backend, n', T')
           found == setup_from_profile(D, n' * n')
<1>1. /\ n' \in 1 .. MaxN /\ T' \in 1 .. MaxT /\ arg' = T'
      /\ phase = "setup" /\ backend = "batched"
      /\ UNCHANGED <<backend, frames, depthS, depthP, noiseS, noiseP, key, profileVars>>
      /\ \/ phase' = "failed" /\ UNCHANGED <<budget, slots>>
         \/ \E p \in found : /\ phase' = IF n' * n' > p.ring_dimension THEN "failed" ELSE "call"
                             /\ budget' = p.depth_capacity
                             /\ slots' = p.ring_dimension
  BY DEF SetupFromProfile
<1>2. backend \in Levelled /\ n' \in Nat \ {0} /\ T' \in Nat
  BY <1>0, <1>1, Typed, DimensionsAssumption
<1>3. ASSUME NEW p \in found
      PROVE  /\ p.depth_capacity \in Nat /\ p.ring_dimension \in Nat
             /\ p.ring_dimension >= SecureRing(version, p.depth_capacity)
             /\ p.ring_dimension >= n' * n' /\ p.depth_capacity >= D
  <2>1. /\ p \in file.profiles
        /\ SetupAccepts(p) /\ p.ring_dimension >= n' * n' /\ p.depth_capacity >= D
    BY DEF setup_from_profile, SelectProfile, Candidates
  <2>2. p \in Profiles
    BY <2>1 DEF IInv, ProfilesTypeOK
  <2>3. p.depth_capacity \in Nat /\ p.ring_dimension \in Nat
    BY <2>2, IntAssumption DEF Profiles, UInt32
  <2> QED BY <2>1, <2>3 DEF SetupAccepts
<1> HIDE DEF D, found
<1>4. /\ budget' \in Nat /\ slots' \in Nat /\ phase' \in {"call", "failed"}
      /\ phase' = "call" => /\ D <= budget'
                            /\ n' * n' <= slots' /\ SecureRing(version, budget') <= slots'
  <2>1. CASE phase' = "failed" /\ UNCHANGED <<budget, slots>>
    BY <1>0, <2>1 DEF ClosureTypeOK
  <2>2. CASE \E p \in found : /\ phase' = IF n' * n' > p.ring_dimension THEN "failed" ELSE "call"
                              /\ budget' = p.depth_capacity
                              /\ slots' = p.ring_dimension
    BY <1>3, <2>2
  <2> QED BY <1>1, <2>1, <2>2
<1>5. ClosureTypeOK'
  BY <1>0, <1>1, <1>4 DEF ClosureTypeOK
<1>6. StackInv'
  <2>1. frames' = << >> /\ Len(frames') = 0
    BY <1>0, <1>1 DEF StackInv
  <2>2. RecursionLevels(T') \in Nat
    BY <1>2, Levels
  <2> QED BY <1>1, <1>4, <2>1, <2>2 DEF StackInv
<1>7. SetupInv'
  <2>1. version' = version /\ backend' = "batched"
    BY <1>1 DEF profileVars
  <2>2. phase' \in {"call", "return"} =>
          /\ Estimate(backend', n', T') <= budget'
          /\ n' * n' <= slots' /\ SecureRing(version', budget') <= slots'
    BY <1>1, <1>4, <2>1 DEF D
  <2> QED BY <2>1, <2>2 DEF SetupInv
<1>8. DepthInv'
  BY <1>0, <1>1, <1>4 DEF DepthInv, Bound
<1>9. NoiseInv'
  BY <1>4 DEF NoiseInv
<1> QED BY <1>5, <1>6, <1>7, <1>8, <1>9 DEF ClosureInv

\* The recursion leaves alone what the setup has made sure of.
LEMMA SetupKept ==
  ASSUME SetupInv, UNCHANGED fixedVars, phase' \in {"call", "return"} => phase \in {"call", "return"}
  PROVE  SetupInv' /\ Cost' = Cost
<1>1. /\ backend' = backend /\ n' = n /\ T' = T /\ budget' = budget /\ slots' = slots
      /\ key' = key /\ version' = version
  BY DEF fixedVars, profileVars
<1>2. Cost' = Cost
  BY <1>1 DEF Cost
<1> QED BY <1>1, <1>2 DEF SetupInv

\* The base case returns fresh ciphertexts.
LEMMA BaseStep == ClosureInv /\ Base => ClosureInv'
<1> SUFFICES ASSUME ClosureInv, Base PROVE ClosureInv'
  OBVIOUS
<1>0. ClosureTypeOK /\ StackInv /\ SetupInv /\ DepthInv
  BY DEF ClosureInv
<1>1. /\ phase = "call" /\ phase' = "return"
      /\ depthS' = 0 /\ depthP' = 0 /\ noiseS' = 1 /\ noiseP' = 1
      /\ UNCHANGED <<frames, arg>> /\ UNCHANGED fixedVars
  BY DEF Base, FreshNoise
<1>2. SetupInv' /\ Cost' = Cost
  BY <1>0, <1>1, SetupKept
<1>3. backend' = backend /\ n' = n /\ T' = T /\ budget' = budget /\ slots' = slots /\ key' = key
  BY <1>1 DEF fixedVars
<1>4. ClosureTypeOK'
  BY <1>0, <1>1, <1>3 DEF ClosureTypeOK
<1>5. StackInv'
  BY <1>0, <1>1, <1>3 DEF StackInv
<1>6. RecursionLevels(arg) * Cost \in Nat
  BY <1>0, Typed
<1>7. DepthInv'
  BY <1>1, <1>2, <1>6 DEF DepthInv, Bound
<1>8. NoiseInv'
  <2>1. Pow2[RecursionLevels(arg) * Cost] >= 1
    BY <1>6, PowerPositive
  <2> QED BY <1>1, <1>2, <2>1 DEF NoiseInv
<1> QED BY <1>2, <1>4, <1>5, <1>7, <1>8 DEF ClosureInv

\* A call pushes its T.
LEMMA RecurseStep == ClosureInv /\ Recurse => ClosureInv'
<1> SUFFICES ASSUME ClosureInv, Recurse PROVE ClosureInv'
  OBVIOUS
<1>0. ClosureTypeOK /\ StackInv /\ SetupInv /\ DepthInv
  BY DEF ClosureInv
<1>1. /\ phase = "call" /\ phase' = "call" /\ arg > 1
      /\ frames' = <<arg>> \o frames /\ arg' = Callee(arg)
      /\ UNCHANGED <<depthS, depthP, noiseS, noiseP>> /\ UNCHANGED fixedVars
  BY DEF Recurse
<1>2. SetupInv'
  BY <1>0, <1>1, SetupKept
<1>3. backend' = backend /\ n' = n /\ T' = T /\ budget' = budget /\ slots' = slots /\ key' = key
  BY <1>1 DEF fixedVars
<1>4. /\ arg \in 2 .. MaxT /\ arg' \in 1 .. MaxT /\ MaxT \in Nat
      /\ RecursionLevels(arg') \in Nat
      /\ RecursionLevels(arg) = RecursionLevels(arg') + 1
  <2>1. arg \in Nat /\ arg \in 1 .. MaxT /\ MaxT \in Nat
    BY <1>0, DimensionsAssumption DEF ClosureTypeOK
  <2>2. /\ Callee(arg) \in 1 .. arg - 1
        /\ RecursionLevels(Callee(arg)) \in Nat
        /\ RecursionLevels(arg) = RecursionLevels(Callee(arg)) + 1
    BY <1>1, <2>1, CalleeIsBelow
  <2>3. Callee(arg) \in 1 .. MaxT /\ arg \in 2 .. MaxT
    BY <1>1, <2>1, <2>2
  <2> QED BY <1>1, <2>1, <2>2, <2>3
<1>5. frames \in Seq(2 .. MaxT) /\ Len(frames) \in Nat
  BY <1>0 DEF ClosureTypeOK
<1>6. /\ frames' \in Seq(2 .. MaxT) /\ Len(frames') = Len(frames) + 1
      /\ frames'[1] = arg
      /\ \A i \in 1 .. Len(frames) : frames'[i + 1] = frames[i]
  BY <1>1, <1>4, <1>5
<1>7. ClosureTypeOK'
  BY <1>0, <1>1, <1>3, <1>4, <1>6 DEF ClosureTypeOK
<1>8. StackInv'
  <2>1. ASSUME NEW i \in 1 .. Len(frames')
        PROVE  Callee(frames'[i]) = (IF i = 1 THEN arg' ELSE frames'[i - 1])
    <3>1. CASE i = 1
      BY <1>1, <1>6, <3>1
    <3>2. CASE i # 1
      <4> DEFINE j == i - 1
      <4>1. j \in 1 .. Len(frames) /\ i = j + 1
        BY <1>5, <1>6, <3>2
      <4>2. frames'[i] = frames[j] /\ Callee(frames[j]) = (IF j = 1 THEN arg ELSE frames[j - 1])
        BY <1>0, <1>6, <4>1 DEF StackInv
      <4>3. frames'[j] = (IF j = 1 THEN arg ELSE frames[j - 1])
        <5>1. CASE j = 1
          BY <1>6, <5>1
        <5>2. CASE j # 1
          <6>1. j - 1 \in 1 .. Len(frames) /\ (j - 1) + 1 = j
            BY <1>5, <4>1, <5>2
          <6>2. frames'[(j - 1) + 1] = frames[j - 1]
            BY <1>6, <6>1
          <6> QED BY <5>2, <6>1, <6>2
        <5> QED BY <5>1, <5>2
      <4> QED BY <3>2, <4>2, <4>3
    <3> QED BY <3>1, <3>2
  <2>2. RecursionLevels(arg') + Len(frames') = RecursionLevels(T')
    <3>1. RecursionLevels(arg) + Len(frames) = RecursionLevels(T)
      BY <1>0 DEF StackInv
    <3> QED BY <1>3, <1>4, <1>5, <1>6, <3>1
  <2> QED BY <1>1, <2>1, <2>2 DEF StackInv
<1>9. DepthInv'
  BY <1>0, <1>1 DEF DepthInv, Bound
<1>10. NoiseInv'
  BY <1>1 DEF NoiseInv
<1> QED BY <1>2, <1>7, <1>8, <1>9, <1>10 DEF ClosureInv

\* A return pops the caller.
LEMMA PopStack ==
  ASSUME ClosureTypeOK, StackInv, Pop
  PROVE  /\ frames' \in Seq(2 .. MaxT) /\ arg' \in 1 .. MaxT
         /\ StackInv'
         /\ phase = "return" /\ phase' = "return" /\ UNCHANGED fixedVars
         /\ RecursionLevels(arg') = RecursionLevels(arg) + 1
<1>1. /\ phase = "return" /\ phase' = "return" /\ frames # << >>
      /\ arg' = Head(frames) /\ frames' = Tail(frames) /\ UNCHANGED fixedVars
  BY DEF Pop
<1>2. frames \in Seq(2 .. MaxT) /\ Len(frames) \in Nat \ {0} /\ MaxT \in Nat
  BY <1>1, DimensionsAssumption DEF ClosureTypeOK
<1>3. /\ arg' = frames[1] /\ frames[1] \in 2 .. MaxT
      /\ frames' \in Seq(2 .. MaxT) /\ Len(frames') = Len(frames) - 1
      /\ \A i \in 1 .. Len(frames) - 1 : frames'[i] = frames[i + 1]
  BY <1>1, <1>2
<1>4. Callee(frames[1]) = arg
  <2>1. 1 \in 1 .. Len(frames)
    BY <1>2
  <2> QED BY <2>1 DEF StackInv
<1>5. RecursionLevels(arg') = RecursionLevels(arg) + 1 /\ RecursionLevels(arg) \in Nat
  <2>1. arg' \in Nat /\ arg' > 1 /\ Callee(arg') = arg
    BY <1>2, <1>3, <1>4
  <2> QED BY <2>1, CalleeIsBelow
<1>6. ASSUME NEW i \in 1 .. Len(frames')
      PROVE  Callee(frames'[i]) = (IF i = 1 THEN arg' ELSE frames'[i - 1])
  <2>1. i \in 1 .. Len(frames) - 1 /\ i + 1 \in 1 .. Len(frames) /\ i + 1 # 1 /\ (i + 1) - 1 = i
    BY <1>2, <1>3
  <2>2. Callee(frames[i + 1]) = frames[i] /\ frames'[i] = frames[i + 1]
    BY <1>3, <2>1 DEF StackInv
  <2>3. i # 1 => i - 1 \in 1 .. Len(frames) - 1 /\ (i - 1) + 1 = i
    BY <1>2, <2>1
  <2>4. i # 1 => frames'[i - 1] = frames[i]
    BY <1>3, <2>3
  <2> QED BY <1>3, <2>2, <2>4
<1>7. RecursionLevels(arg') + Len(frames') = RecursionLevels(T')
  <2>1. RecursionLevels(arg) + Len(frames) = RecursionLevels(T) /\ T' = T
    BY <1>1 DEF StackInv, fixedVars
  <2> QED BY <1>2, <1>3, <1>5, <2>1
<1>8. arg' \in 1 .. MaxT
  BY <1>2, <1>3
<1>9. StackInv'
  BY <1>1, <1>6, <1>7 DEF StackInv
<1> QED BY <1>1, <1>3, <1>5, <1>8, <1>9

\* A level of the recursion costs no more than it is charged, and makes the
\* noise of DGHV no larger than the levels it spends allow.
LEMMA CombineStep ==
  ASSUME ClosureInv, Pop,
         NEW q \in {depthP, depthS, 0}, NEW r \in {noiseP, noiseS, FreshNoise},
         {depthS', depthP'} \subseteq {MatMulDepth(backend, n, depthP, q),
                                       MatMulDepth(backend, n, depthP, depthP),
                                       OrDepth(depthS, MatMulDepth(backend, n, depthP, q))},
         IF backend = "dghv"
         THEN {noiseS', noiseP'} \subseteq {MatMulNoise(n, noiseP, r),
                                            MatMulNoise(n, noiseP, noiseP),
                                            OrNoise(noiseS, MatMulNoise(n, noiseP, r))}
         ELSE UNCHANGED <<noiseS, noiseP>>
  PROVE  ClosureInv'
<1>0. ClosureTypeOK /\ StackInv /\ SetupInv /\ DepthInv /\ NoiseInv
  BY DEF ClosureInv
<1>1. /\ frames' \in Seq(2 .. MaxT) /\ arg' \in 1 .. MaxT
      /\ StackInv'
      /\ phase = "return" /\ phase' = "return" /\ UNCHANGED fixedVars
      /\ RecursionLevels(arg') = RecursionLevels(arg) + 1
  BY <1>0, PopStack
<1>2. SetupInv' /\ Cost' = Cost
  BY <1>0, <1>1, SetupKept
<1>3. backend' = backend /\ n' = n /\ T' = T /\ budget' = budget /\ slots' = slots /\ key' = key
  BY <1>1 DEF fixedVars
<1>4. /\ backend \in Levelled /\ n \in Nat \ {0}
      /\ Cost \in Nat /\ RecursionLevels(arg) \in Nat
  BY <1>0, Typed
<1>5. backend = "rowcol" => IsPowerOfTwo(n)
  BY <1>0, <1>1 DEF SetupInv
<1> DEFINE B == RecursionLevels(arg) * Cost
<1>6. B \in Nat /\ RecursionLevels(arg') * Cost' = B + Cost
  <2>1. (RecursionLevels(arg) + 1) * Cost = B + Cost
    BY <1>4
  <2> QED BY <1>1, <1>2, <1>4, <2>1
<1>7. depthS \in Nat /\ depthP \in Nat /\ noiseS \in Nat \ {0} /\ noiseP \in Nat \ {0}
  BY <1>0 DEF ClosureTypeOK
<1>8. depthS <= B /\ depthP <= B
  BY <1>0, <1>1 DEF DepthInv, Bound
<1> HIDE DEF B
<1>9. ASSUME NEW p \in {depthP, depthS, 0}
      PROVE  /\ MatMulDepth(backend, n, depthP, p) \in Nat
             /\ MatMulDepth(backend, n, depthP, p) <= B + Cost
             /\ OrDepth(depthS, MatMulDepth(backend, n, depthP, p)) \in Nat
             /\ OrDepth(depthS, MatMulDepth(backend, n, depthP, p)) <= B + Cost
  <2>1. p \in {depthP, 0, depthS}
    OBVIOUS
  <2>2. /\ MatMulDepth(backend, n, depthP, p) \in Nat
        /\ OrDepth(depthS, MatMulDepth(backend, n, depthP, p)) \in Nat
        /\ MatMulDepth(backend, n, depthP, p) <= B + (FormulaMatMulDepth(backend, n) + 1)
        /\ OrDepth(depthS, MatMulDepth(backend, n, depthP, p))
             <= B + (FormulaMatMulDepth(backend, n) + 1)
    BY <1>4, <1>5, <1>6, <1>7, <1>8, <2>1, StepDepth
  <2> QED BY <2>2 DEF Cost
<1>10. /\ depthS' \in Nat /\ depthP' \in Nat
       /\ depthS' <= B + Cost /\ depthP' <= B + Cost
  <2>1. /\ MatMulDepth(backend, n, depthP, q) \in Nat
        /\ MatMulDepth(backend, n, depthP, q) <= B + Cost
        /\ OrDepth(depthS, MatMulDepth(backend, n, depthP, q)) \in Nat
        /\ OrDepth(depthS, MatMulDepth(backend, n, depthP, q)) <= B + Cost
    BY <1>9
  <2>2. /\ MatMulDepth(backend, n, depthP, depthP) \in Nat
        /\ MatMulDepth(backend, n, depthP, depthP) <= B + Cost
    BY <1>9
  <2> QED BY <2>1, <2>2
<1>11. DepthInv'
  BY <1>1, <1>6, <1>10 DEF DepthInv, Bound
<1>12. ASSUME backend = "dghv"
       PROVE  /\ noiseS' \in Nat \ {0} /\ noiseP' \in Nat \ {0}
              /\ noiseS' <= Pow2[B + Cost] /\ noiseP' <= Pow2[B + Cost]
  <2>1. noiseS <= Pow2[B] /\ noiseP <= Pow2[B]
    BY <1>0, <1>1, <1>12 DEF NoiseInv, B
  <2>2. Cost = HalvingLevels(n) + 2
    <3>1. backend \in Levelled /\ n \in Nat \ {0} /\ 0 \in Nat
      BY <1>4
    <3>2. FormulaMatMulDepth(backend, n) = HalvingLevels(n) + 1 /\ HalvingLevels(n) \in Nat
      BY <1>4, <1>12, <3>1, EstimateIsCost, Halvings
    <3> QED BY <3>2 DEF Cost
  <2>3. ASSUME NEW p \in {noiseP, noiseS, FreshNoise}
        PROVE  /\ MatMulNoise(n, noiseP, p) \in Nat \ {0}
               /\ OrNoise(noiseS, MatMulNoise(n, noiseP, p)) \in Nat \ {0}
               /\ MatMulNoise(n, noiseP, p) <= Pow2[B + Cost]
               /\ OrNoise(noiseS, MatMulNoise(n, noiseP, p)) <= Pow2[B + Cost]
    <3>1. /\ MatMulNoise(n, noiseP, p) \in Nat \ {0}
          /\ OrNoise(noiseS, MatMulNoise(n, noiseP, p)) \in Nat \ {0}
          /\ MatMulNoise(n, noiseP, p) <= Pow2[B + (HalvingLevels(n) + 2)]
          /\ OrNoise(noiseS, MatMulNoise(n, noiseP, p)) <= Pow2[B + (HalvingLevels(n) + 2)]
      BY <1>4, <1>6, <1>7, <2>1, StepNoise
    <3> QED BY <2>2, <3>1
  <2>4. {noiseS', noiseP'} \subseteq {MatMulNoise(n, noiseP, r),
                                      MatMulNoise(n, noiseP, noiseP),
                                      OrNoise(noiseS, MatMulNoise(n, noiseP, r))}
    BY <1>12
  <2>5. /\ MatMulNoise(n, noiseP, r) \in Nat \ {0}
        /\ OrNoise(noiseS, MatMulNoise(n, noiseP, r)) \in Nat \ {0}
        /\ MatMulNoise(n, noiseP, r) <= Pow2[B + Cost]
        /\ OrNoise(noiseS, MatMulNoise(n, noiseP, r)) <= Pow2[B + Cost]
    BY <2>3
  <2>6. /\ MatMulNoise(n, noiseP, noiseP) \in Nat \ {0}
        /\ MatMulNoise(n, noiseP, noiseP) <= Pow2[B + Cost]
    BY <2>3
  <2> QED BY <2>4, <2>5, <2>6
<1>13. noiseS' \in Nat \ {0} /\ noiseP' \in Nat \ {0}
  BY <1>7, <1>12
<1>14. NoiseInv'
  BY <1>3, <1>6, <1>12 DEF NoiseInv
<1>15. ClosureTypeOK'
  BY <1>0, <1>1, <1>3, <1>10, <1>13 DEF ClosureTypeOK
<1> QED BY <1>1, <1>2, <1>11, <1>14, <1>15 DEF ClosureInv

\* An even T: P is squared, and S is ORed with P times S.
LEMMA EvenStepInv == ClosureInv /\ EvenStep => ClosureInv'
<1> SUFFICES ASSUME ClosureInv, EvenStep PROVE ClosureInv'
  OBVIOUS
<1>1. /\ Pop
      /\ depthS' = OrDepth(depthS, MatMulDepth(backend, n, depthP, depthS))
      /\ depthP' = MatMulDepth(backend, n, depthP, depthP)
      /\ IF backend = "dghv"
         THEN /\ noiseS' = OrNoise(noiseS, MatMulNoise(n, noiseP, noiseS))
              /\ noiseP' = MatMulNoise(n, noiseP, noiseP)
         ELSE UNCHANGED <<noiseS, noiseP>>
  BY DEF EvenStep, NoiseOfDGHV
<1>2. {depthS', depthP'} \subseteq {MatMulDepth(backend, n, depthP, depthS),
                                    MatMulDepth(backend, n, depthP, depthP),
                                    OrDepth(depthS, MatMulDepth(backend, n, depthP, depthS))}
  BY <1>1
<1>3. IF backend = "dghv"
      THEN {noiseS', noiseP'} \subseteq {MatMulNoise(n, noiseP, noiseS),
                                         MatMulNoise(n, noiseP, noiseP),
                                         OrNoise(noiseS, MatMulNoise(n, noiseP, noiseS))}
      ELSE UNCHANGED <<noiseS, noiseP>>
  BY <1>1
<1>4. depthS \in {depthP, depthS, 0} /\ noiseS \in {noiseP, noiseS, FreshNoise}
  OBVIOUS
<1> QED BY <1>1, <1>2, <1>3, <1>4, CombineStep

\* An odd T: P is multiplied by the fresh A, and S ORed with the result.
LEMMA OddStepInv == ClosureInv /\ OddStep => ClosureInv'
<1> SUFFICES ASSUME ClosureInv, OddStep PROVE ClosureInv'
  OBVIOUS
<1>1. /\ Pop
      /\ depthP' = MatMulDepth(backend, n, depthP, 0)
      /\ depthS' = OrDepth(depthS, MatMulDepth(backend, n, depthP, 0))
      /\ IF backend = "dghv"
         THEN /\ noiseS' = OrNoise(noiseS, MatMulNoise(n, noiseP, FreshNoise))
              /\ noiseP' = MatMulNoise(n, noiseP, FreshNoise)
         ELSE UNCHANGED <<noiseS, noiseP>>
  BY DEF OddStep, NoiseOfDGHV
<1>2. {depthS', depthP'} \subseteq {MatMulDepth(backend, n, depthP, 0),
                                    MatMulDepth(backend, n, depthP, depthP),
                                    OrDepth(depthS, MatMulDepth(backend, n, depthP, 0))}
  BY <1>1
<1>3. IF backend = "dghv"
      THEN {noiseS', noiseP'} \subseteq {MatMulNoise(n, noiseP, FreshNoise),
                                         MatMulNoise(n, noiseP, noiseP),
                                         OrNoise(noiseS, MatMulNoise(n, noiseP, FreshNoise))}
      ELSE UNCHANGED <<noiseS, noiseP>>
  BY <1>1
<1>4. 0 \in {depthP, depthS, 0} /\ FreshNoise \in {noiseP, noiseS, FreshNoise}
  OBVIOUS
<1> QED BY <1>1, <1>2, <1>3, <1>4, CombineStep

\* The closure keeps its invariant.
LEMMA NextClosureInv == IInv /\ ClosureInv /\ [Next]_vars => ClosureInv'
<1> SUFFICES ASSUME IInv, ClosureInv, [Next]_vars PROVE ClosureInv'
  OBVIOUS
<1>1. CASE UNCHANGED closureVars /\ (phase = "setup" \/ UNCHANGED profileVars)
  <2>1. /\ backend' = backend /\ n' = n /\ T' = T /\ budget' = budget /\ slots' = slots
        /\ frames' = frames /\ arg' = arg /\ phase' = phase
        /\ depthS' = depthS /\ depthP' = depthP /\ noiseS' = noiseS /\ noiseP' = noiseP
        /\ key' = key
    BY <1>1 DEF closureVars
  <2>2. version' = version \/ phase = "setup"
    BY <1>1 DEF profileVars
  <2>3. Cost' = Cost
    BY <2>1 DEF Cost
  <2>4. ClosureTypeOK'
    BY <2>1 DEF ClosureInv, ClosureTypeOK
  <2>5. StackInv'
    BY <2>1 DEF ClosureInv, StackInv
  <2>6. SetupInv'
    <3>1. CASE version' = version
      BY <2>1, <2>3, <3>1 DEF ClosureInv, SetupInv
    <3>2. CASE phase = "setup"
      BY <2>1, <3>2 DEF ClosureInv, SetupInv
    <3> QED BY <2>2, <3>1, <3>2
  <2>7. DepthInv' /\ NoiseInv'
    BY <2>1, <2>3 DEF ClosureInv, DepthInv, Bound, NoiseInv
  <2> QED BY <2>4, <2>5, <2>6, <2>7 DEF ClosureInv
<1>2. \/ UNCHANGED closureVars /\ (phase = "setup" \/ UNCHANGED profileVars)
      \/ SetupFromEstimate \/ SetupFromProfile \/ Base \/ Recurse \/ EvenStep \/ OddStep
  BY DEF Next, ProfileStep, Finished, vars
<1> QED BY <1>1, <1>2, EstimateSetup, ProfileSetup, BaseStep, RecurseStep, EvenStepInv, OddStepInv

------------------------------------------------------------------------------

\* The invariant of the closure and of the database it takes its parameters from.
THEOREM ClosureInvariant == Spec => [](IInv /\ ClosureInv)
<1>1. Init => IInv /\ ClosureInv
  BY InitIInv, InitClosureInv
<1>2. (IInv /\ ClosureInv) /\ [Next]_vars => (IInv /\ ClosureInv)'
  BY NextIInv, NextClosureInv
<1> QED BY <1>1, <1>2, PTL DEF Spec

\* The variables have their types.
THEOREM ClosureTypes == Spec => []TypeOK
<1>1. IInv /\ ClosureInv => TypeOK
  BY DEF IInv, ClosureInv, ClosureTypeOK, TypeOK
<1> QED BY ClosureInvariant, <1>1, PTL

\* What is left of the recursion costs no less than what has been done.
LEMMA LevelsWithin ==
  ASSUME ClosureInv
  PROVE  /\ RecursionLevels(arg) * Cost \in Nat
         /\ RecursionLevels(arg) * Cost <= RecursionLevels(T) * Cost
         /\ RecursionLevels(T) * Cost <= Estimate(backend, n, T)
         /\ RecursionLevels(T) * Cost \in Nat /\ Estimate(backend, n, T) \in Nat
<1>0. ClosureTypeOK /\ StackInv
  BY DEF ClosureInv
<1>1. /\ backend \in Levelled /\ n \in Nat \ {0} /\ T \in Nat
      /\ Cost \in Nat /\ RecursionLevels(T) \in Nat /\ RecursionLevels(arg) \in Nat
  BY <1>0, Typed
<1>2. RecursionLevels(arg) <= RecursionLevels(T)
  <2>1. Len(frames) \in Nat
    BY <1>0 DEF ClosureTypeOK
  <2> QED BY <1>0, <1>1, <2>1 DEF StackInv
<1>3. Cost * RecursionLevels(arg) <= Cost * RecursionLevels(T)
  BY <1>1, <1>2, TimesMonotonic
<1>4. /\ Cost * RecursionLevels(arg) = RecursionLevels(arg) * Cost
      /\ Cost * RecursionLevels(T) = RecursionLevels(T) * Cost
      /\ RecursionLevels(arg) * Cost \in Nat /\ RecursionLevels(T) * Cost \in Nat
  BY <1>1
<1>5. /\ RecursionLevels(T) * Cost <= Estimate(backend, n, T)
      /\ Estimate(backend, n, T) \in Nat
  BY <1>1, EstimateIsCost DEF Cost
<1> QED BY <1>3, <1>4, <1>5

\* No ciphertext is ever deeper than the context was set up for.
THEOREM DepthWithinBudget == Spec => []BudgetSuffices
<1>1. IInv /\ ClosureInv => BudgetSuffices
  <2> SUFFICES ASSUME ClosureInv, phase \in {"call", "return"}
               PROVE  /\ depthS <= budget /\ depthP <= budget
                      /\ backend = "batched" => n * n <= slots /\ SecureRing(version, budget) <= slots
    BY DEF BudgetSuffices
  <2>0. SetupInv /\ DepthInv /\ ClosureTypeOK
    BY DEF ClosureInv
  <2>1. /\ Estimate(backend, n, T) <= budget
        /\ backend = "batched" => n * n <= slots /\ SecureRing(version, budget) <= slots
    BY <2>0 DEF SetupInv
  <2> DEFINE x == RecursionLevels(arg) * Cost
             y == RecursionLevels(T) * Cost
             z == Estimate(backend, n, T)
  <2>2. x \in Nat /\ y \in Nat /\ z \in Nat /\ x <= y /\ y <= z
    BY LevelsWithin
  <2>3. /\ depthS <= (IF phase = "return" THEN x ELSE 0)
        /\ depthP <= (IF phase = "return" THEN x ELSE 0)
        /\ depthS \in Nat /\ depthP \in Nat /\ budget \in Nat
    BY <2>0 DEF DepthInv, Bound, ClosureTypeOK
  <2>4. z <= budget
    BY <2>1
  <2> HIDE DEF x, y, z
  <2>5. depthS <= budget /\ depthP <= budget
    BY <2>2, <2>3, <2>4
  <2> QED BY <2>1, <2>5
<1> QED BY ClosureInvariant, <1>1, PTL

\* What require_depth lets through can be decrypted.
THEOREM NoiseWithinKey == Spec => []NoiseFits
<1>1. IInv /\ ClosureInv => NoiseFits
  <2> SUFFICES ASSUME ClosureInv, backend = "dghv", phase = "return", T > 1
               PROVE  Max({noiseS, noiseP}) * (3 * key[2] + 4) <= 3 * (key[1] - 2)
    BY DEF NoiseFits
  <2>0. SetupInv /\ NoiseInv /\ ClosureTypeOK
    BY DEF ClosureInv
  <2> DEFINE x == RecursionLevels(arg) * Cost
             y == RecursionLevels(T) * Cost
             noise == Max({noiseS, noiseP})
  <2>1. key[1] \in Nat /\ key[2] \in Nat
    <3>1. key \in Keys
      BY <2>0 DEF SetupInv
    <3>2. key \in Nat \X (Nat \ {0})
      BY <3>1, KeysAssumption
    <3> QED BY <3>2
  <2>2. y <= max_supported_depth(key[1], key[2])
    BY <2>0 DEF SetupInv
  <2>3. x \in Nat /\ y \in Nat /\ x <= y
    BY LevelsWithin
  <2>4. noise \in Nat /\ noise <= Pow2[x]
    <3>1. noiseS \in Nat /\ noiseP \in Nat /\ noiseS <= Pow2[x] /\ noiseP <= Pow2[x]
      BY <2>0 DEF NoiseInv, ClosureTypeOK
    <3>2. noise \in Nat /\ noise \in {noiseS, noiseP}
      BY <3>1, MaxOfTwo
    <3> HIDE DEF noise, x
    <3> QED BY <3>1, <3>2
  <2>5. y >= 2
    <3>1. T \in Nat /\ n \in Nat \ {0} /\ backend \in Levelled /\ Cost \in Nat
      BY <2>0, Typed
    <3>2. RecursionLevels(T) = RecursionLevels(Callee(T)) + 1 /\ RecursionLevels(Callee(T)) \in Nat
      BY <3>1, CalleeIsBelow
    <3>3. Cost >= 2
      <4>1. FormulaMatMulDepth(backend, n) = HalvingLevels(n) + 1 /\ HalvingLevels(n) \in Nat
        BY <3>1, EstimateIsCost, Halvings
      <4> QED BY <4>1 DEF Cost
    <3> DEFINE c == RecursionLevels(Callee(T))
    <3>4. (c + 1) * Cost = c * Cost + Cost /\ c * Cost \in Nat
      BY <3>1, <3>2
    <3> QED BY <3>1, <3>2, <3>3, <3>4
  <2>6. noise <= Pow2[y] /\ Pow2[y] \in Nat
    <3>1. Pow2[x] <= Pow2[y] /\ Pow2[x] \in Nat /\ Pow2[y] \in Nat
      BY <2>3, PowerMonotonic
    <3> HIDE DEF noise, x, y
    <3> QED BY <2>4, <3>1
  <2> HIDE DEF noise, x, y
  <2>7. noise * (3 * key[2] + 4) <= 3 * (key[1] - 2)
    BY <2>1, <2>2, <2>3, <2>4, <2>5, <2>6, SupportedNoise
  <2> QED BY <2>7 DEF noise
<1> QED BY ClosureInvariant, <1>1, PTL
==============================================================================
