----------------------------- MODULE ClosureDepth -----------------------------
(***************************************************************************)
(* The multiplicative depth sum_powers_recursive consumes under each       *)
(* levelled backend, against the depth its context was set up for: the     *)
(* estimate, or for the batched backend the depth of the profile that      *)
(* setup_from_profile finds in a database which generators rewrite         *)
(* (ParameterProfiles).  A ciphertext is the number of EvalMults on its    *)
(* longest path from a fresh encryption; all entries of one matrix come    *)
(* from the same circuit, so a matrix is one such number.  The call stack  *)
(* is the one of module SumPowers.                                         *)
(*                                                                         *)
(* DGHV also has noise that grows with each operation until nothing can be *)
(* decrypted; dghv::require_depth refuses a key too short for a depth.     *)
(***************************************************************************)
EXTENDS ParameterProfiles

CONSTANTS Backends,  \* bound: the backends considered
          MaxN,      \* bound: the largest dimension
          MaxT,      \* bound: the largest walk length asked for
          Keys       \* the parameters <<eta_bits, rho_bits>> that DGHV may be given

ASSUME DimensionsAssumption == MaxN \in Nat \ {0} /\ MaxT \in Nat \ {0}

ASSUME BackendsAssumption == Backends \subseteq {"bgv", "dghv", "rowcol", "batched"}

ASSUME KeysAssumption == Keys \subseteq {k \in Nat \X (Nat \ {0}) : k[1] > k[2]}

VARIABLES
  backend,         \* which backend runs the closure
  n, T,            \* dimension and walk length, chosen with the setup
  budget, slots,   \* levels and packed slots of the context that was set up
  frames,          \* T of the invocations waiting for their callee, innermost first
  arg,             \* T of the innermost invocation
  phase,           \* "setup", "call", "return" or "failed"
  depthS, depthP,  \* depth of the pair it returned
  noiseS, noiseP,  \* and its noise under DGHV, see FreshNoise
  key              \* parameters of the DGHV key

closureVars == <<backend, n, T, budget, slots, frames, arg, phase, depthS, depthP,
                 noiseS, noiseP, key>>
vars        == <<closureVars, profileVars>>

\* What the recursion leaves alone.
fixedVars == <<backend, n, T, budget, slots, key, profileVars>>

Pow2[e \in Nat] == IF e = 0 THEN 1 ELSE 2 * Pow2[e - 1]

IsPowerOfTwo(k) == \E e \in 0 .. k : k = Pow2[e]

------------------------------------------------------------------------------
\* The circuits: every AND, OR and plaintext mask is one EvalMult.

AndDepth(a, b) == Max({a, b}) + 1
OrDepth(a, b)  == Max({a, b}) + 1
MaskDepth(a)   == a + 1

\* or_reduce_tree: neighbours are ORed, an odd last term is carried over.
Paired(ts) == [k \in 1 .. (Len(ts) + 1) \div 2 |->
                 IF 2 * k <= Len(ts) THEN OrDepth(ts[2 * k - 1], ts[2 * k]) ELSE ts[2 * k - 1]]

OrReduceTree[ts \in Seq(Nat) \ {<< >>}] ==
  IF Len(ts) = 1 THEN ts[1] ELSE OrReduceTree[Paired(ts)]

\* SumOR: each doubling of the shift is a masked RotateModN and an OR.
SumORDepth(d, dim) ==
  LET Loop[shift \in Nat] ==
        IF shift <= 1 THEN d
        ELSE LET r == Loop[shift \div 2] IN OrDepth(r, MaskDepth(r))
  IN Loop[dim]

TermsOf(d, dim) == [k \in 1 .. dim |-> d]

\* One matmul of matrices of depth x and y.
MatMulDepth(b, dim, x, y) ==
  CASE b \in {"bgv", "dghv"} -> OrReduceTree[TermsOf(AndDepth(x, y), dim)]
    [] b = "batched" ->
         LET column == MaskDepth(MaskDepth(x))  \* column mask, then valid region
             row    == MaskDepth(MaskDepth(y))
         IN OrReduceTree[TermsOf(AndDepth(column, row), dim)]
    [] b = "rowcol" -> MaskDepth(SumORDepth(AndDepth(x, y), dim))

------------------------------------------------------------------------------
\* The noise of DGHV.  The noise of a ciphertext is the number 2r + m that
\* decrypt_bit recovers modulo the key.  Fresh, it is at most 2 ^ (rho + 1)
\* in absolute value; mul multiplies noises, and OR makes a + b - a * b of
\* noises a and b.  Hence if the noise plus one is at most b ^ x and b ^ y,
\* for b == 2 ^ (rho + 1) + 1, it is at most b ^ (x + y) after either: noise
\* is kept as that exponent.

FreshNoise      == 1
AndNoise(x, y)  == x + y
OrNoise(x, y)   == x + y

MatMulNoise(dim, x, y) == dim * AndNoise(x, y)  \* dim terms, ORed

------------------------------------------------------------------------------
\* What a DGHV key supports.

\* The code narrows the count to int, which changes it from 2 ^ 31 on only; the
\* loop over depths meets no such count for an eta_bits below 2 ^ 30.
noise_bits_after_depth(rho, depth) ==
  LET Bits[level \in Nat] == IF level = 0 THEN rho ELSE 2 * Bits[level - 1] + 2
  IN Bits[depth]

\* Faulty variant: one more level than the noise leaves room for.
max_supported_depth_OffByOne(eta, rho) ==
  LET Loop[depth \in Nat] ==
        IF noise_bits_after_depth(rho, depth) < eta - 1 THEN Loop[depth + 1] ELSE depth
  IN Loop[0]

max_supported_depth(eta, rho) ==
  LET Loop[depth \in Nat] ==
        IF noise_bits_after_depth(rho, depth + 1) < eta - 1 THEN Loop[depth + 1] ELSE depth
  IN Loop[0]

------------------------------------------------------------------------------

Init == /\ backend \in Backends
        /\ n = 1 /\ T = 1 /\ arg = 1
        /\ budget = 0 /\ slots = 0
        /\ frames = << >>
        /\ phase = "setup"
        /\ depthS = 0 /\ depthP = 0
        /\ noiseS = FreshNoise /\ noiseP = FreshNoise
        /\ IF backend = "dghv" THEN key \in Keys ELSE key = << >>
        /\ ProfilesInit

\* bgv::setup throws on a multiplicative_depth below 1, dghv::require_depth on
\* one that the key does not support.
Accepted(required_depth) ==
  IF backend = "dghv" THEN required_depth <= max_supported_depth(key[1], key[2])
                      ELSE required_depth >= 1

SetupFromEstimate ==
  /\ phase = "setup"
  /\ backend # "batched"
  /\ n' \in 1 .. MaxN /\ T' \in 1 .. MaxT /\ arg' = T'
  /\ backend = "rowcol" => IsPowerOfTwo(n')
  /\ budget' = Estimate(backend, n', T')
  /\ phase' = IF Accepted(budget') THEN "call" ELSE "failed"
  /\ UNCHANGED <<backend, slots, frames, depthS, depthP, noiseS, noiseP, key, profileVars>>

\* bgv_batched_closure: the parameters come from the database.  What a lookup
\* may find while a generator runs, it also finds after one was killed there.
SetupFromProfile ==
  /\ phase = "setup"
  /\ backend = "batched"
  /\ step = "idle"
  /\ n' \in 1 .. MaxN /\ T' \in 1 .. MaxT /\ arg' = T'
  /\ LET found == setup_from_profile(Estimate(backend, n', T'), n' * n')
     IN \/ /\ found = {}
           /\ phase' = "failed"
           /\ UNCHANGED <<budget, slots>>
        \/ \E p \in found : /\ phase' = IF n' * n' > p.ring_dimension THEN "failed" ELSE "call"
                            /\ budget' = p.depth_capacity
                            /\ slots' = p.ring_dimension
  /\ UNCHANGED <<backend, frames, depthS, depthP, noiseS, noiseP, key, profileVars>>

\* The database changes until the context has been set up; the closure does
\* not look at it again.
ProfileStep(A) == /\ phase = "setup"
                  /\ backend = "batched"
                  /\ A
                  /\ UNCHANGED closureVars

\* T = 1: two copies of the fresh encryption of A.
Base == /\ phase = "call"
        /\ arg = 1
        /\ depthS' = 0 /\ depthP' = 0
        /\ noiseS' = FreshNoise /\ noiseP' = FreshNoise
        /\ phase' = "return"
        /\ UNCHANGED <<fixedVars, frames, arg>>

\* Faulty variant: T = 1 is not a base case.
Recurse_PastBase == /\ phase = "call"
                    /\ arg >= 1
                    /\ frames' = <<arg>> \o frames
                    /\ arg' = Callee(arg)
                    /\ UNCHANGED <<fixedVars, phase, depthS, depthP, noiseS, noiseP>>

Recurse == /\ phase = "call"
           /\ arg > 1
           /\ frames' = <<arg>> \o frames
           /\ arg' = Callee(arg)
           /\ UNCHANGED <<fixedVars, phase, depthS, depthP, noiseS, noiseP>>

Pop == /\ phase = "return"
       /\ frames # << >>
       /\ arg' = Head(frames)
       /\ frames' = Tail(frames)
       /\ UNCHANGED <<fixedVars, phase>>

\* The levelled backends spend their levels on keeping the noise down.
NoiseOfDGHV(forS, forP) ==
  IF backend = "dghv" THEN noiseS' = forS /\ noiseP' = forP
                      ELSE UNCHANGED <<noiseS, noiseP>>

EvenStep == /\ Pop
            /\ Head(frames) % 2 = 0
            /\ depthS' = OrDepth(depthS, MatMulDepth(backend, n, depthP, depthS))
            /\ depthP' = MatMulDepth(backend, n, depthP, depthP)
            /\ NoiseOfDGHV(OrNoise(noiseS, MatMulNoise(n, noiseP, noiseS)),
                           MatMulNoise(n, noiseP, noiseP))

OddStep == /\ Pop
           /\ Head(frames) % 2 = 1
           /\ depthP' = MatMulDepth(backend, n, depthP, 0)
           /\ depthS' = OrDepth(depthS, depthP')
           /\ NoiseOfDGHV(OrNoise(noiseS, MatMulNoise(n, noiseP, FreshNoise)),
                          MatMulNoise(n, noiseP, FreshNoise))

Finished == /\ phase = "failed" \/ (phase = "return" /\ frames = << >>)
            /\ UNCHANGED vars

Next == \/ SetupFromEstimate \/ SetupFromProfile
        \/ Base \/ Recurse \/ EvenStep \/ OddStep \/ Finished
        \/ ProfileStep(ProfilesNext)

\* The generator is one process with nothing to wait for.
Spec == Init /\ [][Next]_vars /\ WF_vars(ProfileStep(GeneratorStep))

------------------------------------------------------------------------------

\* The variables have their types; a depth never decreases below a fresh one.
TypeOK == /\ backend \in Backends
          /\ n \in 1 .. MaxN /\ T \in 1 .. MaxT /\ arg \in 1 .. MaxT
          /\ budget \in Nat /\ slots \in Nat
          /\ frames \in Seq(2 .. MaxT)
          /\ phase \in {"setup", "call", "return", "failed"}
          /\ depthS \in Nat /\ depthP \in Nat
          /\ noiseS \in Nat \ {0} /\ noiseP \in Nat \ {0}
          /\ key \in Keys \cup {<< >>}
          /\ ProfilesTypeOK

\* At no point of the recursion is a ciphertext deeper than the context was
\* set up for, whichever backend, dimension and T, and whatever generators
\* and upgrades have done to the database: the computation never runs out of
\* levels, and a packed matrix fits into parameters that the OpenFHE in use
\* considers secure.
BudgetSuffices ==
  phase \in {"call", "return"} =>
    /\ depthS <= budget /\ depthP <= budget
    /\ backend = "batched" => n * n <= slots /\ SecureRing(version, budget) <= slots

\* What require_depth lets through can be decrypted: the noise stays below
\* half of every key of eta_bits bits, that is at most 2 ^ (eta_bits - 2).
\* With b ^ 3 <= 2 ^ (3 * rho + 4), which holds from rho = 1 on, that is this
\* comparison of exponents.  A computation of depth 0 is let through whatever
\* the key, even one that is too short for a fresh ciphertext.
NoiseFits ==
  backend = "dghv" /\ phase = "return" /\ T > 1 =>
    Max({noiseS, noiseP}) * (3 * key[2] + 4) <= 3 * (key[1] - 2)

\* What the message of RequireProfile says: the generator invocation that it
\* names would produce a suitable profile.  So a request for walks of at most n
\* edges is not refused when that very node count has been generated.
HintSuffices ==
  /\ phase = "failed" /\ backend = "batched" /\ file.state = "whole" /\ T <= n
  /\ Candidates(file.profiles, Estimate(backend, n, T), n * n) = {}
  => SuggestedNodes(n * n) \notin Kept
==============================================================================
