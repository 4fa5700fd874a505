-------------------------- MODULE ParameterProfiles --------------------------
(***************************************************************************)
(* The database of BGV parameter profiles: the offline generator that      *)
(* searches for profiles and rewrites the file, and the lookup with which  *)
(* the batched backend gets its parameters (bgv_parameter_profile.hpp,     *)
(* setup_from_profile, generate_bgv_batched_profiles.cpp).                 *)
(*                                                                         *)
(* One generator runs at a time.  It may be killed at any step, its write  *)
(* may be cut short, and another OpenFHE may be installed between runs.    *)
(* What OpenFHE accepts is external: SecureRing.  A vector of profiles     *)
(* that is sorted and free of duplicates is kept as the set of its         *)
(* elements.  The exit status tells only whether a node count failed.      *)
(*                                                                         *)
(* The module is a part of ClosureDepth, which asks for the parameters:    *)
(* hence ProfilesInit and ProfilesNext.                                    *)
(***************************************************************************)
EXTENDS DepthEstimates, Sequences

CONSTANTS
  IntValues,          \* values of an int and of a uint32_t (2 ^ 32); a size_t has twice the bits
  kMaxRingDimension,  \* ceiling of the search
  NodeLists,          \* bound: the lists given as --nodes
  Minimums,           \* bound: the values of --minimum-plaintext-modulus
  CheckedIn,          \* the profiles of the database in the repository
  CheckedInNodes,     \* and the node counts they were generated for
  LastVersion,        \* bound: the OpenFHE versions are 1 .. LastVersion
  SecureRing(_, _),   \* smallest ring dimension that a version accepts for a depth
  MaxRuns             \* bound: how often the generator is run

UInt32 == 0 .. IntValues - 1
Word   == IntValues * IntValues  \* the number of values of a size_t

Profiles == [depth_capacity : UInt32, ring_dimension : UInt32 \ {0},
             plaintext_modulus : 0 .. Word - 1, validated : BOOLEAN]

NTTCompatible(p) == (p.plaintext_modulus - 1) % (2 * p.ring_dimension) = 0

ASSUME IntAssumption       == IntValues \in Nat \ {0} /\ IntValues % 2 = 0
ASSUME BoundsAssumption    == LastVersion \in Nat \ {0} /\ MaxRuns \in Nat
ASSUME NodeListsAssumption == NodeLists \subseteq Seq(Nat \ {0})
ASSUME CheckedInAssumption ==
  /\ CheckedIn \subseteq Profiles
  /\ \A p \in CheckedIn : NTTCompatible(p) /\ p.plaintext_modulus > 2 /\ p.depth_capacity >= 1
  /\ CheckedInNodes \subseteq Nat \ {0}
  /\ \A k \in CheckedInNodes : Estimate("batched", k, k) \in UInt32
  /\ \A k \in CheckedInNodes : \E p \in CheckedIn :
       p.validated /\ p.depth_capacity >= Estimate("batched", k, k) /\ p.ring_dimension >= k * k

VARIABLES
  version,  \* the OpenFHE version installed
  file,     \* the database file
  saved,    \* history: the node counts that passed and whose profiles were written
  lost,     \* history: those of them that went with a write that was cut short
  runs,     \* how often the generator has been run
  step,     \* where it is: "idle", "next", "power", "search" or "write"
  nodes,    \* the node counts it has still to treat
  minimum,  \* its minimum_plaintext_modulus
  db,       \* the profiles it holds in memory
  passed,   \* the node counts that have passed
  required, \* required_depth of the node count it is at
  ring      \* result of NextPowerOfTwo, then the ring dimension being tried

generatorVars == <<nodes, minimum, db, passed, required, ring>>
profileVars   == <<version, file, saved, lost, runs, step, generatorVars>>

Missing  == [state |-> "missing", profiles |-> {}]
Torn     == [state |-> "torn",    profiles |-> {}]  \* no JSON, or none of the schema
Whole(S) == [state |-> "whole",   profiles |-> S]

\* The node counts that no write has taken away since they were last saved.
Kept == saved \ lost

------------------------------------------------------------------------------
\* The lookup.

ProfileLessThan(a, b) ==
  \/ a.ring_dimension < b.ring_dimension
  \/ /\ a.ring_dimension = b.ring_dimension
     /\ \/ a.depth_capacity < b.depth_capacity
        \/ /\ a.depth_capacity = b.depth_capacity
           /\ a.plaintext_modulus < b.plaintext_modulus

Candidates(S, required_depth, required_slots) ==
  {p \in S : /\ p.validated
             /\ p.depth_capacity >= required_depth
             /\ p.ring_dimension >= required_slots}

\* SelectProfile keeps the first of the least candidates; it fails on none.
SelectProfile(S, required_depth, required_slots) ==
  LET C == Candidates(S, required_depth, required_slots)
  IN {p \in C : \A q \in C : ~ProfileLessThan(q, p)}

\* The node count in the message of RequireProfile.
SuggestedNodes(required_slots) == Min({k \in 1 .. required_slots : k * k >= required_slots})

\* bgv_batched::setup with a pinned ring dimension.
SetupAccepts(p) == /\ p.plaintext_modulus > 2
                   /\ p.depth_capacity >= 1
                   /\ p.ring_dimension >= SecureRing(version, p.depth_capacity)

\* setup_from_profile: the profile whose context it returns; none if it throws.
setup_from_profile(required_depth, required_slots) ==
  IF file.state = "whole"
  THEN {p \in SelectProfile(file.profiles, required_depth, required_slots) :
          /\ SetupAccepts(p)
          /\ NTTCompatible(p)
          /\ p.ring_dimension >= required_slots
          /\ p.depth_capacity >= required_depth}
  ELSE {}

------------------------------------------------------------------------------
\* The helpers of the generator.

\* static_cast<int> of a size_t.
AsInt(k) == LET low == k % IntValues
            IN IF low < IntValues \div 2 THEN low ELSE low - IntValues

RequiredPlaintextBits(least) ==
  LET Bits[v \in Nat] == IF v = 0 THEN 0 ELSE 1 + Bits[v \div 2] IN Bits[least]

\* OpenFHE's FirstPrime and NextPrime, primality not told apart: the values
\* 1 modulo m from 2 ^ nBits on.
FirstPrime(nBits, m) == m * ((2 ^ nBits - 2 + m) \div m) + 1
NextPrime(t, m)      == t + m

FindCompatiblePlaintextModulus(ring_dimension, least) ==
  LET m == 2 * ring_dimension
      Bump[t \in Nat] == IF t < least THEN Bump[NextPrime(t, m)] ELSE t
  IN Bump[FirstPrime(RequiredPlaintextBits(least), m)]

Slots == Head(nodes) * Head(nodes)  \* required_slots

Candidate == [depth_capacity    |-> required,
              ring_dimension    |-> ring,
              plaintext_modulus |-> FindCompatiblePlaintextModulus(ring, minimum),
              validated         |-> TRUE]

------------------------------------------------------------------------------
\* The generator.

ProfilesInit ==
  /\ version = 1
  /\ \/ file = Missing /\ saved = {}
     \/ file = Whole(CheckedIn) /\ saved = CheckedInNodes
  /\ lost = {}
  /\ runs = 0
  /\ step = "idle"
  /\ nodes = << >> /\ minimum = 0 /\ db = {} /\ passed = {} /\ required = 0 /\ ring = 0

\* The process is gone, and with it all that it held in memory.
Exit == /\ step' = "idle"
        /\ nodes' = << >> /\ minimum' = 0 /\ db' = {} /\ passed' = {} /\ required' = 0 /\ ring' = 0

\* Faulty variant: the existing file is not loaded first.
StartGenerator_Afresh ==
  /\ step = "idle" /\ runs < MaxRuns
  /\ runs' = runs + 1
  /\ nodes' \in NodeLists /\ minimum' \in Minimums
  /\ db' = {}
  /\ step' = "next"
  /\ UNCHANGED <<version, file, saved, lost, passed, required, ring>>

\* A file that cannot be loaded is not an error: the database starts afresh.
StartGenerator ==
  /\ step = "idle" /\ runs < MaxRuns
  /\ runs' = runs + 1
  /\ nodes' \in NodeLists /\ minimum' \in Minimums
  /\ db' = file.profiles
  /\ step' = "next"
  /\ UNCHANGED <<version, file, saved, lost, passed, required, ring>>

\* Faulty variant: a narrowed T below 1 is not refused.
ComputeRequirement_AnyT ==
  /\ step = "next" /\ nodes # << >>
  /\ \/ /\ Head(nodes) > (Word - 1) \div Head(nodes)
        /\ nodes' = Tail(nodes)
        /\ UNCHANGED <<step, required, ring>>
     \/ /\ Head(nodes) <= (Word - 1) \div Head(nodes)
        /\ required' \in UInt32
        /\ required' = Estimate("batched", Head(nodes), Max({1, AsInt(Head(nodes))}))
        /\ ring' = 1
        /\ step' = "power"
        /\ UNCHANGED nodes
  /\ UNCHANGED <<version, file, saved, lost, runs, minimum, db, passed>>

\* N * N must not overflow, and EstimateBGVBatchedDepth throws for T < 1,
\* which T = N becomes when it is narrowed to int.
ComputeRequirement ==
  /\ step = "next" /\ nodes # << >>
  /\ LET N == Head(nodes)
         throws == N > (Word - 1) \div N \/ AsInt(N) < 1
     IN \/ /\ throws
           /\ nodes' = Tail(nodes)
           /\ UNCHANGED <<step, required, ring>>
        \/ /\ ~throws
           /\ required' \in UInt32
           /\ required' = Estimate("batched", N, AsInt(N))
           /\ ring' = 1
           /\ step' = "power"
           /\ UNCHANGED nodes
  /\ UNCHANGED <<version, file, saved, lost, runs, minimum, db, passed>>

\* The loop ends when ring is large enough; a shift may overflow.
NextPowerOfTwo ==
  /\ step = "power"
  /\ \/ /\ ring < Slots
        /\ ring' = (2 * ring) % Word
        /\ UNCHANGED step
     \/ /\ ring >= Slots
        /\ step' = "search"
        /\ UNCHANGED ring
  /\ UNCHANGED <<version, file, saved, lost, runs, nodes, minimum, db, passed, required>>

DoubleRing ==
  /\ step = "search" /\ ring <= kMaxRingDimension
  /\ ring < SecureRing(version, required)
  /\ ring' = 2 * ring
  /\ UNCHANGED <<version, file, saved, lost, runs, step, nodes, minimum, db, passed, required>>

\* OpenFHE accepted the candidate and all that main checks of it holds.
KeepProfile ==
  /\ step = "search" /\ ring <= kMaxRingDimension
  /\ Candidate \in Profiles
  /\ SetupAccepts(Candidate)
  /\ NTTCompatible(Candidate)
  /\ ring >= Slots
  /\ db' = db \cup {Candidate}
  /\ passed' = passed \cup {Head(nodes)}
  /\ nodes' = Tail(nodes)
  /\ step' = "next"
  /\ UNCHANGED <<version, file, saved, lost, runs, minimum, required, ring>>

\* No ring dimension is left to try, OpenFHE fails for another reason, or the
\* candidate fails its end-to-end validation.
GiveUp ==
  /\ step = "search"
  /\ nodes' = Tail(nodes)
  /\ step' = "next"
  /\ UNCHANGED <<version, file, saved, lost, runs, minimum, db, passed, required, ring>>

\* Opening the file for writing truncates it.
OpenDatabase ==
  /\ step = "next" /\ nodes = << >>
  /\ file' = Torn
  /\ step' = "write"
  /\ UNCHANGED <<version, saved, lost, runs, generatorVars>>

CannotOpenDatabase ==
  /\ step = "next" /\ nodes = << >>
  /\ Exit
  /\ UNCHANGED <<version, file, saved, lost, runs>>

SaveDatabase ==
  /\ step = "write"
  /\ file' = Whole(db)
  /\ saved' = saved \cup passed
  /\ lost' = lost \ passed
  /\ Exit
  /\ UNCHANGED <<version, runs>>

\* The stream is not checked after the write: the exit status does not tell.
\* What the file held before it was opened is lost with it.
WriteShort ==
  /\ step = "write"
  /\ lost' = saved
  /\ Exit
  /\ UNCHANGED <<version, file, saved, runs>>

\* The generator is killed; the file it was rewriting stays as it is.
Die ==
  /\ step # "idle"
  /\ lost' = IF step = "write" THEN saved ELSE lost
  /\ Exit
  /\ UNCHANGED <<version, file, saved, runs>>

InstallOpenFHE ==
  /\ step = "idle" /\ version < LastVersion
  /\ version' = version + 1
  /\ UNCHANGED <<file, saved, lost, runs, step, generatorVars>>

GeneratorStep ==
  \/ ComputeRequirement \/ NextPowerOfTwo \/ DoubleRing \/ KeepProfile \/ GiveUp
  \/ OpenDatabase \/ CannotOpenDatabase \/ SaveDatabase \/ WriteShort

ProfilesNext == StartGenerator \/ GeneratorStep \/ Die \/ InstallOpenFHE

------------------------------------------------------------------------------

\* The variables have their types; a generator that does not run holds nothing.
ProfilesTypeOK ==
  /\ version \in 1 .. LastVersion
  /\ file \in [state : {"missing", "torn", "whole"}, profiles : SUBSET Profiles]
  /\ file.state # "whole" => file.profiles = {}
  /\ saved \subseteq Nat \ {0} /\ passed \subseteq Nat \ {0} /\ lost \subseteq saved
  /\ runs \in 0 .. MaxRuns
  /\ step \in {"idle", "next", "power", "search", "write"}
  /\ nodes \in Seq(Nat \ {0})
  /\ minimum \in Minimums \cup {0}
  /\ db \subseteq Profiles
  /\ required \in UInt32
  /\ ring \in Nat
  /\ step \in {"power", "search"} => nodes # << >>

\* What the lookup finds for a node count at T = N.
CandidatesFor(k) == Candidates(file.profiles, Estimate("batched", k, k), k * k)
SelectedFor(k)   == SelectProfile(file.profiles, Estimate("batched", k, k), k * k)

\* Every node count the generator reported as passed and wrote has a candidate
\* at T = N ever after, and is served with the one that is selected unless the
\* OpenFHE in use refuses that: no later run, for whatever nodes and minimum,
\* whether it fails, is killed before the write or finds a cheaper profile,
\* takes that away.  A write that is cut short takes the file away, and then
\* what is generated again is served again.
SavedIsServed ==
  file.state = "whole" =>
    \A k \in Kept :
      /\ CandidatesFor(k) # {}
      /\ (\A p \in SelectedFor(k) : SetupAccepts(p)) =>
           setup_from_profile(Estimate("batched", k, k), k * k) # {}

\* A generator that is started comes to an end, for whatever node counts: no
\* product wraps round into a search without end.
GeneratorReturns == step # "idle" ~> step = "idle"
==============================================================================
