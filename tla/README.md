# TLA+ models of tc-fhe

This directory models, checks and proves properties of **tc-fhe**, a C++ library
that computes transitive closures of encrypted graphs with several homomorphic
encryption backends.  Line numbers refer to the sources at the root of the
repository (`include/btc/`, `src/`, `tools/`); the short names are:

| short | file |
|---|---|
| dist | `include/btc/bgv_distributed_rowcol_backend.hpp` |
| serial | `include/btc/bgv_mpi_serial.hpp` |
| rowcol | `include/btc/bgv_rowcol_backend.hpp` |
| artifacts | `include/btc/bgv_distributed_rowcol_artifacts.hpp` |
| tool | `tools/bgv_distributed_rowcol_artifacts.cpp` |
| algo | `include/btc/algorithms.hpp` |
| batched | `include/btc/bgv_batched_backend.hpp` |
| dghv | `include/btc/dghv.hpp` |
| profile | `include/btc/bgv_parameter_profile.hpp` |
| profile_setup | `include/btc/bgv_batched_profile_setup.hpp` |
| generator | `tools/generate_bgv_batched_profiles.cpp` |

Contents: 1 inventory, 2 hard behaviours, 3 modules, 4 runs and bounds,
5 fairness and deadlock, 6 proofs, 7 disagreements found, 8 not modelled,
9 plan.

## 1. Inventory

### Layers

    tool: prepare | compute | decrypt | full            (processes, files, exit status)
      artifacts: manifest, keys, ciphertext files       (one directory)
      closure: bounded_transitive_closure, DistributedSumPowers
        distributed backend: matmul, matmul_pair, or_mat   (MPI ranks, OpenMP threads)
          serial: Send/Recv/Isend/Bcast of batches
          row/column backend: BooleanDotProduct, MaskMult  (slots of one ciphertext)
            OpenFHE (BGV)
    other backends under the same closure: bgv, bgv_batched, dghv, tfhe, plaintext
    parameters: depth estimates, parameter profiles

### Components

| component | state it keeps | operations | what makes it correct |
|---|---|---|---|
| Closure (algo 23-89, dist 1128-1160) | the C++ call stack and the pair (S, P) | sum_powers_recursive, bounded_transitive_closure, floyd_warshall | S(T) = pairs joined by 1..T edges, P(T) by exactly T; T = N suffices |
| Depth and noise estimates (one formula per backend; dghv 167-225) | none | matmul depth, closure depth, the checks of setup and require_depth | no ciphertext ever gets deeper, or noisier, than the parameters allow |
| Distributed construction (dist 356-444, 720-725) | context and keys of every rank | both constructors, BroadcastContextBundle, EncryptFromRoot | every rank computes under the keys of rank 0 |
| Row/column backend (rowcol) | packed rows and columns, rotation keys, counters | Encrypt, Decrypt, matmul in three variants, or_mat | rows and columns describe one matrix; slots stay bits; padding stays clean |
| Process grid (dist 145-263) | row_comm, col_comm, blocks | BuildProcessGrid2D, ComputeBlockPartition | blocks tile the matrix, every index has one owner |
| Distributed matmul and or_mat (dist 600-643, 750-813) | the row and column block of every rank | MatMulOnGrid, or_mat | every cell once, every copy the same |
| Assembly (dist 830-983) | messages in flight, accumulators | AssembleRows/Cols, AssembleOwnedBucket, GatherOwnedToAll | every piece added once, nobody left waiting |
| matmul_pair, gather, scatter (dist 501-591, 1012-1081) | three grids, matrices in transit | matmul_pair, GatherToRankWithinGrid, ScatterFromRankToGrid, DecryptOnRoot | both products in the shape of the whole grid, no message taken for another |
| MPI helpers (serial) | pending sends | Send, Recv, Isend, Bcast, WaitAllSends | buffers live as long as MPI reads them |
| Artifacts (artifacts) | files on disk | Prepare, LoadOwnedCiphertextsForRank, SaveDistributedResult, DecryptResult, RequireKeysetMatch | decrypt shows only what belongs together |
| Artifact tool (tool) | exit status of every rank | RunPrepare, RunCompute, RunDecrypt, RunFull | every rank returns, with one truthful status |
| Batched backend (batched) | one ciphertext per matrix, masks, rotation keys | pack, broadcasts, OR tree, matmul, or_mat | offsets and masks select the right slots; no key is missing |
| Unpacked BGV, DGHV, TFHE, plaintext backends | N*N ciphertexts | matmul, or_mat, encrypt, decrypt | the same triple loop each; noise within bounds |
| Parameter profiles (profile, profile_setup) | the database file | load, save, sort, deduplicate, SelectProfile, setup_from_profile | the selected profile fits the request and the OpenFHE in use |
| Profile generator (generator) | profiles in memory, the node count it is at | requirement, search over ring dimensions, validation, rewriting the file | what it has saved keeps a candidate until a write is cut short, and it returns |
| Graph files, matrices, benchmarks, examples, scripts | none | parsing, timing | outside the models |

### Interactions

* Closure to backend: plain calls; the distributed closure issues the two
  products of an even step as one `matmul_pair`.
* Rank to rank: point-to-point messages and broadcasts on four kinds of
  communicator (world, grid, row_comm or col_comm, the half that `matmul_pair` splits
  off the world).
* Thread to thread: accumulators shared inside a `critical` section or kept per
  thread and reduced afterwards.
* Mode to mode: only through the files of the artifact directory.
* Generator to closure: only through the database file, possibly across an upgrade of
  OpenFHE.
* Exception to rank: a status variable taken to an `MPI_Allreduce` or `MPI_Bcast`.

## 2. Hard behaviours

What tests hardly reach in this code, in the order the models take it up
(`hazards` in `PROJECT.json` lists each at its line):

1. ranks of one communicator drift apart: a fast rank sends its batch of the next
   call with the same tag while a slow one still receives;
2. whether MPI buffers a blocking send and whether a broadcast synchronises is
   up to the library, so the code must be right and deadlock-free either way;
3. the payload of a batch goes under `tag + 1`, which is the tag of the next kind
   of batch (301 is the payload of rows and the size of columns);
4. threads add to shared accumulators; pieces are *added*, not ORed, so a piece
   added twice gives a 2 that decrypts to no bit;
5. uneven and empty blocks, ranks that own nothing, halves of unequal size;
6. `EvalRotate` turns all physical slots, not the N-slot window or one matrix row;
7. the depth, and for DGHV the noise, is fixed before the computation, by a formula;
8. a mode, or the generator, may die between any two writes, and the next one finds what
   it left;
9. one rank throws and the others do not;
10. what was checked when a profile was generated may not hold when it is used.

## 3. Modules

| module | models | uses |
|---|---|---|
| `AllReduce` | abstract: what an assembly promises | |
| `AssembleOwned` | AssembleRows/Cols at message level (dist 830-983, serial 224-288) | implements `AllReduce` |
| `AssembleOwnedInv`, `AssembleOwnedProofs` | inductive invariant, proofs | `AssembleOwned` |
| `ProcessGrid` | grid shape, blocks, ownership (dist 145-263) | |
| `PackedVectors` | backend operations on the N-slot window, plain Boolean product and union | |
| `GridMatMul`, `GridMatMulProofs` | MatMulOnGrid and or_mat on the whole grid with OpenMP threads; proofs | `ProcessGrid`, `PackedVectors`, implements `AllReduce` |
| `MatMulPair` | the key broadcast of the constructor, EncryptFromRoot, matmul_pair and DecryptOnRoot, MPI call by MPI call | `ProcessGrid` |
| `MatMulPairInv`, `MatMulPairProofs` | the clock of its calls and the inductive invariant, proofs | `MatMulPair` |
| `SumPowers`, `SumPowersProofs` | the recursion of the closure; proofs | |
| `DepthEstimates` | the depth formulas of the four levelled backends | |
| `ParameterProfiles` | the profile database, its lookup and its generator | `DepthEstimates` |
| `ClosureDepth` | the recursion counted in levels, and in noise for DGHV, against the estimate or the profile its context was set up from | composes `ParameterProfiles` with the closure |
| `ClosureDepthProofs` | inductive invariants of the database and of the recursion, proofs | `ClosureDepth` |
| `BatchedPacking`, `BatchedPackingProofs` | construction, matmul and or_mat of the batched backend, rotation by rotation; proofs | |
| `RowColSlots` | BooleanDotProduct and MaskMult on physical slots | |
| `RowColMatMul` | the three matmul variants of one process, on windows | `PackedVectors` |
| `RowColBackend`, `RowColBackendProofs` | one matmul from the loops down to the slots; proofs of both levels | composes `RowColSlots` and `RowColMatMul`, implements the latter |
| `ArtifactWorkflow` | prepare, compute, decrypt on one directory, with deaths | |
| `FullRun` | RunFull on all ranks: failures against collectives | |
| `ArtifactToolProofs` | proofs of these two modules | `ArtifactWorkflow`, `FullRun` |
| `MC...` | definitions a `.cfg` cannot write | the module each is named after |

How state and actions correspond to the code:

**AssembleOwned.** `pc[r]` and `cursor[r]` are the point and the loop variable of
AssembleOwnedBucket and GatherOwnedToAll.  A ciphertext is the *bag* of the pieces
added into it, each naming the rank, the call and the index it came from, so that a
lost, doubled, stale or misdirected piece is visible.  `net` are the FIFO channels
of the point-to-point batches, and `pending[s][d]` is the memory of the PendingSend of s
for d.  `IsendBatch` chooses whether MPI copies the batch; one that it did not copy is read
out of that memory when it is received (`Payload`), so it must still be there.
`WaitAllSends` waits for the uncopied ones to be received and then clears the memory, as
the code's local vector goes.  `bnet` are the
broadcast batches; after a broadcast `AfterBcast` chooses whether the rank goes on
or is held until all have entered.  Size and payload of a batch are one message
here.  Ranks make several calls one after another without anything in between.

**GridMatMul.** A rank's `phase` is the point in MatMulOnGrid or or_mat, `todo`
the iterations of the collapsed loop each thread still has (`schedule(static)`),
`acc` what a thread has read inside the critical section and not yet written: the
section is three steps so that removing it would show.  `rowIn` and `colIn` keep
what a rank brought to each assembly; the assemblies themselves are taken at the
contract of `AllReduce`, which `AssembleOwned` implements.  `Program` is the
sequence of calls the recursion makes on the current matrix.

**MatMulPair.** A rank is the list of the MPI calls that the code makes
(`Script`), built by operators that follow the C++ functions, so one gather in the
code is one use of `GatherToRankWithinGrid`.  The actions are what MPI does with a
call.  Here a batch is two messages, with tags `tag` and `tag + 1`.  Values are the
list of matrices a ciphertext is a product of.  The sequence of backend calls in `Script`
is that of `test_bgv_distributed_rowcol`, with the pair product in place of the recursion
round it and four operands told apart.  `failed` is a receive that got
another message than it was posted for, or a range check of `row_at`/`col_at`.

**SumPowers / ClosureDepth.** `frames` is the stack of the waiting invocations,
`arg` the argument of the innermost, `phase` whether it is entered or has returned.
SumPowers computes relations; ClosureDepth computes the multiplicative depth of the
matrices for each of the backends and compares it with the depth that the context was
set up for: the estimate, or for the batched backend the profile that the database gives
it (`SetupFromEstimate`, `SetupFromProfile`).  `DepthEstimates` holds the formulas the code
computes in advance, ClosureDepth the circuits it then runs, so the two can disagree.  For DGHV it
also carries a bound on the noise: with b = 2^(rho+1) + 1, a noise is kept as the
exponent x for which |noise| + 1 <= b^x; a fresh ciphertext has x = 1, and AND and OR
(a + b - a*b) add exponents.  `key` is <<eta_bits, rho_bits>>.

**ParameterProfiles.** `file` is missing, torn (a write that was cut short) or whole with a
set of profiles; loading, which reports an error for the first two, gives no profile then.
`step` is where the generator is: between node counts ("next"), in NextPowerOfTwo ("power"),
trying one ring dimension after another ("search"), or with the file truncated and not yet
written ("write").  `db` is the database in its memory.  `Die` ends it anywhere,
`WriteShort` is a short write to the stream that SaveDatabase does not check afterwards
(profile 161), `InstallOpenFHE` changes the version between two runs.  Which ring dimension
OpenFHE wants for a depth is the constant `SecureRing(version, depth)`; whether the end-to-end
validation passes is a choice (`GiveUp`).  A size_t wraps at `IntValues` squared and T = N is
narrowed to an int of `IntValues` values, as in the code.  Two history variables: `saved` are
the node counts that were reported as passed and whose profiles were written, `lost` those
of them that went with a write that was cut short or killed after it had truncated the file,
until they are generated again; `Kept` are the others.

**RowColSlots.** A ciphertext is the function from its R physical slots to
integers; `EvalRotate` turns all of them.  One action is one round of SumOR.

**BatchedPacking.** A ciphertext is a function from `slots` (chosen at the start) to
integers; `k`, `next` are the loop variables of matmul and of a broadcast, `acc` its
running sum, `terms` the vector that the OR tree shrinks level by level.  A rotation
without a key ends in `failed`, as EvalRotate throws.

**RowColMatMul.** The three implementations as stages; reading and writing back an
accumulator of the optimized variant are separate steps.

**RowColBackend.** The serial matmul with the actions of RowColSlots as its dot product,
cell after cell; `AddPieces` masks the product twice, for its row and for its column.  The
OpenMP variants are those of RowColMatMul.  `ImplementsMatMul` says that the whole is an
implementation of RowColMatMul, whose dot product is one step.

**ArtifactWorkflow.** A file holds the stamp of what it was made from (keypair,
input, bound T).  `OpenFile` truncates, `WriteFile` completes, `Die` ends the process
between any two steps, `WriteShort` is a short write to one of the files whose
stream the code does not check after its last byte.  Only one process runs at a
time.  `prepared`, `computed` and `verdict` are history variables of the properties.

**FullRun.** `pc` walks the steps of RunFull; `fails` says, once and for the run, on
which ranks a step throws; `entered` records the collectives per communicator, which
match by their order.  All collectives inside the closure and the gather are one.

`Faulty variant` definitions (named `Definition_What`) are plausible bugs of the
definition that follows them.  No specification uses them; each shows that a property
can be violated when it takes the definition's place (`mutants` in `PROJECT.json`).

## 4. Runs and bounds

| run | instance | what it shows |
|---|---|---|
| assemble | 3 ranks, rows 2 and 3, 3 calls | ExactlyOnce, BoundedBacklog, Termination; implements AllReduce |
| grid | 2 x 2 grid, N = 3, two threads, matmul, or_mat, matmul, two graphs | BlocksMatchProduct at every return; a call is a barrier of the whole grid (ImplementsBarrier); Termination |
| matmul_pair | 3 ranks, N = 2 | BothProducts, MessagesMatch, NothingPending, Termination |
| sum_powers | all 512 graphs on 3 nodes, T = 0..7 | PowersCorrect at every level, BoundedClosure, ClosureIsWarshall |
| closure_depth | 4 backends, n = 1..9, T = 1..33; two generator runs, two OpenFHE versions | BudgetSuffices, NoiseFits with the shortest DGHV keys, SavedIsServed, GeneratorReturns |
| rowcol | N = 4, R = 8, two threads, 16 pairs of matrices, three variants | Replicated, KeysInstalled, RowsAndColsAreProduct; implements RowColMatMul (ImplementsMatMul) |
| batched_packing | N = 3, 8, 9 or 11 slots, 512 x 2 pairs of matrices | MultipliesOrRefuses |
| artifact_workflow | N = 2, bounds {1, 3, 4}, 3 prepare runs | CompletedPrepareIsAuthoritative, AcceptedIsOneClosure, NoFalseRejection |
| full_run | 4 ranks, faults on all ranks or on rank 0 | AgreedStatus, ExitTellsTheTruth, PhasesDoNotOverlap, EveryRankReturns |
| profile_hint | batched backend, n and T = 1..9 | violation, section 7 |
| keyset_mixup | N = 2, 2 prepare runs | violation, section 7 |
| compute_not_synchronized | 3 ranks, one rank cannot read a block | violation, section 7 |

Why the bounds are enough:

* *assemble*: it is the row_comm of the second process row of 6 ranks on a 4 x 4
  matrix; rank 2 owns row 2, rank 0 row 3 and rank 1 nothing, so a rank may be an
  owner or not, a source below or above the receiver.  A rank can be at most one call
  ahead of another (BoundedBacklog), so the third call begins after every possible
  overlap has occurred once.  Four ranks with two calls hold as well (141 000 states).
  The proofs remove the bounds altogether for the safety part.
* *grid*: the smallest grid with both dimensions above one; three calls let a rank be
  in the second while another is in the first and the third use results of both.  N = 3
  makes blocks of two and one, so a rank has from one to four cells for its two threads,
  and in or_mat the last rank owns neither a row nor a column of its blocks.  The graphs are a
  cycle, and a path with a loop.  The theorems remove these bounds from all three safety
  properties: any number of ranks, and so every shape of grid and empty blocks, any N,
  number of threads and program of calls.  Termination is checked on this instance only.
* *matmul_pair*: three ranks make halves of one and two, hence three grids of
  different shape; N = 2 leaves empty blocks in the grid of three.  The script begins with
  the constructor and four encryptions, so that a rank may still be behind in a broadcast
  on one communicator when another is ahead on the next.  Four ranks exceed
  what can be checked quickly.  The theorems remove both bounds from the four safety
  properties; Termination is checked on this instance only.
* *sum_powers*: T up to 7 gives every pattern of odd and even up to four levels; it
  is above N + 1 and so covers the saturated closure.  The proofs are for all N and T, that
  floyd_warshall agrees included.
* *closure_depth*: T up to 33 has chains of up to eight levels (31) and one step beyond the
  powers of two at 16 and 32, n up to 9 crosses the powers of two at 2, 4 and 8 where the
  formulas step.  The DGHV keys are, for each depth
  up to 20 and rho = 1 and 2, the shortest that require_depth lets through and the longest
  that it refuses; the smallest rho leaves the least slack.  The profiles live in a small
  world: an int has 512 values and the rings are 64 to 256, where the real ones are 2^15
  and more, so that a node count of three digits already overflows.  The lists of node counts
  have one whose T is odd, two that share a ring, one that no ring below the ceiling holds, one
  that turns negative as an int, and one whose slots overflow.  Two generator runs
  are one that saves and one that could take it away; the second OpenFHE version wants larger
  rings, so that it refuses profiles the first accepted.  The theorems remove these bounds
  from the type invariant, BudgetSuffices, NoiseFits and SavedIsServed; GeneratorReturns is checked on
  this world only.  MCClosureDepth also evaluates, as an assumption, that one matmul
  adds exactly the levels of its formula, for dimensions up to 20.
* *rowcol*: R = 2N is the least padding under which a window rotation cannot meet its own
  copy; two rounds of SumOR are the first and the last.  The products of the sixteen pairs
  multiply every pair of 4-bit vectors.  Two threads share a column, and a matrix row is one
  iteration of a loop, so every overlap of two accumulations occurs.  Everything this run
  checks is also proved, for all N, R >= 2N, operands and numbers of threads.
* *batched_packing*: dimension 3 has rotations by 1 and 2 in both directions and both
  strides, and an odd number of terms; the operands run through every matrix on the left,
  and on the right rows that are empty, full and mixed and a column that is empty.  A
  ciphertext of exactly nine slots has no padding to absorb a wrong rotation.  The theorems are
  for all N, numbers of slots and operands.
* *artifact_workflow*: three prepare runs and any number of computes and decrypts: the
  result may come from the first, the keys from a dead second and the manifest from a
  third.  N = 2 makes a half-overwritten result possible.  Bounds 1 and 4 take different depths,
  3 and 4 the same, so that a new bound may or may not change the crypto context.  The theorems remove the bounds.
* *full_run*: four ranks give a 2 x 2 grid; every combination of the failing steps is
  an initial state.  The theorems are for any number of ranks and any faults; EveryRankReturns
  is checked on this instance only.

Every action fires in some passing run.  A run of `full_run` or `matmul_pair` ends in
states without successor, as the program does.

## 5. Fairness and deadlock

Liveness is stated under weak fairness of the step of each *rank* (`WF_vars(Step(r))`):
an MPI process is never suspended for ever, and there is no scheduler in the code that
could favour one rank.  GridMatMul adds weak fairness of "some thread of the rank
steps"; which thread enters the critical section is not constrained, since OpenMP does
not promise fairness there.  No fairness is assumed of the choices inside a step
(whether MPI buffers a message, whether a broadcast synchronises): Termination holds
for each.

GeneratorReturns assumes weak fairness of the steps of the generator, one process
with nothing to wait for; not of starting, killing or upgrading anything.

`CHECK_DEADLOCK FALSE` is set where the system stops: all ranks have returned from all
their calls, the loops of a product have ended, all ranks have exited.  It is not set for
closure_depth: there a closure that has returned or thrown stays so (`Finished`), and any other
stop is an error, such as a depth that is no uint32_t.
For the runs of ranks the liveness property rules out every other way of stopping.

## 6. Proofs

All theorems are of the form `Spec => []Inv`, or a refinement, for every value of the
constants that satisfies the named assumptions. Each proof module holds an inductive
invariant, one lemma per action that keeps it, and the theorems that follow from it. TLC
checked each of these invariants on the instance of section 4, or a smaller one, before it
was proved; that of MatMulPair on all states of two ranks, with the order of a channel
computed by sorting the keys, since TLC cannot evaluate the quantifier of `Listing`.

**AssembleOwnedProofs** (P ranks, P >= 1; any set of natural indices; any number of calls):
`TypeCorrect`, `AssemblesExactlyOnce`, `BacklogIsBounded`, `Refinement`.
ExactlyOnce is not inductive: it says nothing of the batches in flight. `IInv` in
`AssembleOwnedInv` adds `NetInv` and `BnetInv` (a channel holds the batches of exactly the
calls that the sender has served and the receiver has not, oldest first), `OwnedInv` (an
accumulator holds the pieces of the sources passed so far) and `OutInv` (the same for the
broadcasts). `BufferInv` says that what an uncopied batch will be read out of still holds
its pieces: without WaitAllSends that fails, and with it ExactlyOnce. The number of batches in a channel is the difference of two counters, `Sent -
Recvd`, read off the program counters; that a fast sender cannot be two ahead follows from
the broadcasts, which bounds the backlog. The refinement maps `arrived` to `call`,
`returned` to the calls completed, `result` to `assembled`: only Enter and Return are steps
of AllReduce, all others stutter, and Return needs from IInv that every rank has entered the
call.

**GridMatMulProofs** (any number of ranks, any N, any number of threads, any program of
calls, any inputs): `TypeCorrect`, `BlocksAreTheProduct`, `Refinement`. The first part is
about `ProcessGrid`: `GridFactors` (the most nearly square factorisation does factorise P),
`Coordinates` and `RankAt` (one rank per place of the grid), `BlocksTile` (the blocks are
disjoint and cover, whatever the remainder), `SharesTile` (a cell of a block is in one
thread's share). BlocksMatchProduct speaks of a rank that has returned; the invariant says
what is there before: `RowDone(r)` and `ColDone(r)` are the cells whose piece is already in
the row and column accumulator of rank r, `ThreadInv` that the threads of a rank take turns
in the critical section and that what one has read there is still what stands there,
`PartialInv` that the accumulators hold the sum of exactly those cells, `CallInv` what a
rank has brought to the assemblies of its calls so far and that its blocks are those of the
matrix that the program has computed (`After`). `WaitInv` is the one part about several
ranks: nobody is past the row assembly of a call before its whole process row has entered
it. A step changes the accumulators of one rank only (`StepsAreLocal`, `Untouched`, `ThreadsKept`). At the
return from an assembly the ranks of the communicator hold, for each cell, one piece between
them (`RowsAssembled`, `ColsAssembled`), because one column block each tiles the columns.
For the refinement: the last assembly of a call is entered only after the first has
returned, and the ranks of a process row and those of a process column together reach the
whole grid.

**SumPowersProofs** (any N, any MaxT): `TypeCorrect`, `PowersAreCorrect`,
`ComputesBoundedClosure`, `WarshallIsReach`, `BoundedClosureIsWarshall`. The heart is two
lemmas on walks (a walk of j + k edges is two walks glued; walks up to 2h are those up to h
and those of h followed by 1..h). PowersCorrect speaks of the innermost invocation only;
`FramesInv` says that the stack is the chain of callees from T down, so that what returns
last is the answer for T. That T = N suffices is a pigeonhole argument: a walk of more than
N edges visits a node twice (`SameNodeTwice`) and can be cut (`CutWalk`), so the least one
has at most N (`ShortWalks`), and on an acyclic graph at most N - 1 (`AcyclicWalks`).
floyd_warshall is a recursive function of the number of rounds; `RoundsAreClosure` says that
after round k it holds a subset of the reachable pairs that contains the graph and is closed
through the nodes below k (`RoundCloses`), and after N rounds that is all of them.

**ClosureDepthProofs** (any set of dimensions, bounds, backends and keys; any list of
positive node counts, any minimum modulus, any `SecureRing`, any number of runs and
versions): `DatabaseTypes`, `SavedStaysServed`, `ClosureTypes`, `DepthWithinBudget`,
`NoiseWithinKey`, `MatMulIsFormula`.

*The database.* SavedIsServed speaks of a whole file and is not inductive. `IInv` adds
`FileInv` (every profile in the file is sound, and a whole file has a candidate for every
node count in `Kept`; with no whole file, outside a write, `Kept` is empty), `MemoryInv` (a
running generator holds everything that is in the file it is going to replace, and once the
file is truncated a candidate for all of `Kept`) and
`SearchInv` (the depth searched for is that of the node count it is at). Two lemmas carry
the argument: `NarrowedIsSame`, that an N whose square fits a size_t and that is positive as
an int is the same number as an int, so that the depth of T = N is budgeted and not that of
another T; and `LeastProfile`, that any nonempty set of profiles has a least one, so that a
lookup with candidates selects one. The theorem ends where a write is cut short: it speaks
of `Kept`, and with `saved` in its place it is false (section 7). That the selected
profile is also accepted is a premise, since the lookup tries only that one. Assumptions: IntValues is
even; the profiles shipped with the repository fit the node counts they were generated for
(TLC evaluates this for the shipped database of the small world).

*The recursion.* `MatMulIsFormula` is the ground: the circuit of one matmul consumes the
levels of its formula, for each levelled backend: the chain of ORs, the balanced tree of the
batched backend (`PairedEven`, `TreeDepth`) and the rounds of SumOR (`SumOROfPower`).
MCClosureDepth evaluates the same for dimensions up to 20, so that a reader may see it
without the proof. `Cost` is the levels of one matmul and the or_mat after it. `DepthInv`
bounds the depth of what an invocation returns by `RecursionLevels(arg) * Cost`; it needs
`StackInv`, that the waiting invocations are the chain of callees, so that combining adds
one level. `SetupInv` says where the budget came from: the estimate, or a profile that the
database selected, which has the capacity of the request. DepthWithinBudget follows since
the estimate is the same product. For DGHV, `NoiseInv` bounds the noise exponent by 2^depth;
NoiseWithinKey then compares 2^depth * (rho + 1) bits, with the slack of b = 2^(rho+1) + 1,
to what require_depth counted (`SupportedDepth`, `SupportedNoise`), and needs T > 1, where
section 7 says why.

*Recursive functions.* HalvingLevels, Pow2, the bits of the noise count and SumOR's loop are
functions defined by recursion. That such a definition defines anything is itself proved,
once, in `Recursion`: there is a function that satisfies the equations, by a least number
without one. Facts about all its values are then proved by a least counterexample as well,
which needs no induction theorem with an operator parameter.

**BatchedPackingProofs** (any N >= 1, any number of slots, any operands): `TypeCorrect`,
`Multiplies`. `Packing` says that row, column and slot determine each other.
`RotationShifts`: a rotation is a plain shift of whatever does not go round the end of the
ciphertext. From it, `ColumnRotates` and `RowRotates`: a masked column (row), turned by the
next offset, is that column in one other place and nothing elsewhere, so that the sums of a
broadcast stay bits (`SpreadAdds`). `SpreadInv` says over which columns or rows the running
sum is spread (`Passed`); `TermsInv` that term m is the AND of column m of the one operand
and row m of the other; `ReduceInv` that the OR over the shrinking vector is always the
product. `KeysMade`: the constructor installed every offset that a broadcast uses.

**RowColBackendProofs** (any N >= 1, any R >= 2N, any number of threads, any operands), for
each of the two levels and for their composition.

*Slots*: `TypeCorrect`, `RoundsStayInWindow`, `DotProductIsReplicated`, `RotationsHaveKeys`.
The invariant is PartialOR: after a round a slot is the OR of the next `shift` products
round the window and the padding is zero. R >= 2N is an assumption on the parameters (rowcol
does not check it; the security level forces rings far larger). The theorems hold for every
N, not only for powers of two, because OR is idempotent; the code rejects other N for the
sake of the keys. `KeysLeft` says that the rotations still to come from the current shift
are among those the constructor installed; it is KeysInstalled made inductive.

*Loops*: `MatMulInv`, for the three variants. `Stored` says what an output vector holds: for
the cells that some iteration has passed the bit of the product, zero for the others,
whatever thread did it and in which order. `SerialInv` and `RowsInv` and `ColsInv` state it
for the serial loop and the two passes, `ThreadColsInv` for the column accumulators that the
optimized variant keeps per thread, `StageInv` for what is finished between stages.
`ReduceKeeps` sums the accumulators over the threads: a row is in one thread's share
(`SharesTile`), so a slot is nonzero in at most one of them.

*Both*: `BackendInv` adds `CellInv`, that the operands of the current dot product are the
packed row and column of the current cell. With it every step of the composition is a step
of RowColMatMul or a stutter (`StepsMap`), and of the steps on slots only AddPieces, the
last of a cell, is a step. Hence `SlotsImplementMatMul`, `ProductIsReturned` and
`SlotsAreSound`.

**MatMulPairProofs** (any number of ranks from two up, any N): `Invariance`, `TypeCorrect`,
`NoMismatch`, `PairIsReturned`, `ChannelsEmpty`. None of the properties is inductive: what a
receive takes depends on every call its sender has made since the constructor. The calls of
all ranks are therefore put on one clock. Every call of a script has a *key*, calls that
belong together (a send and its receive, the calls of one collective) have the same, and the
script of a rank lists its calls in the order of their keys (`CoversScript`, `Keyed`). `CallAt(r, k)` is
the call of rank r at key k, `Expected(r, name, k)` what r holds in the matrix `name` when it
comes to key k. Neither mentions how far another rank is, so they are what the program would
do if all ranks went in step, and the invariant says that the overlap changes nothing:
`StoreInv`, that every rank holds what is expected at its own clock; `ChannelInv` and
`BroadcastInv`, that a channel lists exactly the keys that its sender has done and its
receiver has not, in order, each with the expected message; `CausalInv`, that nobody has
received what was not sent; `HeldInv`, where a rank may be held; `EnteredInv`, that the
count of collectives on the communicator of a half is that of the keys done.

The proof has three parts. *Calls*: every send has its receive at the same key and every
collective is made by all members of its communicator there (`SendMeets`, `RecvMeets`,
`BcastMeets`, `BarrierMeets`). *Data*: what each call does to what is expected is what the
action does to the store (`Changes` and one lemma for each kind of call); that an operand is
complete when it is used is `BlocksTile` of the process grid (stated here again: a module
cannot extend `MatMulPair` and `GridMatMulProofs` together). *Steps*: one lemma for each
action. For a receive, `RightMessage` is MessagesMatch: the oldest message on the channel is
of the very key the receiver is at, since any older one would be of a key that the receiver
has done; so its tag is the one asked for, and nothing is ever skipped. For a broadcast,
`BcastOrder`: a rank takes part in all broadcasts of a communicator in the order of their keys,
whichever rank is the root, so a message of one is not out before the root of an earlier one
has sent its own, and the two roots of the grid cannot be confused. For the product, all of
the half have entered it when one leaves (`AllHaveCome`): the counts of collectives are
cardinalities of sets of keys below a clock, which contain one another (`UpTo`). What
they then hold is the product of the blocks (`ProductRight`). NothingPending follows since
at the end both sides of every channel have done all their keys.

**ArtifactToolProofs, the workflow** (any dimension, any set of bounds, any number of prepare runs):
`TypeCorrect`, `PrepareIsAuthoritative`, `NoPatchwork`, `CompletedIsNotRejected`. The
properties speak of the verdict of decrypt only; `IInv` says what lies in the directory when
it runs. `KeysInv`: no file is of a later keypair than the last prepare run's, and only
results can be noise. `PrepareInv` and `ComputeInv`: of the running process every file is
still to be written, written, or cut short where nothing checks it; the manifest of a
prepare run comes last. `PreparedInv`: a completed prepare run has left no file of another.
`BoundInv` is the part that AcceptedIsOneClosure needs: a result that the present secret key
opens has the bound of the present manifest. It survives a prepare run because the secret
key is replaced long before the manifest, and no result of the new key exists yet.
Assumption (MarksAssumption): missing, torn and noise are three things and none of them is a
stamp; the depth of every bound is a natural number (DepthAssumption, which TLC evaluates).

**ArtifactToolProofs, the full run** (any number of ranks, any set of failing steps):
`RunTypeCorrect`, `Agreement`, `Truth`, `Phases`. MPI matches collectives by their position on a communicator,
so the argument is about positions. `Route(r, i)` is the i-th collective that rank r enters
on the world communicator; it depends only on which of r's own steps fail: a rank that fails
in the body goes on to the `MPI_Allreduce` earlier, so that this is its second, third or
fourth. `EnteredInv`: what r has entered is the beginning of its route, and each entry
carries the value `Sent` that its failures determine; the counts of entries follow the
program counter. `StatusInv`: the status of a rank is the flag of what it has run.
`KnowledgeInv`: what a rank may conclude from having left a collective: past the broadcast
of prepare, that prepare did not fail; past the `MPI_Allreduce`, that no rank failed and
that all are there. The latter is where the positions matter: ranks with different
reductions wait in different operations at the same position, and none of them gets through
(compute_not_synchronized), so that whoever does get through has met the same operation on
every rank. Agreement, Truth and Phases are read off the invariant.

Assumptions on the constants, beyond that sizes are positive and sets are of the type their
name says: R >= 2N (`PaddingAssumption`); an int has an even number of values
(`IntAssumption`); a DGHV key has eta > rho > 0, which validate_params checks
(`KeysAssumption`); prepare and what else is root's work fails on rank 0 only
(`RunAssumption`); the marks of a file are distinct (`MarksAssumption`); the depth of a
bound is a number (`DepthAssumption`, which `EstimateIsCost` of ClosureDepthProofs proves of
every bound); the shipped profiles fit their node counts (`CheckedInAssumption`). TLC
evaluates each of them in the runs.

What proving changed in the models: the wait condition of `FullRun` (`Awaited`) was a CASE
with two guards that overlap, of which TLA+ may take either; the OR of `SumORDepth` at shift
0 and of `OrReduceTree` at the empty sequence had no value, though neither is reached; 2^k,
which the provers do not evaluate for a variable k, became the recursive functions Pow2 and
RotationsFrom. In `MatMulPair` the number of collectives that an earlier call has counted is a
cardinality instead of a filtered sequence, the sending half of a gather has a name
(`SendMatrix`), and a call without a matrix has the name "none" in that field.

Only model-checked: all liveness (Termination of the assembly, the grid and the pair,
EveryRankReturns, GeneratorReturns) and ComputeSynchronizes, a liveness property that fails.
Fairness and ENABLED are out of the prover's reach. So are RECURSIVE operators: every
recursion here is a recursive function or a fold instead. Every safety property that a
passing run checks, and every refinement, is a theorem.

## 7. Disagreements found

Three are runs that end in a violation:

* **profile_hint.** profile 223-224 says that the message of RequireProfile names "the
  generator invocation that would produce a suitable profile".  It names `--nodes` for the
  smallest N with enough slots, and the generator budgets only T = N for it (generator 139).
  The number of recursion levels is not monotone in T: T = 7 takes four levels and T = 8
  three, so N = 8, T = 7 needs depth 28 where `--nodes=8` gives 21, and the same message comes
  back after following it.
* **keyset_mixup.** The comment at artifacts 211-218 calls the keyset id sufficient to
  catch that ciphertexts and keys do not belong together.  Only the ids of the two
  manifests are compared, and a prepare run writes its manifest last (527) without
  removing the old one: if it dies before, the old manifest stands beside new keys and
  ciphertexts, compute copies the old id into the result, and decrypt accepts.  What is
  shown is still one consistent closure (AcceptedIsOneClosure holds), but of another
  input than the id names, and possibly within the older bound.
* **compute_not_synchronized.** tool 300 says RunCompute is already collective and
  synchronised.  A rank that throws while it loads its own blocks goes on to the
  `MPI_Allreduce` of RunCompute, while the others enter `MPI_Cart_create` in the backend's
  constructor (193): two different collectives on one communicator.

Two on the profile database have no run of their own; the invariants named here, in the
place of SavedIsServed, fail in the model of closure_depth within one or two generator runs:

* The repository's README (169-170) says that re-running the generator against an existing
  file adds profiles rather than overwriting it, and generator 358-361 that it does so
  instead of discarding validated ones.  SaveDatabase truncates the only copy before it
  writes and checks the stream only when it opens it (profile 158-161), so a generator that
  is killed there, or a full disk, leaves a file that cannot be read.  The next run prints a
  warning, takes that for a fresh start (generator 369-372) and writes a whole database
  without what the earlier runs had validated: `file.state = "whole" => \A k \in saved :
  CandidatesFor(k) # {}` does not hold.
* `docs/bgv_parameter_profiles.md` 113-115 says that a profile serves any request whose
  depth and slots fit within it, and profile_setup 105 advises to regenerate one that
  OpenFHE refuses.  SelectProfile returns the cheapest candidate alone and setup_from_profile
  throws on it; since the generator only adds, a profile that a newer OpenFHE refuses stays
  in front of the regenerated one.  A request can be refused (`phase = "failed"`) while
  `Candidates` has a profile that `SetupAccepts`.

Remarks on depth found inexact while modelling ClosureDepth; none affects
what is computed, and the invariants state what does hold:

* `bgv_backend.hpp:87-89` calls the estimate "exact (not merely an upper bound)": for
  n = 1 and T = 3 the result has depth 3 and the estimate is 4 (BudgetSuffices).
* `bgv_backend.hpp:62-63`, `dghv_backend.hpp:54` and `docs/time_complexity.md:67` count "ceil(log2 T) levels": T = 7 goes
  7, 6, 3, 2, 1, four levels, which is what the functions themselves count.
* `bgv_backend.hpp:84-86` says to pass the estimate to `bgv::setup`: for T = 1 it is 0 and
  `bgv.hpp:123` rejects it; the batched and row/column estimates clamp to 1 (`Accepted`).
* The repository's README (146-148) says that the shipped profiles serve N = 4..32 without extra
  setup.  For the default T = N, N = 15 needs depth 48 and N = 31 depth 72, and the profiles with
  enough slots for them allow 45.
* The generator calls T = N the conservative worst case; it is not, as profile_hint shows.

Three on the noise of DGHV; none affects a closure with T > 1 (NoiseFits):

* dghv 193-194 calls noise_bits_after_depth "a deliberately loose (safe) over-count".  It
  starts from rho_bits, but a fresh noise 2r + m with r = -2^rho (which encrypt_bit can
  draw; its comment at 370 has the range the other way round) is 2^(rho+1).  One OR of two
  such ciphertexts gives 2^(2 rho + 2) + 2^(rho + 2), one bit more than the 2 rho + 2 it
  counts.  From depth 2 on the count is above the noise, and a closure with T > 1 has
  depth at least 2.
* dghv 201-202: max_supported_depth is called the largest depth that keeps the noise below
  eta_bits - 1; its loop never looks at depth 0 and returns 0 even when a fresh ciphertext
  does not fit.  validate_params only asks for eta_bits > rho_bits.  So require_depth lets
  T = 1 pass with a key under which nothing can be decrypted, and NoiseFits excludes it.
* `tests/test_dghv.cpp:366` and 384 treat noise_bits_estimate as an upper bound of
  the exact noise; it starts from the same rho_bits.

## 8. Not modelled

* OpenFHE, MPI, OpenMP, TFHE: external, modelled from how the code uses them.
* Byte formats of serialized ciphertexts and the narrowing of a size to `int`
  (serial 212): no property tells formats apart.
* A failure of key generation on rank 0 inside the constructor (dist 373), which leaves the
  other ranks in BroadcastContextBundle: nothing in the code reports it.
* The well-formedness checks of manifests (ValidateManifest) and concurrent modes on one
  directory (nothing locks it; the tool is documented as one mode after another).
* Prepare runs of different matrix sizes on one directory: `ArtifactWorkflow` has one N.  The
  manifest decides how many files compute and decrypt read, so that an old manifest of a smaller
  matrix beside the inputs of a larger one, with T = 1 and therefore no rotation, would select
  the leading block; it needs the same death before the manifest as keyset_mixup.
* Parameter profiles: the JSON fields that nothing reads back, the command line,
  primality of a modulus (external), and the three checks of ValidateEndToEnd, which are one
  choice.
* The narrowing of the DGHV noise count to an int (dghv 198): it changes a count only from
  2^31 bits on, so not the comparison with a key of less than 2^30 bits.
* The dimension check of EncryptFromRoot (dist 653), which throws on rank 0 alone: the
  plaintexts of `MatMulPair` have the dimension of the backend.
* DGHV's key generation, encryption and decryption on
  multi-thousand-bit integers, beyond the bounds that NoiseFits compares; encrypted_xor and
  inspect_noise, which the closure does not use.
* DistributedSumPowersRecursive over `MatMulPair`: the recurrence is that of SumPowers and the
  pair product is modelled, but their composition is beyond what TLC reaches for three ranks.
* The row/column backend for N equal to all physical slots, where the window is the whole
  ciphertext and a rotation meets its own copy (rowcol 562): R >= 2N is assumed, see section 6.
* TFHE CPU and GPU backends (gate calls without state), parameter and graph files,
  benchmarks, examples, scripts.
* Operation counters.

## 9. Plan

Order so far, most important behaviour first: assembly and its contract, closure
recursion, depth and noise, grid product, construction and pair product, slot level,
batched packing, single-process variants, artifact workflow, full run, parameter profiles and
their generator, the row/column product down to the slots.

Next models:

1. Manifests in `ArtifactWorkflow`: ValidateManifest and the depth, dimension and path
   checks of every mode.
2. The two recursions over `MatMulPair` and `GridMatMul` (DistributedSumPowersRecursive), with
   two ranks.

Next proofs: those of the next models, along the clock of `MatMulPairInv`, which the second
can extend by a stage for each call of the recursion.

To check: `tlc -config X.cfg M` for the pairs in `PROJECT.json`, `tlapm M.tla` for the proof
modules.
