------------------------------- MODULE FullRun -------------------------------
(***************************************************************************)
(* RunFull of tools/bgv_distributed_rowcol_artifacts.cpp under mpirun:     *)
(* rank 0 prepares, every rank computes (RunCompute, RunComputeBody), rank *)
(* 0 decrypts.  What is modelled is how the local steps that can throw and *)
(* the MPI collectives that need everybody fit together: which rank enters *)
(* which collective, in which order, after which failure.                  *)
(*                                                                         *)
(* MPI matches collectives by their order on a communicator: a rank inside *)
(* its i-th collective on a communicator completes it when the ranks it    *)
(* depends on have entered their i-th one there and it is the same         *)
(* operation.  The collectives of the closure and of the gather, on the    *)
(* communicators of the grid, are one operation here: GridMatMul shows     *)
(* that nobody leaves a product before everybody has entered it.           *)
(***************************************************************************)
EXTENDS Naturals, Sequences, FiniteSetsExt

CONSTANTS P,       \* MPI processes
          Faults   \* local step -> the sets of ranks on which it may throw

Ranks == 0..P-1
Root  == 0

\* Prepare, Save and Decrypt run on rank 0 only.  Load reads the manifest,
\* the context and the keys, the same files on every rank; Block reads the
\* row and column ciphertexts of the rank's own blocks.
RootSteps  == {"prepare", "save", "decrypt"}
LocalSteps == RootSteps \cup {"load", "block"}

ASSUME RunAssumption ==
    /\ P \in Nat \ {0}
    /\ Faults \in [LocalSteps -> SUBSET SUBSET Ranks]
    /\ \A s \in RootSteps : \A f \in Faults[s] : f \subseteq {Root}

VARIABLES
    fails,    \* local step -> the ranks on which it throws in this run
    pc,       \* per rank: the next step, or "returned"
    status,   \* per rank: the status variable of the code it is in
    entered   \* per rank and communicator: the collectives entered so far

runVars == << fails, pc, status, entered >>

-----------------------------------------------------------------------------
\* The order of RunFull's steps on a rank when nothing throws.
Path == << "prepare", "bcast_prepare", "load", "grid", "block", "backend",
           "closure", "save", "allreduce", "decrypt", "bcast_decrypt",
           "returned" >>

Successor(s) == Path[1 + CHOOSE i \in DOMAIN Path : Path[i] = s]

Collectives == {"bcast_prepare", "grid", "backend", "closure", "allreduce",
                "bcast_decrypt"}

\* Faulty variant: the grid's own communicators are not used.
Comm_AllWorld(c) == "world"

\* The two grids of a rank are built on MPI_COMM_WORLD; the closure runs on
\* the communicators of the second.
Comm(c) == IF c = "closure" THEN "grid" ELSE "world"

\* Both MPI_Cart_create calls, the one of BuildProcessGrid2D called by the
\* body and the one in the backend's constructor, are the same operation.
Operation(c) == CASE c \in {"grid", "backend"}               -> "cart_create"
                  [] c \in {"bcast_prepare", "bcast_decrypt"} -> "bcast"
                  [] OTHER                                    -> c

RunInit ==
    /\ fails \in { f \in [LocalSteps -> SUBSET Ranks] :
                       \A s \in LocalSteps : f[s] \in Faults[s] }
    /\ pc = [r \in Ranks |-> "prepare"]
    /\ status = [r \in Ranks |-> 0]
    /\ entered = [r \in Ranks |-> [c \in {"world", "grid"} |-> << >>]]

-----------------------------------------------------------------------------
Goto(r, s) == pc' = [pc EXCEPT ![r] = s]

\* A root step on another rank is skipped: `if (rank == 0)`.
SkipStep(r) ==
    /\ pc[r] \in RootSteps
    /\ r # Root
    /\ Goto(r, Successor(pc[r]))
    /\ UNCHANGED <<fails, status, entered>>

LocalStep(r) ==
    /\ pc[r] \in LocalSteps
    /\ pc[r] \in RootSteps => r = Root
    /\ r \notin fails[pc[r]]
    /\ Goto(r, Successor(pc[r]))
    /\ UNCHANGED <<fails, status, entered>>

\* Faulty variants: the exception is swallowed; and the earlier version of
\* RunFull that a comment in the code describes, in which rank 0 returned at
\* once and left the others waiting.
FailingRootStep_Swallowed(r) ==
    /\ r = Root
    /\ pc[r] \in {"prepare", "decrypt"}
    /\ r \in fails[pc[r]]
    /\ Goto(r, Successor(pc[r]))
    /\ UNCHANGED <<fails, status, entered>>

FailingRootStep_ReturnsAtOnce(r) ==
    /\ r = Root
    /\ pc[r] \in {"prepare", "decrypt"}
    /\ r \in fails[pc[r]]
    /\ status' = [status EXCEPT ![r] = 1]
    /\ Goto(r, "returned")
    /\ UNCHANGED <<fails, entered>>

\* Prepare and decrypt turn an exception into a status that rank 0 takes to
\* the broadcast that follows.
FailingRootStep(r) ==
    /\ r = Root
    /\ pc[r] \in {"prepare", "decrypt"}
    /\ r \in fails[pc[r]]
    /\ status' = [status EXCEPT ![r] = 1]
    /\ Goto(r, Successor(pc[r]))
    /\ UNCHANGED <<fails, entered>>

\* RunCompute catches what RunComputeBody throws and goes straight to its
\* MPI_Allreduce, past the collectives the body had still ahead of it.
FailingBody(r) ==
    /\ pc[r] \in {"load", "block", "save"}
    /\ pc[r] = "save" => r = Root
    /\ r \in fails[pc[r]]
    /\ status' = [status EXCEPT ![r] = 1]
    /\ Goto(r, "allreduce")
    /\ UNCHANGED <<fails, entered>>

Inside(r) == \E i \in DOMAIN entered[r][Comm(pc[r])] :
                /\ i = Len(entered[r][Comm(pc[r])])
                /\ entered[r][Comm(pc[r])][i].at = pc[r]

EnterCollective(r) ==
    /\ pc[r] \in Collectives
    /\ ~Inside(r)
    /\ entered' = [entered EXCEPT ![r][Comm(pc[r])] =
                      Append(@, [at |-> pc[r], op |-> Operation(pc[r]), value |-> status[r]])]
    /\ UNCHANGED <<fails, pc, status>>

\* Rank s has entered the collective rank r is in.
HasJoined(s, r) ==
    LET c == Comm(pc[r])
        i == Len(entered[r][c])
    IN  /\ i <= Len(entered[s][c])
        /\ entered[s][c][i].op = entered[r][c][i].op

\* Only the root of a broadcast is waited for, and not by itself.
Awaited(r) == IF Operation(pc[r]) = "bcast" THEN {Root} \ {r} ELSE Ranks

ValueOf(s, r) == entered[s][Comm(pc[r])][Len(entered[r][Comm(pc[r])])].value

\* Faulty variant: the broadcast does not land in the status variable.
Outcome_Unstored(r) ==
    IF Operation(pc[r]) = "allreduce" THEN Max({ ValueOf(s, r) : s \in Ranks })
                                      ELSE status[r]

\* What the collective leaves in the rank's status: the root's value for a
\* broadcast, the largest for the MPI_MAX reduction.
Outcome(r) == CASE Operation(pc[r]) = "bcast"     -> ValueOf(Root, r)
                [] Operation(pc[r]) = "allreduce" -> Max({ ValueOf(s, r) : s \in Ranks })
                [] OTHER                          -> status[r]

\* Faulty variant: RunFull goes on to compute though prepare has failed.
AfterCollective_IgnoresPrepare(r, st) ==
    IF st # 0 /\ pc[r] = "allreduce" THEN "returned" ELSE Successor(pc[r])

\* After the broadcast of prepare's status and after compute, a status other
\* than 0 makes RunFull return.
AfterCollective(r, st) ==
    IF st # 0 /\ pc[r] \in {"bcast_prepare", "allreduce"}
    THEN "returned"
    ELSE Successor(pc[r])

LeaveCollective(r) ==
    /\ pc[r] \in Collectives
    /\ Inside(r)
    /\ \A s \in Awaited(r) : HasJoined(s, r)
    /\ status' = [status EXCEPT ![r] = Outcome(r)]
    /\ Goto(r, AfterCollective(r, Outcome(r)))
    /\ UNCHANGED <<fails, entered>>

Step(r) == \/ SkipStep(r) \/ LocalStep(r) \/ FailingRootStep(r)
           \/ FailingBody(r) \/ EnterCollective(r) \/ LeaveCollective(r)

RunNext == \E r \in Ranks : Step(r)

RunSpec == RunInit /\ [][RunNext]_runVars

\* Every process keeps running: nothing in the code takes turns.
FairSpec == RunSpec /\ \A r \in Ranks : WF_runVars(Step(r))
-----------------------------------------------------------------------------
RunTypeOK ==
    /\ pc \in [Ranks -> LocalSteps \cup Collectives \cup {"returned"}]
    /\ status \in [Ranks -> 0..1]
    /\ \A r \in Ranks : \A i \in DOMAIN entered[r]["world"] :
           entered[r]["world"][i].at \in Collectives \ {"closure"}

Returned(r) == pc[r] = "returned"

\* The steps of rank r that have been taken or passed by.
Past(r, s) == \E i, j \in DOMAIN Path : Path[i] = s /\ Path[j] = pc[r] /\ i < j

\* Every rank of a job returns the same exit status, whichever step failed
\* on whichever rank.
AgreedStatus == \A r, s \in Ranks : Returned(r) /\ Returned(s) => status[r] = status[s]

\* The exit status tells the truth: it is 0 exactly when nothing has thrown
\* on any rank.
ExitTellsTheTruth ==
    (\A r \in Ranks : Returned(r)) =>
        ((status[Root] = 0) <=> (\A s \in LocalSteps : fails[s] = {}))

\* Rank 0 decrypts only when the closure is complete on every rank, and no
\* rank reads the artifacts before rank 0 has written them.
PhasesDoNotOverlap ==
    /\ pc[Root] = "decrypt" => \A r \in Ranks : Past(r, "save")
    /\ \A r \in Ranks : pc[r] = "load" => Past(Root, "prepare") /\ fails["prepare"] = {}

\* Whatever fails, the job ends: no rank is left in a collective that rank 0
\* "already returned past".
EveryRankReturns == <>(\A r \in Ranks : Returned(r))

\* RunFull: "RunCompute(args); // already collective/synchronized
\* internally".  A rank that arrives at RunCompute's reduction gets out of it.
ComputeSynchronizes ==
    \A r \in Ranks : (pc[r] = "allreduce") ~> (pc[r] # "allreduce")
=============================================================================
