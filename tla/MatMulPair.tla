----------------------------- MODULE MatMulPair -----------------------------
(***************************************************************************)
(* The constructor, EncryptFromRoot, matmul_pair and DecryptOnRoot of      *)
(* bgv_distributed_rowcol_backend.hpp, message by message.  Rank 0 makes   *)
(* the keys and broadcasts the context bundle, then encrypts the operands  *)
(* and scatters them.  matmul_pair splits the world in two halves, each    *)
(* with its own process grid; the operands are gathered from the whole     *)
(* grid to the leader of the half that needs them, scattered over its      *)
(* grid, multiplied there, and the two products brought back into the      *)
(* shape of the whole grid.                                                *)
(*                                                                         *)
(* A rank is its Script: the MPI calls it makes, in program order.  The    *)
(* actions say what MPI does with a call: MPI_Send returns at once or only *)
(* when the message is received; MPI_Recv takes the first message of the   *)
(* channel with its tag; a broadcast or a split may hold a rank until all  *)
(* members have entered it.  A batch is a function from the global index   *)
(* of a row or column to its value, the list of the matrices it is a       *)
(* product of.                                                             *)
(***************************************************************************)
EXTENDS ProcessGrid, Sequences, SequencesExt

CONSTANTS N,   \* matrix dimension
          P    \* world_size

ASSUME DimensionAssumption == N \in Nat \ {0}
ASSUME SplitAssumption     == P \in Nat \ {0, 1}  \* one rank calls matmul twice

Ranks == 0 .. P - 1
Slots == 0 .. N - 1

half     == P \div 2
color(r) == IF r < half THEN 0 ELSE 1

\* A communicator, "world" (grid_.world), "grid" (grid_.cart) or "sub" (the
\* cart of r's half): its members, its size, and the world rank of its rank 0.
Members(r, comm) == IF comm = "sub" THEN {s \in Ranks : color(s) = color(r)} ELSE Ranks
Size(r, comm)    == IF comm # "sub" THEN P
                    ELSE IF color(r) = 0 THEN half ELSE P - half
Leader(r, comm)  == IF comm = "sub" THEN color(r) * half ELSE 0

\* The rows and columns that rank r owns in the partition of that grid.
RowsIn(r, comm) == RowBlock(N, Size(r, comm), r - Leader(r, comm))
ColsIn(r, comm) == ColBlock(N, Size(r, comm), r - Leader(r, comm))

Axes     == {"rows", "cols"}
Operands == {"A1", "B1", "A2", "B2"}

\* SerializedContextBundle; a part is a batch with one entry.
Bundle == <<"crypto_context", "public_key", "eval_mult_key", "eval_automorphism_key">>
Parts  == Range(Bundle)

Null     == << >>  \* a default-constructed ciphertext

\* A DistributedRowColMatrix of rank r, all of its values equal to v.
Blocks(r, comm, v) == [rows |-> [i \in RowsIn(r, comm) |-> v],
                       cols |-> [j \in ColsIn(r, comm) |-> v]]

------------------------------------------------------------------------------
(* The calls of a rank.                                                    *)

kGatherRowsTag == 300
kGatherColsTag == 301

Call(kind, comm, peer, tag, part, axis, of) ==
  [kind |-> kind, comm |-> comm, peer |-> peer, tag |-> tag,
   part |-> part, axis |-> axis, of |-> of]

LocalStep(kind, comm, from, to) == Call(kind, comm, 0, 0, from, "rows", to)

\* SendBytes / RecvBytes: the size under `tag`, the payload under tag + 1.
Batch(kind, comm, peer, tag, axis, of) ==
  << Call(kind, comm, peer, tag, "size", axis, of),
     Call(kind, comm, peer, tag + 1, "payload", axis, of) >>

\* Faulty variant: the root asks for the columns before the rows.
RecvMatrix_ColsFirst(comm, src, into) ==
  Batch("recv", comm, src, kGatherColsTag, "cols", into)
    \o Batch("recv", comm, src, kGatherRowsTag, "rows", into)

RecvMatrix(comm, src, into) ==
  Batch("recv", comm, src, kGatherRowsTag, "rows", into)
    \o Batch("recv", comm, src, kGatherColsTag, "cols", into)

SendMatrix(comm, dest, from) ==
  Batch("send", comm, dest, kGatherRowsTag, "rows", from)
    \o Batch("send", comm, dest, kGatherColsTag, "cols", from)

\* Faulty variant: the root's own blocks are not entered in the result.
GatherToRankWithinGrid_ForgetsOwn(r, comm, root, from, into) ==
  IF r = root
  THEN <<LocalStep("alloc", comm, from, into)>>
         \o FlattenSeq([k \in 1 .. Size(r, comm) |->
              LET src == Leader(r, comm) + k - 1 IN
              IF src = root THEN << >> ELSE RecvMatrix(comm, src, into)])
  ELSE SendMatrix(comm, root, from)

\* Faulty variant: the root does not serve the last rank.
GatherToRankWithinGrid_StopsShort(r, comm, root, from, into) ==
  IF r = root
  THEN <<LocalStep("own", comm, from, into)>>
         \o FlattenSeq([k \in 1 .. Size(r, comm) - 1 |->
              LET src == Leader(r, comm) + k - 1 IN
              IF src = root THEN << >> ELSE RecvMatrix(comm, src, into)])
  ELSE SendMatrix(comm, root, from)

GatherToRankWithinGrid(r, comm, root, from, into) ==
  IF r = root
  THEN <<LocalStep("own", comm, from, into)>>
         \o FlattenSeq([k \in 1 .. Size(r, comm) |->
              LET src == Leader(r, comm) + k - 1 IN
              IF src = root THEN << >> ELSE RecvMatrix(comm, src, into)])
  ELSE SendMatrix(comm, root, from)

ScatterFromRankToGrid(comm, root, from, into) ==
  <<Call("full", comm, root, 0, from, "rows", into)>>
    \o Batch("bcast", comm, root, 0, "rows", into)
    \o Batch("bcast", comm, root, 0, "cols", into)
    \o <<LocalStep("slice", comm, into, into)>>

\* The constructor: BuildProcessGrid2D, setup and serialization on rank 0,
\* BroadcastContextBundle.
kRootRank == 0

BroadcastContextBundle ==
  FlattenSeq([k \in DOMAIN Bundle |-> Batch("bcast", "world", kRootRank, 0, "rows", Bundle[k])])

Construct(r) ==
  <<LocalStep("split", "world", "none", "none")>>
    \o (IF r = kRootRank
          THEN [k \in DOMAIN Bundle |-> LocalStep("serialize", "world", Bundle[k], Bundle[k])]
          ELSE << >>)
    \o BroadcastContextBundle

EncryptFromRoot(r, name) ==
  (IF r = kRootRank THEN <<LocalStep("encrypt", "grid", name, "encrypted")>> ELSE << >>)
    \o ScatterFromRankToGrid("grid", kRootRank, "encrypted", name)

\* Faulty variant: a rank takes part only in the gathers its half needs.
GatherOperands_OwnHalf(r) ==
  IF color(r) = 0
  THEN GatherToRankWithinGrid(r, "grid", 0, "A1", "A1_full")
         \o GatherToRankWithinGrid(r, "grid", 0, "B1", "B1_full")
  ELSE GatherToRankWithinGrid(r, "grid", half, "A2", "A2_full")
         \o GatherToRankWithinGrid(r, "grid", half, "B2", "B2_full")

GatherOperands(r) ==
  GatherToRankWithinGrid(r, "grid", 0, "A1", "A1_full")
    \o GatherToRankWithinGrid(r, "grid", 0, "B1", "B1_full")
    \o GatherToRankWithinGrid(r, "grid", half, "A2", "A2_full")
    \o GatherToRankWithinGrid(r, "grid", half, "B2", "B2_full")

ScatterOperands(r) ==
  IF color(r) = 0
  THEN ScatterFromRankToGrid("sub", 0, "A1_full", "A_local")
         \o ScatterFromRankToGrid("sub", 0, "B1_full", "B_local")
  ELSE ScatterFromRankToGrid("sub", half, "A2_full", "A_local")
         \o ScatterFromRankToGrid("sub", half, "B2_full", "B_local")

\* Faulty variant: both products are scattered from world rank 0.
ScatterResults_FromRoot(r) ==
  ScatterFromRankToGrid("grid", 0, "gathered", "result1")
    \o ScatterFromRankToGrid("grid", 0, "gathered", "result2")

ScatterResults(r) ==
  ScatterFromRankToGrid("grid", 0, "gathered", "result1")
    \o ScatterFromRankToGrid("grid", half, "gathered", "result2")

matmul_pair(r) ==
  <<LocalStep("split", "world", "none", "none")>>
    \o GatherOperands(r)
    \o ScatterOperands(r)
    \o <<LocalStep("matmul", "sub", "A_local", "B_local")>>
    \o GatherToRankWithinGrid(r, "sub", Leader(r, "sub"), "local_result", "gathered")
    \o ScatterResults(r)

DecryptOnRoot(r) == GatherToRankWithinGrid(r, "grid", 0, "result2", "decrypted")

\* What test_bgv_distributed_rowcol makes of the backend, with the pair product
\* in place of the recursion round it and with four operands told apart where
\* that passes P(h) three times.  The plaintexts have dimension N: EncryptFromRoot
\* would throw on another one, on rank 0 alone.
Script == [r \in Ranks |->
  Construct(r)
    \o EncryptFromRoot(r, "A1") \o EncryptFromRoot(r, "B1")
    \o EncryptFromRoot(r, "A2") \o EncryptFromRoot(r, "B2")
    \o matmul_pair(r)
    \o DecryptOnRoot(r)]

\* Names[r]: the matrices that rank r handles in its script.
Names == Operands \cup Parts \cup {"encrypted", "A1_full", "B1_full", "A2_full", "B2_full", "A_local", "B_local",
                        "local_result", "gathered", "result1", "result2", "decrypted"}

\* Collective[r][i]: call i of rank r is the how-manieth collective on its
\* communicator, or 0 when it is not one.
IsCollective(c) == c.kind \in {"split", "bcast", "matmul"}

Collective == [r \in Ranks |-> [i \in DOMAIN Script[r] |->
  IF ~ IsCollective(Script[r][i]) THEN 0
  ELSE Cardinality({j \in 1 .. i : /\ IsCollective(Script[r][j])
                                   /\ Script[r][j].comm = Script[r][i].comm})]]

------------------------------------------------------------------------------

VARIABLES
  pc,      \* pc[r]: the call of its script rank r is at
  held,    \* held[r]: that call is under way but has not returned
  entered, \* entered[r][comm]: collectives that rank r has entered
  store,   \* store[r][name]: the matrices rank r holds
  chan,    \* chan[comm][s][d]: messages sent by s that d has not received
  coll,    \* coll[comm][r]: broadcast messages that r has not taken
  failed   \* a call got another message than the one it was posted for

vars == <<pc, held, entered, store, chan, coll, failed>>

Comms == {"world", "grid", "sub"}
Empty == [rows |-> [i \in {} |-> Null], cols |-> [j \in {} |-> Null]]

Init == /\ pc = [r \in Ranks |-> 1]
        /\ held = [r \in Ranks |-> FALSE]
        /\ entered = [r \in Ranks |-> [c \in Comms |-> 0]]
        /\ store = [r \in Ranks |-> [name \in Names |-> Empty]]
        /\ chan = [c \in Comms |-> [s \in Ranks |-> [d \in Ranks |-> << >>]]]
        /\ coll = [c \in Comms |-> [r \in Ranks |-> << >>]]
        /\ failed = FALSE

Done(r) == pc[r] > Len(Script[r])
At(r)   == Script[r][pc[r]]

\* Rank r is about to make a call of one of these kinds.
Makes(r, kinds) == ~ failed /\ ~ Done(r) /\ ~ held[r] /\ At(r).kind \in kinds

Overlay(f, g) == [i \in DOMAIN f \cup DOMAIN g |-> IF i \in DOMAIN g THEN g[i] ELSE f[i]]

\* What a call reads at the root or sender.
Load(r, c) == [tag |-> c.tag, part |-> c.part, axis |-> c.axis, root |-> r,
               batch |-> store[r][c.of][c.axis]]

Send(r) ==
  LET c == At(r) IN
  /\ Makes(r, {"send"})
  /\ \E eager \in BOOLEAN :
       /\ chan' = [chan EXCEPT ![c.comm][r][c.peer] = Append(@, [eager |-> eager, load |-> Load(r, c)])]
       /\ held' = [held EXCEPT ![r] = ~ eager]
       /\ pc' = [pc EXCEPT ![r] = IF eager THEN @ + 1 ELSE @]
  /\ UNCHANGED <<entered, store, coll, failed>>

\* A payload is deserialized and entered under its tags.
Take(r, c, load) ==
  IF c.part = "payload"
  THEN [store EXCEPT ![r][c.of][c.axis] = Overlay(@, load.batch)]
  ELSE store

\* A mismatch ends the run: MPI aborts on a message of the wrong size.
Receive(r) ==
  LET c  == At(r)
      in == chan[c.comm][c.peer][r]
      i  == SelectInSeq(in, LAMBDA m : m.load.tag = c.tag)
  IN
  /\ Makes(r, {"recv"})
  /\ i # 0
  /\ IF in[i].load.part = c.part
     THEN /\ store' = Take(r, c, in[i].load)
          /\ chan' = [chan EXCEPT ![c.comm][c.peer][r] = RemoveAt(@, i)]
          /\ held' = [held EXCEPT ![c.peer] = IF in[i].eager THEN @ ELSE FALSE]
          /\ pc' = [s \in Ranks |-> IF s = r \/ (s = c.peer /\ ~ in[i].eager)
                                    THEN pc[s] + 1 ELSE pc[s]]
          /\ UNCHANGED failed
     ELSE /\ failed' = TRUE
          /\ UNCHANGED <<store, chan, held, pc>>
  /\ UNCHANGED <<entered, coll>>

\* A rank enters a collective; it stays in it, or a broadcast may let it go on.
EnterAndMayLeave(r, c) ==
  /\ entered' = [entered EXCEPT ![r][c.comm] = @ + 1]
  /\ \/ /\ pc' = [pc EXCEPT ![r] = @ + 1]
        /\ UNCHANGED held
     \/ /\ held' = [held EXCEPT ![r] = TRUE]
        /\ UNCHANGED pc

BcastAsRoot(r) ==
  LET c == At(r) IN
  /\ Makes(r, {"bcast"})
  /\ c.peer = r
  /\ coll' = [coll EXCEPT ![c.comm] =
                [s \in Ranks |-> IF s \in Members(r, c.comm) \ {r}
                                 THEN Append(@[s], Load(r, c)) ELSE @[s]]]
  /\ EnterAndMayLeave(r, c)
  /\ UNCHANGED <<store, chan, failed>>

BcastAsReceiver(r) ==
  LET c == At(r) IN
  /\ Makes(r, {"bcast"})
  /\ c.peer # r
  /\ coll[c.comm][r] # << >>
  /\ coll' = [coll EXCEPT ![c.comm][r] = Tail(@)]
  /\ LET m == Head(coll[c.comm][r]) IN
       IF m.part = c.part /\ m.root = c.peer
       THEN /\ store' = Take(r, c, m)
            /\ EnterAndMayLeave(r, c)
            /\ UNCHANGED failed
       ELSE /\ failed' = TRUE
            /\ UNCHANGED <<store, entered, pc, held>>
  /\ UNCHANGED chan

\* Communicators are made; or MatMulOnGrid, a barrier of its grid.  It fails
\* without the context and the keys, or when row_at / col_at is out of range.
MayMultiply(r) == /\ \A part \in Parts : store[r][part].rows = [x \in {0} |-> <<part>>]
                  /\ RowsIn(r, "sub") \subseteq DOMAIN store[r]["A_local"].rows
                  /\ ColsIn(r, "sub") \subseteq DOMAIN store[r]["B_local"].cols

EnterBarrier(r) ==
  LET c == At(r) IN
  /\ Makes(r, {"split", "matmul"})
  /\ IF c.kind = "matmul" /\ ~ MayMultiply(r)
     THEN /\ failed' = TRUE
          /\ UNCHANGED <<entered, held>>
     ELSE /\ entered' = [entered EXCEPT ![r][c.comm] = @ + 1]
          /\ held' = [held EXCEPT ![r] = TRUE]
          /\ UNCHANGED failed
  /\ UNCHANGED <<pc, store, chan, coll>>

AllEntered(r) ==
  \A s \in Members(r, At(r).comm) : entered[s][At(r).comm] >= Collective[r][pc[r]]

\* The product of what the two operands hold, if it is one matrix each.
Times(X, Y) == IF X = {Null} \/ Y = {Null} \/ \E S \in {X, Y} : \A v \in S : S # {v}
               THEN Null
               ELSE (CHOOSE v \in X : TRUE) \o (CHOOSE v \in Y : TRUE)

\* Row i of the product is assembled from the row_comm ranks' pieces, which
\* were computed from their A rows i and all their B columns; columns alike.
MatMulOnGrid(r) ==
  LET M == Members(r, "sub")
      A(s) == store[s]["A_local"]
      B(s) == store[s]["B_local"]
  IN [rows |-> [i \in RowsIn(r, "sub") |->
                  LET S == {s \in M : i \in RowsIn(s, "sub")} IN
                  Times({A(s).rows[i] : s \in S},
                        UNION {{B(s).cols[j] : j \in ColsIn(s, "sub")} : s \in S})],
      cols |-> [j \in ColsIn(r, "sub") |->
                  LET S == {s \in M : j \in ColsIn(s, "sub")} IN
                  Times(UNION {{A(s).rows[i] : i \in RowsIn(s, "sub")} : s \in S},
                        {B(s).cols[j] : s \in S})]]

LeaveCollective(r) ==
  /\ ~ failed /\ ~ Done(r) /\ held[r] /\ IsCollective(At(r))
  /\ AllEntered(r)
  /\ store' = IF At(r).kind = "matmul"
              THEN [store EXCEPT ![r]["local_result"] = MatMulOnGrid(r)]
              ELSE store
  /\ held' = [held EXCEPT ![r] = FALSE]
  /\ pc' = [pc EXCEPT ![r] = @ + 1]
  /\ UNCHANGED <<entered, chan, coll, failed>>

\* The steps between two calls: a part of the context serialized or a matrix
\* encrypted; the arrays all_rows and all_cols allocated and, at the root,
\* filled with its own blocks or the full matrix; the slice of a broadcast
\* matrix that rank r keeps.
Unfilled == [rows |-> [i \in Slots |-> Null], cols |-> [j \in Slots |-> Null]]

LocalWork(r) ==
  LET c    == At(r)
      from == store[r][c.part]
  IN
  /\ Makes(r, {"serialize", "encrypt", "alloc", "own", "full", "slice"})
  /\ store' = [store EXCEPT ![r][c.of] =
       CASE c.kind = "serialize" -> [rows |-> [x \in {0} |-> <<c.part>>], cols |-> Empty.cols]
         [] c.kind = "encrypt"   -> [axis \in Axes |-> [i \in Slots |-> <<c.part>>]]
         [] c.kind = "alloc" -> Unfilled
         [] c.kind = "own"   -> [rows |-> Overlay(Unfilled.rows, from.rows),
                                 cols |-> Overlay(Unfilled.cols, from.cols)]
         [] c.kind = "full"  -> IF c.peer = r THEN from ELSE Empty
         [] c.kind = "slice" -> [rows |-> [i \in RowsIn(r, c.comm) |-> from.rows[i]],
                                 cols |-> [j \in ColsIn(r, c.comm) |-> from.cols[j]]]]
  /\ pc' = [pc EXCEPT ![r] = @ + 1]
  /\ UNCHANGED <<held, entered, chan, coll, failed>>

Step(r) == \/ Send(r) \/ Receive(r) \/ BcastAsRoot(r) \/ BcastAsReceiver(r)
           \/ EnterBarrier(r) \/ LeaveCollective(r) \/ LocalWork(r)

Next == \E r \in Ranks : Step(r)

Spec == Init /\ [][Next]_vars

\* Each rank is a process that the operating system and MPI keep running.
FairSpec == Spec /\ \A r \in Ranks : WF_vars(Step(r))

------------------------------------------------------------------------------

Values == {<<name>> : name \in Operands \cup Parts} \cup {<<"A1", "B1">>, <<"A2", "B2">>, Null}

IsBatch(f, S) == DOMAIN f \subseteq Slots /\ \A i \in DOMAIN f : f[i] \in S

\* Only the arrays a gather is still filling hold default ciphertexts.
TypeOK ==
  /\ \A r \in Ranks : pc[r] \in 1 .. Len(Script[r]) + 1
  /\ held \in [Ranks -> BOOLEAN]
  /\ entered \in [Ranks -> [Comms -> Nat]]
  /\ failed \in BOOLEAN
  /\ \A r \in Ranks, name \in Names, axis \in Axes :
       IsBatch(store[r][name][axis],
               IF name \in {"A1_full", "B1_full", "A2_full", "B2_full", "gathered", "decrypted"}
               THEN Values ELSE Values \ {Null})

\* A rank that has returned holds its own blocks of A1 * B1 and of A2 * B2,
\* in the partition of the whole grid, whichever half computed them, and the
\* gather to the root yields every row and column: no operand of the other
\* half, of another message or of another partition gets into a product.
BothProducts ==
  \A r \in Ranks : Done(r) =>
    /\ store[r]["result1"] = Blocks(r, "grid", <<"A1", "B1">>)
    /\ store[r]["result2"] = Blocks(r, "grid", <<"A2", "B2">>)
    /\ r = 0 => store[r]["decrypted"] = [axis \in Axes |-> [i \in Slots |-> <<"A2", "B2">>]]

\* A receive never takes another message than the one it was posted for, and
\* no rank multiplies without its operands and the keys of rank 0, although
\* the payload of the rows and the size of the columns share tag 301,
\* consecutive gathers reuse the tags, and an eager sender runs ahead; and the
\* broadcasts of a communicator are entered in one order.
MessagesMatch == ~ failed

\* When every rank has returned nothing is left in a channel, so that the
\* communicators of the halves are freed with no message of theirs pending.
NothingPending ==
  (\A r \in Ranks : Done(r)) =>
    \A c \in Comms, r \in Ranks : coll[c][r] = << >> /\ \A d \in Ranks : chan[c][r][d] = << >>

\* The blocking sends cannot deadlock, however little MPI buffers.
Termination == <>(\A r \in Ranks : Done(r))
==============================================================================
