---------------------------- MODULE AssembleOwned ----------------------------
(***************************************************************************)
(* AssembleRows/AssembleCols of bgv_distributed_rowcol_backend.hpp on one  *)
(* communicator: AssembleOwnedBucket (Isend one batch per owner, receive   *)
(* and EvalAdd every source's batch, WaitAllSends) followed by             *)
(* GatherOwnedToAll (one broadcast per owner, in rank order).  The ranks   *)
(* make Calls successive calls on the same communicator, as one matmul     *)
(* after another does.                                                     *)
(*                                                                         *)
(* MPI is modelled from its use: a point-to-point channel per (source,     *)
(* destination) is FIFO; a message may or may not be buffered by the       *)
(* library (eager or rendezvous); an unbuffered one is read out of the     *)
(* sender's memory when it is received, and only then its send request     *)
(* completes; a broadcast may or may not hold a participant until every    *)
(* rank has entered it.                                                    *)
(***************************************************************************)
EXTENDS Integers, Sequences, Bags

CONSTANTS P,        \* comm_size
          Indices,  \* global_indices, the same set on every rank of the comm
          Calls     \* bound: successive calls made on the communicator

ASSUME PAssumption       == P \in Nat \ {0}
ASSUME IndicesAssumption == Indices \subseteq Nat
ASSUME CallsAssumption   == Calls \in Nat

Ranks == 0 .. P - 1

VARIABLES
  call,       \* call[r]: the call rank r is in, or the last one it returned from
  pc,         \* pc[r]: where rank r is in that call
  cursor,     \* cursor[r]: the loop variable `owner` or `src` at that point
  owned,      \* owned[r]: owned_values, one ciphertext per owned tag
  out,        \* out[r]: `out` of GatherOwnedToAll
  assembled,  \* assembled[r]: what the last call returned
  pending,    \* pending[s][d]: the bytes of s's PendingSend for d
  net,        \* net[s][d]: batches Isent by s that d has not received
  bnet        \* bnet[s][d]: batches broadcast by root s that d has not taken

vars == <<call, pc, cursor, owned, out, assembled, pending, net, bnet>>

------------------------------------------------------------------------------

Piece(r, k, g) == [rank |-> r, call |-> k, index |-> g]

\* What EvalAdd of the pieces of the ranks in S for index g amounts to.
PiecesOf(S, k, g) == SetToBag({Piece(r, k, g) : r \in S})

\* partial_values of rank r in call k, restricted to the indices in B.
Partial(r, k, B) == [g \in B |-> PiecesOf({r}, k, g)]

Owner(g)  == g % P
Bucket(o) == {g \in Indices : Owner(g) = o}

EvalAdd(a, b) == a (+) b

Unset == [g \in Indices |-> EmptyBag]

\* Memory that holds no batch: its PendingSend is not there, or no longer.  It
\* stands for whatever may be read there instead of the batch.
Freed == [g \in {} |-> EmptyBag]

\* The bytes that d receives for message m of s.
Payload(m, s, d) == IF m.buffered THEN m.values ELSE pending[s][d]

\* Batches of rank r whose request MPI has not completed: they are still to
\* be received and MPI did not copy them.
InFlightUnbuffered(r) ==
  {d \in Ranks : \E i \in 1 .. Len(net[r][d]) : ~ net[r][d][i].buffered}

PCs == {"idle", "send", "recv", "wait", "bcast", "held"}

Init == /\ call = [r \in Ranks |-> 0]
        /\ pc = [r \in Ranks |-> "idle"]
        /\ cursor = [r \in Ranks |-> 0]
        /\ owned = [r \in Ranks |-> Unset]
        /\ out = [r \in Ranks |-> Unset]
        /\ assembled = [r \in Ranks |-> Unset]
        /\ pending = [s \in Ranks |-> [d \in Ranks |-> Freed]]
        /\ net = [s \in Ranks |-> [d \in Ranks |-> << >>]]
        /\ bnet = [s \in Ranks |-> [d \in Ranks |-> << >>]]

------------------------------------------------------------------------------

\* A rank enters AssembleRows: its partial values are bucketed by owner.
Enter(r) == /\ pc[r] = "idle"
            /\ call[r] < Calls
            /\ call' = [call EXCEPT ![r] = @ + 1]
            /\ pc' = [pc EXCEPT ![r] = "send"]
            /\ cursor' = [cursor EXCEPT ![r] = 0]
            /\ UNCHANGED <<owned, out, assembled, pending, net, bnet>>

\* Faulty variant: the send loop runs to owner = comm_size.
SkipOwner_PastEnd(r) == /\ pc[r] = "send"
                        /\ cursor[r] <= P
                        /\ cursor[r] = r \/ Bucket(cursor[r]) = {}
                        /\ cursor' = [cursor EXCEPT ![r] = @ + 1]
                        /\ UNCHANGED <<call, pc, owned, out, assembled, pending, net, bnet>>

\* The send loop: one Isend for each other owner with a nonempty bucket.
SkipOwner(r) == /\ pc[r] = "send"
                /\ cursor[r] < P
                /\ cursor[r] = r \/ Bucket(cursor[r]) = {}
                /\ cursor' = [cursor EXCEPT ![r] = @ + 1]
                /\ UNCHANGED <<call, pc, owned, out, assembled, pending, net, bnet>>

IsendBatch(r) ==
  LET o     == cursor[r]
      batch == Partial(r, call[r], Bucket(o))
  IN
  /\ pc[r] = "send"
  /\ o < P
  /\ o # r
  /\ Bucket(o) # {}
  /\ pending' = [pending EXCEPT ![r][o] = batch]
  /\ \E b \in BOOLEAN :
       net' = [net EXCEPT ![r][o] = Append(@, [values |-> batch, buffered |-> b])]
  /\ cursor' = [cursor EXCEPT ![r] = o + 1]
  /\ UNCHANGED <<call, pc, owned, out, assembled, bnet>>

\* Faulty variant: owned_values is not cleared between two calls.
EndSends_Stale(r) ==
  /\ pc[r] = "send"
  /\ cursor[r] = P
  /\ owned' = [owned EXCEPT ![r] =
                 [g \in Indices |-> IF g \in Bucket(r)
                                    THEN EvalAdd(@[g], PiecesOf({r}, call[r], g))
                                    ELSE EmptyBag]]
  /\ pc' = [pc EXCEPT ![r] = IF Bucket(r) = {} THEN "wait" ELSE "recv"]
  /\ cursor' = [cursor EXCEPT ![r] = 0]
  /\ UNCHANGED <<call, out, assembled, pending, net, bnet>>

\* Faulty variant: a rank that owns nothing waits for batches as well.
EndSends_AlwaysReceives(r) ==
  /\ pc[r] = "send"
  /\ cursor[r] = P
  /\ owned' = [owned EXCEPT ![r] =
                 [g \in Indices |-> IF g \in Bucket(r) THEN PiecesOf({r}, call[r], g)
                                                      ELSE EmptyBag]]
  /\ pc' = [pc EXCEPT ![r] = "recv"]
  /\ cursor' = [cursor EXCEPT ![r] = 0]
  /\ UNCHANGED <<call, out, assembled, pending, net, bnet>>

\* owned_tags/owned_values start from this rank's own bucket; a rank that
\* owns nothing skips the receive loop.
EndSends(r) ==
  /\ pc[r] = "send"
  /\ cursor[r] = P
  /\ owned' = [owned EXCEPT ![r] =
                 [g \in Indices |-> IF g \in Bucket(r) THEN PiecesOf({r}, call[r], g)
                                                      ELSE EmptyBag]]
  /\ pc' = [pc EXCEPT ![r] = IF Bucket(r) = {} THEN "wait" ELSE "recv"]
  /\ cursor' = [cursor EXCEPT ![r] = 0]
  /\ UNCHANGED <<call, out, assembled, pending, net, bnet>>

\* The receive loop: sources in rank order, each batch added slot by slot.
SkipSelf(r) == /\ pc[r] = "recv"
               /\ cursor[r] = r
               /\ cursor' = [cursor EXCEPT ![r] = @ + 1]
               /\ UNCHANGED <<call, pc, owned, out, assembled, pending, net, bnet>>

RecvBatch(r) ==
  LET src   == cursor[r]
      batch == Payload(Head(net[src][r]), src, r)
  IN
  /\ pc[r] = "recv"
  /\ src < P
  /\ src # r
  /\ net[src][r] # << >>
  /\ owned' = [owned EXCEPT ![r] =
                 [g \in Indices |-> IF g \in DOMAIN batch
                                    THEN EvalAdd(@[g], batch[g]) ELSE @[g]]]
  /\ net' = [net EXCEPT ![src][r] = Tail(@)]
  /\ cursor' = [cursor EXCEPT ![r] = src + 1]
  /\ UNCHANGED <<call, pc, out, assembled, pending, bnet>>

EndRecvs(r) == /\ pc[r] = "recv"
               /\ cursor[r] = P
               /\ pc' = [pc EXCEPT ![r] = "wait"]
               /\ UNCHANGED <<call, cursor, owned, out, assembled, pending, net, bnet>>

\* Faulty variant: the function returns, and with it goes its local `pending`,
\* without waiting for its sends.
WaitAllSends_Skipped(r) == /\ pc[r] = "wait"
                           /\ pending' = [pending EXCEPT ![r] = [d \in Ranks |-> Freed]]
                           /\ pc' = [pc EXCEPT ![r] = "bcast"]
                           /\ cursor' = [cursor EXCEPT ![r] = 0]
                           /\ out' = [out EXCEPT ![r] = Unset]
                           /\ UNCHANGED <<call, owned, assembled, net, bnet>>

\* WaitAllSends, which clears `pending`; then GatherOwnedToAll clears `out`.
WaitAllSends(r) == /\ pc[r] = "wait"
                   /\ InFlightUnbuffered(r) = {}
                   /\ pending' = [pending EXCEPT ![r] = [d \in Ranks |-> Freed]]
                   /\ pc' = [pc EXCEPT ![r] = "bcast"]
                   /\ cursor' = [cursor EXCEPT ![r] = 0]
                   /\ out' = [out EXCEPT ![r] = Unset]
                   /\ UNCHANGED <<call, owned, assembled, net, bnet>>

\* The broadcast loop.  A participant goes on to the next owner at once, or
\* is held in the broadcast until every rank has entered it.
AfterBcast(r) == \/ /\ cursor' = [cursor EXCEPT ![r] = @ + 1]
                    /\ UNCHANGED pc
                 \/ /\ pc' = [pc EXCEPT ![r] = "held"]
                    /\ UNCHANGED cursor

BcastAsRoot(r) ==
  /\ pc[r] = "bcast"
  /\ cursor[r] = r
  /\ bnet' = [bnet EXCEPT ![r] =
                [d \in Ranks |-> IF d = r THEN @[d]
                                 ELSE Append(@[d], [g \in Bucket(r) |-> owned[r][g]])]]
  /\ out' = [out EXCEPT ![r] =
               [g \in Indices |-> IF g \in Bucket(r) THEN owned[r][g] ELSE @[g]]]
  /\ AfterBcast(r)
  /\ UNCHANGED <<call, owned, assembled, pending, net>>

\* Faulty variant: a nonblocking broadcast whose completion is not awaited.
BcastAsReceiver_NoWait(r) ==
  LET root == cursor[r] IN
  /\ pc[r] = "bcast"
  /\ root < P
  /\ root # r
  /\ IF bnet[root][r] = << >>
     THEN UNCHANGED <<out, bnet>>
     ELSE /\ out' = [out EXCEPT ![r] =
                       [g \in Indices |-> IF g \in DOMAIN Head(bnet[root][r])
                                          THEN Head(bnet[root][r])[g] ELSE @[g]]]
          /\ bnet' = [bnet EXCEPT ![root][r] = Tail(@)]
  /\ AfterBcast(r)
  /\ UNCHANGED <<call, owned, assembled, pending, net>>

BcastAsReceiver(r) ==
  LET root == cursor[r] IN
  /\ pc[r] = "bcast"
  /\ root < P
  /\ root # r
  /\ bnet[root][r] # << >>
  /\ out' = [out EXCEPT ![r] =
               [g \in Indices |-> IF g \in DOMAIN Head(bnet[root][r])
                                  THEN Head(bnet[root][r])[g] ELSE @[g]]]
  /\ bnet' = [bnet EXCEPT ![root][r] = Tail(@)]
  /\ AfterBcast(r)
  /\ UNCHANGED <<call, owned, assembled, pending, net>>

\* Rank s has entered the broadcast of owner o in call k.
HasEntered(s, k, o) ==
  \/ call[s] > k
  \/ call[s] = k /\ pc[s] = "idle"
  \/ call[s] = k /\ pc[s] \in {"bcast", "held"} /\ cursor[s] >= o

LeaveBcast(r) == /\ pc[r] = "held"
                 /\ \A s \in Ranks : HasEntered(s, call[r], cursor[r])
                 /\ pc' = [pc EXCEPT ![r] = "bcast"]
                 /\ cursor' = [cursor EXCEPT ![r] = @ + 1]
                 /\ UNCHANGED <<call, owned, out, assembled, pending, net, bnet>>

Return(r) == /\ pc[r] = "bcast"
             /\ cursor[r] = P
             /\ assembled' = [assembled EXCEPT ![r] = out[r]]
             /\ pc' = [pc EXCEPT ![r] = "idle"]
             /\ UNCHANGED <<call, cursor, owned, out, pending, net, bnet>>

------------------------------------------------------------------------------

Step(r) == \/ Enter(r)     \/ SkipOwner(r)   \/ IsendBatch(r)  \/ EndSends(r)
           \/ SkipSelf(r)  \/ RecvBatch(r)   \/ EndRecvs(r)    \/ WaitAllSends(r)
           \/ BcastAsRoot(r) \/ BcastAsReceiver(r) \/ LeaveBcast(r) \/ Return(r)

Next == \E r \in Ranks : Step(r)

Spec == Init /\ [][Next]_vars

\* Each rank is a process that the operating system and MPI keep running.
FairSpec == Spec /\ \A r \in Ranks : WF_vars(Step(r))

------------------------------------------------------------------------------

Pieces == [rank : Ranks, call : 1 .. Calls, index : Indices]

IsCiphertext(c) == IsABag(c) /\ BagToSet(c) \subseteq Pieces

IsVector(v) == /\ DOMAIN v = Indices
               /\ v = [g \in Indices |-> v[g]]
               /\ \A g \in Indices : IsCiphertext(v[g])

\* Every variable has its type; a cursor never passes the end of its loop.
TypeOK ==
  /\ call \in [Ranks -> 0 .. Calls]
  /\ pc \in [Ranks -> PCs]
  /\ cursor \in [Ranks -> 0 .. P]
  /\ DOMAIN owned = Ranks /\ DOMAIN out = Ranks /\ DOMAIN assembled = Ranks
  /\ \A r \in Ranks : IsVector(owned[r]) /\ IsVector(out[r]) /\ IsVector(assembled[r])
  /\ DOMAIN pending = Ranks /\ DOMAIN net = Ranks /\ DOMAIN bnet = Ranks
  /\ \A s \in Ranks :
       DOMAIN pending[s] = Ranks /\ DOMAIN net[s] = Ranks /\ DOMAIN bnet[s] = Ranks

FullSum(k) == [g \in Indices |-> PiecesOf(Ranks, k, g)]

\* What a call returns holds, for every index of the block, each rank's piece
\* of that very call exactly once: none lost, none added twice, none from
\* another call or for another index, on every rank alike (the EvalAdd loop of
\* AssembleOwnedBucket and the broadcasts of GatherOwnedToAll).  In particular
\* MPI reads no batch out of a PendingSend that is gone or used for another
\* call: its receiver would add something else.
ExactlyOnce ==
  \A r \in Ranks :
    pc[r] = "idle" /\ call[r] > 0 => assembled[r] = FullSum(call[r])

\* A rank that runs ahead never piles up batches at a slow one: at most one
\* point-to-point batch and one broadcast batch of each rank wait at another.
BoundedBacklog ==
  \A s, d \in Ranks : Len(net[s][d]) <= 1 /\ Len(bnet[s][d]) <= 1

\* Every rank returns from every call, whatever MPI buffers and whichever
\* broadcasts synchronise: the exchange cannot deadlock.
Termination == <>[](\A r \in Ranks : pc[r] = "idle" /\ call[r] = Calls)

AR == INSTANCE AllReduce
        WITH arrived  <- call,
             returned <- [r \in Ranks |-> IF pc[r] = "idle" THEN call[r] ELSE call[r] - 1],
             result   <- assembled

\* The calls implement the abstract sum-to-all: no rank returns before every
\* rank has entered the call, and all return the same full sum.
ImplementsAllReduce == AR!Spec
==============================================================================
