------------------------- MODULE AssembleOwnedProofs -------------------------
(***************************************************************************)
(* Proofs for AssembleOwned, for every communicator size, index set and    *)
(* number of calls.                                                        *)
(***************************************************************************)
EXTENDS AssembleOwnedInv, TLAPS

\* g % comm_size names a rank of the communicator (the owner exists).
LEMMA OwnerIsRank == ASSUME NEW g \in Indices PROVE Owner(g) \in Ranks
  BY PAssumption, IndicesAssumption DEF Owner, Ranks

\* EvalAdd of the sums over disjoint sets of ranks is the sum over their union.
LEMMA AddPieces ==
  ASSUME NEW S, NEW T, S \cap T = {}, NEW k, NEW g
  PROVE  EvalAdd(PiecesOf(S, k, g), PiecesOf(T, k, g)) = PiecesOf(S \cup T, k, g)
<1> DEFINE A == {Piece(r, k, g) : r \in S}
           B == {Piece(r, k, g) : r \in T}
<1>1. A \cap B = {}
  BY DEF Piece
<1>2. {Piece(r, k, g) : r \in S \cup T} = A \cup B
  OBVIOUS
<1>3. SetToBag(A) (+) SetToBag(B) = SetToBag(A \cup B)
  <2> HIDE DEF A, B
  <2> QED BY <1>1 DEF SetToBag, (+)
<1> QED BY <1>2, <1>3 DEF EvalAdd, PiecesOf

\* A ciphertext nothing was added to yet is well formed.
LEMMA EmptyIsCiphertext == IsCiphertext(EmptyBag)
  BY DEF IsCiphertext, IsABag, BagToSet, EmptyBag, SetToBag

\* The sum of some ranks' pieces of a call is a ciphertext of the communicator.
LEMMA PiecesOfIsCiphertext ==
  ASSUME NEW S \in SUBSET Ranks, NEW k \in 1 .. Calls, NEW g \in Indices
  PROVE  IsCiphertext(PiecesOf(S, k, g))
<1> DEFINE A == {Piece(r, k, g) : r \in S}
<1>1. A \subseteq Pieces
  BY DEF Piece, Pieces
<1>2. DOMAIN SetToBag(A) = A /\ IsABag(SetToBag(A))
  <2> HIDE DEF A
  <2> QED BY DEF SetToBag, IsABag
<1> QED BY <1>1, <1>2 DEF IsCiphertext, PiecesOf, BagToSet

\* Before any call the invariant holds.
THEOREM InitIInv == Init => IInv
<1> SUFFICES ASSUME Init PROVE IInv
  OBVIOUS
<1>1. TypeOK
  BY EmptyIsCiphertext, PAssumption, CallsAssumption
     DEF Init, TypeOK, IsVector, Unset, PCs, Ranks
<1>2. PcInv /\ OwnedInv /\ OutInv /\ ExactlyOnce
  BY DEF Init, PcInv, OwnedInv, OutInv, ExactlyOnce
<1>3. NetInv
  <2> SUFFICES ASSUME NEW s \in Ranks, NEW d \in Ranks
      PROVE /\ net[s][d] = << >>
            /\ net[s][d] \in Seq(Batches(s, d))
            /\ Len(net[s][d]) = Sent(s, d) - Recvd(s, d)
    BY DEF NetInv, NetOK
  <2> QED BY DEF Init, Sent, Recvd
<1>4. BnetInv
  <2> SUFFICES ASSUME NEW s \in Ranks, NEW d \in Ranks
      PROVE /\ bnet[s][d] = << >>
            /\ bnet[s][d] \in Seq({Assembled(s, k) : k \in 1 .. Calls})
            /\ Len(bnet[s][d]) = Passed(s, s) - Passed(d, s)
    BY DEF BnetInv, BnetOK
  <2> QED BY DEF Init, Passed, BeforeBcast
<1>5. BufferInv
  BY DEF Init, BufferInv, BufferOK
<1> QED BY <1>1, <1>2, <1>3, <1>4, <1>5 DEF IInv

------------------------------------------------------------------------------
\* Steps that leave a channel and the two counters of it alone keep NetInv, and
\* likewise BnetInv.
LEMMA NetUntouched ==
  ASSUME NetInv, net' = net,
         \A s, d \in Ranks : s # d /\ Bucket(d) # {} =>
            Sent(s, d)' = Sent(s, d) /\ Recvd(s, d)' = Recvd(s, d)
  PROVE  NetInv'
<1> SUFFICES ASSUME NEW s \in Ranks, NEW d \in Ranks
    PROVE NetOK(s, d)'
  BY DEF NetInv
<1> QED BY DEF NetInv, NetOK

\* The same for a step that leaves the broadcasts and their counters alone.
LEMMA BnetUntouched ==
  ASSUME BnetInv, bnet' = bnet,
         \A s, d \in Ranks : s # d => Passed(s, s)' = Passed(s, s)
                                      /\ Passed(d, s)' = Passed(d, s)
  PROVE  BnetInv'
<1> SUFFICES ASSUME NEW s \in Ranks, NEW d \in Ranks
    PROVE BnetOK(s, d)'
  BY DEF BnetInv
<1>1. BnetOK(s, d) /\ bnet'[s][d] = bnet[s][d]
  BY DEF BnetInv
<1>2. CASE s = d
  BY <1>1, <1>2 DEF BnetOK
<1>3. CASE s # d
  <2>1. Passed(s, s)' = Passed(s, s) /\ Passed(d, s)' = Passed(d, s)
    BY <1>3
  <2> QED BY <1>1, <1>3, <2>1 DEF BnetOK
<1> QED BY <1>2, <1>3

\* The memory that MPI reads stays what it was in a step that leaves messages
\* and buffers alone and lets no rank out of AssembleOwnedBucket.
LEMMA BuffersUntouched ==
  ASSUME BufferInv, net' = net, pending' = pending,
         \A s \in Ranks : pc[s] \in {"send", "recv", "wait"} =>
            /\ pc'[s] \in {"send", "recv", "wait"}
            /\ pc'[s] = "send" =>
                 pc[s] = "send" /\ \A d \in Ranks : cursor[s] > d => cursor'[s] > d
  PROVE  BufferInv'
<1> SUFFICES ASSUME NEW s \in Ranks, NEW d \in Ranks, NEW i \in 1 .. Len(net[s][d]),
                    ~ net[s][d][i].buffered
    PROVE  /\ pc'[s] \in {"send", "recv", "wait"}
           /\ pc'[s] = "send" => cursor'[s] > d
           /\ pending[s][d] = net[s][d][i].values
  BY DEF BufferInv, BufferOK
<1>1. BufferOK(s, d)
  BY DEF BufferInv
<1>2. /\ pc[s] \in {"send", "recv", "wait"}
      /\ pc[s] = "send" => cursor[s] > d
      /\ pending[s][d] = net[s][d][i].values
  BY <1>1 DEF BufferOK
<1> QED BY <1>2

\* What taking the oldest batch of a channel leaves.
LEMMA TailFacts ==
  ASSUME NEW S, NEW q \in Seq(S), q # << >>
  PROVE  /\ Tail(q) \in Seq(S)
         /\ Len(q) \in Nat /\ Len(q) > 0
         /\ Len(Tail(q)) = Len(q) - 1
         /\ \A i \in 1 .. Len(Tail(q)) : Tail(q)[i] = q[i + 1]
OBVIOUS

\* A rank that is inside a call is in one of the calls made.
LEMMA CallRange ==
  ASSUME TypeOK, PcInv, NEW r \in Ranks, pc[r] # "idle"
  PROVE  call[r] \in 1 .. Calls
<1>1. call[r] \in 0 .. Calls
  BY DEF TypeOK
<1>2. call[r] > 0
  BY Zenon DEF PcInv
<1> QED BY <1>1, <1>2, CallsAssumption

\* A step that leaves the accumulators and what was added alone keeps OwnedInv.
LEMMA OwnedUntouched ==
  ASSUME OwnedInv, owned' = owned, call' = call,
         \A q \in Ranks : Added(q)' = Added(q),
         \A q \in Ranks : pc'[q] \in {"recv", "wait", "bcast", "held"} =>
                          pc[q] \in {"recv", "wait", "bcast", "held"}
  PROVE  OwnedInv'
<1> SUFFICES ASSUME NEW q \in Ranks, pc'[q] \in {"recv", "wait", "bcast", "held"},
                    NEW g \in Bucket(q)
    PROVE owned'[q][g] = PiecesOf(Added(q)', call'[q], g)
  BY DEF OwnedInv
<1>1. pc[q] \in {"recv", "wait", "bcast", "held"} /\ Added(q)' = Added(q)
  OBVIOUS
<1> QED BY <1>1, Zenon DEF OwnedInv

\* Bucketing the partial values disturbs nothing.
LEMMA EnterKeeps ==
  ASSUME IInv, NEW r \in Ranks, Enter(r)
  PROVE  IInv'
<1> USE DEF Enter
<1>0. TypeOK /\ PcInv
  BY DEF IInv
<1>1. TypeOK'
  BY <1>0, PAssumption, CallsAssumption DEF TypeOK, PCs, IsVector, IsCiphertext
<1>2. PcInv'
  BY <1>0, CallsAssumption DEF TypeOK, PcInv
<1>3. NetInv'
  <2>1. \A s, d \in Ranks : Sent(s, d)' = Sent(s, d) /\ Recvd(s, d)' = Recvd(s, d)
    BY <1>0, CallsAssumption DEF TypeOK, Sent, Recvd, Ranks
  <2> QED BY <2>1, NetUntouched DEF IInv
<1>4. BnetInv'
  <2>1. \A s, d \in Ranks : Passed(s, d)' = Passed(s, d)
    BY <1>0, CallsAssumption DEF TypeOK, Passed, BeforeBcast, Ranks
  <2> QED BY <2>1, BnetUntouched DEF IInv
<1>5. OwnedInv'
  BY <1>0 DEF IInv, TypeOK, OwnedInv, Added
<1>6. OutInv'
  BY <1>0 DEF IInv, TypeOK, OutInv, BeforeBcast
<1>7. ExactlyOnce'
  BY <1>0 DEF IInv, TypeOK, ExactlyOnce
<1>8. BufferInv'
  <2>1. pc[r] = "idle" /\ \A q \in Ranks : q # r => pc'[q] = pc[q] /\ cursor'[q] = cursor[q]
    BY <1>0 DEF TypeOK
  <2> QED BY <2>1, BuffersUntouched DEF IInv
<1> QED BY <1>1, <1>2, <1>3, <1>4, <1>5, <1>6, <1>7, <1>8 DEF IInv

\* Passing an owner with an empty bucket, or itself, sends nothing.
LEMMA SkipOwnerKeeps ==
  ASSUME IInv, NEW r \in Ranks, SkipOwner(r)
  PROVE  IInv'
<1> USE DEF SkipOwner
<1>0. TypeOK /\ PcInv
  BY DEF IInv
<1>1. TypeOK' /\ PcInv'
  BY <1>0, PAssumption DEF TypeOK, PcInv, Ranks
<1>2. NetInv'
  <2>1. \A s, d \in Ranks : s # d /\ Bucket(d) # {} =>
           Sent(s, d)' = Sent(s, d) /\ Recvd(s, d)' = Recvd(s, d)
    BY <1>0 DEF TypeOK, Sent, Recvd, Ranks
  <2> QED BY <2>1, NetUntouched DEF IInv
<1>3. BnetInv'
  <2>1. \A s, d \in Ranks : Passed(s, d)' = Passed(s, d)
    BY <1>0 DEF TypeOK, Passed, BeforeBcast
  <2> QED BY <2>1, BnetUntouched DEF IInv
<1>4. OwnedInv' /\ OutInv' /\ ExactlyOnce'
  <2>1. pc[r] = "send" /\ \A q \in Ranks : q # r => cursor'[q] = cursor[q]
    BY <1>0 DEF TypeOK
  <2>2. \A q \in Ranks : pc[q] # "send" => Added(q)' = Added(q)
    BY <2>1 DEF Added
  <2>3. OwnedInv'
    BY <2>1, <2>2 DEF IInv, OwnedInv
  <2>4. OutInv'
    BY <2>1 DEF IInv, OutInv, BeforeBcast
  <2>5. ExactlyOnce'
    BY DEF IInv, ExactlyOnce
  <2> QED BY <2>3, <2>4, <2>5
<1>5. BufferInv'
  <2>1. /\ cursor[r] \in Int /\ cursor'[r] = cursor[r] + 1
        /\ \A q \in Ranks : q # r => cursor'[q] = cursor[q]
    BY <1>0 DEF TypeOK
  <2>2. \A d \in Ranks : cursor[r] > d => cursor'[r] > d
    BY <2>1 DEF Ranks
  <2> QED BY <2>1, <2>2, BuffersUntouched DEF IInv
<1> QED BY <1>1, <1>2, <1>3, <1>4, <1>5 DEF IInv

\* An Isend appends this call's batch to the owner's channel.
LEMMA IsendBatchKeeps ==
  ASSUME IInv, NEW r \in Ranks, IsendBatch(r)
  PROVE  IInv'
<1>0. TypeOK /\ PcInv
  BY DEF IInv
<1> PICK o \in Ranks : o = cursor[r]
  <2>1. cursor[r] \in 0 .. P /\ cursor[r] < P
    BY <1>0, Zenon DEF IsendBatch, TypeOK
  <2> QED BY <2>1, PAssumption DEF Ranks
<1>a. /\ pc[r] = "send" /\ o < P /\ o # r /\ Bucket(o) # {} /\ o = cursor[r]
      /\ cursor' = [cursor EXCEPT ![r] = o + 1]
      /\ pending' = [pending EXCEPT ![r][o] = Partial(r, call[r], Bucket(o))]
      /\ UNCHANGED <<call, pc, owned, out, assembled, bnet>>
  BY Zenon DEF IsendBatch
<1>d. call[r] \in 1 .. Calls
  BY <1>0, <1>a, CallsAssumption DEF TypeOK, PcInv
<1>b. \E M \in Batches(r, o) :
         /\ M.values = Partial(r, call[r], Bucket(o))
         /\ net' = [net EXCEPT ![r][o] = Append(@, M)]
  <2>1. PICK b \in BOOLEAN :
          net' = [net EXCEPT ![r][o] =
                    Append(@, [values |-> Partial(r, call[r], Bucket(o)), buffered |-> b])]
    BY <1>a, Zenon DEF IsendBatch
  <2> DEFINE M == [values |-> Partial(r, call[r], Bucket(o)), buffered |-> b]
  <2>3. M \in Batches(r, o) /\ M.values = Partial(r, call[r], Bucket(o))
    BY <1>d DEF Batches
  <2> QED BY <2>1, <2>3, Zenon
<1>c. PICK M \in Batches(r, o) :
         /\ M.values = Partial(r, call[r], Bucket(o))
         /\ net' = [net EXCEPT ![r][o] = Append(@, M)]
  BY <1>b
<1>1. TypeOK' /\ PcInv'
  BY <1>0, <1>a, <1>c, PAssumption DEF TypeOK, PcInv, Ranks
<1>2. NetInv'
  <2> SUFFICES ASSUME NEW s \in Ranks, NEW d \in Ranks
      PROVE  NetOK(s, d)'
    BY DEF NetInv
  <2>0. NetOK(s, d)
    BY DEF IInv, NetInv
  <2>1. CASE s = r /\ d = o
    <3>1. /\ net[r][o] \in Seq(Batches(r, o))
          /\ Len(net[r][o]) = Sent(r, o) - Recvd(r, o)
          /\ \A i \in 1 .. Len(net[r][o]) :
               net[r][o][i].values = Partial(r, Recvd(r, o) + i, Bucket(o))
      BY <2>0, <2>1, <1>a DEF NetOK
    <3>2. net'[r][o] = Append(net[r][o], M)
      BY <1>0, <1>c DEF TypeOK
    <3>3. /\ Sent(r, o) = call[r] - 1 /\ Sent(r, o)' = call[r]
          /\ Recvd(r, o)' = Recvd(r, o)
          /\ Recvd(r, o) \in Int
      BY <1>0, <1>a DEF TypeOK, Sent, Recvd, Ranks
    <3>4. net'[r][o] \in Seq(Batches(r, o)) /\ Len(net'[r][o]) = Len(net[r][o]) + 1
      BY <3>1, <3>2
    <3>5. \A i \in 1 .. Len(net'[r][o]) :
            net'[r][o][i].values = Partial(r, Recvd(r, o) + i, Bucket(o))
      <4> TAKE i \in 1 .. Len(net'[r][o])
      <4>1. CASE i \in 1 .. Len(net[r][o])
        BY <4>1, <3>1, <3>2
      <4>2. CASE i = Len(net[r][o]) + 1
        <5>1. net'[r][o][i] = M
          BY <4>2, <3>1, <3>2
        <5>2. Recvd(r, o) + i = call[r]
          BY <4>2, <3>1, <3>3, <1>d
        <5> QED BY <5>1, <5>2, <1>c
      <4> QED BY <4>1, <4>2, <3>1, <3>4
    <3>6. NetOK(r, o)'
      <4>1. Len(net'[r][o]) = Sent(r, o)' - Recvd(r, o)'
        BY <3>1, <3>3, <3>4, <1>d
      <4> QED BY <4>1, <1>a, <3>3, <3>4, <3>5, Zenon DEF NetOK
    <3> QED BY <2>1, <3>6
  <2>2. CASE ~ (s = r /\ d = o)
    <3>1. net'[s][d] = net[s][d]
      BY <2>2, <1>0, <1>c DEF TypeOK
    <3>2. Sent(s, d)' = Sent(s, d) /\ Recvd(s, d)' = Recvd(s, d)
      BY <2>2, <1>0, <1>a DEF TypeOK, Sent, Recvd, Ranks
    <3> QED BY <2>0, <3>1, <3>2 DEF NetOK
  <2> QED BY <2>1, <2>2
<1>3. BnetInv'
  <2>1. \A s, d \in Ranks : Passed(s, d)' = Passed(s, d)
    BY <1>0, <1>a DEF TypeOK, Passed, BeforeBcast
  <2> QED BY <2>1, <1>a, BnetUntouched DEF IInv
<1>4. OwnedInv' /\ OutInv' /\ ExactlyOnce'
  BY <1>0, <1>a DEF IInv, TypeOK, OwnedInv, Added, OutInv, BeforeBcast, ExactlyOnce
<1>5. BufferInv'
  <2> SUFFICES ASSUME NEW s \in Ranks, NEW d \in Ranks, NEW i \in 1 .. Len(net'[s][d]),
                      ~ net'[s][d][i].buffered
      PROVE  /\ pc[s] \in {"send", "recv", "wait"}
             /\ pc[s] = "send" => cursor'[s] > d
             /\ pending'[s][d] = net'[s][d][i].values
    BY <1>a DEF BufferInv, BufferOK
  <2>0. BufferOK(s, d) /\ NetOK(s, d)
    BY DEF IInv, BufferInv, NetInv
  <2>1. CASE s = r /\ d = o
    <3>1. net'[r][o] = Append(net[r][o], M) /\ net[r][o] \in Seq(Batches(r, o))
      BY <2>0, <2>1, <1>0, <1>a, <1>c DEF TypeOK, NetOK
    <3>2. ~ (cursor[r] > o) /\ cursor'[r] = o + 1
      BY <1>0, <1>a DEF TypeOK, Ranks
    <3>3. \A j \in 1 .. Len(net[r][o]) : net[r][o][j].buffered
      BY <2>0, <2>1, <3>2, <1>a DEF BufferOK
    <3>4. i = Len(net[r][o]) + 1 /\ net'[r][o][i] = M
      BY <2>1, <3>1, <3>3
    <3>5. pending'[r][o] = Partial(r, call[r], Bucket(o))
      BY <1>0, <1>a DEF TypeOK
    <3>6. o + 1 > o
      BY DEF Ranks
    <3> QED BY <2>1, <3>2, <3>4, <3>5, <3>6, <1>a, <1>c
  <2>2. CASE ~ (s = r /\ d = o)
    <3>1. net'[s][d] = net[s][d] /\ pending'[s][d] = pending[s][d]
      BY <2>2, <1>0, <1>a, <1>c DEF TypeOK
    <3>2. cursor[s] > d => cursor'[s] > d
      BY <1>0, <1>a DEF TypeOK, Ranks
    <3> QED BY <2>0, <3>1, <3>2 DEF BufferOK
  <2> QED BY <2>1, <2>2
<1> QED BY <1>1, <1>2, <1>3, <1>4, <1>5 DEF IInv

\* Starting from the own bucket resets the accumulator of the previous call.
LEMMA EndSendsKeeps ==
  ASSUME IInv, NEW r \in Ranks, EndSends(r)
  PROVE  IInv'
<1> USE DEF EndSends
<1>0. TypeOK /\ PcInv /\ call[r] \in 1 .. Calls
  BY CallsAssumption DEF IInv, TypeOK, PcInv
<1>1. TypeOK'
  <2>1. IsVector(owned'[r])
    BY <1>0, EmptyIsCiphertext, PiecesOfIsCiphertext DEF TypeOK, IsVector
  <2>2. \A q \in Ranks : q # r => owned'[q] = owned[q]
    BY <1>0 DEF TypeOK
  <2>3. \A q \in Ranks : IsVector(owned'[q])
    BY <2>1, <2>2, <1>0 DEF TypeOK
  <2> QED
    <3>1. DOMAIN owned' = Ranks
      BY <1>0 DEF TypeOK
    <3>2. pc' \in [Ranks -> PCs] /\ cursor' \in [Ranks -> 0 .. P]
      BY <1>0, PAssumption DEF TypeOK, PCs
    <3> QED BY <2>3, <3>1, <3>2, <1>0, Zenon DEF TypeOK
<1>2. PcInv'
  BY <1>0 DEF TypeOK, PcInv
<1>3. NetInv'
  <2>1. \A s, d \in Ranks : s # d /\ Bucket(d) # {} =>
           Sent(s, d)' = Sent(s, d) /\ Recvd(s, d)' = Recvd(s, d)
    BY <1>0, PAssumption DEF TypeOK, Sent, Recvd, Ranks
  <2> QED BY <2>1, NetUntouched DEF IInv
<1>4. BnetInv'
  <2>1. \A s, d \in Ranks : Passed(s, d)' = Passed(s, d)
    BY <1>0 DEF TypeOK, Passed, BeforeBcast
  <2> QED BY <2>1, BnetUntouched DEF IInv
<1>5. OwnedInv'
  <2> SUFFICES ASSUME NEW q \in Ranks, pc'[q] \in {"recv", "wait", "bcast", "held"},
                      NEW g \in Bucket(q)
      PROVE owned'[q][g] = PiecesOf(Added(q)', call[q], g)
    BY <1>0 DEF OwnedInv, TypeOK
  <2>1. CASE q = r
    <3>1. pc'[r] = "recv" /\ Added(r)' = {r}
      BY <2>1, <1>0 DEF TypeOK, Added, Ranks
    <3>2. owned'[r][g] = PiecesOf({r}, call[r], g)
      BY <2>1, <1>0 DEF TypeOK, Bucket
    <3> QED BY <2>1, <3>1, <3>2
  <2>2. CASE q # r
    BY <2>2, <1>0 DEF IInv, TypeOK, OwnedInv, Added
  <2> QED BY <2>1, <2>2
<1>6. OutInv' /\ ExactlyOnce'
  BY <1>0 DEF IInv, TypeOK, OutInv, BeforeBcast, ExactlyOnce
<1>7. BufferInv'
  <2>1. pc'[r] \in {"recv", "wait"}
        /\ \A q \in Ranks : q # r => pc'[q] = pc[q] /\ cursor'[q] = cursor[q]
    BY <1>0 DEF TypeOK
  <2> QED BY <2>1, BuffersUntouched DEF IInv
<1> QED BY <1>1, <1>2, <1>3, <1>4, <1>5, <1>6, <1>7 DEF IInv

\* The receive loop skips the own rank, whose bucket was added first.
LEMMA SkipSelfKeeps ==
  ASSUME IInv, NEW r \in Ranks, SkipSelf(r)
  PROVE  IInv'
<1> USE DEF SkipSelf
<1>0. TypeOK /\ PcInv
  BY DEF IInv
<1>1. TypeOK' /\ PcInv'
  BY <1>0, PAssumption DEF TypeOK, PcInv, Ranks
<1>2. NetInv'
  <2>1. \A s, d \in Ranks : s # d /\ Bucket(d) # {} =>
           Sent(s, d)' = Sent(s, d) /\ Recvd(s, d)' = Recvd(s, d)
    BY <1>0 DEF TypeOK, Sent, Recvd, Ranks
  <2> QED BY <2>1, NetUntouched DEF IInv
<1>3. BnetInv'
  <2>1. \A s, d \in Ranks : Passed(s, d)' = Passed(s, d)
    BY <1>0 DEF TypeOK, Passed, BeforeBcast
  <2> QED BY <2>1, BnetUntouched DEF IInv
<1>4. OwnedInv'
  <2>1. \A q \in Ranks : Added(q)' = Added(q)
    <3> SUFFICES ASSUME NEW q \in Ranks PROVE Added(q)' = Added(q)
      OBVIOUS
    <3>1. CASE q # r
      BY <3>1, <1>0 DEF TypeOK, Added
    <3>2. CASE q = r
      <4>1. /\ Added(r) = {r} \cup {s \in Ranks : s < r}
            /\ Added(r)' = {r} \cup {s \in Ranks : s < r + 1}
        BY <1>0 DEF TypeOK, Added
      <4>2. \A s \in Ranks : s < r + 1 <=> s < r \/ s = r
        BY DEF Ranks
      <4> QED BY <4>1, <4>2, <3>2, Zenon
    <3> QED BY <3>1, <3>2
  <2> QED BY <2>1, OwnedUntouched DEF IInv
<1>5. OutInv' /\ ExactlyOnce'
  BY <1>0 DEF IInv, TypeOK, OutInv, BeforeBcast, ExactlyOnce
<1>6. BufferInv'
  <2>1. pc' = pc /\ pc[r] = "recv" /\ \A q \in Ranks : q # r => cursor'[q] = cursor[q]
    BY <1>0 DEF TypeOK
  <2> QED BY <2>1, BuffersUntouched DEF IInv
<1> QED BY <1>1, <1>2, <1>3, <1>4, <1>5, <1>6 DEF IInv

\* The batch received is the source's batch of this very call: adding it adds
\* that source and no other.
LEMMA RecvBatchKeeps ==
  ASSUME IInv, NEW r \in Ranks, RecvBatch(r)
  PROVE  IInv'
<1>0. TypeOK /\ PcInv
  BY DEF IInv
<1> PICK src \in Ranks : src = cursor[r]
  <2>1. cursor[r] \in 0 .. P /\ cursor[r] < P
    BY <1>0, Zenon DEF RecvBatch, TypeOK
  <2> QED BY <2>1, PAssumption DEF Ranks
<1>a. /\ pc[r] = "recv" /\ src < P /\ src # r /\ src = cursor[r]
      /\ net[src][r] # << >>
      /\ cursor' = [cursor EXCEPT ![r] = src + 1]
      /\ net' = [net EXCEPT ![src][r] = Tail(@)]
      /\ UNCHANGED <<call, pc, out, assembled, pending, bnet>>
  BY Zenon DEF RecvBatch
<1>d. call[r] \in 1 .. Calls /\ Bucket(r) # {}
  <2>1. call[r] \in 1 .. Calls
    BY <1>0, <1>a, CallRange
  <2>2. Bucket(r) # {}
    BY <1>0, <1>a, Zenon DEF PcInv
  <2> QED BY <2>1, <2>2
<1>e. /\ net[src][r] \in Seq(Batches(src, r))
      /\ Len(net[src][r]) = Sent(src, r) - Recvd(src, r)
      /\ \A i \in 1 .. Len(net[src][r]) :
           net[src][r][i].values = Partial(src, Recvd(src, r) + i, Bucket(r))
  BY <1>a, <1>d DEF IInv, NetInv, NetOK
<1>f. Recvd(src, r) = call[r] - 1 /\ Recvd(src, r)' = call[r]
  BY <1>0, <1>a, <1>d DEF TypeOK, Recvd, Ranks
<1> DEFINE batch == Payload(Head(net[src][r]), src, r)
<1>g. batch = Partial(src, call[r], Bucket(r))
  <2>1. 1 \in 1 .. Len(net[src][r]) /\ Head(net[src][r]) = net[src][r][1]
    BY <1>a, <1>e
  <2>2. Recvd(src, r) + 1 = call[r]
    BY <1>f, <1>d
  <2>3. net[src][r][1].values = Partial(src, call[r], Bucket(r))
    BY <2>1, <2>2, <1>e
  <2>4. ~ net[src][r][1].buffered => pending[src][r] = net[src][r][1].values
    BY <2>1 DEF IInv, BufferInv, BufferOK
  <2> QED BY <2>1, <2>3, <2>4 DEF Payload
<1> HIDE DEF batch
<1>h. \A g \in Bucket(r) :
        owned'[r][g] = EvalAdd(owned[r][g], PiecesOf({src}, call[r], g))
  <2>1. owned'[r] = [g \in Indices |->
                       IF g \in DOMAIN batch
                       THEN EvalAdd(owned[r][g], batch[g])
                       ELSE owned[r][g]]
    BY <1>a, <1>0, Zenon DEF RecvBatch, TypeOK, batch
  <2>2. DOMAIN Partial(src, call[r], Bucket(r)) = Bucket(r)
    BY DEF Partial
  <2>3. \A g \in Bucket(r) :
          g \in Indices /\ Partial(src, call[r], Bucket(r))[g] = PiecesOf({src}, call[r], g)
    BY DEF Partial, Bucket
  <2> QED BY <2>1, <2>2, <2>3, <1>g
<1>i. /\ DOMAIN owned'[r] = Indices /\ owned'[r] = [g \in Indices |-> owned'[r][g]]
      /\ \A g \in Indices : g \notin Bucket(r) => owned'[r][g] = owned[r][g]
  <2>1. owned'[r] = [g \in Indices |->
                       IF g \in DOMAIN batch
                       THEN EvalAdd(owned[r][g], batch[g])
                       ELSE owned[r][g]]
    BY <1>a, <1>0, Zenon DEF RecvBatch, TypeOK, batch
  <2>2. DOMAIN Partial(src, call[r], Bucket(r)) = Bucket(r)
    BY DEF Partial
  <2> QED BY <2>1, <2>2, <1>g
<1>j. DOMAIN owned' = Ranks /\ \A q \in Ranks : q # r => owned'[q] = owned[q]
  BY <1>0, <1>a, Zenon DEF RecvBatch, TypeOK
<1>k. Added(r)' = Added(r) \cup {src} /\ Added(r) \cap {src} = {}
      /\ Added(r) \subseteq Ranks
  BY <1>0, <1>a DEF TypeOK, Added, Ranks
<1>l. \A g \in Bucket(r) : owned'[r][g] = PiecesOf(Added(r)', call[r], g)
  <2> TAKE g \in Bucket(r)
  <2>1. owned[r][g] = PiecesOf(Added(r), call[r], g)
    BY <1>a DEF IInv, OwnedInv
  <2>2. EvalAdd(PiecesOf(Added(r), call[r], g), PiecesOf({src}, call[r], g))
          = PiecesOf(Added(r) \cup {src}, call[r], g)
    BY <1>k, AddPieces
  <2> QED BY <2>1, <2>2, <1>h, <1>k
<1>1. TypeOK' /\ PcInv'
  <2>1. IsVector(owned'[r])
    <3>1. \A g \in Bucket(r) : IsCiphertext(owned'[r][g])
      <4> TAKE g \in Bucket(r)
      <4>1. Added(r)' \in SUBSET Ranks /\ g \in Indices
        BY <1>k DEF Bucket
      <4> QED BY <4>1, <1>l, <1>d, PiecesOfIsCiphertext
    <3>2. \A g \in Indices : g \notin Bucket(r) => IsCiphertext(owned'[r][g])
      BY <1>i, <1>0, Zenon DEF TypeOK, IsVector
    <3> QED BY <1>i, <3>1, <3>2, Zenon DEF IsVector
  <2>2. \A q \in Ranks : IsVector(owned'[q])
    BY <2>1, <1>j, <1>0, Zenon DEF TypeOK
  <2>3. cursor' \in [Ranks -> 0 .. P]
    BY <1>0, <1>a, PAssumption DEF TypeOK, Ranks
  <2>4. DOMAIN net' = Ranks /\ \A s \in Ranks : DOMAIN net'[s] = Ranks
    BY <1>0, <1>a DEF TypeOK
  <2>5. TypeOK'
    BY <2>2, <2>3, <2>4, <1>0, <1>a, <1>j, Zenon DEF TypeOK
  <2>6. PcInv'
    BY <1>0, <1>a DEF TypeOK, PcInv
  <2> QED BY <2>5, <2>6
<1>2. NetInv'
  <2> SUFFICES ASSUME NEW s \in Ranks, NEW d \in Ranks
      PROVE  NetOK(s, d)'
    BY DEF NetInv
  <2>0. NetOK(s, d)
    BY DEF IInv, NetInv
  <2>1. CASE s = src /\ d = r
    <3>1. net'[src][r] = Tail(net[src][r])
      BY <1>0, <1>a DEF TypeOK
    <3>2. Sent(src, r)' = Sent(src, r) /\ Sent(src, r) \in Int
      BY <1>0, <1>a DEF TypeOK, Sent, Ranks
    <3>3. net'[src][r] \in Seq(Batches(src, r))
          /\ Len(net'[src][r]) = Len(net[src][r]) - 1
          /\ Len(net[src][r]) \in Nat
      BY <3>1, <1>a, <1>e, TailFacts
    <3>4. \A i \in 1 .. Len(net'[src][r]) :
            net'[src][r][i].values = Partial(src, call[r] + i, Bucket(r))
      <4> TAKE i \in 1 .. Len(net'[src][r])
      <4>1. net'[src][r][i] = net[src][r][i + 1] /\ i + 1 \in 1 .. Len(net[src][r])
        BY <3>1, <3>3, <1>a, <1>e, TailFacts
      <4>2. Recvd(src, r) + (i + 1) = call[r] + i
        BY <1>f, <1>d, <3>3
      <4> QED BY <4>1, <4>2, <1>e
    <3>5. Len(net'[src][r]) = Sent(src, r)' - Recvd(src, r)'
      BY <3>2, <3>3, <1>e, <1>f, <1>d
    <3>6. NetOK(src, r)'
      BY <3>3, <3>4, <3>5, <1>a, <1>d, <1>f, Zenon DEF NetOK
    <3> QED BY <3>6, <2>1
  <2>2. CASE ~ (s = src /\ d = r)
    <3>1. net'[s][d] = net[s][d]
      BY <2>2, <1>0, <1>a DEF TypeOK
    <3>2. Sent(s, d)' = Sent(s, d) /\ Recvd(s, d)' = Recvd(s, d)
      BY <2>2, <1>0, <1>a DEF TypeOK, Sent, Recvd, Ranks
    <3> QED BY <2>0, <3>1, <3>2 DEF NetOK
  <2> QED BY <2>1, <2>2
<1>3. BnetInv'
  <2>1. \A s, d \in Ranks : Passed(s, d)' = Passed(s, d)
    BY <1>0, <1>a DEF TypeOK, Passed, BeforeBcast
  <2> QED BY <2>1, <1>a, BnetUntouched DEF IInv
<1>4. OwnedInv'
  <2> SUFFICES ASSUME NEW q \in Ranks, pc[q] \in {"recv", "wait", "bcast", "held"},
                      NEW g \in Bucket(q)
      PROVE owned'[q][g] = PiecesOf(Added(q)', call[q], g)
    BY <1>a DEF OwnedInv
  <2>1. CASE q = r
    BY <2>1, <1>l
  <2>2. CASE q # r
    <3>1. Added(q)' = Added(q)
      BY <2>2, <1>a, <1>0 DEF Added, TypeOK
    <3> QED BY <3>1, <2>2, <1>j DEF IInv, OwnedInv
  <2> QED BY <2>1, <2>2
<1>5. OutInv' /\ ExactlyOnce'
  BY <1>0, <1>a DEF IInv, TypeOK, OutInv, BeforeBcast, ExactlyOnce
<1>6. BufferInv'
  <2>0. \A s, d \in Ranks : \A i \in 1 .. Len(net'[s][d]) :
          \E j \in 1 .. Len(net[s][d]) : net'[s][d][i] = net[s][d][j]
    <3> TAKE s, d \in Ranks
    <3>1. CASE s = src /\ d = r
      <4>1. net'[src][r] = Tail(net[src][r])
        BY <1>0, <1>a DEF TypeOK
      <4>2. \A i \in 1 .. Len(Tail(net[src][r])) :
              /\ i + 1 \in 1 .. Len(net[src][r])
              /\ Tail(net[src][r])[i] = net[src][r][i + 1]
        BY <1>a, <1>e, TailFacts
      <4> QED BY <4>1, <4>2, <3>1, Zenon
    <3>2. CASE ~ (s = src /\ d = r)
      BY <3>2, <1>0, <1>a DEF TypeOK
    <3> QED BY <3>1, <3>2
  <2> SUFFICES ASSUME NEW s \in Ranks, NEW d \in Ranks, NEW i \in 1 .. Len(net'[s][d]),
                      ~ net'[s][d][i].buffered
      PROVE  /\ pc[s] \in {"send", "recv", "wait"}
             /\ pc[s] = "send" => cursor'[s] > d
             /\ pending[s][d] = net'[s][d][i].values
    BY <1>a DEF BufferInv, BufferOK
  <2>1. PICK j \in 1 .. Len(net[s][d]) : net'[s][d][i] = net[s][d][j]
    BY <2>0
  <2>2. pc[s] = "send" => cursor'[s] = cursor[s]
    BY <1>0, <1>a DEF TypeOK
  <2>3. BufferOK(s, d)
    BY DEF IInv, BufferInv
  <2> QED BY <2>1, <2>2, <2>3 DEF BufferOK
<1> QED BY <1>1, <1>2, <1>3, <1>4, <1>5, <1>6 DEF IInv

\* At the end of the receive loop every source has been added.
LEMMA EndRecvsKeeps ==
  ASSUME IInv, NEW r \in Ranks, EndRecvs(r)
  PROVE  IInv'
<1> USE DEF EndRecvs
<1>0. TypeOK /\ PcInv
  BY DEF IInv
<1>1. TypeOK' /\ PcInv'
  BY <1>0 DEF TypeOK, PCs, PcInv
<1>2. NetInv'
  <2>1. \A s, d \in Ranks : Sent(s, d)' = Sent(s, d) /\ Recvd(s, d)' = Recvd(s, d)
    BY <1>0 DEF TypeOK, Sent, Recvd, Ranks
  <2> QED BY <2>1, NetUntouched DEF IInv
<1>3. BnetInv'
  <2>1. \A s, d \in Ranks : Passed(s, d)' = Passed(s, d)
    BY <1>0 DEF TypeOK, Passed, BeforeBcast
  <2> QED BY <2>1, BnetUntouched DEF IInv
<1>4. OwnedInv'
  <2>1. \A q \in Ranks : Added(q)' = Added(q)
    <3> SUFFICES ASSUME NEW q \in Ranks PROVE Added(q)' = Added(q)
      OBVIOUS
    <3>1. CASE q # r
      BY <3>1, <1>0 DEF TypeOK, Added
    <3>2. CASE q = r
      <4>1. Added(r) = {r} \cup {s \in Ranks : s < P} /\ Added(r)' = Ranks
        BY <1>0 DEF TypeOK, Added
      <4>2. \A s \in Ranks : s < P
        BY PAssumption DEF Ranks
      <4>3. {r} \cup {s \in Ranks : s < P} = Ranks
        BY <4>2
      <4> QED BY <4>1, <4>3, <3>2
    <3> QED BY <3>1, <3>2
  <2>2. \A q \in Ranks : pc'[q] \in {"recv", "wait", "bcast", "held"} =>
                         pc[q] \in {"recv", "wait", "bcast", "held"}
    BY <1>0 DEF TypeOK
  <2> QED BY <2>1, <2>2, OwnedUntouched DEF IInv
<1>5. OutInv' /\ ExactlyOnce'
  BY <1>0 DEF IInv, TypeOK, OutInv, BeforeBcast, ExactlyOnce
<1>6. BufferInv'
  <2>1. pc'[r] = "wait" /\ cursor' = cursor /\ \A q \in Ranks : q # r => pc'[q] = pc[q]
    BY <1>0 DEF TypeOK
  <2> QED BY <2>1, BuffersUntouched DEF IInv
<1> QED BY <1>1, <1>2, <1>3, <1>4, <1>5, <1>6 DEF IInv

\* After WaitAllSends no buffer of the rank is still read by MPI.
LEMMA WaitAllSendsKeeps ==
  ASSUME IInv, NEW r \in Ranks, WaitAllSends(r)
  PROVE  IInv'
<1> USE DEF WaitAllSends
<1>0. TypeOK /\ PcInv
  BY DEF IInv
<1>1. TypeOK' /\ PcInv'
  <2>1. IsVector(Unset)
    BY EmptyIsCiphertext DEF IsVector, Unset
  <2>2. DOMAIN out' = Ranks /\ \A q \in Ranks : IsVector(out'[q])
    BY <2>1, <1>0 DEF TypeOK
  <2>3. pc' \in [Ranks -> PCs] /\ cursor' \in [Ranks -> 0 .. P]
    BY <1>0, PAssumption DEF TypeOK, PCs
  <2>4. TypeOK'
    BY <2>2, <2>3, <1>0, Zenon DEF TypeOK
  <2>5. PcInv'
    BY <1>0 DEF TypeOK, PcInv
  <2> QED BY <2>4, <2>5
<1>2. NetInv'
  <2>1. \A s, d \in Ranks : Sent(s, d)' = Sent(s, d) /\ Recvd(s, d)' = Recvd(s, d)
    BY <1>0 DEF TypeOK, Sent, Recvd
  <2> QED BY <2>1, NetUntouched DEF IInv
<1>3. \A q, d \in Ranks : BeforeBcast(q, d)' = BeforeBcast(q, d)
  BY <1>0 DEF TypeOK, BeforeBcast, Ranks
<1>4. BnetInv'
  <2>1. \A s, d \in Ranks : Passed(s, d)' = Passed(s, d)
    BY <1>3, <1>0 DEF Passed
  <2> QED BY <2>1, BnetUntouched DEF IInv
<1>5. OwnedInv'
  <2>1. \A q \in Ranks : Added(q)' = Added(q)
    BY <1>0 DEF TypeOK, Added
  <2>2. \A q \in Ranks : pc'[q] \in {"recv", "wait", "bcast", "held"} =>
                         pc[q] \in {"recv", "wait", "bcast", "held"}
    BY <1>0 DEF TypeOK
  <2> QED BY <2>1, <2>2, OwnedUntouched DEF IInv
<1>6. OutInv'
  <2> SUFFICES ASSUME NEW q \in Ranks, pc'[q] \in {"bcast", "held"}, NEW g \in Indices,
                      ~ BeforeBcast(q, Owner(g))'
      PROVE  out'[q][g] = PiecesOf(Ranks, call'[q], g)
    BY DEF OutInv
  <2>1. ~ BeforeBcast(q, Owner(g))
    BY <1>3, OwnerIsRank
  <2>2. q # r
    BY <2>1, <1>0 DEF BeforeBcast
  <2> QED BY <2>1, <2>2, <1>0 DEF IInv, TypeOK, OutInv
<1>7. ExactlyOnce'
  BY <1>0 DEF IInv, TypeOK, ExactlyOnce
<1>8. BufferInv'
  <2> SUFFICES ASSUME NEW s \in Ranks, NEW d \in Ranks PROVE BufferOK(s, d)'
    BY DEF BufferInv
  <2>0. BufferOK(s, d)
    BY DEF IInv, BufferInv
  <2>1. CASE s = r
    <3>1. \A i \in 1 .. Len(net[r][d]) : net[r][d][i].buffered
      BY DEF InFlightUnbuffered
    <3> QED BY <2>1, <3>1 DEF BufferOK
  <2>2. CASE s # r
    <3>1. pc'[s] = pc[s] /\ cursor'[s] = cursor[s] /\ pending'[s][d] = pending[s][d]
      BY <2>2, <1>0 DEF TypeOK
    <3> QED BY <2>0, <3>1 DEF BufferOK
  <2> QED BY <2>1, <2>2
<1> QED BY <1>1, <1>2, <1>4, <1>5, <1>6, <1>7, <1>8 DEF IInv

\* Moving on from a broadcast, or being held in it, counts as having passed
\* its owner and changes nothing else.
LEMMA AfterBcastPasses ==
  ASSUME TypeOK, PcInv, NEW r \in Ranks, pc[r] = "bcast", NEW o \in Ranks,
         o = cursor[r], AfterBcast(r), call' = call
  PROVE  /\ pc' \in [Ranks -> PCs] /\ cursor' \in [Ranks -> 0 .. P]
         /\ PcInv'
         /\ pc'[r] \in {"bcast", "held"}
         /\ \A q \in Ranks : q # r => pc'[q] = pc[q] /\ cursor'[q] = cursor[q]
         /\ \A d \in Ranks :
              IF d = o THEN BeforeBcast(r, d) /\ ~ BeforeBcast(r, d)'
                       ELSE BeforeBcast(r, d)' = BeforeBcast(r, d)
<1>0. o \in 0 .. P - 1 /\ P \in Nat
  BY PAssumption DEF Ranks
<1>1. CASE cursor' = [cursor EXCEPT ![r] = @ + 1] /\ UNCHANGED pc
  <2>1. PcInv'
    BY <1>1 DEF TypeOK, PcInv
  <2>2. cursor' \in [Ranks -> 0 .. P]
    BY <1>0, <1>1 DEF TypeOK
  <2> QED BY <1>0, <1>1, <2>1, <2>2 DEF TypeOK, BeforeBcast, Ranks
<1>2. CASE pc' = [pc EXCEPT ![r] = "held"] /\ UNCHANGED cursor
  <2>1. PcInv'
    BY <1>0, <1>2 DEF TypeOK, PcInv
  <2>2. pc' \in [Ranks -> PCs]
    BY <1>2 DEF TypeOK, PCs
  <2> QED BY <1>0, <1>2, <2>1, <2>2 DEF TypeOK, BeforeBcast, Ranks
<1> QED BY <1>1, <1>2 DEF AfterBcast

\* The parts of IInv that a broadcast step cannot disturb.
LEMMA AfterBcastKeeps ==
  ASSUME IInv, NEW r \in Ranks, pc[r] = "bcast", NEW o \in Ranks,
         o = cursor[r], AfterBcast(r),
         UNCHANGED <<call, owned, assembled, pending, net>>
  PROVE  NetInv' /\ OwnedInv' /\ ExactlyOnce' /\ BufferInv'
<1>0. TypeOK /\ PcInv
  BY DEF IInv
<1>1. /\ pc'[r] \in {"bcast", "held"}
      /\ \A q \in Ranks : q # r => pc'[q] = pc[q] /\ cursor'[q] = cursor[q]
  BY <1>0, AfterBcastPasses, Zenon
<1>2. NetInv'
  <2>1. \A s, d \in Ranks : Sent(s, d)' = Sent(s, d) /\ Recvd(s, d)' = Recvd(s, d)
    BY <1>1 DEF Sent, Recvd
  <2> QED BY <2>1, NetUntouched DEF IInv
<1>3. OwnedInv'
  <2>1. \A q \in Ranks : Added(q)' = Added(q)
    BY <1>1 DEF Added
  <2>2. \A q \in Ranks : pc'[q] \in {"recv", "wait", "bcast", "held"} =>
                         pc[q] \in {"recv", "wait", "bcast", "held"}
    BY <1>1
  <2> QED BY <2>1, <2>2, OwnedUntouched DEF IInv
<1>4. ExactlyOnce'
  BY <1>1 DEF IInv, ExactlyOnce
<1>5. BufferInv'
  BY <1>1, BuffersUntouched DEF IInv
<1> QED BY <1>2, <1>3, <1>4, <1>5

\* The root broadcasts full sums.
LEMMA BcastAsRootKeeps ==
  ASSUME IInv, NEW r \in Ranks, BcastAsRoot(r)
  PROVE  IInv'
<1> DEFINE M == [g \in Bucket(r) |-> owned[r][g]]
<1>0. TypeOK /\ PcInv
  BY DEF IInv
<1>a. /\ pc[r] = "bcast" /\ cursor[r] = r
      /\ bnet' = [bnet EXCEPT ![r] =
                    [d \in Ranks |-> IF d = r THEN @[d] ELSE Append(@[d], M)]]
      /\ out' = [out EXCEPT ![r] =
                   [g \in Indices |-> IF g \in Bucket(r) THEN owned[r][g] ELSE @[g]]]
      /\ AfterBcast(r)
      /\ UNCHANGED <<call, owned, assembled, pending, net>>
  BY Zenon DEF BcastAsRoot
<1>b. call[r] \in 1 .. Calls
  BY <1>0, <1>a, CallRange
<1>c. M = Assembled(r, call[r]) /\ \A g \in Bucket(r) : owned[r][g] = PiecesOf(Ranks, call[r], g)
  <2>1. \A g \in Bucket(r) : owned[r][g] = PiecesOf(Ranks, call[r], g)
    BY <1>a DEF IInv, OwnedInv, Added
  <2> QED BY <2>1 DEF Assembled
<1> HIDE DEF M
<1>d. /\ pc' \in [Ranks -> PCs] /\ cursor' \in [Ranks -> 0 .. P] /\ PcInv'
      /\ pc'[r] \in {"bcast", "held"}
      /\ \A q \in Ranks : q # r => pc'[q] = pc[q] /\ cursor'[q] = cursor[q]
      /\ \A d \in Ranks :
           IF d = r THEN BeforeBcast(r, d) /\ ~ BeforeBcast(r, d)'
                    ELSE BeforeBcast(r, d)' = BeforeBcast(r, d)
  BY <1>0, <1>a, AfterBcastPasses, Zenon
<1>e. \A q, d \in Ranks : ~ (q = r /\ d = r) =>
        BeforeBcast(q, d)' = BeforeBcast(q, d) /\ Passed(q, d)' = Passed(q, d)
  BY <1>a, <1>d DEF BeforeBcast, Passed
<1>f. /\ out'[r] = [g \in Indices |-> IF g \in Bucket(r) THEN owned[r][g] ELSE out[r][g]]
      /\ DOMAIN out' = Ranks
      /\ \A q \in Ranks : q # r => out'[q] = out[q]
  BY <1>0, <1>a, Zenon DEF TypeOK
<1>1. TypeOK'
  <2>1. IsVector(out'[r])
    <3>1. \A g \in Indices : IsCiphertext(owned[r][g]) /\ IsCiphertext(out[r][g])
      BY <1>0, Zenon DEF TypeOK, IsVector
    <3> QED BY <1>f, <3>1 DEF IsVector
  <2>2. \A q \in Ranks : IsVector(out'[q])
    BY <2>1, <1>f, <1>0, Zenon DEF TypeOK
  <2>3. DOMAIN bnet' = Ranks /\ \A s \in Ranks : DOMAIN bnet'[s] = Ranks
    BY <1>0, <1>a DEF TypeOK
  <2> QED BY <2>2, <2>3, <1>f, <1>0, <1>a, <1>d, Zenon DEF TypeOK
<1>2. BnetInv'
  <2> SUFFICES ASSUME NEW s \in Ranks, NEW d \in Ranks
      PROVE  BnetOK(s, d)'
    BY DEF BnetInv
  <2>0. BnetOK(s, d)
    BY DEF IInv, BnetInv
  <2>1. CASE s = r /\ d # r
    <3> DEFINE S == {Assembled(r, k) : k \in 1 .. Calls}
    <3>1. /\ bnet[r][d] \in Seq(S)
          /\ Len(bnet[r][d]) = Passed(r, r) - Passed(d, r)
          /\ \A i \in 1 .. Len(bnet[r][d]) : bnet[r][d][i] = Assembled(r, Passed(d, r) + i)
      BY <2>0, <2>1 DEF BnetOK
    <3>2. bnet'[r][d] = Append(bnet[r][d], M)
      BY <1>0, <1>a, <2>1 DEF TypeOK
    <3>3. M \in S
      BY <1>b, <1>c
    <3>4. Passed(r, r) = call[r] - 1 /\ Passed(r, r)' = call[r]
      BY <1>a, <1>d DEF Passed
    <3>5. Passed(d, r)' = Passed(d, r) /\ Passed(d, r) \in Int
      BY <1>e, <2>1, <1>0 DEF TypeOK, Passed
    <3> HIDE DEF S
    <3>6. /\ bnet'[r][d] \in Seq(S) /\ Len(bnet'[r][d]) = Len(bnet[r][d]) + 1
          /\ Len(bnet[r][d]) \in Nat
          /\ bnet'[r][d][Len(bnet[r][d]) + 1] = M
          /\ \A i \in 1 .. Len(bnet[r][d]) : bnet'[r][d][i] = bnet[r][d][i]
      BY <3>1, <3>2, <3>3
    <3>7. \A i \in 1 .. Len(bnet'[r][d]) : bnet'[r][d][i] = Assembled(r, Passed(d, r) + i)
      <4> TAKE i \in 1 .. Len(bnet'[r][d])
      <4>1. CASE i \in 1 .. Len(bnet[r][d])
        BY <4>1, <3>1, <3>6
      <4>2. CASE i = Len(bnet[r][d]) + 1
        <5>1. Passed(d, r) + i = call[r]
          BY <4>2, <3>1, <3>4, <3>5, <1>b
        <5> QED BY <5>1, <4>2, <3>6, <1>c
      <4> QED BY <4>1, <4>2, <3>6
    <3>8. Len(bnet'[r][d]) = Passed(r, r)' - Passed(d, r)'
      BY <3>1, <3>4, <3>5, <3>6, <1>b
    <3>9. BnetOK(r, d)'
      BY <2>1, <3>5, <3>6, <3>7, <3>8, Zenon DEF BnetOK, S
    <3> QED BY <2>1, <3>9
  <2>2. CASE ~ (s = r /\ d # r)
    <3>1. bnet'[s][d] = bnet[s][d]
      BY <2>2, <1>0, <1>a DEF TypeOK
    <3>2. s # d => Passed(s, s)' = Passed(s, s) /\ Passed(d, s)' = Passed(d, s)
      BY <2>2, <1>e
    <3> QED BY <2>0, <3>1, <3>2 DEF BnetOK
  <2> QED BY <2>1, <2>2
<1>3. OutInv'
  <2> SUFFICES ASSUME NEW q \in Ranks, pc'[q] \in {"bcast", "held"}, NEW g \in Indices,
                      ~ BeforeBcast(q, Owner(g))'
      PROVE  out'[q][g] = PiecesOf(Ranks, call[q], g)
    BY <1>a DEF OutInv
  <2>1. CASE q = r /\ Owner(g) = r
    BY <2>1, <1>c, <1>f DEF Bucket
  <2>2. CASE q = r /\ Owner(g) # r
    <3>1. ~ BeforeBcast(r, Owner(g))
      BY <2>2, <1>e, OwnerIsRank
    <3>2. out'[r][g] = out[r][g]
      BY <2>2, <1>f DEF Bucket
    <3> QED BY <3>1, <3>2, <2>2, <1>a DEF IInv, OutInv
  <2>3. CASE q # r
    <3>1. ~ BeforeBcast(q, Owner(g)) /\ pc[q] \in {"bcast", "held"}
      BY <2>3, <1>d, <1>e, OwnerIsRank
    <3> QED BY <3>1, <2>3, <1>f DEF IInv, OutInv
  <2> QED BY <2>1, <2>2, <2>3
<1>4. NetInv' /\ OwnedInv' /\ ExactlyOnce' /\ BufferInv'
  BY <1>a, AfterBcastKeeps, Zenon
<1> QED BY <1>1, <1>2, <1>3, <1>4, <1>d DEF IInv

\* What a rank takes from an owner's broadcast is the owner's sum of this call.
LEMMA BcastAsReceiverKeeps ==
  ASSUME IInv, NEW r \in Ranks, BcastAsReceiver(r)
  PROVE  IInv'
<1>0. TypeOK /\ PcInv
  BY DEF IInv
<1> PICK o \in Ranks : o = cursor[r]
  <2>1. cursor[r] \in 0 .. P /\ cursor[r] < P
    BY <1>0, Zenon DEF BcastAsReceiver, TypeOK
  <2> QED BY <2>1, PAssumption DEF Ranks
<1> DEFINE M == Head(bnet[o][r])
<1>a. /\ pc[r] = "bcast" /\ o = cursor[r] /\ o # r /\ bnet[o][r] # << >>
      /\ out' = [out EXCEPT ![r] =
                   [g \in Indices |-> IF g \in DOMAIN M THEN M[g] ELSE @[g]]]
      /\ bnet' = [bnet EXCEPT ![o][r] = Tail(@)]
      /\ AfterBcast(r)
      /\ UNCHANGED <<call, owned, assembled, pending, net>>
  BY Zenon DEF BcastAsReceiver
<1>b. call[r] \in 1 .. Calls
  BY <1>0, <1>a, CallRange
<1>d. /\ pc' \in [Ranks -> PCs] /\ cursor' \in [Ranks -> 0 .. P] /\ PcInv'
      /\ pc'[r] \in {"bcast", "held"}
      /\ \A q \in Ranks : q # r => pc'[q] = pc[q] /\ cursor'[q] = cursor[q]
      /\ \A d \in Ranks :
           IF d = o THEN BeforeBcast(r, d) /\ ~ BeforeBcast(r, d)'
                    ELSE BeforeBcast(r, d)' = BeforeBcast(r, d)
  BY <1>0, <1>a, AfterBcastPasses, Zenon
<1>e. \A q, d \in Ranks : ~ (q = r /\ d = o) =>
        BeforeBcast(q, d)' = BeforeBcast(q, d) /\ Passed(q, d)' = Passed(q, d)
  BY <1>a, <1>d DEF BeforeBcast, Passed
<1>g. /\ Passed(r, o) = call[r] - 1 /\ Passed(r, o)' = call[r]
  BY <1>a, <1>d DEF Passed
<1>h. /\ bnet[o][r] \in Seq({Assembled(o, k) : k \in 1 .. Calls})
      /\ Len(bnet[o][r]) = Passed(o, o) - Passed(r, o)
      /\ \A i \in 1 .. Len(bnet[o][r]) :
           bnet[o][r][i] = Assembled(o, Passed(r, o) + i)
  BY <1>a DEF IInv, BnetInv, BnetOK
<1>i. M = Assembled(o, call[r])
  <2>1. Len(bnet[o][r]) \in Nat /\ Len(bnet[o][r]) > 0 /\ M = bnet[o][r][1]
    BY <1>a, <1>h, TailFacts
  <2>2. 1 \in 1 .. Len(bnet[o][r])
    BY <2>1
  <2>3. M = Assembled(o, Passed(r, o) + 1)
    BY <2>1, <2>2, <1>h
  <2>4. Passed(r, o) + 1 = call[r]
    BY <1>g, <1>b
  <2> QED BY <2>3, <2>4
<1>j. DOMAIN M = Bucket(o) /\ \A g \in Bucket(o) : M[g] = PiecesOf(Ranks, call[r], g)
  BY <1>i DEF Assembled
<1> HIDE DEF M
<1>f. /\ out'[r] = [g \in Indices |-> IF g \in Bucket(o) THEN M[g] ELSE out[r][g]]
      /\ DOMAIN out' = Ranks
      /\ \A q \in Ranks : q # r => out'[q] = out[q]
  BY <1>0, <1>a, <1>j, Zenon DEF TypeOK
<1>1. TypeOK'
  <2>1. IsVector(out'[r])
    <3>1. \A g \in Indices : IsCiphertext(out[r][g])
      BY <1>0, Zenon DEF TypeOK, IsVector
    <3>2. \A g \in Bucket(o) : IsCiphertext(M[g])
      BY <1>j, <1>b, PiecesOfIsCiphertext DEF Bucket
    <3> QED BY <1>f, <3>1, <3>2 DEF IsVector
  <2>2. \A q \in Ranks : IsVector(out'[q])
    BY <2>1, <1>f, <1>0, Zenon DEF TypeOK
  <2>3. DOMAIN bnet' = Ranks /\ \A s \in Ranks : DOMAIN bnet'[s] = Ranks
    BY <1>0, <1>a DEF TypeOK
  <2> QED BY <2>2, <2>3, <1>f, <1>0, <1>a, <1>d, Zenon DEF TypeOK
<1>2. BnetInv'
  <2> SUFFICES ASSUME NEW s \in Ranks, NEW d \in Ranks
      PROVE  BnetOK(s, d)'
    BY DEF BnetInv
  <2>0. BnetOK(s, d)
    BY DEF IInv, BnetInv
  <2>1. CASE s = o /\ d = r
    <3> DEFINE S == {Assembled(o, k) : k \in 1 .. Calls}
    <3>1. bnet'[o][r] = Tail(bnet[o][r])
      BY <1>0, <1>a DEF TypeOK
    <3>2. bnet[o][r] \in Seq(S)
      BY <1>h
    <3>3. Passed(o, o)' = Passed(o, o) /\ Passed(o, o) \in Int
      BY <1>e, <1>a, <1>0 DEF TypeOK, Passed
    <3> HIDE DEF S
    <3>4. /\ Tail(bnet[o][r]) \in Seq(S)
          /\ Len(bnet[o][r]) \in Nat /\ Len(bnet[o][r]) > 0
          /\ Len(Tail(bnet[o][r])) = Len(bnet[o][r]) - 1
          /\ \A i \in 1 .. Len(Tail(bnet[o][r])) :
                Tail(bnet[o][r])[i] = bnet[o][r][i + 1]
      BY <3>2, <1>a, TailFacts
    <3>5. \A i \in 1 .. Len(bnet'[o][r]) :
            bnet'[o][r][i] = Assembled(o, call[r] + i)
      <4> TAKE i \in 1 .. Len(bnet'[o][r])
      <4>1. i + 1 \in 1 .. Len(bnet[o][r])
        BY <3>1, <3>4
      <4>2. bnet'[o][r][i] = Assembled(o, Passed(r, o) + (i + 1))
        BY <4>1, <3>1, <3>4, <1>h
      <4>3. Passed(r, o) + (i + 1) = call[r] + i
        BY <1>g, <1>b
      <4> QED BY <4>2, <4>3
    <3>6. Len(bnet'[o][r]) = Passed(o, o)' - Passed(r, o)'
      BY <3>1, <3>3, <3>4, <1>g, <1>h, <1>b
    <3>7. BnetOK(o, r)'
      BY <1>a, <1>g, <3>1, <3>4, <3>5, <3>6, Zenon DEF BnetOK, S
    <3> QED BY <2>1, <3>7
  <2>2. CASE ~ (s = o /\ d = r)
    <3>1. bnet'[s][d] = bnet[s][d]
      BY <2>2, <1>0, <1>a DEF TypeOK
    <3>2. s # d => Passed(s, s)' = Passed(s, s) /\ Passed(d, s)' = Passed(d, s)
      BY <2>2, <1>a, <1>e
    <3> QED BY <2>0, <3>1, <3>2 DEF BnetOK
  <2> QED BY <2>1, <2>2
<1>3. OutInv'
  <2> SUFFICES ASSUME NEW q \in Ranks, pc'[q] \in {"bcast", "held"}, NEW g \in Indices,
                      ~ BeforeBcast(q, Owner(g))'
      PROVE  out'[q][g] = PiecesOf(Ranks, call[q], g)
    BY <1>a DEF OutInv
  <2>1. CASE q = r /\ Owner(g) = o
    BY <2>1, <1>j, <1>f DEF Bucket
  <2>2. CASE q = r /\ Owner(g) # o
    <3>1. ~ BeforeBcast(r, Owner(g))
      BY <2>2, <1>e, OwnerIsRank
    <3>2. out'[r][g] = out[r][g]
      BY <2>2, <1>f DEF Bucket
    <3> QED BY <3>1, <3>2, <2>2, <1>a DEF IInv, OutInv
  <2>3. CASE q # r
    <3>1. ~ BeforeBcast(q, Owner(g)) /\ pc[q] \in {"bcast", "held"}
      BY <2>3, <1>d, <1>e, OwnerIsRank
    <3> QED BY <3>1, <2>3, <1>f DEF IInv, OutInv
  <2> QED BY <2>1, <2>2, <2>3
<1>4. NetInv' /\ OwnedInv' /\ ExactlyOnce' /\ BufferInv'
  BY <1>a, AfterBcastKeeps, Zenon
<1> QED BY <1>1, <1>2, <1>3, <1>4, <1>d DEF IInv

\* Being let out of a synchronising broadcast changes no data.
LEMMA LeaveBcastKeeps ==
  ASSUME IInv, NEW r \in Ranks, LeaveBcast(r)
  PROVE  IInv'
<1> USE DEF LeaveBcast
<1>0. TypeOK /\ PcInv
  BY DEF IInv
<1>a. pc[r] = "held" /\ cursor[r] \in 0 .. P - 1 /\ P \in Nat
  BY <1>0, PAssumption DEF TypeOK, PcInv
<1>1. TypeOK' /\ PcInv'
  <2>1. pc' \in [Ranks -> PCs] /\ cursor' \in [Ranks -> 0 .. P]
    BY <1>0, <1>a DEF TypeOK, PCs
  <2>2. PcInv'
    BY <1>0 DEF TypeOK, PcInv
  <2> QED BY <2>1, <2>2, <1>0, Zenon DEF TypeOK
<1>2. NetInv'
  <2>1. \A s, d \in Ranks : Sent(s, d)' = Sent(s, d) /\ Recvd(s, d)' = Recvd(s, d)
    BY <1>0 DEF TypeOK, Sent, Recvd
  <2> QED BY <2>1, NetUntouched DEF IInv
<1>3. \A q, d \in Ranks : BeforeBcast(q, d)' = BeforeBcast(q, d)
  BY <1>0, <1>a DEF TypeOK, BeforeBcast, Ranks
<1>4. BnetInv'
  <2>1. \A s, d \in Ranks : Passed(s, d)' = Passed(s, d)
    BY <1>3 DEF Passed
  <2> QED BY <2>1, BnetUntouched DEF IInv
<1>5. OwnedInv'
  <2>1. \A q \in Ranks : Added(q)' = Added(q)
    BY <1>0 DEF TypeOK, Added
  <2>2. \A q \in Ranks : pc'[q] \in {"recv", "wait", "bcast", "held"} =>
                         pc[q] \in {"recv", "wait", "bcast", "held"}
    BY <1>0 DEF TypeOK
  <2> QED BY <2>1, <2>2, OwnedUntouched DEF IInv
<1>6. OutInv'
  <2> SUFFICES ASSUME NEW q \in Ranks, pc'[q] \in {"bcast", "held"}, NEW g \in Indices,
                      ~ BeforeBcast(q, Owner(g))'
      PROVE  out'[q][g] = PiecesOf(Ranks, call'[q], g)
    BY DEF OutInv
  <2>1. ~ BeforeBcast(q, Owner(g)) /\ pc[q] \in {"bcast", "held"}
    BY <1>0, <1>3, OwnerIsRank DEF TypeOK
  <2> QED BY <2>1 DEF IInv, OutInv
<1>7. ExactlyOnce'
  BY <1>0 DEF IInv, TypeOK, ExactlyOnce
<1>8. BufferInv'
  <2>1. /\ pc[r] \notin {"send", "recv", "wait"}
        /\ \A q \in Ranks : q # r => pc'[q] = pc[q] /\ cursor'[q] = cursor[q]
    BY <1>0 DEF TypeOK
  <2> QED BY <2>1, BuffersUntouched DEF IInv
<1> QED BY <1>1, <1>2, <1>4, <1>5, <1>6, <1>7, <1>8 DEF IInv

\* A rank at the end of the broadcast loop has every index of its block.
LEMMA OutIsFull ==
  ASSUME IInv, NEW r \in Ranks, pc[r] = "bcast", cursor[r] = P
  PROVE  out[r] = FullSum(call[r])
<1>1. out[r] = [g \in Indices |-> out[r][g]]
  BY Zenon DEF IInv, TypeOK, IsVector
<1>2. \A g \in Indices : ~ BeforeBcast(r, Owner(g))
  <2> TAKE g \in Indices
  <2>1. Owner(g) \in 0 .. P - 1 /\ P \in Nat
    BY OwnerIsRank, PAssumption DEF Ranks
  <2> QED BY <2>1 DEF BeforeBcast
<1>3. \A g \in Indices : out[r][g] = PiecesOf(Ranks, call[r], g)
  BY <1>2 DEF IInv, OutInv
<1> QED BY <1>1, <1>3 DEF FullSum

\* What a rank returns is the full sum.
LEMMA ReturnKeeps ==
  ASSUME IInv, NEW r \in Ranks, Return(r)
  PROVE  IInv'
<1> USE DEF Return
<1>0. TypeOK /\ PcInv
  BY DEF IInv
<1>1. TypeOK' /\ PcInv'
  <2>1. pc' \in [Ranks -> PCs]
    BY <1>0 DEF TypeOK, PCs
  <2>2. DOMAIN assembled' = Ranks /\ \A q \in Ranks : IsVector(assembled'[q])
    BY <1>0 DEF TypeOK
  <2>3. PcInv'
    BY <1>0 DEF TypeOK, PcInv
  <2> QED BY <2>1, <2>2, <2>3, <1>0, Zenon DEF TypeOK
<1>2. NetInv'
  <2>1. \A s, d \in Ranks : Sent(s, d)' = Sent(s, d) /\ Recvd(s, d)' = Recvd(s, d)
    BY <1>0 DEF TypeOK, Sent, Recvd
  <2> QED BY <2>1, NetUntouched DEF IInv
<1>3. \A q, d \in Ranks : BeforeBcast(q, d)' = BeforeBcast(q, d)
  BY <1>0, PAssumption DEF TypeOK, BeforeBcast, Ranks
<1>4. BnetInv'
  <2>1. \A s, d \in Ranks : Passed(s, d)' = Passed(s, d)
    BY <1>3 DEF Passed
  <2> QED BY <2>1, BnetUntouched DEF IInv
<1>5. OwnedInv'
  <2>1. \A q \in Ranks : Added(q)' = Added(q)
    BY <1>0 DEF TypeOK, Added
  <2>2. \A q \in Ranks : pc'[q] \in {"recv", "wait", "bcast", "held"} =>
                         pc[q] \in {"recv", "wait", "bcast", "held"}
    BY <1>0 DEF TypeOK
  <2> QED BY <2>1, <2>2, OwnedUntouched DEF IInv
<1>6. OutInv'
  BY <1>0 DEF IInv, TypeOK, OutInv, BeforeBcast
<1>7. ExactlyOnce'
  <2> SUFFICES ASSUME NEW q \in Ranks, pc'[q] = "idle", call[q] > 0
      PROVE  assembled'[q] = FullSum(call[q])
    BY DEF ExactlyOnce, FullSum
  <2>1. CASE q = r
    BY <2>1, <1>0, OutIsFull DEF TypeOK
  <2>2. CASE q # r
    BY <2>2, <1>0 DEF IInv, TypeOK, ExactlyOnce
  <2> QED BY <2>1, <2>2
<1>8. BufferInv'
  <2>1. /\ pc[r] \notin {"send", "recv", "wait"}
        /\ \A q \in Ranks : q # r => pc'[q] = pc[q] /\ cursor'[q] = cursor[q]
    BY <1>0 DEF TypeOK
  <2> QED BY <2>1, BuffersUntouched DEF IInv
<1> QED BY <1>1, <1>2, <1>4, <1>5, <1>6, <1>7, <1>8 DEF IInv

------------------------------------------------------------------------------
\* Every step of AssembleOwnedBucket and GatherOwnedToAll keeps the inductive
\* invariant.
THEOREM NextIInv == IInv /\ [Next]_vars => IInv'
<1> SUFFICES ASSUME IInv, [Next]_vars PROVE IInv'
  OBVIOUS
<1>1. ASSUME NEW r \in Ranks, Step(r) PROVE IInv'
  <2>1. CASE Enter(r)
    BY <2>1, EnterKeeps
  <2>2. CASE SkipOwner(r)
    BY <2>2, SkipOwnerKeeps
  <2>3. CASE IsendBatch(r)
    BY <2>3, IsendBatchKeeps
  <2>4. CASE EndSends(r)
    BY <2>4, EndSendsKeeps
  <2>5. CASE SkipSelf(r)
    BY <2>5, SkipSelfKeeps
  <2>6. CASE RecvBatch(r)
    BY <2>6, RecvBatchKeeps
  <2>7. CASE EndRecvs(r)
    BY <2>7, EndRecvsKeeps
  <2>8. CASE WaitAllSends(r)
    BY <2>8, WaitAllSendsKeeps
  <2>9. CASE BcastAsRoot(r)
    BY <2>9, BcastAsRootKeeps
  <2>10. CASE BcastAsReceiver(r)
    BY <2>10, BcastAsReceiverKeeps
  <2>11. CASE LeaveBcast(r)
    BY <2>11, LeaveBcastKeeps
  <2>12. CASE Return(r)
    BY <2>12, ReturnKeeps
  <2> QED BY <1>1, <2>1, <2>2, <2>3, <2>4, <2>5, <2>6, <2>7, <2>8, <2>9, <2>10,
             <2>11, <2>12, Zenon DEF Step
<1>2. CASE UNCHANGED vars
  <2> USE <1>2 DEF vars
  <2>1. TypeOK' /\ PcInv'
    BY Zenon DEF IInv, TypeOK, PcInv
  <2>2. NetInv' /\ BnetInv'
    <3>1. NetInv'
      BY NetUntouched DEF IInv, Sent, Recvd
    <3>2. BnetInv'
      BY BnetUntouched DEF IInv, Passed, BeforeBcast
    <3> QED BY <3>1, <3>2
  <2>3. OwnedInv' /\ OutInv'
    BY DEF IInv, OwnedInv, OutInv, Added, BeforeBcast
  <2>4. ExactlyOnce' /\ BufferInv'
    BY DEF IInv, ExactlyOnce, BufferInv, BufferOK
  <2> QED BY <2>1, <2>2, <2>3, <2>4 DEF IInv
<1> QED BY <1>1, <1>2 DEF Next

\* IInv holds in every reachable state.
THEOREM Invariance == Spec => []IInv
  BY InitIInv, NextIInv, PTL DEF Spec

\* Type correctness of the ranks' loops and buffers.
THEOREM TypeCorrect == Spec => []TypeOK
<1>1. IInv => TypeOK
  BY DEF IInv
<1> QED BY <1>1, Invariance, PTL

\* Whatever the size of the communicator, the indices and the interleaving,
\* AssembleRows returns on every rank the sum of every rank's partial value of
\* that call, each added exactly once.
THEOREM AssemblesExactlyOnce == Spec => []ExactlyOnce
<1>1. IInv => ExactlyOnce
  BY DEF IInv
<1> QED BY <1>1, Invariance, PTL

\* A rank that has passed the broadcast of o is in a call o has broadcast in.
LEMMA PassedRoot ==
  ASSUME IInv, NEW r \in Ranks, NEW o \in Ranks
  PROVE  Passed(o, o) >= Passed(r, o)
<1>0. TypeOK
  BY DEF IInv
<1>1. Passed(r, o) \in Int /\ Passed(o, o) \in Int
  BY <1>0 DEF TypeOK, Passed
<1>2. CASE r = o
  BY <1>1, <1>2
<1>3. CASE r # o
  <2>1. /\ Len(bnet[o][r]) = Passed(o, o) - Passed(r, o)
        /\ bnet[o][r] \in Seq({Assembled(o, k) : k \in 1 .. Calls})
    BY <1>3 DEF IInv, BnetInv, BnetOK
  <2>2. Len(bnet[o][r]) \in Nat
    BY <2>1
  <2> QED BY <1>1, <2>1, <2>2
<1> QED BY <1>2, <1>3

\* At most one point-to-point batch and one broadcast batch of a rank wait at
\* another, however far the scheduler lets one rank run ahead.
THEOREM BacklogIsBounded == Spec => []BoundedBacklog
<1>1. IInv => BoundedBacklog
  <2> SUFFICES ASSUME IInv, NEW s \in Ranks, NEW d \in Ranks
      PROVE  Len(net[s][d]) <= 1 /\ Len(bnet[s][d]) <= 1
    BY DEF BoundedBacklog
  <2>0. TypeOK /\ call[s] \in Int /\ call[d] \in Int
    BY DEF IInv, TypeOK
  <2>1. Passed(d, d) >= Passed(s, d) /\ Passed(s, s) >= Passed(d, s)
    BY PassedRoot
  <2>2. /\ Passed(s, s) \in {call[s] - 1, call[s]} /\ Passed(s, d) \in {call[s] - 1, call[s]}
        /\ Passed(d, d) \in {call[d] - 1, call[d]} /\ Passed(d, s) \in {call[d] - 1, call[d]}
        /\ Sent(s, d) \in {call[s] - 1, call[s]} /\ Recvd(s, d) \in {call[d] - 1, call[d]}
    BY DEF Passed, Sent, Recvd
  <2>3. Len(<< >>) = 0
    OBVIOUS
  <2>4. Sent(s, d) = call[s] /\ Recvd(s, d) = call[d] - 1 => call[s] <= call[d]
    <3> SUFFICES ASSUME Sent(s, d) = call[s], Recvd(s, d) = call[d] - 1, s # d
        PROVE  call[s] <= call[d]
      BY <2>0
    <3>1. pc[d] \in {"send", "recv"}
      BY <2>0 DEF Recvd
    <3>2. Passed(d, d) = call[d] - 1
      BY <3>1 DEF Passed, BeforeBcast
    <3> QED BY <2>0, <2>1, <2>2, <3>2
  <2>5. Len(net[s][d]) <= 1
    <3>1. CASE s = d \/ Bucket(d) = {}
      BY <3>1, <2>3 DEF IInv, NetInv, NetOK
    <3>2. CASE ~ (s = d \/ Bucket(d) = {})
      <4>1. Len(net[s][d]) = Sent(s, d) - Recvd(s, d)
        BY <3>2 DEF IInv, NetInv, NetOK
      <4> QED BY <4>1, <2>0, <2>1, <2>2, <2>4
    <3> QED BY <3>1, <3>2
  <2>6. Len(bnet[s][d]) <= 1
    <3>1. CASE s = d
      <4>1. bnet[s][d] = << >>
        BY <3>1, Zenon DEF IInv, BnetInv, BnetOK
      <4> QED BY <4>1, <2>3
    <3>2. CASE s # d
      <4>1. Len(bnet[s][d]) = Passed(s, s) - Passed(d, s)
        BY <3>2 DEF IInv, BnetInv, BnetOK
      <4>2. s < d /\ BeforeBcast(d, s) => BeforeBcast(d, d)
        BY <2>0 DEF IInv, TypeOK, BeforeBcast, Ranks
      <4>3. d < s /\ BeforeBcast(s, d) => BeforeBcast(s, s)
        BY <2>0 DEF IInv, TypeOK, BeforeBcast, Ranks
      <4>4. s < d \/ d < s
        BY <3>2, PAssumption DEF Ranks
      <4>5. CASE s < d
        <5>1. Passed(d, s) = call[d] - 1 => Passed(d, d) = call[d] - 1
          BY <4>2, <4>5, <2>0 DEF Passed
        <5> QED BY <5>1, <4>1, <2>0, <2>1, <2>2
      <4>6. CASE d < s
        <5>1. Passed(s, s) = call[s] => Passed(s, d) = call[s]
          BY <4>3, <4>6, <2>0 DEF Passed
        <5> QED BY <5>1, <4>1, <2>0, <2>1, <2>2
      <4> QED BY <4>4, <4>5, <4>6
    <3> QED BY <3>1, <3>2
  <2> QED BY <2>5, <2>6
<1> QED BY <1>1, Invariance, PTL

------------------------------------------------------------------------------
\* The abstract state a state of this module stands for.
returnedBar == [r \in Ranks |-> IF pc[r] = "idle" THEN call[r] ELSE call[r] - 1]

\* No rank returns before every rank has entered the call.
LEMMA AllEntered ==
  ASSUME IInv, NEW r \in Ranks, pc[r] = "bcast", cursor[r] = P, NEW s \in Ranks
  PROVE  call[s] >= call[r]
<1>0. call[s] \in Int /\ call[r] \in Int
  BY DEF IInv, TypeOK
<1>1. Passed(r, s) = call[r]
  BY PAssumption DEF Passed, BeforeBcast, Ranks
<1>2. Passed(s, s) \in {call[s] - 1, call[s]}
  BY DEF Passed
<1> QED BY <1>0, <1>1, <1>2, PassedRoot

\* Entering a call is the abstract Enter, returning the abstract Return, and
\* every step in between is invisible.
LEMMA StepRefines ==
  ASSUME IInv, NEW r \in Ranks, Step(r)
  PROVE  [AR!Next]_(AR!vars)
<1>0. TypeOK
  BY DEF IInv
<1>1. CASE Enter(r)
  <2>1. AR!Enter(r)
    BY <1>1, <1>0 DEF Enter, AR!Enter, TypeOK
  <2> QED BY <2>1, Zenon DEF AR!Next
<1>2. CASE Return(r)
  <2>0. call[r] \in 1 .. Calls
    BY <1>2, CallRange, Zenon DEF Return, IInv
  <2>1. \A s \in Ranks : call[s] >= call[r]
    BY <1>2, AllEntered DEF Return
  <2>2. out[r] = FullSum(call[r])
    BY <1>2, OutIsFull DEF Return
  <2>3. AR!FullSum(call[r]) = FullSum(call[r])
    BY DEF AR!FullSum, FullSum, AR!PiecesOf, PiecesOf, AR!Piece, Piece,
           AR!SetToBag, SetToBag
  <2>4. assembled' = [assembled EXCEPT ![r] = AR!FullSum(call[r])] /\ call' = call
    BY <1>2, <2>2, <2>3 DEF Return
  <2>5. returnedBar' = [returnedBar EXCEPT ![r] = call[r]]
    BY <1>2, <1>0 DEF Return, TypeOK, returnedBar
  <2>6. returnedBar[r] < call[r]
    BY <1>2, <2>0 DEF Return, returnedBar
  <2>7. AR!Return(r)
    BY <2>1, <2>4, <2>5, <2>6, Zenon DEF AR!Return, returnedBar
  <2> QED BY <2>7, Zenon DEF AR!Next
<1>3. CASE ~ Enter(r) /\ ~ Return(r)
  <2>1. UNCHANGED <<call, assembled>>
    BY <1>3, Zenon DEF Step, SkipOwner, IsendBatch, EndSends, SkipSelf, RecvBatch,
       EndRecvs, WaitAllSends, BcastAsRoot, BcastAsReceiver, LeaveBcast
  <2>2. \A q \in Ranks : pc'[q] = "idle" <=> pc[q] = "idle"
    <3>1. CASE SkipOwner(r) \/ IsendBatch(r) \/ SkipSelf(r) \/ RecvBatch(r)
      BY <3>1, Zenon DEF SkipOwner, IsendBatch, SkipSelf, RecvBatch
    <3>2. CASE EndSends(r) \/ EndRecvs(r) \/ WaitAllSends(r) \/ LeaveBcast(r)
      BY <3>2, <1>0 DEF EndSends, EndRecvs, WaitAllSends, LeaveBcast, TypeOK
    <3>3. CASE BcastAsRoot(r) \/ BcastAsReceiver(r)
      <4>1. pc[r] = "bcast" /\ AfterBcast(r)
        BY <3>3, Zenon DEF BcastAsRoot, BcastAsReceiver
      <4> QED BY <4>1, <1>0 DEF AfterBcast, TypeOK
    <3> QED BY <1>3, <3>1, <3>2, <3>3, Step(r), Zenon DEF Step
  <2>3. returnedBar' = returnedBar
    BY <2>1, <2>2 DEF returnedBar
  <2> QED BY <2>1, <2>3, Zenon DEF AR!vars, returnedBar
<1> QED BY <1>1, <1>2, <1>3

\* AssembleRows/AssembleCols, with all their sends, receives and broadcasts,
\* implement the abstract sum-to-all of module AllReduce.
THEOREM Refinement == Spec => ImplementsAllReduce
<1>1. Init => AR!Init
  <2> SUFFICES ASSUME Init PROVE AR!Init
    OBVIOUS
  <2>1. assembled = [r \in Ranks |-> AR!NoResult]
    BY DEF Init, Unset, EmptyBag, SetToBag, AR!NoResult, AR!EmptyBag, AR!SetToBag
  <2> QED BY <2>1 DEF Init, AR!Init
<1>2. IInv /\ [Next]_vars => [AR!Next]_(AR!vars)
  <2> SUFFICES ASSUME IInv, [Next]_vars PROVE [AR!Next]_(AR!vars)
    OBVIOUS
  <2>1. CASE Next
    BY <2>1, StepRefines DEF Next
  <2>2. CASE UNCHANGED vars
    BY <2>2 DEF vars, AR!vars
  <2> QED BY <2>1, <2>2
<1> QED BY <1>1, <1>2, Invariance, PTL DEF Spec, AR!Spec, ImplementsAllReduce
==============================================================================
