--------------------------- MODULE AssembleOwnedInv ---------------------------
(***************************************************************************)
(* The inductive invariant of AssembleOwned.  ExactlyOnce says nothing of  *)
(* the batches in flight and of a half-done call, so it is not inductive;  *)
(* IInv adds that each channel holds exactly the batches of the calls the  *)
(* sender has served and the receiver has not, oldest first, that the      *)
(* memory of the sender still holds those that MPI did not copy, and what  *)
(* the accumulators hold at each point of the loops.                       *)
(***************************************************************************)
EXTENDS AssembleOwned

\* The number of calls in which s has passed d in its send loop.
Sent(s, d) == IF pc[s] = "send" /\ cursor[s] <= d THEN call[s] - 1 ELSE call[s]

\* The number of calls in which d has passed s in its receive loop.
Recvd(s, d) == IF pc[d] = "send" \/ (pc[d] = "recv" /\ cursor[d] <= s)
               THEN call[d] - 1 ELSE call[d]

\* The number of calls in which r has passed owner o in the broadcast loop.
BeforeBcast(r, o) == \/ pc[r] \in {"send", "recv", "wait"}
                     \/ pc[r] = "bcast" /\ cursor[r] <= o
                     \/ pc[r] = "held" /\ cursor[r] < o

Passed(r, o) == IF BeforeBcast(r, o) THEN call[r] - 1 ELSE call[r]

Batches(s, d) ==
  [values : {Partial(s, k, Bucket(d)) : k \in 1 .. Calls}, buffered : BOOLEAN]

Assembled(o, k) == [g \in Bucket(o) |-> PiecesOf(Ranks, k, g)]

PcInv == \A r \in Ranks :
           /\ pc[r] # "idle" => call[r] > 0
           /\ pc[r] = "recv" => Bucket(r) # {}
           /\ pc[r] = "held" => cursor[r] < P

NetOK(s, d) ==
  IF s = d \/ Bucket(d) = {}
  THEN net[s][d] = << >>
  ELSE /\ net[s][d] \in Seq(Batches(s, d))
       /\ Len(net[s][d]) = Sent(s, d) - Recvd(s, d)
       /\ \A i \in 1 .. Len(net[s][d]) :
            net[s][d][i].values = Partial(s, Recvd(s, d) + i, Bucket(d))

NetInv == \A s, d \in Ranks : NetOK(s, d)

\* While a message that MPI did not copy is in flight its sender has not
\* returned from AssembleOwnedBucket and its PendingSend holds that very batch.
BufferOK(s, d) ==
  \A i \in 1 .. Len(net[s][d]) :
    ~ net[s][d][i].buffered =>
      /\ pc[s] \in {"send", "recv", "wait"}
      /\ pc[s] = "send" => cursor[s] > d
      /\ pending[s][d] = net[s][d][i].values

BufferInv == \A s, d \in Ranks : BufferOK(s, d)

BnetOK(s, d) ==
  IF s = d
  THEN bnet[s][d] = << >>
  ELSE /\ bnet[s][d] \in Seq({Assembled(s, k) : k \in 1 .. Calls})
       /\ Len(bnet[s][d]) = Passed(s, s) - Passed(d, s)
       /\ \A i \in 1 .. Len(bnet[s][d]) :
            bnet[s][d][i] = Assembled(s, Passed(d, s) + i)

BnetInv == \A s, d \in Ranks : BnetOK(s, d)

\* The sources whose batch r has added so far.
Added(r) == IF pc[r] = "recv" THEN {r} \cup {s \in Ranks : s < cursor[r]} ELSE Ranks

OwnedInv == \A r \in Ranks :
  pc[r] \in {"recv", "wait", "bcast", "held"} =>
    \A g \in Bucket(r) : owned[r][g] = PiecesOf(Added(r), call[r], g)

OutInv == \A r \in Ranks :
  pc[r] \in {"bcast", "held"} =>
    \A g \in Indices :
      ~ BeforeBcast(r, Owner(g)) => out[r][g] = PiecesOf(Ranks, call[r], g)

\* The inductive invariant (AssembleOwnedBucket and GatherOwnedToAll): what is
\* in flight and what has been added, at every point of a call, is exactly
\* what the loops have sent and not yet taken.
IInv == TypeOK /\ PcInv /\ NetInv /\ BnetInv /\ OwnedInv /\ OutInv
               /\ ExactlyOnce /\ BufferInv
==============================================================================
