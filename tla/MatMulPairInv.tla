---------------------------- MODULE MatMulPairInv ----------------------------
(***************************************************************************)
(* The inductive invariant of MatMulPair: however the messages of the      *)
(* ranks overlap, every rank holds what it would hold had all ranks        *)
(* proceeded in step.                                                      *)
(*                                                                         *)
(* The calls of all ranks are put on one clock: a call of the script has a *)
(* key, two calls that belong together (a send and its receive, the calls  *)
(* of one collective) have the same, and each rank makes its calls in the  *)
(* order of their keys.  A rank is then described by what it does at a key *)
(* (CallAt) and by what it holds when it comes to a key (Expected), both   *)
(* without reference to any other rank's progress; the invariant says that *)
(* the stores are as expected and that a channel holds the calls that one  *)
(* side has made and the other has not.                                    *)
(***************************************************************************)
EXTENDS MatMulPair

\* The clock has a stage for each operation of the script, Width keys each:
\* at most one for what the root does alone, and four for each rank.
Width  == 4 * P + 13
Stages == 17
End    == Stages * Width
Keys   == 0 .. End - 1

NoCall == Call("none", "world", 0, 0, "none", "rows", "none")

------------------------------------------------------------------------------
(* The matrices: the operation that makes each of them.                    *)

Scattered == Operands \cup {"A_local", "B_local", "result1", "result2"}
Gathered  == {"A1_full", "B1_full", "A2_full", "B2_full", "gathered", "decrypted"}

Stage(name) ==
  CASE name = "A1" -> 1 [] name = "B1" -> 2 [] name = "A2" -> 3 [] name = "B2" -> 4
    [] name = "A1_full" -> 6 [] name = "B1_full" -> 7
    [] name = "A2_full" -> 8 [] name = "B2_full" -> 9
    [] name = "A_local" -> 10 [] name = "B_local" -> 11
    [] name = "local_result" -> 12 [] name = "gathered" -> 13
    [] name = "result1" -> 14 [] name = "result2" -> 15 [] name = "decrypted" -> 16
    [] OTHER -> 0

\* The key at which that operation begins; the root encrypts an operand first.
Begin(name) == Stage(name) * Width + (IF name \in Operands THEN 1 ELSE 0)

CommOf(name) == IF name \in {"A_local", "B_local", "local_result", "gathered"} THEN "sub" ELSE "grid"

RootOf(r, name) == IF CommOf(name) = "sub" THEN Leader(r, "sub")
                   ELSE IF name \in {"A2_full", "B2_full", "result2"} THEN half ELSE 0

\* What it is made from, and the matrices it is a product of.
FromOf(r, name) ==
  CASE name \in Operands -> "encrypted"
    [] name = "A1_full" -> "A1" [] name = "B1_full" -> "B1"
    [] name = "A2_full" -> "A2" [] name = "B2_full" -> "B2"
    [] name = "A_local" -> IF color(r) = 0 THEN "A1_full" ELSE "A2_full"
    [] name = "B_local" -> IF color(r) = 0 THEN "B1_full" ELSE "B2_full"
    [] name = "gathered" -> "local_result"
    [] name \in {"result1", "result2"} -> "gathered"
    [] name = "decrypted" -> "result2"

Product(c) == IF c = 0 THEN <<"A1", "B1">> ELSE <<"A2", "B2">>

ValueOf(r, name) ==
  CASE name \in Operands -> <<name>>
    [] name = "A1_full" -> <<"A1">> [] name = "B1_full" -> <<"B1">>
    [] name = "A2_full" -> <<"A2">> [] name = "B2_full" -> <<"B2">>
    [] name = "A_local" -> IF color(r) = 0 THEN <<"A1">> ELSE <<"A2">>
    [] name = "B_local" -> IF color(r) = 0 THEN <<"B1">> ELSE <<"B2">>
    [] name \in {"local_result", "gathered"} -> Product(color(r))
    [] name = "result1" -> Product(0)
    [] name \in {"result2", "decrypted"} -> Product(1)

------------------------------------------------------------------------------
(* The call of rank r at offset o of a stage.                              *)

ConstructAt(r, o) ==
  IF o = 0 THEN LocalStep("split", "world", "none", "none")
  ELSE IF o \in 1 .. 4
  THEN IF r = kRootRank THEN LocalStep("serialize", "world", Bundle[o], Bundle[o]) ELSE NoCall
  ELSE IF o \in 5 .. 12
  THEN LET p == ((o - 5) \div 2) + 1 IN
       Batch("bcast", "world", kRootRank, 0, "rows", Bundle[p])[((o - 5) % 2) + 1]
  ELSE NoCall

ScatterAt(r, name, o) ==
  IF o \in 0 .. 5
  THEN ScatterFromRankToGrid(CommOf(name), RootOf(r, name), FromOf(r, name), name)[o + 1]
  ELSE NoCall

EncryptAt(r, name, o) ==
  IF o # 0 THEN ScatterAt(r, name, o - 1)
  ELSE IF r = kRootRank THEN LocalStep("encrypt", "grid", name, "encrypted") ELSE NoCall

\* Four keys for each rank that sends: only it and the root make calls there.
GatherAt(r, name, o) ==
  LET comm == CommOf(name)
      root == RootOf(r, name)
      src  == (o - 1) \div 4
      part == ((o - 1) % 4) + 1
  IN
  IF o = 0 THEN IF r = root THEN LocalStep("own", comm, FromOf(r, name), name) ELSE NoCall
  ELSE IF r = root
  THEN IF src \in Members(r, comm) \ {root} THEN RecvMatrix(comm, src, name)[part] ELSE NoCall
  ELSE IF src = r THEN SendMatrix(comm, root, FromOf(r, name))[part] ELSE NoCall

\* The matrix that a stage makes, if it is one of these.
MadeIn(g, names) == \E name \in names : Stage(name) = g
NameOf(g, names) == CHOOSE name \in names : Stage(name) = g

CallIn(r, g, o) ==
  IF g = 0 THEN ConstructAt(r, o)
  ELSE IF MadeIn(g, Operands)  THEN EncryptAt(r, NameOf(g, Operands), o)
  ELSE IF MadeIn(g, Scattered) THEN ScatterAt(r, NameOf(g, Scattered), o)
  ELSE IF MadeIn(g, Gathered)  THEN GatherAt(r, NameOf(g, Gathered), o)
  ELSE IF o # 0 THEN NoCall
  ELSE IF g = 5 THEN LocalStep("split", "world", "none", "none")
  ELSE IF g = 12 THEN LocalStep("matmul", "sub", "A_local", "B_local")
  ELSE NoCall

\* The call of rank r at key k.
CallAt(r, k) == CallIn(r, k \div Width, k % Width)

CallKeys(r) == {k \in Keys : CallAt(r, k).kind # "none"}

------------------------------------------------------------------------------
(* What rank r holds when it comes to key k.                               *)

Full(v) == [rows |-> [i \in Slots |-> v], cols |-> [j \in Slots |-> v]]

\* A scatter that begins at key b: the root has the full matrix at once, the
\* others have the rows when they are broadcast and then the columns; at its
\* end each keeps its blocks.
Scattering(r, name, b, k) ==
  LET All(axis, key) == IF r = RootOf(r, name) \/ k > key THEN Full(ValueOf(r, name))[axis]
                        ELSE Empty[axis]
  IN
  IF k <= b THEN Empty
  ELSE IF k > b + 5 THEN Blocks(r, CommOf(name), ValueOf(r, name))
  ELSE [rows |-> All("rows", b + 2), cols |-> All("cols", b + 4)]

\* A gather that begins at key b: the root has its own blocks at once, and
\* those of a rank when it has received them.
Gathering(r, name, b, k) ==
  LET comm == CommOf(name)
      Has(src, part) == src = RootOf(r, name) \/ k > b + 1 + 4 * src + part
      Entry(there)   == IF there THEN ValueOf(r, name) ELSE Null
  IN
  IF r # RootOf(r, name) \/ k <= b THEN Empty
  ELSE [rows |-> [i \in Slots |->
                    Entry(\E src \in Members(r, comm) : i \in RowsIn(src, comm) /\ Has(src, 1))],
        cols |-> [j \in Slots |->
                    Entry(\E src \in Members(r, comm) : j \in ColsIn(src, comm) /\ Has(src, 3))]]

\* The part of the bundle of key p: rank 0 serializes it at key p, the others
\* receive it at key 2 * p + 4.
PartAt(r, p, k) ==
  IF k <= (IF r = kRootRank THEN p ELSE 2 * p + 4) THEN Empty
  ELSE [rows |-> [x \in {0} |-> <<Bundle[p]>>], cols |-> Empty.cols]

EncryptedAt(r, k) ==
  IF r # kRootRank \/ k <= Width THEN Empty
  ELSE Full(IF k <= 2 * Width THEN <<"A1">> ELSE IF k <= 3 * Width THEN <<"B1">>
            ELSE IF k <= 4 * Width THEN <<"A2">> ELSE <<"B2">>)

Expected(r, name, k) ==
  IF name \in Scattered THEN Scattering(r, name, Begin(name), k)
  ELSE IF name \in Gathered THEN Gathering(r, name, Begin(name), k)
  ELSE IF name = "local_result"
  THEN IF k <= Begin(name) THEN Empty ELSE Blocks(r, "sub", ValueOf(r, name))
  ELSE IF name = "encrypted" THEN EncryptedAt(r, k)
  ELSE PartAt(r, CHOOSE p \in DOMAIN Bundle : Bundle[p] = name, k)

\* The message that rank s sends or broadcasts at key k.
Message(s, k) ==
  LET c == CallAt(s, k) IN
  [tag |-> c.tag, part |-> c.part, axis |-> c.axis, root |-> s,
   batch |-> Expected(s, c.of, k)[c.axis]]

------------------------------------------------------------------------------
(* Where the ranks are on the clock.                                       *)

\* seq lists the values of f in the order of its domain, a set of numbers; e
\* says which entry comes where.
Lists(seq, f, n, e) ==
  /\ n \in Nat
  /\ e \in [1 .. n -> DOMAIN f]
  /\ \A i, j \in 1 .. n : i < j => e[i] < e[j]
  /\ \A k \in DOMAIN f : \E i \in 1 .. n : e[i] = k
  /\ seq = [i \in 1 .. n |-> f[e[i]]]

Listing(seq, f) == \E n, e : Lists(seq, f, n, e)

\* The keys of the calls of a script.
KeyAt == [r \in Ranks |-> CHOOSE e : Lists(Script[r], [k \in CallKeys(r) |-> CallAt(r, k)], Len(Script[r]), e)]

\* The key of the call that rank r is at; the call at key k has had its effect
\* on the channels; rank r has returned from it.
Clock(r)   == IF Done(r) THEN End ELSE KeyAt[r][pc[r]]
Left(r, k) == k < Clock(r)
Did(r, k)  == Left(r, k) \/ (k = Clock(r) /\ held[r])

\* What rank r receives is stored when the call has its effect, the product
\* when it returns.
StoreTime(r) == IF held[r] /\ At(r).kind # "matmul" THEN Clock(r) + 1 ELSE Clock(r)

InChannel(c, s, d) ==
  {k \in Keys : /\ CallAt(s, k).kind = "send" /\ CallAt(s, k).comm = c /\ CallAt(s, k).peer = d
                /\ Did(s, k) /\ ~ Did(d, k)}

InBroadcast(c, r) ==
  {k \in Keys : /\ CallAt(r, k).kind = "bcast" /\ CallAt(r, k).comm = c /\ CallAt(r, k).peer # r
                /\ Did(CallAt(r, k).peer, k) /\ ~ Did(r, k)}

SubKeys(r) == {k \in Keys : IsCollective(CallAt(r, k)) /\ CallAt(r, k).comm = "sub"}

------------------------------------------------------------------------------

ShapeInv ==
  /\ pc \in [Ranks -> Nat] /\ \A r \in Ranks : pc[r] \in 1 .. Len(Script[r]) + 1
  /\ held \in [Ranks -> BOOLEAN]
  /\ entered \in [Ranks -> [Comms -> Nat]]
  /\ store = [r \in Ranks |-> [name \in Names |-> store[r][name]]]
  /\ chan = [c \in Comms |-> [s \in Ranks |-> [d \in Ranks |-> chan[c][s][d]]]]
  /\ coll = [c \in Comms |-> [r \in Ranks |-> coll[c][r]]]
  /\ failed = FALSE

\* A rank is held in a send, or in a collective.
HeldInv == \A r \in Ranks : held[r] => ~ Done(r) /\ (At(r).kind = "send" \/ IsCollective(At(r)))

StoreInv == \A r \in Ranks : \A name \in Names : store[r][name] = Expected(r, name, StoreTime(r))

\* A channel holds what its sender has sent and its receiver has not received,
\* oldest first; only the last may have its sender waiting.
ChannelInv ==
  \A c \in Comms, s \in Ranks, d \in Ranks :
    Listing(chan[c][s][d],
            [k \in InChannel(c, s, d) |-> [eager |-> Left(s, k), load |-> Message(s, k)]])

BroadcastInv ==
  \A c \in Comms, r \in Ranks :
    Listing(coll[c][r], [k \in InBroadcast(c, r) |-> Message(CallAt(r, k).peer, k)])

\* Nobody has received what its sender or root has not sent.
CausalInv == \A r \in Ranks : \A k \in Keys :
               CallAt(r, k).kind \in {"recv", "bcast"} /\ Did(r, k) => Did(CallAt(r, k).peer, k)

EnteredInv == \A r \in Ranks :
                entered[r]["sub"] = Cardinality({k \in SubKeys(r) : Did(r, k)})

IInv == ShapeInv /\ HeldInv /\ StoreInv /\ ChannelInv /\ BroadcastInv /\ CausalInv /\ EnteredInv
==============================================================================
