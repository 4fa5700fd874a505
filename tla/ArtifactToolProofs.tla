--------------------------- MODULE ArtifactToolProofs ---------------------------
(***************************************************************************)
(* Proofs for the two models of the artifact tool.                         *)
(*                                                                         *)
(* ArtifactWorkflow, for every dimension, set of bounds and number of      *)
(* prepare runs.  The properties speak of what decrypt has shown.  IInv    *)
(* says what lies in the directory at any moment: that keys get no older,  *)
(* which files the running process has written, and, for results that the  *)
(* present secret key opens, that the present manifest has their bound.    *)
(*                                                                         *)
(* FullRun, for every number of ranks and every assumption on what may     *)
(* throw where.  RunInv says which collectives a rank has entered so far:  *)
(* a prefix of its Route, which the steps that throw on it determine.  A   *)
(* rank that throws in the body skips the collectives the body had ahead,  *)
(* so its reduction is the second or third collective on the world where   *)
(* it is the fourth of the others; MPI matches by position, and no rank    *)
(* gets out of a position where others make another operation.  Hence a    *)
(* rank that has left the reduction knows of every rank how it fared       *)
(* (KnowledgeInv).                                                         *)
(***************************************************************************)
EXTENDS ArtifactWorkflow, FullRun, TLAPS, SequenceTheorems

SecretKey    == <<"secret_key", 0>>
PrepareFiles == Range(PrepareWrites)
ResultFiles  == Range(OutputFiles)

\* Every file of a job is either still to be written or written.
WrittenAs(fs, s) == \A f \in fs : \/ f \in Range(todo)
                                  \/ disk[f] = s
                                  \/ f \in Unchecked /\ disk[f] = Torn

\* No content is of a later keypair than the last prepare run's, a keypair
\* encrypts one input, and only results can be noise.
KeysInv ==
  /\ \A f \in PrepareFiles : disk[f] # Garbage
  /\ \A f \in AllFiles : disk[f] \in Stamps =>
       disk[f].key <= prepares /\ disk[f].input = disk[f].key
  /\ stamp \in Stamps => stamp.key <= prepares /\ stamp.input = stamp.key

PrepareInv == job = "prepare" =>
  /\ stamp \in Stamps /\ stamp.key = prepares
  /\ prepared = Missing /\ ~computed
  /\ todo \in Seq(PrepareFiles)
  /\ \A i \in 1 .. Len(todo) - 1 : todo[i] # ManifestFile
  /\ WrittenAs(PrepareFiles, stamp)
  /\ \A f \in ResultFiles : disk[f] \in Stamps => disk[f].key # prepares

PreparedInv == prepared # Missing =>
  /\ prepared \in Stamps /\ prepared.key = prepares
  /\ \A f \in PrepareFiles : disk[f] = prepared \/ (f \in Unchecked /\ disk[f] = Torn)
  /\ \A f \in ResultFiles : disk[f] \in Stamps /\ disk[f].key = prepares => disk[f] = prepared

ComputeInv ==
  /\ job = "compute" =>
       /\ ~computed
       /\ todo \in Seq(ResultFiles \cup {ResultManifest})
       /\ disk[ManifestFile] \in Stamps
       /\ stamp \in Stamps => stamp.T = disk[ManifestFile].T
       /\ prepared # Missing => /\ stamp = prepared
                                /\ disk[ManifestFile] = prepared
                                /\ WrittenAs(ResultFiles \cup {ResultManifest}, stamp)
  /\ computed /\ prepared # Missing =>
       /\ disk[ManifestFile] = prepared
       /\ \A f \in ResultFiles : disk[f] = prepared
       /\ disk[ResultManifest] \in {prepared, Torn}

\* What the present secret key opens was computed under the present manifest.
BoundInv == \A f \in ResultFiles :
  disk[f] \in Stamps /\ disk[SecretKey] \in Stamps /\ disk[f].key = disk[SecretKey].key
  => disk[ManifestFile] \in Stamps /\ disk[f].T = disk[ManifestFile].T

VerdictInv == /\ job # "none" => verdict = {}
              /\ CompletedPrepareIsAuthoritative
              /\ AcceptedIsOneClosure
              /\ NoFalseRejection

IInv == /\ TypeOK
        /\ KeysInv /\ PrepareInv /\ PreparedInv /\ ComputeInv /\ BoundInv /\ VerdictInv

------------------------------------------------------------------------------
\* Sequences and what is in them.

\* A sequence of one element.
LEMMA OneElement ==
  ASSUME NEW S, NEW x \in S
  PROVE  <<x>> \in Seq(S) /\ Range(<<x>>) = {x} /\ Len(<<x>>) = 1 /\ <<x>>[1] = x
BY DEF Range

\* A sequence of two elements.
LEMMA TwoElements ==
  ASSUME NEW S, NEW x \in S, NEW y \in S
  PROVE  <<x, y>> \in Seq(S) /\ Range(<<x, y>>) = {x, y}
<1>1. DOMAIN <<x, y>> = {1, 2}
  OBVIOUS
<1>2. Range(<<x, y>>) = {x, y}
  BY <1>1 DEF Range
<1> QED BY <1>2

\* What is in the join of two sequences.
LEMMA Joined ==
  ASSUME NEW S, NEW s \in Seq(S), NEW t \in Seq(S)
  PROVE  s \o t \in Seq(S) /\ Range(s \o t) = Range(s) \cup Range(t)
BY ConcatProperties, RangeConcatenation

\* A file written last is written only then.
LEMMA OnlyLast ==
  ASSUME NEW S, NEW s \in Seq(S), NEW x \in S, x \notin Range(s)
  PROVE  \A i \in 1 .. Len(s \o <<x>>) - 1 : (s \o <<x>>)[i] # x
<1>1. /\ Len(s \o <<x>>) = Len(s) + 1
      /\ \A i \in 1 .. Len(s) + 1 : (s \o <<x>>)[i] = IF i <= Len(s) THEN s[i] ELSE <<x>>[i - Len(s)]
  BY OneElement, ConcatProperties
<1>2. Len(s) \in Nat /\ \A i \in 1 .. Len(s) : s[i] \in Range(s)
  BY RangeEquality
<1> QED BY <1>1, <1>2

------------------------------------------------------------------------------
\* The files of the two jobs.

Kinds == {"cryptocontext", "public_key", "secret_key", "eval_mult_key", "eval_automorphism_key",
          "row", "col", "manifest", "result_row", "result_col", "result_manifest"}
Names == Kinds \X Nat

\* A pair of elements is in the product of their sets.
LEMMA Pair ==
  ASSUME NEW S, NEW U, NEW x \in S, NEW y \in U
  PROVE  <<x, y>> \in S \X U
OBVIOUS

\* The i-th file of a kind has a name of the directory.
LEMMA Name ==
  ASSUME NEW kind \in Kinds, NEW i \in Nat
  PROVE  <<kind, i>> \in Names
BY Pair, Zenon DEF Names

\* So have the files of which there is one.
LEMMA NamesOfFiles ==
  /\ Context \in Names /\ SecretKey \in Names /\ <<"public_key", 0>> \in Names
  /\ <<"eval_mult_key", 0>> \in Names /\ <<"eval_automorphism_key", 0>> \in Names
  /\ ManifestFile \in Names /\ ResultManifest \in Names
<1>1. 0 \in Nat
  OBVIOUS
<1>2. /\ "cryptocontext" \in Kinds /\ "secret_key" \in Kinds /\ "public_key" \in Kinds
      /\ "eval_mult_key" \in Kinds /\ "eval_automorphism_key" \in Kinds
      /\ "manifest" \in Kinds /\ "result_manifest" \in Kinds
  BY DEF Kinds
<1> QED BY <1>1, <1>2, Name, Zenon DEF Context, SecretKey, ManifestFile, ResultManifest

\* The files of a kind, one for each row or column.
LEMMA FilesRange ==
  ASSUME NEW kind \in Kinds
  PROVE  Files(kind) \in Seq(Names) /\ Range(Files(kind)) = {<<kind, i>> : i \in 1 .. N}
<1>1. N \in Nat
  BY WorkflowAssumption
<1>2. \A i \in 1 .. N : <<kind, i>> \in Names
  <2> TAKE i \in 1 .. N
  <2>1. i \in Nat
    BY <1>1
  <2> QED BY <2>1, Name, Zenon
<1> DEFINE f == [i \in 1 .. N |-> <<kind, i>>]
<1>3. DOMAIN f = 1 .. N /\ \A i \in 1 .. N : f[i] = <<kind, i>>
  OBVIOUS
<1>4. f \in [1 .. N -> Names]
  BY <1>2, Zenon
<1>5. Files(kind) = f
  BY DEF Files
<1>6. f \in Seq(Names)
  <2> HIDE DEF f
  <2> QED BY <1>1, <1>4
<1>7. Range(f) = {<<kind, i>> : i \in 1 .. N}
  <2> HIDE DEF f
  <2> QED BY <1>3, Zenon DEF Range
<1> QED BY <1>5, <1>6, <1>7, Zenon

BeforeManifest == <<Context>> \o KeyFiles \o InputFiles

EvalKeys == {<<"eval_mult_key", 0>>, <<"eval_automorphism_key", 0>>}
Keys     == {<<"public_key", 0>>, SecretKey} \cup EvalKeys
Inputs   == {<<"row", i>> : i \in 1 .. N} \cup {<<"col", i>> : i \in 1 .. N}
Results  == {<<"result_row", i>> : i \in 1 .. N} \cup {<<"result_col", i>> : i \in 1 .. N}

\* The file lists of the manifest name the files of their kind.
LEMMA FilesAre ==
  /\ Range(EvalKeyFiles) = EvalKeys
  /\ Range(KeyFiles) = Keys
  /\ Range(InputFiles) = Inputs
  /\ ResultFiles = Results
  /\ BeforeManifest \in Seq(Names)
  /\ Range(BeforeManifest) = {Context} \cup Keys \cup Inputs
  /\ OutputFiles \in Seq(Names)
<1> USE NamesOfFiles
<1>2. EvalKeyFiles \in Seq(Names) /\ Range(EvalKeyFiles) = EvalKeys
  BY TwoElements DEF EvalKeyFiles, EvalKeys
<1> DEFINE two == << <<"public_key", 0>>, <<"secret_key", 0>> >>
<1>3. two \in Seq(Names) /\ Range(two) = {<<"public_key", 0>>, SecretKey}
  BY TwoElements DEF SecretKey
<1> HIDE DEF two
<1>4. KeyFiles \in Seq(Names) /\ Range(KeyFiles) = Keys
  <2>1. KeyFiles = two \o EvalKeyFiles
    BY DEF KeyFiles, two
  <2> QED BY <2>1, <1>2, <1>3, Joined DEF Keys
<1>5. InputFiles \in Seq(Names) /\ Range(InputFiles) = Inputs
  <2>1. /\ Files("row") \in Seq(Names) /\ Range(Files("row")) = {<<"row", i>> : i \in 1 .. N}
        /\ Files("col") \in Seq(Names) /\ Range(Files("col")) = {<<"col", i>> : i \in 1 .. N}
    <3>1. "row" \in Kinds /\ "col" \in Kinds
      BY DEF Kinds
    <3> QED BY <3>1, FilesRange, Zenon
  <2> DEFINE a == Files("row")
             b == Files("col")
  <2>2. InputFiles = a \o b
    BY DEF InputFiles
  <2> HIDE DEF a, b
  <2>3. a \o b \in Seq(Names) /\ Range(a \o b) = Range(a) \cup Range(b)
    BY <2>1, Joined DEF a, b
  <2> QED BY <2>1, <2>2, <2>3 DEF a, b, Inputs
<1>6. OutputFiles \in Seq(Names) /\ ResultFiles = Results
  <2>1. /\ Files("result_row") \in Seq(Names)
        /\ Range(Files("result_row")) = {<<"result_row", i>> : i \in 1 .. N}
        /\ Files("result_col") \in Seq(Names)
        /\ Range(Files("result_col")) = {<<"result_col", i>> : i \in 1 .. N}
    <3>1. "result_row" \in Kinds /\ "result_col" \in Kinds
      BY DEF Kinds
    <3> QED BY <3>1, FilesRange, Zenon
  <2> DEFINE a == Files("result_row")
             b == Files("result_col")
  <2>2. OutputFiles = a \o b
    BY DEF OutputFiles
  <2> HIDE DEF a, b
  <2>3. a \o b \in Seq(Names) /\ Range(a \o b) = Range(a) \cup Range(b)
    BY <2>1, Joined DEF a, b
  <2> QED BY <2>1, <2>2, <2>3 DEF a, b, ResultFiles, Results
<1>7. <<Context>> \in Seq(Names) /\ Range(<<Context>>) = {Context}
  BY OneElement
<1>8. <<Context>> \o KeyFiles \in Seq(Names) /\ Range(<<Context>> \o KeyFiles) = {Context} \cup Keys
  <2> DEFINE a == <<Context>>
  <2>1. a \in Seq(Names) /\ Range(a) = {Context}
    BY <1>7
  <2> HIDE DEF a
  <2>2. a \o KeyFiles \in Seq(Names) /\ Range(a \o KeyFiles) = {Context} \cup Keys
    BY <1>4, <2>1, Joined
  <2> QED BY <2>2 DEF a
<1>9. BeforeManifest \in Seq(Names) /\ Range(BeforeManifest) = {Context} \cup Keys \cup Inputs
  <2> DEFINE a == <<Context>> \o KeyFiles
  <2>1. BeforeManifest = a \o InputFiles
    BY DEF BeforeManifest
  <2>2. a \in Seq(Names) /\ Range(a) = {Context} \cup Keys
    BY <1>8
  <2> HIDE DEF a
  <2> QED BY <1>5, <2>1, <2>2, Joined
<1> QED BY <1>2, <1>4, <1>5, <1>6, <1>9

\* RunPrepare writes its files with the manifest last.
LEMMA PrepareFilesAre ==
  /\ PrepareFiles = {Context, ManifestFile} \cup Keys \cup Inputs
  /\ PrepareWrites \in Seq(PrepareFiles)
  /\ \A i \in 1 .. Len(PrepareWrites) - 1 : PrepareWrites[i] # ManifestFile
<1>1. ManifestFile \in Names
  BY NamesOfFiles
<1>2. PrepareWrites = BeforeManifest \o <<ManifestFile>>
  BY DEF PrepareWrites, BeforeManifest
<1>3. <<ManifestFile>> \in Seq(Names) /\ Range(<<ManifestFile>>) = {ManifestFile}
  BY <1>1, OneElement
<1>4. PrepareWrites \in Seq(Names) /\ PrepareFiles = {Context, ManifestFile} \cup Keys \cup Inputs
  <2> DEFINE a == <<ManifestFile>>
  <2>1. PrepareWrites = BeforeManifest \o a /\ a \in Seq(Names) /\ Range(a) = {ManifestFile}
    BY <1>2, <1>3
  <2> HIDE DEF a
  <2>2. PrepareWrites \in Seq(Names) /\ Range(PrepareWrites) = Range(BeforeManifest) \cup Range(a)
    BY <2>1, FilesAre, Joined
  <2> QED BY <2>1, <2>2, FilesAre DEF PrepareFiles
<1>5. PrepareWrites \in Seq(PrepareFiles)
  BY <1>4, SeqOfRange DEF PrepareFiles
<1>6. ManifestFile \notin Range(BeforeManifest)
  BY FilesAre DEF ManifestFile, Context, Keys, SecretKey, EvalKeys, Inputs
<1>7. \A i \in 1 .. Len(PrepareWrites) - 1 : PrepareWrites[i] # ManifestFile
  BY <1>1, <1>2, <1>6, FilesAre, OnlyLast
<1> QED BY <1>4, <1>5, <1>7

\* RunCompute writes the result files and their manifest.
LEMMA ComputeFilesAre ==
  /\ ComputeWrites \in Seq(ResultFiles \cup {ResultManifest})
  /\ Range(ComputeWrites) = ResultFiles \cup {ResultManifest}
<1>1. <<ResultManifest>> \in Seq(Names) /\ Range(<<ResultManifest>>) = {ResultManifest}
  <2>1. ResultManifest \in Names
    BY NamesOfFiles
  <2> QED BY <2>1, OneElement
<1>2. ComputeWrites \in Seq(Names) /\ Range(ComputeWrites) = ResultFiles \cup {ResultManifest}
  <2> DEFINE a == <<ResultManifest>>
  <2>1. ComputeWrites = OutputFiles \o a /\ a \in Seq(Names) /\ Range(a) = {ResultManifest}
    BY <1>1 DEF ComputeWrites
  <2> HIDE DEF a
  <2>2. ComputeWrites \in Seq(Names) /\ Range(ComputeWrites) = Range(OutputFiles) \cup Range(a)
    BY <2>1, FilesAre, Joined
  <2> QED BY <2>1, <2>2 DEF ResultFiles
<1> QED BY <1>2, SeqOfRange

\* What the steps need to know of the files.
LEMMA FileFacts ==
  /\ AllFiles = PrepareFiles \cup ResultFiles \cup {ResultManifest}
  /\ PrepareFiles \cap ResultFiles = {}
  /\ ResultManifest \notin PrepareFiles /\ ResultManifest \notin ResultFiles
  /\ {Context, SecretKey, ManifestFile, <<"row", 1>>} \subseteq PrepareFiles
  /\ ComputeReads \subseteq PrepareFiles /\ ManifestFile \notin ComputeReads
  /\ {Context, <<"row", 1>>} \subseteq ComputeReads /\ Context # <<"row", 1>>
  /\ Unchecked \cap ResultFiles = {} /\ ResultManifest \in Unchecked /\ ManifestFile \in Unchecked
  /\ SecretKey \notin Unchecked /\ Context \notin Unchecked
  /\ SecretKey # ManifestFile
<1> USE FilesAre, PrepareFilesAre DEF Context, SecretKey, ManifestFile, ResultManifest
<1>1. 1 \in 1 .. N
  BY WorkflowAssumption
<1>2. AllFiles = PrepareFiles \cup ResultFiles \cup {ResultManifest}
  BY DEF AllFiles, PrepareFiles, ResultFiles
<1>3. PrepareFiles \cap ResultFiles = {} /\ ResultManifest \notin PrepareFiles /\ ResultManifest \notin ResultFiles
  BY DEF Keys, EvalKeys, Inputs, Results
<1>4. {Context, SecretKey, ManifestFile, <<"row", 1>>} \subseteq PrepareFiles
  BY <1>1 DEF Keys, Inputs
<1>5. ComputeReads \subseteq PrepareFiles /\ ManifestFile \notin ComputeReads
      /\ {Context, <<"row", 1>>} \subseteq ComputeReads
  BY <1>1 DEF ComputeReads, Keys, EvalKeys, Inputs
<1>6. Unchecked \cap ResultFiles = {} /\ ResultManifest \in Unchecked /\ ManifestFile \in Unchecked
      /\ SecretKey \notin Unchecked /\ Context \notin Unchecked
  BY DEF Unchecked, EvalKeys, Results
<1> QED BY <1>2, <1>3, <1>4, <1>5, <1>6

\* Taking the next file from a queue of writes.
LEMMA HeadAndTail ==
  ASSUME NEW S, NEW q \in Seq(S), q # << >>
  PROVE  /\ Head(q) \in S /\ Head(q) \in Range(q)
         /\ Tail(q) \in Seq(S)
         /\ \A x \in Range(q) : x = Head(q) \/ x \in Range(Tail(q))
<1>1. Len(q) \in Nat \ {0} /\ DOMAIN q = 1 .. Len(q)
  OBVIOUS
<1>2. Head(q) = q[1] /\ Head(q) \in S
  BY <1>1
<1>3. /\ Tail(q) \in Seq(S) /\ Len(Tail(q)) = Len(q) - 1
      /\ \A i \in 1 .. Len(q) - 1 : Tail(q)[i] = q[i + 1]
  BY <1>1
<1>4. Head(q) \in Range(q)
  BY <1>1, <1>2 DEF Range
<1>5. ASSUME NEW x \in Range(q), x # Head(q)
      PROVE  x \in Range(Tail(q))
  <2>1. PICK i \in 1 .. Len(q) : x = q[i]
    BY <1>1 DEF Range
  <2>2. i # 1
    BY <2>1, <1>2, <1>5
  <2>3. i - 1 \in 1 .. Len(Tail(q)) /\ Tail(q)[i - 1] = x
    BY <2>1, <2>2, <1>1, <1>3
  <2>4. DOMAIN Tail(q) = 1 .. Len(Tail(q))
    BY <1>3
  <2> QED BY <2>3, <2>4 DEF Range
<1> QED BY <1>2, <1>3, <1>4, <1>5

\* An empty queue names no file.
LEMMA EmptyRange == Range(<< >>) = {}
BY DEF Range

------------------------------------------------------------------------------
\* The invariant holds at first and every action preserves it.

\* An empty directory satisfies the invariant.
LEMMA InitIInv == Init => IInv
<1> SUFFICES ASSUME Init PROVE IInv
  OBVIOUS
<1> USE DEF Init
<1>1. TypeOK
  <2>1. disk \in [AllFiles -> Contents]
    BY DEF Contents
  <2>2. prepares \in 0 .. MaxPrepares /\ todo \in Seq(AllFiles)
    BY WorkflowAssumption
  <2>3. computed \in BOOLEAN /\ verdict \subseteq Stamps \cup {Rejected}
    OBVIOUS
  <2>4. job \in {"none", "prepare", "compute"} /\ (job = "none" => todo = << >>)
    OBVIOUS
  <2>5. stamp \in Stamps \cup {Missing, Garbage} /\ prepared \in Stamps \cup {Missing}
    OBVIOUS
  <2> QED BY <2>1, <2>2, <2>3, <2>4, <2>5 DEF TypeOK
<1>2. Missing \notin Stamps /\ Missing # Garbage
  BY MarksAssumption
<1>3. /\ PrepareFiles \subseteq AllFiles /\ ResultFiles \subseteq AllFiles
      /\ SecretKey \in AllFiles
  BY FileFacts
<1>4. KeysInv
  BY <1>2, <1>3 DEF KeysInv
<1>5. PrepareInv /\ PreparedInv /\ ComputeInv
  BY DEF PrepareInv, PreparedInv, ComputeInv
<1>6. BoundInv
  BY <1>2, <1>3 DEF BoundInv
<1>7. VerdictInv
  BY DEF VerdictInv, CompletedPrepareIsAuthoritative, AcceptedIsOneClosure, NoFalseRejection
<1> QED BY <1>1, <1>4, <1>5, <1>6, <1>7 DEF IInv

\* A prepare run draws a key that nothing in the directory has been made with.
LEMMA RunPrepareStep ==
  ASSUME IInv, NEW T \in Bounds, RunPrepare(T)
  PROVE  IInv'
<1> USE DEF IInv, RunPrepare
<1> DEFINE s == [key |-> prepares + 1, input |-> prepares + 1, T |-> T]
<1>1. prepares + 1 \in 1 .. MaxPrepares /\ prepares \in Nat /\ prepares' = prepares + 1
  BY WorkflowAssumption DEF TypeOK
<1>2. stamp' = s /\ s \in Stamps /\ s.key = prepares + 1 /\ s.input = prepares + 1
  BY <1>1 DEF Stamps, Keypair
<1> HIDE DEF s
<1>3. TypeOK'
  <2>1. PrepareWrites \in Seq(AllFiles)
    BY PrepareFilesAre, FileFacts
  <2>2. disk' \in [AllFiles -> Contents]
    BY DEF TypeOK
  <2>3. prepares' \in 0 .. MaxPrepares
    BY <1>1, WorkflowAssumption
  <2>4. computed' \in BOOLEAN /\ verdict' \subseteq Stamps \cup {Rejected}
    OBVIOUS
  <2>5. job' \in {"none", "prepare", "compute"} /\ job' # "none"
    OBVIOUS
  <2>6. stamp' \in Stamps \cup {Missing, Garbage} /\ prepared' \in Stamps \cup {Missing}
    BY <1>2
  <2> QED BY <2>1, <2>2, <2>3, <2>4, <2>5, <2>6 DEF TypeOK
<1>4. \A f \in AllFiles : disk[f] \in Stamps => disk[f].key \in Nat /\ disk[f].key <= prepares
  BY DEF KeysInv, Stamps
<1>5. KeysInv'
  BY <1>1, <1>2, <1>4 DEF KeysInv
<1>6. PrepareInv'
  <2>1. \A f \in ResultFiles : disk[f] \in Stamps => disk[f].key # prepares + 1
    BY <1>1, <1>4, FileFacts
  <2>2. WrittenAs(PrepareFiles, stamp)'
    BY DEF WrittenAs, PrepareFiles
  <2> QED BY <1>1, <1>2, <2>1, <2>2, PrepareFilesAre DEF PrepareInv
<1>7. PreparedInv' /\ ComputeInv'
  BY DEF PreparedInv, ComputeInv
<1>8. BoundInv'
  BY DEF BoundInv
<1>9. VerdictInv'
  BY DEF VerdictInv, CompletedPrepareIsAuthoritative, AcceptedIsOneClosure, NoFalseRejection
<1> QED BY <1>3, <1>5, <1>6, <1>7, <1>8, <1>9

\* A file of a prepare run that can be read holds a stamp.
LEMMA ReadableIsStamp ==
  ASSUME IInv, NEW f \in PrepareFiles, disk[f] \notin {Missing, Torn}
  PROVE  disk[f] \in Stamps
BY FileFacts DEF IInv, TypeOK, KeysInv, Contents

\* What RunCompute may write is garbage, or the closure of one prepare for the
\* bound of the manifest; after a prepare has completed it is that prepare's.
LEMMA ClosureIs ==
  ASSUME IInv, Readable(ComputeReads \cup {ManifestFile}), NEW c \in Closures
  PROVE  /\ c \in Stamps \cup {Garbage}
         /\ c \in Stamps => /\ c.key <= prepares /\ c.input = c.key
                           /\ c.T = disk[ManifestFile].T
         /\ prepared # Missing => c = prepared /\ disk[ManifestFile] = prepared
<1> DEFINE ct == disk[<<"row", 1>>]
           m  == disk[ManifestFile]
<1>1. ct \in Stamps /\ m \in Stamps
  <2>1. <<"row", 1>> \in PrepareFiles /\ <<"row", 1>> \in ComputeReads /\ ManifestFile \in PrepareFiles
    BY FileFacts
  <2> QED BY <2>1, ReadableIsStamp DEF Readable
<1>2. ct.key <= prepares /\ ct.input = ct.key
  <2>1. <<"row", 1>> \in AllFiles
    BY FileFacts
  <2> QED BY <1>1, <2>1 DEF IInv, KeysInv
<1>3. CASE c = [ct EXCEPT !.T = m.T]
  <2> HIDE DEF ct, m
  <2>2. c \in Stamps /\ c.key = ct.key /\ c.input = ct.input /\ c.T = m.T
    BY <1>1, <1>3 DEF Stamps
  <2>3. ASSUME ct = prepared, m = prepared PROVE c = prepared
    BY <1>1, <1>3, <2>3 DEF Stamps
  <2>4. ASSUME prepared # Missing PROVE ct = prepared /\ m = prepared
    BY <2>4, FileFacts DEF IInv, PreparedInv, Readable, ct, m
  <2> QED BY <1>2, <2>2, <2>3, <2>4 DEF m
<1>4. CASE c = Garbage /\ ~(OneKeyset(ComputeReads) /\ Depth(m.T) <= Depth(ct.T))
  <2>2. Garbage \notin Stamps
    BY MarksAssumption
  <2>3. ASSUME prepared # Missing PROVE FALSE
    <3>1. prepared \in Stamps /\ \A f \in ComputeReads \cup {ManifestFile} : disk[f] = prepared
      BY <2>3, FileFacts DEF IInv, PreparedInv, Readable
    <3>2. ct = prepared /\ m = prepared /\ disk[Context] = prepared
      BY <3>1, FileFacts
    <3>3. Depth(prepared.T) \in Nat
      BY <3>1, DepthAssumption DEF Stamps
    <3>4. Depth(m.T) <= Depth(ct.T)
      BY <3>2, <3>3
    <3>5. OneKeyset(ComputeReads)
      <4>1. /\ \A f \in ComputeReads \ {Context} : disk[f] = prepared
            /\ Depth(disk[Context].T) = Depth(prepared.T)
        BY <3>1, <3>2
      <4> QED BY <3>1, <4>1, Zenon DEF OneKeyset
    <3> QED BY <1>4, <3>4, <3>5
  <2> QED BY <1>4, <2>2, <2>3
<1>5. \/ c = [ct EXCEPT !.T = m.T]
      \/ c = Garbage /\ ~(OneKeyset(ComputeReads) /\ Depth(m.T) <= Depth(ct.T))
  BY Zenon DEF Closures
<1> QED BY <1>3, <1>4, <1>5

\* A compute run under a completed prepare run computes that run's closure.
LEMMA RunComputeStep ==
  ASSUME IInv, RunCompute
  PROVE  IInv'
<1> USE DEF IInv, RunCompute
<1>1. /\ stamp' \in Stamps \cup {Garbage}
      /\ stamp' \in Stamps => /\ stamp'.key <= prepares /\ stamp'.input = stamp'.key
                              /\ stamp'.T = disk[ManifestFile].T
      /\ prepared # Missing => stamp' = prepared /\ disk[ManifestFile] = prepared
  BY ClosureIs
<1>2. disk[ManifestFile] \in Stamps
  BY ReadableIsStamp, FileFacts DEF Readable
<1>3. TypeOK'
  <2>1. ComputeWrites \in Seq(AllFiles)
    BY ComputeFilesAre, FileFacts
  <2>2. disk' \in [AllFiles -> Contents] /\ prepares' \in 0 .. MaxPrepares
    BY DEF TypeOK
  <2>3. computed' \in BOOLEAN /\ verdict' \subseteq Stamps \cup {Rejected}
    OBVIOUS
  <2>4. job' \in {"none", "prepare", "compute"} /\ job' # "none"
    OBVIOUS
  <2>5. stamp' \in Stamps \cup {Missing, Garbage} /\ prepared' \in Stamps \cup {Missing}
    BY <1>1 DEF TypeOK
  <2> QED BY <2>1, <2>2, <2>3, <2>4, <2>5 DEF TypeOK
<1>4. KeysInv'
  BY <1>1 DEF KeysInv
<1>5. PrepareInv' /\ PreparedInv'
  BY DEF PrepareInv, PreparedInv
<1>6. ComputeInv'
  <2>1. WrittenAs(ResultFiles \cup {ResultManifest}, stamp)'
    BY ComputeFilesAre DEF WrittenAs, ResultFiles
  <2> QED BY <1>1, <1>2, <2>1, ComputeFilesAre DEF ComputeInv, ResultFiles
<1>7. BoundInv'
  BY DEF BoundInv
<1>8. VerdictInv'
  BY DEF VerdictInv, CompletedPrepareIsAuthoritative, AcceptedIsOneClosure, NoFalseRejection
<1> QED BY <1>3, <1>4, <1>5, <1>6, <1>7, <1>8

\* Which file the running process is at, and what the manifest's turn means.
LEMMA AtFile ==
  ASSUME IInv, todo # << >>
  PROVE  /\ Head(todo) \in AllFiles /\ Head(todo) \in Range(todo) /\ Tail(todo) \in Seq(AllFiles)
         /\ \A f \in Range(todo) : f = Head(todo) \/ f \in Range(Tail(todo))
         /\ job \in {"prepare", "compute"} /\ verdict = {} /\ ~computed
         /\ job = "prepare" => /\ Head(todo) \in PrepareFiles /\ Tail(todo) \in Seq(PrepareFiles)
                               /\ \A i \in 1 .. Len(Tail(todo)) - 1 : Tail(todo)[i] # ManifestFile
                               /\ Head(todo) = ManifestFile => disk[SecretKey] = stamp
         /\ job = "compute" => /\ Head(todo) \in ResultFiles \cup {ResultManifest}
                               /\ Tail(todo) \in Seq(ResultFiles \cup {ResultManifest})
<1> USE DEF IInv
<1>1. /\ Head(todo) \in AllFiles /\ Head(todo) \in Range(todo) /\ Tail(todo) \in Seq(AllFiles)
      /\ \A f \in Range(todo) : f = Head(todo) \/ f \in Range(Tail(todo))
  <2>1. todo \in Seq(AllFiles)
    BY DEF TypeOK
  <2> QED BY <2>1, HeadAndTail, Zenon
<1>2. job \in {"prepare", "compute"} /\ verdict = {} /\ ~computed
  BY DEF TypeOK, VerdictInv, PrepareInv, ComputeInv
<1>3. ASSUME job = "prepare"
      PROVE  /\ Head(todo) \in PrepareFiles /\ Tail(todo) \in Seq(PrepareFiles)
             /\ \A i \in 1 .. Len(Tail(todo)) - 1 : Tail(todo)[i] # ManifestFile
             /\ Head(todo) = ManifestFile => disk[SecretKey] = stamp
  <2>1. todo \in Seq(PrepareFiles) /\ (\A i \in 1 .. Len(todo) - 1 : todo[i] # ManifestFile)
    BY <1>3 DEF PrepareInv
  <2>2. Head(todo) \in PrepareFiles /\ Tail(todo) \in Seq(PrepareFiles)
    BY <2>1
  <2>3. /\ Len(todo) \in Nat \ {0} /\ Len(Tail(todo)) = Len(todo) - 1
        /\ \A i \in 1 .. Len(todo) - 1 : Tail(todo)[i] = todo[i + 1]
    BY <2>1
  <2>4. \A i \in 1 .. Len(Tail(todo)) - 1 : Tail(todo)[i] # ManifestFile
    BY <2>1, <2>3
  <2>5. ASSUME Head(todo) = ManifestFile PROVE disk[SecretKey] = stamp
    <3>1. Len(todo) = 1
      <4>1. Head(todo) = todo[1]
        BY <2>1
      <4> QED BY <2>1, <2>3, <2>5, <4>1
    <3>2. DOMAIN todo = {1} /\ todo[1] = ManifestFile
      BY <2>1, <2>5, <3>1
    <3>3. SecretKey \notin Range(todo)
      BY <3>2, FileFacts DEF Range
    <3> QED BY <1>3, <3>3, FileFacts DEF PrepareInv, WrittenAs
  <2> QED BY <2>2, <2>4, <2>5
<1>4. ASSUME job = "compute"
      PROVE  /\ Head(todo) \in ResultFiles \cup {ResultManifest}
             /\ Tail(todo) \in Seq(ResultFiles \cup {ResultManifest})
  <2>1. todo \in Seq(ResultFiles \cup {ResultManifest})
    BY <1>4 DEF ComputeInv
  <2> QED BY <2>1
<1> QED BY <1>1, <1>2, <1>3, <1>4

\* Opening a file loses what was in it and adds nothing.
LEMMA OpenFileStep ==
  ASSUME IInv, OpenFile
  PROVE  IInv'
<1> USE DEF IInv, OpenFile
<1> DEFINE h == Head(todo)
<1>1. /\ h \in AllFiles /\ h \in Range(todo)
      /\ job \in {"prepare", "compute"} /\ verdict = {} /\ ~computed
      /\ job = "prepare" => h \in PrepareFiles /\ (h = ManifestFile => disk[SecretKey] = stamp)
      /\ job = "compute" => h \in ResultFiles \cup {ResultManifest}
  BY AtFile
<1>2. disk' = [disk EXCEPT ![h] = Torn] /\ DOMAIN disk = AllFiles
  BY DEF TypeOK
<1> HIDE DEF h
<1>3. disk'[h] = Torn /\ \A f \in AllFiles : f # h => disk'[f] = disk[f]
  BY <1>1, <1>2
<1>4. Torn \notin Stamps /\ Torn # Garbage
  BY MarksAssumption
<1>5. TypeOK'
  <2>1. disk' \in [AllFiles -> Contents]
    BY <1>2 DEF TypeOK, Contents
  <2> QED BY <2>1 DEF TypeOK
<1>6. KeysInv'
  BY <1>3, <1>4, FileFacts DEF KeysInv
<1>7. PrepareInv'
  <2>1. ASSUME job = "prepare" PROVE WrittenAs(PrepareFiles, stamp)'
    BY <1>1, <1>3, <2>1, FileFacts DEF PrepareInv, WrittenAs
  <2>2. ASSUME job = "prepare" PROVE \A f \in ResultFiles : disk'[f] = disk[f]
    BY <1>1, <1>3, <2>2, FileFacts
  <2> QED BY <2>1, <2>2 DEF PrepareInv
<1>8. PreparedInv'
  <2>1. ASSUME prepared # Missing PROVE \A f \in PrepareFiles : disk'[f] = disk[f]
    BY <1>1, <1>3, <2>1, FileFacts DEF PrepareInv
  <2> QED BY <1>3, <1>4, <2>1, FileFacts DEF PreparedInv
<1>9. ComputeInv'
  <2>1. ASSUME job = "compute" PROVE disk'[ManifestFile] = disk[ManifestFile]
    BY <1>1, <1>3, <2>1, FileFacts
  <2>2. ASSUME job = "compute", prepared # Missing
        PROVE  WrittenAs(ResultFiles \cup {ResultManifest}, stamp)'
    BY <1>1, <1>3, <2>2, FileFacts DEF ComputeInv, WrittenAs
  <2> QED BY <1>1, <2>1, <2>2 DEF ComputeInv
<1>10. BoundInv'
  <2>1. ASSUME h = ManifestFile, NEW f \in ResultFiles, disk[f] \in Stamps
        PROVE  disk[f].key # disk[SecretKey].key
    BY <1>1, <2>1, FileFacts DEF PrepareInv
  <2> QED BY <1>1, <1>3, <1>4, <2>1, FileFacts DEF BoundInv
<1>11. VerdictInv'
  BY <1>1 DEF VerdictInv, CompletedPrepareIsAuthoritative, AcceptedIsOneClosure, NoFalseRejection
<1> QED BY <1>5, <1>6, <1>7, <1>8, <1>9, <1>10, <1>11

\* What a completed write puts into a file.
LEMMA WriteFileStep ==
  ASSUME IInv, WriteFile
  PROVE  IInv'
<1> USE DEF IInv, WriteFile
<1> DEFINE h == Head(todo)
           w == Written(h)
<1>1. /\ h \in AllFiles /\ h \in Range(todo) /\ Tail(todo) \in Seq(AllFiles)
      /\ \A f \in Range(todo) : f = h \/ f \in Range(Tail(todo))
      /\ job \in {"prepare", "compute"} /\ verdict = {} /\ ~computed
      /\ job = "prepare" => /\ h \in PrepareFiles /\ Tail(todo) \in Seq(PrepareFiles)
                            /\ \A i \in 1 .. Len(Tail(todo)) - 1 : Tail(todo)[i] # ManifestFile
                            /\ h = ManifestFile => disk[SecretKey] = stamp
      /\ job = "compute" => /\ h \in ResultFiles \cup {ResultManifest}
                            /\ Tail(todo) \in Seq(ResultFiles \cup {ResultManifest})
  BY AtFile
<1>2. disk' = [disk EXCEPT ![h] = w] /\ todo' = Tail(todo) /\ DOMAIN disk = AllFiles
  BY DEF TypeOK
<1>3. /\ job = "prepare" => w = stamp /\ w \in Stamps
      /\ job = "compute" /\ h \in ResultFiles => w = stamp
      /\ job = "compute" /\ h = ResultManifest => w = disk[ManifestFile]
      /\ job = "compute" /\ prepared # Missing => w = stamp
      /\ w \in Stamps => w.key <= prepares /\ w.input = w.key
      /\ w \in Stamps \cup {Missing, Garbage}
  BY <1>1, FileFacts DEF Written, PrepareInv, ComputeInv, KeysInv, TypeOK
<1> HIDE DEF h, w
<1>4. disk'[h] = w /\ \A f \in AllFiles : f # h => disk'[f] = disk[f]
  BY <1>1, <1>2
<1>5. Torn \notin Stamps /\ Garbage \notin Stamps
  BY MarksAssumption
<1>6. TypeOK'
  <2>1. disk' \in [AllFiles -> Contents]
    BY <1>2, <1>3 DEF TypeOK, Contents
  <2>2. todo' \in Seq(AllFiles) /\ (job' = "none" => todo' = << >>)
    BY <1>1, <1>2
  <2> QED BY <2>1, <2>2 DEF TypeOK
<1>7. KeysInv'
  BY <1>1, <1>3, <1>4, <1>5, FileFacts DEF KeysInv
<1>8. PrepareInv'
  <2>1. ASSUME job = "prepare" PROVE WrittenAs(PrepareFiles, stamp)'
    BY <1>1, <1>2, <1>3, <1>4, <2>1, FileFacts DEF PrepareInv, WrittenAs
  <2>2. ASSUME job = "prepare" PROVE \A f \in ResultFiles : disk'[f] = disk[f]
    BY <1>1, <1>4, <2>2, FileFacts
  <2> QED BY <1>1, <1>2, <2>1, <2>2 DEF PrepareInv
<1>9. PreparedInv'
  <2>1. ASSUME prepared # Missing PROVE \A f \in PrepareFiles : disk'[f] = disk[f]
    BY <1>1, <1>4, <2>1, FileFacts DEF PrepareInv
  <2>2. ASSUME prepared # Missing PROVE w = prepared
    BY <1>1, <1>3, <2>2 DEF PrepareInv, ComputeInv
  <2> QED BY <1>4, <2>1, <2>2, FileFacts DEF PreparedInv
<1>10. ComputeInv'
  <2>1. ASSUME job = "compute" PROVE disk'[ManifestFile] = disk[ManifestFile]
    BY <1>1, <1>4, <2>1, FileFacts
  <2>2. ASSUME job = "compute", prepared # Missing
        PROVE  WrittenAs(ResultFiles \cup {ResultManifest}, stamp)'
    BY <1>1, <1>2, <1>3, <1>4, <2>2, FileFacts DEF ComputeInv, WrittenAs
  <2> QED BY <1>1, <1>2, <2>1, <2>2 DEF ComputeInv
<1>11. BoundInv'
  <2>1. CASE job = "prepare"
    <3>1. /\ stamp.key = prepares
          /\ \A f \in ResultFiles : disk'[f] = disk[f] /\ (disk[f] \in Stamps => disk[f].key # prepares)
      BY <1>1, <1>4, <2>1, FileFacts DEF PrepareInv
    <3>2. h # SecretKey => disk'[SecretKey] = disk[SecretKey]
      BY <1>4, FileFacts
    <3>3. h # ManifestFile => disk'[ManifestFile] = disk[ManifestFile]
      BY <1>4, FileFacts
    <3> QED BY <1>1, <1>3, <1>4, <2>1, <3>1, <3>2, <3>3 DEF BoundInv
  <2>2. CASE job = "compute"
    <3>1. /\ disk[ManifestFile] \in Stamps
          /\ stamp \in Stamps => stamp.T = disk[ManifestFile].T
      BY <2>2 DEF ComputeInv
    <3>2. disk'[SecretKey] = disk[SecretKey] /\ disk'[ManifestFile] = disk[ManifestFile]
      BY <1>1, <1>4, <2>2, FileFacts
    <3>3. \A f \in ResultFiles : disk'[f] = disk[f] \/ disk'[f] = stamp
      BY <1>1, <1>3, <1>4, <2>2, FileFacts
    <3> QED BY <3>1, <3>2, <3>3 DEF BoundInv
  <2> QED BY <1>1, <2>1, <2>2
<1>12. VerdictInv'
  BY <1>1 DEF VerdictInv, CompletedPrepareIsAuthoritative, AcceptedIsOneClosure, NoFalseRejection
<1> QED BY <1>6, <1>7, <1>8, <1>9, <1>10, <1>11, <1>12

\* A short write leaves the file torn, which WrittenAs allows for.
LEMMA WriteShortStep ==
  ASSUME IInv, WriteShort
  PROVE  IInv'
<1> USE DEF IInv, WriteShort
<1> DEFINE h == Head(todo)
<1>1. /\ h \in Unchecked /\ disk[h] = Torn /\ Tail(todo) \in Seq(AllFiles)
      /\ \A f \in Range(todo) : f = h \/ f \in Range(Tail(todo))
      /\ job \in {"prepare", "compute"} /\ verdict = {} /\ ~computed
      /\ job = "prepare" => /\ Tail(todo) \in Seq(PrepareFiles)
                            /\ \A i \in 1 .. Len(Tail(todo)) - 1 : Tail(todo)[i] # ManifestFile
      /\ job = "compute" => Tail(todo) \in Seq(ResultFiles \cup {ResultManifest})
  BY AtFile
<1>2. disk' = disk /\ todo' = Tail(todo)
  OBVIOUS
<1> HIDE DEF h
<1>3. TypeOK'
  BY <1>1, <1>2 DEF TypeOK
<1>4. KeysInv' /\ PreparedInv' /\ BoundInv'
  BY DEF KeysInv, PreparedInv, BoundInv
<1>5. PrepareInv'
  <2>1. ASSUME job = "prepare" PROVE WrittenAs(PrepareFiles, stamp)'
    BY <1>1, <1>2, <2>1 DEF PrepareInv, WrittenAs
  <2> QED BY <1>1, <1>2, <2>1 DEF PrepareInv
<1>6. ComputeInv'
  <2>1. ASSUME job = "compute", prepared # Missing
        PROVE  WrittenAs(ResultFiles \cup {ResultManifest}, stamp)'
    BY <1>1, <1>2, <2>1 DEF ComputeInv, WrittenAs
  <2> QED BY <1>1, <1>2, <2>1 DEF ComputeInv
<1>7. VerdictInv'
  BY <1>1 DEF VerdictInv, CompletedPrepareIsAuthoritative, AcceptedIsOneClosure, NoFalseRejection
<1> QED BY <1>3, <1>4, <1>5, <1>6, <1>7

\* With nothing left to write, every file of the run is written or torn.
LEMMA FinishStep ==
  ASSUME IInv, Finish
  PROVE  IInv'
<1> USE DEF IInv, Finish
<1>1. Range(todo) = {}
  BY EmptyRange
<1>2. Missing \notin Stamps
  BY MarksAssumption
<1>3. job \in {"prepare", "compute"} /\ verdict = {} /\ disk' = disk
  BY DEF TypeOK, VerdictInv
<1>4. TypeOK'
  <2>1. prepared' \in Stamps \cup {Missing}
    BY <1>3 DEF TypeOK, PrepareInv
  <2>2. computed' \in BOOLEAN
    BY DEF TypeOK
  <2>3. disk' \in [AllFiles -> Contents] /\ prepares' \in 0 .. MaxPrepares /\ todo' \in Seq(AllFiles)
    BY DEF TypeOK
  <2>4. /\ job' \in {"none", "prepare", "compute"} /\ todo' = << >>
        /\ stamp' \in Stamps \cup {Missing, Garbage} /\ verdict' \subseteq Stamps \cup {Rejected}
    BY DEF TypeOK
  <2> QED BY <2>1, <2>2, <2>3, <2>4 DEF TypeOK
<1>5. KeysInv' /\ PrepareInv' /\ BoundInv'
  BY <1>2 DEF KeysInv, PrepareInv, BoundInv
<1>6. PreparedInv'
  <2>1. CASE job = "prepare"
    <3>1. \A f \in PrepareFiles : disk[f] = stamp \/ (f \in Unchecked /\ disk[f] = Torn)
      BY <1>1, <2>1 DEF PrepareInv, WrittenAs
    <3> QED BY <2>1, <3>1 DEF PrepareInv, PreparedInv
  <2>2. CASE job = "compute"
    BY <2>2 DEF PreparedInv
  <2> QED BY <1>3, <2>1, <2>2
<1>7. ComputeInv'
  <2>1. CASE job = "prepare"
    BY <2>1 DEF ComputeInv, PrepareInv
  <2>2. CASE job = "compute"
    <3> SUFFICES ASSUME prepared # Missing
                 PROVE  /\ disk[ManifestFile] = prepared
                        /\ \A f \in ResultFiles : disk[f] = prepared
                        /\ disk[ResultManifest] \in {prepared, Torn}
      BY <2>2 DEF ComputeInv
    <3>1. stamp = prepared /\ disk[ManifestFile] = prepared
      BY <2>2 DEF ComputeInv
    <3>2. \A f \in ResultFiles \cup {ResultManifest} :
             disk[f] = stamp \/ (f \in Unchecked /\ disk[f] = Torn)
      BY <1>1, <2>2 DEF ComputeInv, WrittenAs
    <3> QED BY <3>1, <3>2, FileFacts
  <2> QED BY <1>3, <2>1, <2>2
<1>8. VerdictInv'
  BY <1>3 DEF VerdictInv, CompletedPrepareIsAuthoritative, AcceptedIsOneClosure, NoFalseRejection
<1> QED BY <1>4, <1>5, <1>6, <1>7, <1>8

\* A process that dies has made no claim yet.
LEMMA DieStep ==
  ASSUME IInv, Die
  PROVE  IInv'
<1> USE DEF IInv, Die
<1>1. Missing \notin Stamps
  BY MarksAssumption
<1>2. verdict = {} /\ ~computed
  BY DEF TypeOK, VerdictInv, PrepareInv, ComputeInv
<1>3. TypeOK'
  <2>1. << >> \in Seq(AllFiles)
    OBVIOUS
  <2> QED BY <2>1 DEF TypeOK
<1>4. KeysInv' /\ PrepareInv' /\ PreparedInv' /\ BoundInv'
  BY <1>1 DEF KeysInv, PrepareInv, PreparedInv, BoundInv
<1>5. ComputeInv'
  BY <1>2 DEF ComputeInv
<1>6. VerdictInv'
  BY <1>2 DEF VerdictInv, CompletedPrepareIsAuthoritative, AcceptedIsOneClosure, NoFalseRejection
<1> QED BY <1>3, <1>4, <1>5, <1>6

\* What is accepted was opened by the present key, so it has that key's input
\* and the present manifest's bound.
LEMMA AcceptedFiles ==
  ASSUME IInv, Accepts
  PROVE  \A f \in ResultFiles :
           /\ disk[f] \in Stamps
           /\ disk[f] = [key |-> disk[SecretKey].key, input |-> disk[SecretKey].key,
                         T |-> disk[ManifestFile].T]
           /\ prepared # Missing => disk[f] = prepared
<1> USE DEF IInv
<1>1. disk[SecretKey] \in Stamps
  BY ReadableIsStamp, FileFacts DEF Accepts, Readable, DecryptReads, SecretKey
<1> TAKE f \in ResultFiles
<1>2. f \in AllFiles
  BY FileFacts
<1>3. disk[f] \in Stamps
  <2>1. disk[f] # Garbage
    BY DEF Accepts, DecryptsToBits, ResultFiles
  <2>2. disk[f] \notin {Missing, Torn}
    BY DEF Accepts, Readable, DecryptReads, ResultFiles
  <2> QED BY <1>2, <2>1, <2>2 DEF TypeOK, Contents
<1>4. disk[f].key = disk[SecretKey].key
  BY DEF Accepts, DecryptsToBits, SecretKey, ResultFiles
<1>5. disk[f].input = disk[f].key /\ disk[f].T = disk[ManifestFile].T
  BY <1>1, <1>2, <1>3, <1>4 DEF KeysInv, BoundInv
<1>6. disk[f] = [key |-> disk[SecretKey].key, input |-> disk[SecretKey].key,
                 T |-> disk[ManifestFile].T]
  BY <1>3, <1>4, <1>5 DEF Stamps
<1>7. prepared # Missing => disk[f] = prepared
  BY <1>3, <1>4, FileFacts DEF PreparedInv
<1> QED BY <1>3, <1>6, <1>7

\* A compute run completed after a completed prepare run is accepted.
LEMMA CompletedAreAccepted ==
  ASSUME IInv, prepared # Missing, computed, disk[ResultManifest] # Torn
  PROVE  Accepts
<1> USE DEF IInv
<1>1. /\ prepared \in Stamps
      /\ disk[ManifestFile] = prepared /\ disk[ResultManifest] = prepared
      /\ \A f \in ResultFiles : disk[f] = prepared
  BY DEF ComputeInv, PreparedInv
<1>2. disk[SecretKey] = prepared /\ disk[Context] = prepared
  BY FileFacts DEF PreparedInv
<1>3. prepared \notin {Missing, Torn, Garbage}
  BY <1>1, MarksAssumption
<1>4. Readable(DecryptReads \cup {ManifestFile, ResultManifest})
  BY <1>1, <1>2, <1>3 DEF Readable, DecryptReads, SecretKey, ResultFiles
<1>5. RequireKeysetMatch
  BY <1>1 DEF RequireKeysetMatch
<1>6. DecryptsToBits
  BY <1>1, <1>2, <1>3 DEF DecryptsToBits, SecretKey, ResultFiles
<1> QED BY <1>4, <1>5, <1>6 DEF Accepts

\* A decryption keeps the invariant.
LEMMA RunDecryptStep ==
  ASSUME IInv, RunDecrypt
  PROVE  IInv'
<1> USE DEF IInv, RunDecrypt
<1>1. Rejected \notin Stamps
  BY MarksAssumption
<1>2. /\ KeysInv' /\ PrepareInv' /\ PreparedInv' /\ BoundInv'
  BY DEF KeysInv, PrepareInv, PreparedInv, BoundInv
<1>3. ComputeInv'
  BY DEF ComputeInv
<1>4. ASSUME Accepts
      PROVE  /\ verdict' \subseteq Stamps
             /\ prepared # Missing => verdict' \subseteq {prepared}
             /\ \A s, t \in verdict' : s = t
  <2>1. verdict' = {disk[f] : f \in ResultFiles}
    BY <1>4 DEF StampsOf, ResultFiles
  <2> QED BY <1>4, <2>1, AcceptedFiles
<1>5. ASSUME ~Accepts PROVE verdict' = {Rejected}
  BY <1>5
<1>6. TypeOK'
  <2>1. verdict' \subseteq Stamps \cup {Rejected}
    BY <1>4, <1>5
  <2> QED BY <2>1 DEF TypeOK
<1>7. (CompletedPrepareIsAuthoritative /\ AcceptedIsOneClosure)'
  BY <1>4, <1>5 DEF CompletedPrepareIsAuthoritative, AcceptedIsOneClosure
<1>8. NoFalseRejection'
  BY <1>1, <1>4, CompletedAreAccepted DEF NoFalseRejection
<1> QED BY <1>2, <1>3, <1>6, <1>7, <1>8 DEF VerdictInv

\* Every step keeps it.
LEMMA NextIInv == IInv /\ [Next]_vars => IInv'
<1> SUFFICES ASSUME IInv, [Next]_vars PROVE IInv'
  OBVIOUS
<1>1. CASE \E T \in Bounds : RunPrepare(T)
  BY <1>1, RunPrepareStep
<1>2. CASE RunCompute
  BY <1>2, RunComputeStep
<1>3. CASE OpenFile
  BY <1>3, OpenFileStep
<1>4. CASE WriteFile
  BY <1>4, WriteFileStep
<1>5. CASE WriteShort
  BY <1>5, WriteShortStep
<1>6. CASE Finish
  BY <1>6, FinishStep
<1>7. CASE Die
  BY <1>7, DieStep
<1>8. CASE RunDecrypt
  BY <1>8, RunDecryptStep
<1>9. CASE UNCHANGED vars
  BY <1>9 DEF vars, IInv, TypeOK, KeysInv, PrepareInv, WrittenAs, PreparedInv, ComputeInv, BoundInv,
     VerdictInv, CompletedPrepareIsAuthoritative, AcceptedIsOneClosure, NoFalseRejection
<1> QED BY <1>1, <1>2, <1>3, <1>4, <1>5, <1>6, <1>7, <1>8, <1>9 DEF Next

------------------------------------------------------------------------------

\* The inductive invariant holds in every state of every run.
THEOREM DirectoryInvariant == Spec => []IInv
BY InitIInv, NextIInv, PTL DEF Spec

\* Every file, the running process and the verdict have their types.
THEOREM TypeCorrect == Spec => []TypeOK
<1>1. IInv => TypeOK
  BY DEF IInv
<1> QED BY <1>1, DirectoryInvariant, PTL

\* After a completed prepare run decrypt shows that run's closure or nothing,
\* whatever died before, for every dimension and number of runs.
THEOREM PrepareIsAuthoritative == Spec => []CompletedPrepareIsAuthoritative
<1>1. IInv => CompletedPrepareIsAuthoritative
  BY DEF IInv, VerdictInv
<1> QED BY <1>1, DirectoryInvariant, PTL

\* Decrypt never accepts rows and columns of different inputs or bounds.
THEOREM NoPatchwork == Spec => []AcceptedIsOneClosure
<1>1. IInv => AcceptedIsOneClosure
  BY DEF IInv, VerdictInv
<1> QED BY <1>1, DirectoryInvariant, PTL

\* Decrypt does not reject what a completed prepare and compute run wrote.
THEOREM CompletedIsNotRejected == Spec => []NoFalseRejection
<1>1. IInv => NoFalseRejection
  BY DEF IInv, VerdictInv
<1> QED BY <1>1, DirectoryInvariant, PTL

------------------------------------------------------------------------------
(* The full run.                                                           *)

\* The place of the reduction among the collectives that rank r makes on the
\* world: a rank that fails in the body goes to it from where it is.
Reduction(r) == IF r \in fails["load"] THEN 2 ELSE IF r \in fails["block"] THEN 3 ELSE 4

\* The i-th collective of rank r on the world.
Route(r, i) == IF i = 1 THEN "bcast_prepare"
               ELSE IF i = Reduction(r) THEN "allreduce"
               ELSE IF i = 2 THEN "grid"
               ELSE IF i = 3 THEN "backend"
               ELSE "bcast_decrypt"

\* What rank r takes to a collective: 1 if one of the steps before it threw.
Flag(r, S) == IF \E s \in S : r \in fails[s] THEN 1 ELSE 0
Sent(r, c) == IF c = "bcast_prepare" THEN Flag(r, {"prepare"})
              ELSE IF c = "allreduce" THEN Flag(r, {"load", "block", "save"})
              ELSE IF c = "bcast_decrypt" THEN Flag(r, {"decrypt"})
              ELSE 0

Entry(r, c) == [at |-> c, op |-> Operation(c), value |-> Sent(r, c)]

\* How many collectives on the world rank r has left behind it.
Behind(r) == IF pc[r] \in {"prepare", "bcast_prepare"} THEN 0
             ELSE IF pc[r] \in {"load", "grid"} THEN 1
             ELSE IF pc[r] \in {"block", "backend"} THEN 2
             ELSE IF pc[r] \in {"closure", "save"} THEN 3
             ELSE IF pc[r] = "allreduce" THEN Reduction(r) - 1
             ELSE 4

World(r)   == Len(entered[r]["world"])
OnWorld    == Collectives \ {"closure"}
AnyFailure == \E s \in LocalSteps : fails[s] # {}

\* What rank r has entered.
EnteredInv(r) ==
  /\ \E n \in 0 .. 5 : entered[r]["world"] = [i \in 1 .. n |-> Entry(r, Route(r, i))]
  /\ entered[r]["grid"] \in {<< >>, <<Entry(r, "closure")>>}
  /\ pc[r] # "returned" => World(r) = Behind(r) \/ (pc[r] \in OnWorld /\ World(r) = Behind(r) + 1)
  /\ pc[r] \in {"prepare", "bcast_prepare", "load", "grid", "block", "backend"} =>
       entered[r]["grid"] = << >>

\* The status of rank r, and that it has not thrown where it has gone on.
StatusInv(r) ==
  /\ status[r] = IF pc[r] \in {"bcast_prepare", "allreduce", "bcast_decrypt"} THEN Sent(r, pc[r])
                 ELSE IF pc[r] = "returned" /\ AnyFailure THEN 1 ELSE 0
  /\ pc[r] \in {"grid", "block", "backend", "closure", "save"} => r \notin fails["load"]
  /\ pc[r] \in {"backend", "closure", "save"} => r \notin fails["block"]

\* What rank r can conclude about the others from the collectives it has left.
KnowledgeInv(r) ==
  /\ pc[r] \notin {"prepare", "bcast_prepare", "returned"} =>
       World(Root) >= 1 /\ fails["prepare"] = {}
  /\ pc[r] \in {"decrypt", "bcast_decrypt"} =>
       /\ \A s \in {"load", "block", "save"} : fails[s] = {}
       /\ \A q \in Ranks : World(q) >= 4

FailsInv == /\ fails \in [LocalSteps -> SUBSET Ranks]
            /\ \A s \in RootSteps : fails[s] \subseteq {Root}

ShapeInv == /\ pc \in [Ranks -> LocalSteps \cup Collectives \cup {"returned"}]
            /\ status \in [Ranks -> {0, 1}] /\ DOMAIN entered = Ranks
            /\ \A r \in Ranks : DOMAIN entered[r] = {"world", "grid"}

RunInv == FailsInv /\ ShapeInv /\ \A r \in Ranks : EnteredInv(r) /\ StatusInv(r) /\ KnowledgeInv(r)

\* The places of the steps on the path.
LEMMA PathPlaces ==
  /\ DOMAIN Path = 1 .. 12
  /\ Path[1] = "prepare" /\ Path[2] = "bcast_prepare" /\ Path[3] = "load" /\ Path[4] = "grid"
  /\ Path[5] = "block" /\ Path[6] = "backend" /\ Path[7] = "closure" /\ Path[8] = "save"
  /\ Path[9] = "allreduce" /\ Path[10] = "decrypt" /\ Path[11] = "bcast_decrypt"
  /\ Path[12] = "returned"
BY DEF Path

\* No step is on the path twice: the step after the k-th is the next one.
LEMMA SuccessorAt ==
  ASSUME NEW k \in 1 .. 11
  PROVE  Successor(Path[k]) = Path[k + 1]
<1>1. \A i \in DOMAIN Path : Path[i] = Path[k] => i = k
  BY PathPlaces, SMTT(60)
<1>2. k \in DOMAIN Path
  BY PathPlaces
<1>3. (CHOOSE i \in DOMAIN Path : Path[i] = Path[k]) = k
  BY <1>1, <1>2
<1>4. 1 + k = k + 1
  OBVIOUS
<1> QED BY <1>3, <1>4 DEF Successor

\* RunFull, step by step.
LEMMA Successors ==
  /\ Successor("prepare") = "bcast_prepare" /\ Successor("bcast_prepare") = "load"
  /\ Successor("load") = "grid" /\ Successor("grid") = "block" /\ Successor("block") = "backend"
  /\ Successor("backend") = "closure" /\ Successor("closure") = "save"
  /\ Successor("save") = "allreduce" /\ Successor("allreduce") = "decrypt"
  /\ Successor("decrypt") = "bcast_decrypt" /\ Successor("bcast_decrypt") = "returned"
<1>1. \A k \in 1 .. 11 : Successor(Path[k]) = Path[k + 1]
  BY SuccessorAt
<1>2. /\ 1 + 1 = 2 /\ 2 + 1 = 3 /\ 3 + 1 = 4 /\ 4 + 1 = 5 /\ 5 + 1 = 6 /\ 6 + 1 = 7
      /\ 7 + 1 = 8 /\ 8 + 1 = 9 /\ 9 + 1 = 10 /\ 10 + 1 = 11 /\ 11 + 1 = 12
  OBVIOUS
<1>3. Successor(Path[1]) = Path[2] /\ Successor(Path[2]) = Path[3] /\ Successor(Path[3]) = Path[4]
      /\ Successor(Path[4]) = Path[5] /\ Successor(Path[5]) = Path[6] /\ Successor(Path[6]) = Path[7]
      /\ Successor(Path[7]) = Path[8] /\ Successor(Path[8]) = Path[9] /\ Successor(Path[9]) = Path[10]
      /\ Successor(Path[10]) = Path[11] /\ Successor(Path[11]) = Path[12]
  BY <1>1, <1>2
<1> QED BY <1>3, PathPlaces

\* The steps, spelled out.
LEMMA Words ==
  /\ LocalSteps = {"prepare", "save", "decrypt", "load", "block"}
  /\ OnWorld = {"bcast_prepare", "grid", "backend", "allreduce", "bcast_decrypt"}
  /\ Collectives = {"bcast_prepare", "grid", "backend", "closure", "allreduce", "bcast_decrypt"}
BY DEF LocalSteps, RootSteps, OnWorld, Collectives

\* A step of rank r leaves what the invariant says of the other ranks alone,
\* and what they know of r can only grow.
LEMMA OneRank ==
  ASSUME RunInv, NEW r \in Ranks, fails' = fails,
         \A s \in Ranks \ {r} : /\ pc'[s] = pc[s] /\ status'[s] = status[s]
                                /\ entered'[s] = entered[s],
         ShapeInv', World(r) <= World(r)', World(r) \in Int, World(r)' \in Int,
         EnteredInv(r)', StatusInv(r)', KnowledgeInv(r)'
  PROVE  RunInv'
<1>1. \A q \in Ranks \ {r} : World(q)' = World(q) /\ Behind(q)' = Behind(q)
  BY DEF World, Behind, Reduction
<1>2. ASSUME NEW s \in Ranks \ {r} PROVE EnteredInv(s)'
  <2>1. \A i : Route(s, i)' = Route(s, i)
    BY DEF Route, Reduction
  <2>2. \A c : Entry(s, c)' = Entry(s, c)
    BY DEF Entry, Sent, Flag
  <2>3. EnteredInv(s) /\ entered'[s] = entered[s] /\ pc'[s] = pc[s]
    BY DEF RunInv
  <2>4. \A i : Entry(s, Route(s, i))' = Entry(s, Route(s, i))
    BY <2>1 DEF Entry, Sent, Flag
  <2>5. PICK n \in 0 .. 5 : entered[s]["world"] = [i \in 1 .. n |-> Entry(s, Route(s, i))]
    BY <2>3 DEF EnteredInv
  <2>6. entered'[s]["world"] = [i \in 1 .. n |-> Entry(s, Route(s, i))']
    BY <2>3, <2>4, <2>5
  <2> QED BY <1>1, <2>2, <2>3, <2>6 DEF EnteredInv
<1>3. ASSUME NEW s \in Ranks \ {r} PROVE StatusInv(s)'
  <2>1. \A c : Sent(s, c)' = Sent(s, c)
    BY DEF Sent, Flag
  <2>2. StatusInv(s)
    BY DEF RunInv
  <2> QED BY <2>1, <2>2 DEF StatusInv, AnyFailure
<1>4. \A q \in Ranks : World(q) \in Int /\ World(q)' \in Int /\ World(q) <= World(q)'
  <2>1. ASSUME NEW q \in Ranks PROVE World(q) \in Int
    <3>1. PICK n \in 0 .. 5 : entered[q]["world"] = [i \in 1 .. n |-> Entry(q, Route(q, i))]
      BY DEF RunInv, EnteredInv
    <3> QED BY <3>1 DEF World
  <2> QED BY <1>1, <2>1
<1>5. ASSUME NEW s \in Ranks \ {r} PROVE KnowledgeInv(s)'
  <2>1. KnowledgeInv(s)
    BY DEF RunInv
  <2>2. Root \in Ranks
    BY RunAssumption DEF Root, Ranks
  <2>3. World(Root) >= 1 => World(Root)' >= 1
    BY <1>4, <2>2
  <2>4. \A q \in Ranks : World(q) >= 4 => World(q)' >= 4
    BY <1>4
  <2> QED BY <2>1, <2>3, <2>4 DEF KnowledgeInv
<1> QED BY <1>2, <1>3, <1>5 DEF RunInv, FailsInv

\* What a rank takes to a collective is 0 or 1.
LEMMA Flags ==
  ASSUME NEW r
  PROVE  /\ \A S : Flag(r, S) \in {0, 1}
         /\ Sent(r, "bcast_prepare") = IF r \in fails["prepare"] THEN 1 ELSE 0
         /\ Sent(r, "bcast_decrypt") = IF r \in fails["decrypt"] THEN 1 ELSE 0
         /\ Sent(r, "allreduce") = IF r \in fails["load"] \/ r \in fails["block"] \/ r \in fails["save"]
                                   THEN 1 ELSE 0
         /\ Sent(r, "grid") = 0 /\ Sent(r, "backend") = 0 /\ Sent(r, "closure") = 0
         /\ \A c : Sent(r, c) \in {0, 1}
BY DEF Sent, Flag

\* The collectives on the world that a rank has entered, counted.
LEMMA WorldCount ==
  ASSUME NEW r \in Ranks, EnteredInv(r)
  PROVE  /\ World(r) \in 0 .. 5
         /\ entered[r]["world"] = [i \in 1 .. World(r) |-> Entry(r, Route(r, i))]
<1>1. PICK n \in 0 .. 5 : entered[r]["world"] = [i \in 1 .. n |-> Entry(r, Route(r, i))]
  BY DEF EnteredInv
<1>2. World(r) = n
  BY <1>1 DEF World
<1> QED BY <1>1, <1>2

\* A local step takes rank r from one place of the path to another.
LocalMove(r, to, st) ==
  \/ pc[r] = "prepare" /\ to = "bcast_prepare" /\ st = Sent(r, to)
  \/ pc[r] = "load" /\ to = "grid" /\ r \notin fails["load"] /\ st = 0
  \/ pc[r] = "block" /\ to = "backend" /\ r \notin fails["block"] /\ st = 0
  \/ /\ pc[r] \in {"load", "block", "save"} /\ to = "allreduce" /\ st = Sent(r, to)
     /\ pc[r] # "save" => r \in fails[pc[r]]
  \/ pc[r] = "decrypt" /\ to = "bcast_decrypt" /\ st = Sent(r, to)

\* A local step of a rank, whether it throws or not, preserves the invariant.
LEMMA LocalMoveKeeps ==
  ASSUME RunInv, NEW r \in Ranks, NEW to, NEW st, LocalMove(r, to, st),
         UNCHANGED <<fails, entered>>,
         pc' = [pc EXCEPT ![r] = to], status' = [status EXCEPT ![r] = st]
  PROVE  RunInv'
<1>1. FailsInv /\ ShapeInv /\ EnteredInv(r) /\ StatusInv(r) /\ KnowledgeInv(r)
  BY DEF RunInv
<1>2. /\ pc'[r] = to /\ status'[r] = st /\ fails' = fails /\ entered' = entered
      /\ \A s \in Ranks \ {r} : pc'[s] = pc[s] /\ status'[s] = status[s]
  BY <1>1 DEF ShapeInv
<1>3. to \in LocalSteps \cup Collectives
  BY Words DEF LocalMove
<1>4. ShapeInv'
  <2>1. st \in {0, 1}
    BY Flags DEF LocalMove
  <2> QED BY <1>1, <1>2, <1>3, <2>1 DEF ShapeInv
<1>5. /\ World(r)' = World(r) /\ World(r) \in 0 .. 5
      /\ entered[r]["world"] = [i \in 1 .. World(r) |-> Entry(r, Route(r, i))]
  BY <1>1, <1>2, WorldCount DEF World
<1>6. /\ \A i : Route(r, i)' = Route(r, i) /\ \A c : Entry(r, c)' = Entry(r, c) /\ Sent(r, c)' = Sent(r, c)
      /\ Reduction(r)' = Reduction(r)
  BY <1>2 DEF Route, Reduction, Entry, Sent, Flag
<1>7. World(r) = Behind(r)' 
  <2>1. World(r) = Behind(r)
    BY <1>1 DEF EnteredInv, LocalMove, OnWorld, Collectives
  <2>2. Behind(r)' = Behind(r)
    BY <1>1, <1>2, <1>6 DEF Behind, LocalMove, StatusInv, Reduction
  <2> QED BY <2>1, <2>2
<1>8. EnteredInv(r)'
  <2>1. \A i : Entry(r, Route(r, i))' = Entry(r, Route(r, i))
    BY <1>2 DEF Route, Reduction, Entry, Sent, Flag
  <2>2. entered'[r]["world"] = [i \in 1 .. World(r) |-> Entry(r, Route(r, i))']
    BY <1>2, <1>5, <2>1
  <2>3. to \in {"bcast_prepare", "grid", "backend"} => entered[r]["grid"] = << >>
    BY <1>1 DEF EnteredInv, LocalMove
  <2>4. to \notin {"prepare", "load", "block"}
    BY DEF LocalMove
  <2>5. entered[r]["grid"] \in {<< >>, <<Entry(r, "closure")>>}
    BY <1>1 DEF EnteredInv
  <2> QED BY <1>2, <1>5, <1>6, <1>7, <2>2, <2>3, <2>4, <2>5 DEF EnteredInv
<1>9. StatusInv(r)'
  BY <1>1, <1>2, <1>6 DEF StatusInv, LocalMove, AnyFailure
<1>10. KnowledgeInv(r)'
  <2>1. \A q : World(q)' = World(q)
    BY <1>2 DEF World
  <2> QED BY <1>1, <1>2, <2>1 DEF KnowledgeInv, LocalMove
<1> QED BY <1>2, <1>4, <1>5, <1>8, <1>9, <1>10, OneRank

\* Every action but the collectives is such a step: prepare and decrypt bring
\* the failure to the broadcast, the body brings it to the reduction.
LEMMA LocalStepsKeep ==
  ASSUME RunInv, NEW r \in Ranks,
         SkipStep(r) \/ LocalStep(r) \/ FailingRootStep(r) \/ FailingBody(r)
  PROVE  RunInv'
<1>1. FailsInv /\ ShapeInv /\ StatusInv(r)
  BY DEF RunInv
<1>2. status = [status EXCEPT ![r] = status[r]] /\ UNCHANGED <<fails, entered>>
  BY <1>1 DEF SkipStep, LocalStep, FailingRootStep, FailingBody, ShapeInv
<1>3. pc[r] \in LocalSteps => status[r] = 0
  BY <1>1, Words DEF StatusInv
<1>4. /\ \A s \in RootSteps : r # Root => r \notin fails[s]
      /\ pc[r] \in {"block", "save"} => r \notin fails["load"]
      /\ pc[r] = "save" => r \notin fails["block"]
  BY <1>1 DEF FailsInv, StatusInv
<1>5. CASE SkipStep(r)
  <2>1. LocalMove(r, Successor(pc[r]), status[r])
    BY <1>3, <1>4, <1>5, Words, Successors, Flags DEF SkipStep, LocalMove, RootSteps
  <2> QED BY <1>2, <1>5, <2>1, LocalMoveKeeps DEF SkipStep, Goto
<1>6. CASE LocalStep(r)
  <2>1. LocalMove(r, Successor(pc[r]), status[r])
    BY <1>3, <1>4, <1>6, Words, Successors, Flags DEF LocalStep, LocalMove, RootSteps
  <2> QED BY <1>2, <1>6, <2>1, LocalMoveKeeps DEF LocalStep, Goto
<1>7. CASE FailingRootStep(r)
  <2>1. LocalMove(r, Successor(pc[r]), 1)
    BY <1>7, Successors, Flags DEF FailingRootStep, LocalMove
  <2> QED BY <1>2, <1>7, <2>1, LocalMoveKeeps DEF FailingRootStep, Goto
<1>8. CASE FailingBody(r)
  <2>1. LocalMove(r, "allreduce", 1)
    BY <1>8, Flags DEF FailingBody, LocalMove
  <2> QED BY <1>2, <1>8, <2>1, LocalMoveKeeps DEF FailingBody, Goto
<1> QED BY <1>5, <1>6, <1>7, <1>8

\* A function on 1 .. m is a sequence of m values.
LEMMA AsSequence ==
  ASSUME NEW S, NEW m \in Nat, NEW h \in [1 .. m -> S]
  PROVE  h \in Seq(S) /\ Len(h) = m
OBVIOUS

\* Appending the next value of g to its first n values.
LEMMA AppendNext ==
  ASSUME NEW n \in Nat, NEW g, NEW f, f = [k \in 1 .. n |-> g[k]],
         g = [k \in 1 .. n + 1 |-> g[k]]
  PROVE  Append(f, g[n + 1]) = g
<1> DEFINE S == {g[k] : k \in 1 .. n + 1}
<1>1. f \in Seq(S) /\ Len(f) = n /\ g \in Seq(S) /\ Len(g) = n + 1 /\ g[n + 1] \in S
  <2>1. \A k \in 1 .. n + 1 : g[k] \in S
    OBVIOUS
  <2> HIDE DEF S
  <2>2. n + 1 \in Nat /\ n + 1 \in 1 .. n + 1 /\ 1 .. n \subseteq 1 .. n + 1
    OBVIOUS
  <2>3. f \in [1 .. n -> S]
    BY <2>1, <2>2
  <2>4. g \in [1 .. n + 1 -> S]
    BY <2>1
  <2>5. f \in Seq(S) /\ Len(f) = n
    BY <2>3, AsSequence
  <2>6. g \in Seq(S) /\ Len(g) = n + 1
    BY <2>2, <2>4, AsSequence
  <2> QED BY <2>1, <2>2, <2>5, <2>6
<1>2. Append(f, g[n + 1]) \in Seq(S) /\ Len(Append(f, g[n + 1])) = n + 1
  BY <1>1
<1>3. \A k \in 1 .. n + 1 : Append(f, g[n + 1])[k] = g[k]
  BY <1>1
<1> QED BY <1>1, <1>2, <1>3

\* The maximum of statuses, as the MPI_MAX reduction takes it.
LEMMA InBits ==
  ASSUME NEW S, S \subseteq {0, 1}, S # {}
  PROVE  Max(S) = IF 1 \in S THEN 1 ELSE 0
<1>1. \E x \in S : \A y \in S : x >= y
  <2>1. CASE 1 \in S
    BY <2>1
  <2>2. CASE 1 \notin S
    <3>1. S = {0}
      BY <2>2
    <3> QED BY <3>1
  <2> QED BY <2>1, <2>2
<1>2. Max(S) \in S /\ \A y \in S : Max(S) >= y
  BY <1>1 DEF Max
<1>3. CASE 1 \in S
  <2>1. Max(S) \in {0, 1} /\ Max(S) >= 1
    BY <1>2, <1>3
  <2> QED BY <1>3, <2>1
<1>4. CASE 1 \notin S
  <2>1. S = {0}
    BY <1>4
  <2> QED BY <1>2, <1>4, <2>1
<1> QED BY <1>3, <1>4

\* A rank makes exactly one reduction, wherever its body has thrown.
LEMMA Routes ==
  ASSUME NEW r
  PROVE  /\ Reduction(r) \in {2, 3, 4}
         /\ Route(r, 1) = "bcast_prepare" /\ Route(r, 5) = "bcast_decrypt"
         /\ Route(r, Reduction(r)) = "allreduce"
         /\ \A i \in 1 .. 5 : Operation(Route(r, i)) = "allreduce" => i = Reduction(r)
BY DEF Route, Reduction, Operation

\* Where the collective that rank r is at lies on its route.
LEMMA NextOnRoute ==
  ASSUME NEW r \in Ranks, StatusInv(r), KnowledgeInv(r), pc[r] \in OnWorld
  PROVE  /\ Behind(r) \in 0 .. 4 /\ Route(r, Behind(r) + 1) = pc[r]
         /\ Behind(r) # 0 => Route(r, Behind(r)) # pc[r]
<1>1. CASE pc[r] = "bcast_prepare"
  BY <1>1 DEF Behind, Route
<1>2. CASE pc[r] = "grid"
  BY <1>2 DEF Behind, Route, StatusInv, Reduction
<1>3. CASE pc[r] = "backend"
  BY <1>3 DEF Behind, Route, StatusInv, Reduction
<1>4. CASE pc[r] = "allreduce"
  BY <1>4 DEF Behind, Route, Reduction
<1>5. CASE pc[r] = "bcast_decrypt"
  <2>1. Reduction(r) = 4 /\ Behind(r) = 4
    BY <1>5 DEF Behind, Reduction, KnowledgeInv
  <2> QED BY <1>5, <2>1 DEF Route
<1> QED BY <1>1, <1>2, <1>3, <1>4, <1>5, Words

\* Being inside a collective, told from the number of those entered.
LEMMA InsideWorld ==
  ASSUME NEW r \in Ranks, StatusInv(r), EnteredInv(r), KnowledgeInv(r),
         pc[r] \in OnWorld
  PROVE  /\ Inside(r) <=> World(r) = Behind(r) + 1
         /\ Comm(pc[r]) = "world"
         /\ World(r) = Behind(r) \/ World(r) = Behind(r) + 1
<1>1. Comm(pc[r]) = "world"
  BY Words DEF Comm
<1>2. /\ World(r) \in 0 .. 5
      /\ entered[r]["world"] = [i \in 1 .. World(r) |-> Entry(r, Route(r, i))]
  BY WorldCount
<1>3. World(r) = Behind(r) \/ World(r) = Behind(r) + 1
  BY Words DEF EnteredInv
<1>4. /\ Behind(r) \in 0 .. 4 /\ Route(r, Behind(r) + 1) = pc[r]
      /\ Behind(r) # 0 => Route(r, Behind(r)) # pc[r]
  BY NextOnRoute
<1>5. Inside(r) <=> World(r) \in 1 .. World(r) /\ entered[r]["world"][World(r)].at = pc[r]
  BY <1>1, <1>2 DEF Inside, World
<1>6. World(r) \in 1 .. World(r) => entered[r]["world"][World(r)].at = Route(r, World(r))
  BY <1>2 DEF Entry
<1> QED BY <1>1, <1>2, <1>3, <1>4, <1>5, <1>6

\* The closure on the communicators of the grid is entered once.
LEMMA InsideGrid ==
  ASSUME NEW r \in Ranks, EnteredInv(r), pc[r] = "closure"
  PROVE  /\ Comm(pc[r]) = "grid"
         /\ ~Inside(r) => entered[r]["grid"] = << >>
<1>1. Comm(pc[r]) = "grid"
  BY DEF Comm
<1>2. ASSUME entered[r]["grid"] = <<Entry(r, "closure")>> PROVE Inside(r)
  <2>1. Len(entered[r]["grid"]) = 1 /\ 1 \in DOMAIN entered[r]["grid"]
        /\ entered[r]["grid"][1] = Entry(r, "closure")
    BY <1>2
  <2>2. Entry(r, "closure").at = pc[r]
    BY DEF Entry
  <2> QED BY <1>1, <2>1, <2>2 DEF Inside
<1> QED BY <1>1, <1>2 DEF EnteredInv

\* Entering a collective: the next entry of the route is appended.
LEMMA EnterCollectiveKeeps ==
  ASSUME RunInv, NEW r \in Ranks, EnterCollective(r)
  PROVE  RunInv'
<1>1. FailsInv /\ ShapeInv /\ EnteredInv(r) /\ StatusInv(r) /\ KnowledgeInv(r)
  BY DEF RunInv
<1>2. /\ fails' = fails /\ pc' = pc /\ status' = status /\ pc[r] \in Collectives /\ ~Inside(r)
      /\ entered' = [entered EXCEPT ![r][Comm(pc[r])] =
                      Append(@, [at |-> pc[r], op |-> Operation(pc[r]), value |-> status[r]])]
  BY DEF EnterCollective
<1>3. [at |-> pc[r], op |-> Operation(pc[r]), value |-> status[r]] = Entry(r, pc[r])
  <2>1. status[r] = Sent(r, pc[r])
    BY <1>1, <1>2, Words, Flags DEF StatusInv
  <2> QED BY <2>1 DEF Entry
<1>4. /\ \A s \in Ranks \ {r} : entered'[s] = entered[s]
      /\ entered'[r] = [entered[r] EXCEPT ![Comm(pc[r])] = Append(@, Entry(r, pc[r]))]
  BY <1>1, <1>2, <1>3 DEF ShapeInv
<1>5. ShapeInv'
  BY <1>1, <1>2, <1>4 DEF ShapeInv
<1>6. /\ World(r) \in 0 .. 5
      /\ entered[r]["world"] = [i \in 1 .. World(r) |-> Entry(r, Route(r, i))]
      /\ Behind(r)' = Behind(r)
  BY <1>1, <1>2, WorldCount DEF Behind, Reduction
<1>7. \A i : Entry(r, Route(r, i))' = Entry(r, Route(r, i)) /\ Entry(r, "closure")' = Entry(r, "closure")
  BY <1>2 DEF Route, Reduction, Entry, Sent, Flag
<1>8. StatusInv(r)'
  BY <1>1, <1>2 DEF StatusInv, AnyFailure, Sent, Flag
<1>9. EnteredInv(r)' /\ World(r) <= World(r)' /\ World(r)' \in Int
  <2>1. CASE pc[r] = "closure"
    <3>1. entered[r]["grid"] = << >> /\ Comm(pc[r]) = "grid"
      BY <1>1, <1>2, <2>1, InsideGrid
    <3>2. /\ entered'[r]["world"] = entered[r]["world"]
          /\ entered'[r]["grid"] = Append(entered[r]["grid"], Entry(r, "closure"))
      BY <1>1, <1>4, <2>1, <3>1 DEF ShapeInv
    <3>3. entered'[r]["grid"] = <<Entry(r, "closure")>>
      BY <3>1, <3>2
    <3>4. World(r)' = World(r)
      BY <3>2 DEF World
    <3>5. entered'[r]["world"] = [i \in 1 .. World(r) |-> Entry(r, Route(r, i))']
      BY <1>6, <1>7, <3>2
    <3>6. World(r) = Behind(r)
      BY <1>1, <2>1 DEF EnteredInv, OnWorld
    <3>7. EnteredInv(r)'
      BY <1>2, <1>6, <1>7, <2>1, <3>3, <3>4, <3>5, <3>6 DEF EnteredInv
    <3> QED BY <1>6, <3>4, <3>7
  <2>2. CASE pc[r] # "closure"
    <3>1. pc[r] \in OnWorld
      BY <1>2, <2>2 DEF OnWorld
    <3>2. /\ World(r) = Behind(r) /\ Comm(pc[r]) = "world"
          /\ Route(r, Behind(r) + 1) = pc[r] /\ Behind(r) \in 0 .. 4
      BY <1>1, <1>2, <3>1, InsideWorld, NextOnRoute
    <3>3. /\ entered'[r]["world"] = Append(entered[r]["world"], Entry(r, pc[r]))
          /\ entered'[r]["grid"] = entered[r]["grid"]
      BY <1>1, <1>4, <3>2 DEF ShapeInv
    <3>4. entered'[r]["world"] = [i \in 1 .. World(r) + 1 |-> Entry(r, Route(r, i))]
      <4> DEFINE g == [i \in 1 .. World(r) + 1 |-> Entry(r, Route(r, i))]
                 n == World(r)
      <4>1. n \in Nat /\ n + 1 \in 1 .. n + 1
        BY <1>6
      <4>2. g[n + 1] = Entry(r, pc[r])
        BY <3>2, <4>1
      <4>3. entered[r]["world"] = [i \in 1 .. n |-> g[i]]
        BY <1>6
      <4>4. g = [i \in 1 .. n + 1 |-> g[i]]
        OBVIOUS
      <4> HIDE DEF g, n
      <4>5. Append(entered[r]["world"], g[n + 1]) = g
        BY <4>1, <4>3, <4>4, AppendNext
      <4> QED BY <3>3, <4>2, <4>5 DEF g, n
    <3>5. World(r)' = World(r) + 1
      BY <1>6, <3>4 DEF World
    <3>6. entered'[r]["world"] = [i \in 1 .. World(r) + 1 |-> Entry(r, Route(r, i))']
      BY <1>7, <3>4
    <3>7. World(r) + 1 \in 0 .. 5
      BY <3>2
    <3>8. /\ entered'[r]["grid"] \in {<< >>, <<Entry(r, "closure")>>}
          /\ pc[r] \in {"prepare", "bcast_prepare", "load", "grid", "block", "backend"} =>
               entered'[r]["grid"] = << >>
      BY <1>1, <3>3 DEF EnteredInv
    <3>9. EnteredInv(r)'
      BY <1>2, <1>6, <1>7, <3>1, <3>2, <3>5, <3>6, <3>7, <3>8 DEF EnteredInv, OnWorld
    <3> QED BY <1>6, <3>5, <3>9
  <2> QED BY <2>1, <2>2
<1>10. KnowledgeInv(r)'
  <2>1. \A q \in Ranks : World(q) \in Int
    <3>1. \A q \in Ranks : World(q) \in 0 .. 5
      BY WorldCount DEF RunInv
    <3> QED BY <3>1
  <2>2. \A q \in Ranks : World(q) <= World(q)' /\ World(q)' \in Int
    <3>1. \A q \in Ranks \ {r} : World(q)' = World(q)
      BY <1>4 DEF World
    <3> QED BY <1>9, <2>1, <3>1
  <2>3. Root \in Ranks
    BY RunAssumption DEF Root, Ranks
  <2>4. World(Root) >= 1 => World(Root)' >= 1
    BY <2>1, <2>2, <2>3
  <2>5. \A q \in Ranks : World(q) >= 4 => World(q)' >= 4
    BY <2>1, <2>2
  <2> QED BY <1>1, <1>2, <2>4, <2>5 DEF KnowledgeInv
<1> QED BY <1>2, <1>4, <1>5, <1>6, <1>8, <1>9, <1>10, OneRank

\* A rank that has joined the collective on the world that r is in has the
\* same operation at the same place of its route.
LEMMA JoinedCollective ==
  ASSUME RunInv, NEW r \in Ranks, NEW s \in Ranks, pc[r] \in OnWorld, Inside(r), HasJoined(s, r)
  PROVE  /\ World(r) = Behind(r) + 1 /\ World(r) \in 1 .. 5 /\ World(r) <= World(s)
         /\ Operation(Route(s, World(r))) = Operation(pc[r])
         /\ ValueOf(s, r) = Sent(s, Route(s, World(r)))
<1>1. /\ StatusInv(r) /\ EnteredInv(r) /\ KnowledgeInv(r) /\ EnteredInv(s)
  BY DEF RunInv
<1>2. World(r) = Behind(r) + 1 /\ Comm(pc[r]) = "world" /\ Behind(r) \in 0 .. 4 /\ Route(r, Behind(r) + 1) = pc[r]
  BY <1>1, InsideWorld, NextOnRoute
<1>3. World(r) \in 1 .. 5
  BY <1>2
<1>4. /\ World(r) <= World(s)
      /\ entered[s]["world"][World(r)].op = entered[r]["world"][World(r)].op
  BY <1>2 DEF HasJoined, World
<1>5. /\ World(s) \in 0 .. 5 /\ entered[s]["world"] = [i \in 1 .. World(s) |-> Entry(s, Route(s, i))]
      /\ entered[r]["world"] = [i \in 1 .. World(r) |-> Entry(r, Route(r, i))]
  BY <1>1, WorldCount
<1>6. World(r) \in 1 .. World(s)
  BY <1>3, <1>4, <1>5
<1>7. /\ entered[s]["world"][World(r)] = Entry(s, Route(s, World(r)))
      /\ entered[r]["world"][World(r)] = Entry(r, Route(r, World(r)))
  BY <1>3, <1>5, <1>6
<1>8. /\ Operation(Route(s, World(r))) = Operation(pc[r])
      /\ entered[s]["world"][World(r)].value = Sent(s, Route(s, World(r)))
  BY <1>2, <1>4, <1>7 DEF Entry
<1>9. ValueOf(s, r) = entered[s]["world"][World(r)].value
  BY <1>2 DEF ValueOf, World
<1> QED BY <1>2, <1>3, <1>4, <1>8, <1>9

\* A rank that leaves a collective, and what it has to know when it does.
LEMMA LeaveKeeps ==
  ASSUME RunInv, NEW r \in Ranks, NEW to \in LocalSteps \cup Collectives \cup {"returned"},
         NEW st \in {0, 1}, fails' = fails, entered' = entered,
         pc' = [pc EXCEPT ![r] = to], status' = [status EXCEPT ![r] = st],
         StatusInv(r)',
         to # "returned" => World(r) = Behind(r)' /\ KnowledgeInv(r)',
         to \in {"load", "grid", "block", "backend"} => entered[r]["grid"] = << >>,
         to \notin {"prepare", "bcast_prepare"}
  PROVE  RunInv'
<1>1. FailsInv /\ ShapeInv /\ EnteredInv(r)
  BY DEF RunInv
<1>2. /\ pc'[r] = to /\ status'[r] = st
      /\ \A s \in Ranks \ {r} : pc'[s] = pc[s] /\ status'[s] = status[s]
  BY <1>1 DEF ShapeInv
<1>3. ShapeInv'
  BY <1>1 DEF ShapeInv
<1>4. /\ World(r)' = World(r) /\ World(r) \in 0 .. 5
      /\ entered[r]["world"] = [i \in 1 .. World(r) |-> Entry(r, Route(r, i))]
  BY <1>1, WorldCount DEF World
<1>5. \A i : Entry(r, Route(r, i))' = Entry(r, Route(r, i)) /\ Entry(r, "closure")' = Entry(r, "closure")
  BY DEF Route, Reduction, Entry, Sent, Flag
<1>6. entered'[r]["world"] = [i \in 1 .. World(r) |-> Entry(r, Route(r, i))']
  BY <1>4, <1>5
<1>7. EnteredInv(r)'
  BY <1>1, <1>2, <1>4, <1>5, <1>6 DEF EnteredInv
<1>8. KnowledgeInv(r)'
  BY <1>2 DEF KnowledgeInv
<1> QED BY <1>2, <1>3, <1>4, <1>7, <1>8, OneRank

\* Leaving a collective, one case per collective: the broadcasts bring the
\* status of the root, the reduction that of everybody, and a rank leaves it
\* knowing that all have entered it.
LEMMA LeaveCollectiveKeeps ==
  ASSUME RunInv, NEW r \in Ranks, LeaveCollective(r)
  PROVE  RunInv'
<1> DEFINE st == Outcome(r)
           to == AfterCollective(r, st)
<1>0. Root \in Ranks
  BY RunAssumption DEF Root, Ranks
<1>1. FailsInv /\ ShapeInv /\ EnteredInv(r) /\ StatusInv(r) /\ KnowledgeInv(r)
  BY DEF RunInv
<1>2. /\ fails' = fails /\ entered' = entered /\ pc[r] \in Collectives /\ Inside(r)
      /\ pc' = [pc EXCEPT ![r] = to] /\ status' = [status EXCEPT ![r] = st]
      /\ \A s \in Awaited(r) : HasJoined(s, r)
  BY DEF LeaveCollective, Goto
<1>3. pc'[r] = to /\ status'[r] = st
  BY <1>1, <1>2 DEF ShapeInv
<1>4. \A q : World(q)' = World(q)
  BY <1>2 DEF World
<1>5. pc[r] \in OnWorld => World(r) = Behind(r) + 1
  BY <1>1, <1>2, InsideWorld
\* A broadcast: the root's own value, or that of the root.
<1>6. ASSUME pc[r] \in {"bcast_prepare", "bcast_decrypt"}
      PROVE  /\ World(Root) >= World(r)
             /\ st = Sent(Root, pc[r])
  <2>1. Operation(pc[r]) = "bcast" /\ pc[r] \in OnWorld
    BY <1>6, Words DEF Operation
  <2>2. HasJoined(Root, r)
    <3>1. CASE r = Root
      <4>1. World(r) \in Int
        <5>1. World(r) \in 0 .. 5
          BY <1>1, WorldCount
        <5> QED BY <5>1
      <4>2. Comm(pc[r]) = "world"
        BY <1>6 DEF Comm
      <4> QED BY <3>1, <4>1, <4>2 DEF HasJoined, World
    <3>2. CASE r # Root
      BY <1>2, <2>1, <3>2 DEF Awaited
    <3> QED BY <3>1, <3>2
  <2>3. /\ World(r) = Behind(r) + 1 /\ World(r) <= World(Root) /\ World(r) \in 1 .. 5
        /\ ValueOf(Root, r) = Sent(Root, Route(Root, World(r)))
    BY <1>0, <1>2, <2>1, <2>2, JoinedCollective
  <2>4. Route(Root, World(r)) = pc[r]
    <3>1. pc[r] = "bcast_prepare" => Behind(r) = 0
      BY DEF Behind
    <3>2. pc[r] = "bcast_decrypt" => Behind(r) = 4
      BY DEF Behind
    <3> QED BY <1>6, <2>3, <3>1, <3>2, Routes
  <2>5. World(Root) \in Int
    <3>1. World(Root) \in 0 .. 5
      BY <1>0, WorldCount DEF RunInv
    <3> QED BY <3>1
  <2>6. st = ValueOf(Root, r)
    BY <2>1 DEF Outcome
  <2> QED BY <2>3, <2>4, <2>5, <2>6
<1>7. CASE pc[r] = "bcast_prepare"
  <2>1. st = (IF Root \in fails["prepare"] THEN 1 ELSE 0) /\ World(Root) >= 1 /\ World(r) = 1
    <3>1. World(r) = 1
      BY <1>5, <1>7, Words DEF Behind
    <3> QED BY <1>6, <1>7, <3>1, Flags
  <2>2. CASE st = 0
    <3>1. to = "load" /\ fails["prepare"] = {}
      BY <1>1, <1>7, <2>1, <2>2, Successors DEF AfterCollective, FailsInv, RootSteps
    <3>2. StatusInv(r)'
      BY <1>3, <2>2, <3>1 DEF StatusInv
    <3>3. World(r) = Behind(r)' /\ KnowledgeInv(r)'
      BY <1>2, <1>3, <1>4, <2>1, <3>1 DEF Behind, KnowledgeInv
    <3>4. entered[r]["grid"] = << >>
      BY <1>1, <1>7 DEF EnteredInv
    <3> QED BY <1>2, <2>2, <3>1, <3>2, <3>3, <3>4, Words, LeaveKeeps
  <2>3. CASE st # 0
    <3>1. to = "returned" /\ st = 1 /\ AnyFailure
      BY <1>7, <2>1, <2>3, Words DEF AfterCollective, AnyFailure
    <3>2. StatusInv(r)'
      BY <1>2, <1>3, <3>1 DEF StatusInv, AnyFailure
    <3> QED BY <1>2, <3>1, <3>2, LeaveKeeps
  <2> QED BY <2>2, <2>3
<1>8. CASE pc[r] \in {"grid", "backend", "closure"}
  <2>1. st = status[r] /\ status[r] = 0
    <3>1. Operation(pc[r]) \notin {"bcast", "allreduce"}
      BY <1>8 DEF Operation
    <3> QED BY <1>1, <1>8, <3>1 DEF Outcome, StatusInv
  <2>2. to = Successor(pc[r])
    BY <1>8 DEF AfterCollective
  <2>3. \/ pc[r] = "grid" /\ to = "block"
        \/ pc[r] = "backend" /\ to = "closure"
        \/ pc[r] = "closure" /\ to = "save"
    BY <1>8, <2>2, Successors
  <2>4. StatusInv(r)'
    BY <1>1, <1>2, <1>3, <2>1, <2>3 DEF StatusInv
  <2>5. KnowledgeInv(r)'
    BY <1>1, <1>2, <1>3, <1>4, <2>3 DEF KnowledgeInv
  <2>6. World(r) = Behind(r)'
    <3>1. pc[r] = "closure" => World(r) = 3
      BY <1>1 DEF EnteredInv, OnWorld, Behind
    <3>2. pc[r] = "grid" => World(r) = 2
      BY <1>5, Words DEF Behind
    <3>3. pc[r] = "backend" => World(r) = 3
      BY <1>5, Words DEF Behind
    <3> QED BY <1>3, <2>3, <3>1, <3>2, <3>3 DEF Behind
  <2>7. to = "block" => entered[r]["grid"] = << >>
    BY <1>1, <2>3 DEF EnteredInv
  <2> HIDE DEF st, to
  <2> QED BY <1>2, <2>1, <2>3, <2>4, <2>5, <2>6, <2>7, Words, LeaveKeeps
<1>9. CASE pc[r] = "allreduce"
  <2>0. Operation(pc[r]) = "allreduce" /\ pc[r] \in OnWorld
    BY <1>9, Words DEF Operation
  <2>1. World(r) = Reduction(r)
    BY <1>5, <1>9, <2>0, Routes DEF Behind
  <2>2. ASSUME NEW s \in Ranks
        PROVE  /\ Reduction(s) = Reduction(r) /\ World(s) >= Reduction(r)
               /\ ValueOf(s, r) = Sent(s, "allreduce")
    <3>1. HasJoined(s, r)
      <4>1. Operation(pc[r]) # "bcast"
        BY <2>0
      <4>2. Awaited(r) = Ranks
        BY <4>1 DEF Awaited
      <4> QED BY <1>2, <4>2
    <3>2. /\ World(r) \in 1 .. 5 /\ World(r) <= World(s)
          /\ Operation(Route(s, World(r))) = Operation(pc[r])
          /\ ValueOf(s, r) = Sent(s, Route(s, World(r)))
      BY <1>2, <2>0, <3>1, JoinedCollective
    <3>3. World(s) \in Int
      <4>1. World(s) \in 0 .. 5
        BY WorldCount DEF RunInv
      <4> QED BY <4>1
    <3> QED BY <2>0, <2>1, <3>2, <3>3, Routes
  <2> DEFINE S == {ValueOf(s, r) : s \in Ranks}
  <2>3. st = IF 1 \in S THEN 1 ELSE 0
    <3>1. S \subseteq {0, 1} /\ S # {}
      BY <1>0, <2>2, Flags
    <3>2. Max(S) = IF 1 \in S THEN 1 ELSE 0
      <4> HIDE DEF S
      <4> QED BY <3>1, InBits
    <3> QED BY <2>0, <3>2 DEF Outcome
  <2>4. 1 \in S <=> \E s \in Ranks : s \in fails["load"] \/ s \in fails["block"] \/ s \in fails["save"]
    BY <2>2, Flags
  <2> HIDE DEF S
  <2>5. CASE st = 0
    <3>1. \A s \in {"load", "block", "save"} : fails[s] = {}
      <4>1. \A s \in {"load", "block", "save"} : fails[s] \subseteq Ranks
        BY <1>1, Words DEF FailsInv
      <4> QED BY <2>3, <2>4, <2>5, <4>1
    <3>2. Reduction(r) = 4
      BY <3>1 DEF Reduction
    <3>3. to = "decrypt"
      BY <1>9, <2>5, Successors DEF AfterCollective
    <3>4. StatusInv(r)'
      BY <1>3, <2>5, <3>3 DEF StatusInv
    <3>5. World(r) = Behind(r)'
      BY <1>3, <2>1, <3>2, <3>3 DEF Behind
    <3>6. KnowledgeInv(r)'
      BY <1>1, <1>2, <1>3, <1>4, <1>9, <2>2, <3>1, <3>2, <3>3 DEF KnowledgeInv
    <3> QED BY <1>2, <2>5, <3>3, <3>4, <3>5, <3>6, Words, LeaveKeeps
  <2>6. CASE st # 0
    <3>1. st = 1 /\ to = "returned"
      BY <1>9, <2>3, <2>6 DEF AfterCollective
    <3>2. AnyFailure
      BY <2>3, <2>4, <2>6, Words DEF AnyFailure
    <3>3. StatusInv(r)'
      BY <1>2, <1>3, <3>1, <3>2 DEF StatusInv, AnyFailure
    <3> QED BY <1>2, <3>1, <3>3, LeaveKeeps
  <2> QED BY <2>5, <2>6
<1>10. CASE pc[r] = "bcast_decrypt"
  <2>1. st = IF Root \in fails["decrypt"] THEN 1 ELSE 0
    BY <1>6, <1>10, Flags
  <2>2. to = "returned"
    BY <1>10, Successors DEF AfterCollective
  <2>3. AnyFailure <=> st = 1
    <3>1. fails["prepare"] = {} /\ fails["load"] = {} /\ fails["block"] = {} /\ fails["save"] = {}
      BY <1>1, <1>10 DEF KnowledgeInv
    <3>2. AnyFailure <=> fails["decrypt"] # {}
      BY <3>1, Words DEF AnyFailure
    <3>3. fails["decrypt"] \subseteq {Root}
      BY <1>1 DEF FailsInv, RootSteps
    <3> QED BY <2>1, <3>2, <3>3
  <2>4. StatusInv(r)'
    BY <1>2, <1>3, <2>1, <2>2, <2>3 DEF StatusInv, AnyFailure
  <2>5. st \in {0, 1}
    BY <2>1
  <2>6. to \in LocalSteps \cup Collectives \cup {"returned"} /\ to \notin {"prepare", "bcast_prepare"}
    BY <2>2
  <2>7. to \notin {"load", "grid", "block", "backend"}
    BY <2>2
  <2> HIDE DEF st, to
  <2> QED BY <1>2, <2>2, <2>4, <2>5, <2>6, <2>7, LeaveKeeps
<1> QED BY <1>2, <1>7, <1>8, <1>9, <1>10, Words

\* The invariant holds at the start.
LEMMA InitRunInv == RunInit => RunInv
<1> SUFFICES ASSUME RunInit PROVE RunInv
  OBVIOUS
<1>1. FailsInv
  BY RunAssumption DEF RunInit, FailsInv, LocalSteps
<1>2. ShapeInv
  BY Words DEF RunInit, ShapeInv
<1>3. ASSUME NEW r \in Ranks PROVE EnteredInv(r) /\ StatusInv(r) /\ KnowledgeInv(r)
  <2>1. /\ pc[r] = "prepare" /\ status[r] = 0
        /\ entered[r]["world"] = << >> /\ entered[r]["grid"] = << >>
    BY <1>3 DEF RunInit
  <2>2. entered[r]["world"] = [i \in 1 .. 0 |-> Entry(r, Route(r, i))] /\ World(r) = 0 /\ 0 \in 0 .. 5
    BY <2>1 DEF World
  <2> QED BY <2>1, <2>2 DEF EnteredInv, StatusInv, KnowledgeInv, Behind
<1> QED BY <1>1, <1>2, <1>3 DEF RunInv

\* And every step preserves it.
LEMMA NextRunInv == RunInv /\ [RunNext]_runVars => RunInv'
<1> SUFFICES ASSUME RunInv, [RunNext]_runVars PROVE RunInv'
  OBVIOUS
<1>1. CASE UNCHANGED runVars
  <2>1. fails' = fails /\ pc' = pc /\ status' = status /\ entered' = entered
    BY <1>1 DEF runVars
  <2>2. FailsInv' /\ ShapeInv'
    BY <2>1 DEF RunInv, FailsInv, ShapeInv
  <2>3. ASSUME NEW r \in Ranks PROVE EnteredInv(r)' /\ StatusInv(r)' /\ KnowledgeInv(r)'
    <3>1. EnteredInv(r) /\ StatusInv(r) /\ KnowledgeInv(r)
      BY DEF RunInv
    <3>2. \A q : World(q)' = World(q)
      BY <2>1 DEF World
    <3>3. Reduction(r)' = Reduction(r) /\ AnyFailure' = AnyFailure
      BY <2>1 DEF Reduction, AnyFailure
    <3>4. \A i : Route(r, i)' = Route(r, i)
      BY <3>3 DEF Route
    <3>5. \A S : Flag(r, S)' = Flag(r, S)
      BY <2>1 DEF Flag
    <3>6. \A c : Sent(r, c)' = Sent(r, c)
      BY <3>5 DEF Sent
    <3>7. \A c : Entry(r, c)' = Entry(r, c)
      BY <3>6 DEF Entry
    <3>8. Behind(r)' = Behind(r)
      BY <2>1, <3>3 DEF Behind
    <3>9. EnteredInv(r)'
      BY <2>1, <3>1, <3>2, <3>4, <3>7, <3>8 DEF EnteredInv
    <3>10. StatusInv(r)'
      BY <2>1, <3>1, <3>3, <3>6 DEF StatusInv
    <3>11. KnowledgeInv(r)'
      BY <2>1, <3>1, <3>2 DEF KnowledgeInv
    <3> QED BY <3>9, <3>10, <3>11
  <2> QED BY <2>2, <2>3 DEF RunInv
<1>2. CASE RunNext
  BY <1>2, LocalStepsKeep, EnterCollectiveKeeps, LeaveCollectiveKeeps DEF RunNext, Step
<1> QED BY <1>1, <1>2

\* RunInv holds throughout every execution.
THEOREM RunInvariance == RunSpec => []RunInv
<1> QED BY InitRunInv, NextRunInv, PTL DEF RunSpec

\* The state keeps its types, and the closure is never entered on the world:
\* for every number of ranks, whatever fails.
THEOREM RunTypeCorrect == RunSpec => []RunTypeOK
<1>1. RunInv => RunTypeOK
  <2> SUFFICES ASSUME RunInv PROVE RunTypeOK
    OBVIOUS
  <2>1. status \in [Ranks -> 0 .. 1]
    <3>1. 0 .. 1 = {0, 1}
      OBVIOUS
    <3> QED BY <3>1 DEF RunInv, ShapeInv
  <2>2. ASSUME NEW r \in Ranks, NEW i \in DOMAIN entered[r]["world"]
        PROVE  entered[r]["world"][i].at \in Collectives \ {"closure"}
    <3>1. entered[r]["world"] = [k \in 1 .. World(r) |-> Entry(r, Route(r, k))]
      BY WorldCount DEF RunInv
    <3>2. entered[r]["world"][i].at = Route(r, i)
      BY <3>1 DEF Entry
    <3> QED BY <3>2, Words DEF Route
  <2> QED BY <2>1, <2>2 DEF RunInv, ShapeInv, RunTypeOK
<1> QED BY <1>1, RunInvariance, PTL

\* Whatever step throws on whatever set of ranks, the ranks of a job that
\* return, return the same exit status.
THEOREM Agreement == RunSpec => []AgreedStatus
<1>1. RunInv => AgreedStatus
  BY DEF RunInv, StatusInv, AgreedStatus, Returned
<1> QED BY <1>1, RunInvariance, PTL

\* The exit status tells the truth: when all have returned, it is 0 exactly
\* when nothing has thrown anywhere.
THEOREM Truth == RunSpec => []ExitTellsTheTruth
<1>1. RunInv => ExitTellsTheTruth
  <2> SUFFICES ASSUME RunInv, \A r \in Ranks : Returned(r)
               PROVE  (status[Root] = 0) <=> (\A s \in LocalSteps : fails[s] = {})
    BY DEF ExitTellsTheTruth
  <2>1. Root \in Ranks
    BY RunAssumption DEF Root, Ranks
  <2>2. status[Root] = IF AnyFailure THEN 1 ELSE 0
    BY <2>1 DEF RunInv, StatusInv, Returned
  <2> QED BY <2>2 DEF AnyFailure
<1> QED BY <1>1, RunInvariance, PTL

\* Past, told from the steps.
LEMMA PastSteps ==
  ASSUME NEW r, NEW i \in 1 .. 12, NEW j \in 1 .. 12, pc[r] = Path[j], i < j
  PROVE  Past(r, Path[i])
BY PathPlaces DEF Past

\* Rank 0 decrypts only when every rank is past the closure and the save, and
\* a rank loads only when rank 0 has prepared without failing.
THEOREM Phases == RunSpec => []PhasesDoNotOverlap
<1>1. RunInv => PhasesDoNotOverlap
  <2> SUFFICES ASSUME RunInv PROVE PhasesDoNotOverlap
    OBVIOUS
  <2>0. Root \in Ranks
    BY RunAssumption DEF Root, Ranks
  <2>1. ASSUME pc[Root] = "decrypt", NEW r \in Ranks PROVE Past(r, "save")
    <3>1. World(r) >= 4 /\ \A s \in {"load", "block", "save"} : fails[s] = {}
      BY <2>0, <2>1 DEF RunInv, KnowledgeInv
    <3>2. World(r) \in 0 .. 5
      BY WorldCount DEF RunInv
    <3>3. pc[r] \in {"allreduce", "decrypt", "bcast_decrypt", "returned"}
      <4>1. pc[r] \in LocalSteps \cup Collectives \cup {"returned"}
        BY DEF RunInv, ShapeInv
      <4>2. pc[r] # "returned" => World(r) = Behind(r) \/ (pc[r] \in OnWorld /\ World(r) = Behind(r) + 1)
        BY DEF RunInv, EnteredInv
      <4> QED BY <3>1, <3>2, <4>1, <4>2, Words DEF Behind
    <3>4. \E j \in 9 .. 12 : pc[r] = Path[j]
      BY <3>3, PathPlaces
    <3>5. Past(r, Path[8])
      BY <3>4, PastSteps
    <3> QED BY <3>5, PathPlaces
  <2>2. ASSUME NEW r \in Ranks, pc[r] = "load"
        PROVE  Past(Root, "prepare") /\ fails["prepare"] = {}
    <3>1. World(Root) >= 1 /\ fails["prepare"] = {}
      BY <2>2 DEF RunInv, KnowledgeInv
    <3>2. World(Root) \in 0 .. 5
      BY <2>0, WorldCount DEF RunInv
    <3>3. pc[Root] # "prepare" /\ pc[Root] \in LocalSteps \cup Collectives \cup {"returned"}
      <4>1. pc[Root] = "prepare" => World(Root) = 0
        BY <2>0, Words DEF RunInv, EnteredInv, Behind
      <4> QED BY <2>0, <3>1, <4>1 DEF RunInv, ShapeInv
    <3>4. \E j \in 2 .. 12 : pc[Root] = Path[j]
      BY <3>3, Words, PathPlaces
    <3>5. Past(Root, Path[1])
      BY <3>4, PastSteps
    <3> QED BY <3>1, <3>5, PathPlaces
  <2> QED BY <2>1, <2>2 DEF PhasesDoNotOverlap
<1> QED BY <1>1, RunInvariance, PTL
==============================================================================
