--------------------------- MODULE ArtifactWorkflow ---------------------------
(***************************************************************************)
(* The offline workflow of the distributed backend                         *)
(* (bgv_distributed_rowcol_artifacts.hpp and its command-line tool):       *)
(* prepare generates keys, encrypts the input and writes the artifact      *)
(* directory; compute reads it and writes the encrypted result; decrypt    *)
(* reads both.  The three modes are separate processes run one at a time   *)
(* on the same directory, any of them as often as the operator likes, and  *)
(* any of them may die between two writes: an exception such as a full     *)
(* disk, a kill, the 55-minute timeout of the batch scripts.  Nothing is   *)
(* deleted and every file is rewritten in place.                           *)
(*                                                                         *)
(* The content of a file is the stamp of what it was made from: the        *)
(* keypair, the input matrix (each prepare run has its own) and the        *)
(* closure bound T, which also fixes the multiplicative depth of the       *)
(* crypto context; all matrices have N rows.  A file is Missing, or Torn   *)
(* when the process that was writing it died.  Garbage is a ciphertext     *)
(* whose plaintext is noise.                                               *)
(***************************************************************************)
EXTENDS DepthEstimates, SequencesExt

CONSTANTS N,            \* matrix dimension
          Bounds,       \* the closure bounds a prepare run may be given
          MaxPrepares,  \* bound: prepare runs started
          Missing, Torn, Garbage, Rejected

ASSUME WorkflowAssumption ==
    /\ N \in Nat \ {0}
    /\ Bounds \subseteq Nat \ {0}
    /\ MaxPrepares \in Nat

\* EstimateBGVRowColDepth, from which prepare makes the crypto context.
Depth(T) == Estimate("rowcol", N, T)

ASSUME DepthAssumption == \A T \in Bounds : Depth(T) \in Nat

VARIABLES
    disk,       \* file -> content
    job,        \* the running process: "none", "prepare" or "compute"
    todo,       \* files it still has to write, in order
    stamp,      \* what it writes into them
    prepares,   \* prepare runs started
    prepared,   \* history: the stamp of the last prepare run, if it completed
    computed,   \* history: a compute run has completed since that prepare run
    verdict     \* what decrypt said of the directory as it is now: the stamps
                \* it showed, or that it rejected them; empty before it ran

vars == << disk, job, todo, stamp, prepares, prepared, computed, verdict >>

-----------------------------------------------------------------------------
\* The artifact directory.
Files(kind) == [i \in 1..N |-> <<kind, i>>]

EvalKeyFiles == << <<"eval_mult_key", 0>>, <<"eval_automorphism_key", 0>> >>
KeyFiles     == << <<"public_key", 0>>, <<"secret_key", 0>> >> \o EvalKeyFiles
InputFiles   == Files("row") \o Files("col")
OutputFiles  == Files("result_row") \o Files("result_col")

Context        == <<"cryptocontext", 0>>
ManifestFile   == <<"manifest", 0>>
ResultManifest == <<"result_manifest", 0>>

\* Prepare's and SaveDistributedResult's writes, in the order of the code:
\* each manifest is the last file of its group.
PrepareWrites == <<Context>> \o KeyFiles \o InputFiles \o <<ManifestFile>>
\* Faulty variant of the second: the result has no manifest of its own.
ComputeWrites_NoManifest == OutputFiles

ComputeWrites == OutputFiles \o <<ResultManifest>>

AllFiles == Range(PrepareWrites) \cup Range(OutputFiles) \cup {ResultManifest}
Stamps   == [key : 1..MaxPrepares, input : 1..MaxPrepares, T : Bounds]
Contents == Stamps \cup {Missing, Torn, Garbage}

\* None of the marks is another one or a stamp.
ASSUME MarksAssumption ==
    /\ {Missing, Torn, Garbage, Rejected} \cap Stamps = {}
    /\ Missing # Torn /\ Missing # Garbage /\ Torn # Garbage

Readable(fs)  == \A f \in fs : disk[f] \notin {Missing, Torn}
StampsOf(fs)  == { disk[f] : f \in fs }

\* Faulty variant: a keypair that already exists is used again.
Keypair_Reused(p) == 1

\* KeyGen: every prepare run draws a fresh keypair.
Keypair(p) == p

Init ==
    /\ disk = [f \in AllFiles |-> Missing]
    /\ job = "none"
    /\ todo = << >>
    /\ stamp = Missing
    /\ prepares = 0
    /\ prepared = Missing
    /\ computed = FALSE
    /\ verdict = {}

-----------------------------------------------------------------------------
\* Prepare: keys and encryption happen in memory, then the writes begin.
RunPrepare(T) ==
    /\ job = "none"
    /\ prepares < MaxPrepares
    /\ job' = "prepare"
    /\ todo' = PrepareWrites
    /\ prepares' = prepares + 1
    /\ stamp' = [key |-> Keypair(prepares + 1), input |-> prepares + 1, T |-> T]
    /\ prepared' = Missing
    /\ computed' = FALSE
    /\ verdict' = {}
    /\ UNCHANGED disk

\* The files RunComputeBody reads on top of the manifest.
ComputeReads ==
    {Context} \cup (Range(KeyFiles) \ {<<"secret_key", 0>>}) \cup Range(InputFiles)

\* OpenFHE cannot combine keys and ciphertexts of different keypairs, nor of
\* a context with other parameters.
OneKeyset(fs) == \E s \in Stamps :
                    /\ \A f \in fs \ {Context} : disk[f] = s
                    /\ Depth(disk[Context].T) = Depth(s.T)

\* What the homomorphic closure may yield: the closure of the input that the
\* ciphertexts hold, within the bound of the MANIFEST.  It is noise when keys
\* and ciphertexts do not belong together, and may be when the depth the keys
\* were made for is less than that bound takes.
Closures ==
    LET ct == disk[<<"row", 1>>]
        m  == disk[ManifestFile]
    IN  (IF OneKeyset(ComputeReads) THEN {[ct EXCEPT !.T = m.T]} ELSE {Garbage})
            \cup (IF Depth(m.T) <= Depth(ct.T) THEN {} ELSE {Garbage})

\* RunComputeBody up to the gather.  A file that is missing or torn, and
\* possibly an inconsistent set of files, makes it throw: nothing is written.
RunCompute ==
    /\ job = "none"
    /\ Readable(ComputeReads \cup {ManifestFile})
    /\ job' = "compute"
    /\ todo' = ComputeWrites
    /\ stamp' \in Closures
    /\ computed' = FALSE
    /\ verdict' = {}
    /\ UNCHANGED <<disk, prepares, prepared>>

\* What a write puts into the file: SaveDistributedResult copies the input
\* manifest, keyset_id included, into the result manifest.
Written(f) == IF f = ResultManifest THEN disk[ManifestFile] ELSE stamp

\* std::ofstream truncates the file when it opens it ...
OpenFile ==
    /\ todo # << >>
    /\ disk[Head(todo)] # Torn
    /\ disk' = [disk EXCEPT ![Head(todo)] = Torn]
    /\ UNCHANGED <<job, todo, stamp, prepares, prepared, computed, verdict>>

\* ... and the file is whole once the write has succeeded.
WriteFile ==
    /\ todo # << >>
    /\ disk[Head(todo)] = Torn
    /\ disk' = [disk EXCEPT ![Head(todo)] = Written(Head(todo))]
    /\ todo' = Tail(todo)
    /\ UNCHANGED <<job, stamp, prepares, prepared, computed, verdict>>

\* The files whose last bytes no check follows: SaveEvalMultKey and
\* SaveEvalAutomorphismKey do not look at the stream after the write, and the
\* short text of SaveManifest is flushed by the destructor, after its check.
Unchecked == Range(EvalKeyFiles) \cup {ManifestFile, ResultManifest}

\* A short write to one of them goes unnoticed and the run carries on.
WriteShort ==
    /\ todo # << >>
    /\ Head(todo) \in Unchecked
    /\ disk[Head(todo)] = Torn
    /\ todo' = Tail(todo)
    /\ UNCHANGED <<disk, job, stamp, prepares, prepared, computed, verdict>>

Finish ==
    /\ job # "none"
    /\ todo = << >>
    /\ job' = "none"
    /\ prepared' = IF job = "prepare" THEN stamp ELSE prepared
    /\ computed' = (computed \/ job = "compute")
    /\ stamp' = Missing
    /\ UNCHANGED <<disk, todo, prepares, verdict>>

\* Faulty variant: the list of pending writes survives the process.
Die_KeepsTodo ==
    /\ job # "none"
    /\ todo # << >>
    /\ job' = "none"
    /\ stamp' = Missing
    /\ UNCHANGED <<disk, todo, prepares, prepared, computed, verdict>>

\* The process dies; what it has written stays, the open file is torn.
Die ==
    /\ job # "none"
    /\ todo # << >>
    /\ job' = "none"
    /\ todo' = << >>
    /\ stamp' = Missing
    /\ UNCHANGED <<disk, prepares, prepared, computed, verdict>>

-----------------------------------------------------------------------------
DecryptReads == {Context, <<"secret_key", 0>>} \cup Range(OutputFiles)

RequireKeysetMatch == disk[ManifestFile].key = disk[ResultManifest].key

\* Faulty variant: slots that are not bits are coerced instead of refused.
DecryptsToBits_Coerced == TRUE

\* decrypt_packed_bits throws on a slot that is not 0 or 1, and Decrypt on a
\* row and a column that disagree: noise does not get through.
DecryptsToBits ==
    \A f \in Range(OutputFiles) :
        /\ disk[f] # Garbage
        /\ disk[f].key = disk[<<"secret_key", 0>>].key
        /\ Depth(disk[Context].T) = Depth(disk[<<"secret_key", 0>>].T)

Accepts == /\ Readable(DecryptReads \cup {ManifestFile, ResultManifest})
           /\ RequireKeysetMatch
           /\ DecryptsToBits

\* RunDecrypt: it only reads, and shows the matrix or rejects the artifacts.
RunDecrypt ==
    /\ job = "none"
    /\ verdict' = IF Accepts THEN StampsOf(Range(OutputFiles)) ELSE {Rejected}
    /\ UNCHANGED <<disk, job, todo, stamp, prepares, prepared, computed>>

Next == \/ \E T \in Bounds : RunPrepare(T)
        \/ RunCompute
        \/ OpenFile \/ WriteFile \/ WriteShort \/ Finish \/ Die
        \/ RunDecrypt

Spec == Init /\ [][Next]_vars

-----------------------------------------------------------------------------
TypeOK ==
    /\ disk \in [AllFiles -> Contents]
    /\ job \in {"none", "prepare", "compute"}
    /\ todo \in Seq(AllFiles) /\ (job = "none" => todo = << >>)
    /\ stamp \in Stamps \cup {Missing, Garbage}
    /\ prepares \in 0..MaxPrepares
    /\ prepared \in Stamps \cup {Missing}
    /\ computed \in BOOLEAN
    /\ verdict \subseteq Stamps \cup {Rejected}

\* Whatever died before, and however often, once a prepare run has completed
\* decrypt shows nothing but the closure of that run's matrix within that
\* run's bound: no result left over from before it, whole or half
\* overwritten, gets past the keyset check and the bit check.
CompletedPrepareIsAuthoritative ==
    prepared # Missing => verdict \subseteq {prepared, Rejected}

\* Decrypt never shows a patchwork: the rows and columns it accepts all come
\* from one input and one bound, though SaveDistributedResult overwrites the
\* previous result file by file and may die in between.
AcceptedIsOneClosure == \A s, t \in verdict : s = t

\* Decrypt is not over-cautious either: a completed prepare run followed by a
\* completed compute run is accepted, whatever was in the directory and
\* whichever short write went unnoticed, unless it was the one to the result
\* manifest.
NoFalseRejection ==
    prepared # Missing /\ computed /\ disk[ResultManifest] # Torn
        => Rejected \notin verdict

\* ComputeKeysetId is documented as "sufficient to catch 'these ciphertexts
\* and this key material don't actually belong together'": what decrypt
\* accepts belongs to the keyset its manifest names.
KeysetIdCatchesMixups ==
    \A s \in verdict \ {Rejected} : s.key = disk[ManifestFile].key
=============================================================================
