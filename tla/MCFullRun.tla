------------------------------ MODULE MCFullRun ------------------------------
(* Instances of the whole run for TLC. *)
EXTENDS FullRun

\* Faults every rank sees alike, or rank 0 alone: a failing prepare, save or
\* decrypt, a manifest or key file that nobody can read.
CommonFaults == [s \in LocalSteps |->
                    CASE s \in RootSteps -> {{}, {Root}}
                      [] s = "load"      -> {{}, Ranks}
                      [] OTHER           -> {{}}]

\* A ciphertext file only the ranks of one block read is missing.
OneRankFaults == [s \in LocalSteps |->
                    IF s = "block" THEN {{r} : r \in Ranks} ELSE {{}}]
=============================================================================
