-------------------------- MODULE MCArtifactWorkflow --------------------------
(* Instance of the offline workflow for TLC. *)
EXTENDS ArtifactWorkflow

MCBounds == {1, 3, 4}
=============================================================================
