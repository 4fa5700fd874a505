--------------------------- MODULE MCAssembleOwned ---------------------------
(***************************************************************************)
(* An instance of AssembleOwned that the program meets: 6 ranks on a 4 x 4 *)
(* matrix form a 2 x 3 grid; the row_comm of its second process row has 3  *)
(* ranks and shares rows 2 and 3.  Rank 2 owns row 2, rank 0 owns row 3,   *)
(* rank 1 owns nothing.                                                    *)
(***************************************************************************)
EXTENDS AssembleOwnedInv

SecondRowBlock == 2 .. 3
==============================================================================
