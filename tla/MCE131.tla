-------------------------------- MODULE MCE131 --------------------------------
(* E131 with the constants of the code but for the number of sources merged. *)
EXTENDS E131, TLC

Threshold == -20

\* Sources are alike.
Symmetry == Permutations(CID)
=============================================================================
