--------------------------- MODULE MCProvisioning ---------------------------
(***************************************************************************)
(* Provisioning for TLC.  Nothing chooses between targets other than by    *)
(* equality, so an instance with two targets may permute them.             *)
(***************************************************************************)
EXTENDS Provisioning, TLC

Symmetry == Permutations(Targets)
=============================================================================
