------------------------------ MODULE MCRollout ------------------------------
(* Instances of Rollout.                                                    *)
EXTENDS Rollout, TLC

CONSTANTS w1, w2, v1, v2, i1, i2, l1

\* The order of rows is the order of their records, so names of versions and
\* images are interchangeable, and so are workers that are all managed.
MCSymmetry ==
    Permutations(Versions) \union Permutations(Images)
    \union (IF Managed = Workers THEN Permutations(Workers) ELSE {})
=============================================================================
