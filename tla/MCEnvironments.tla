--------------------------- MODULE MCEnvironments ---------------------------
(* Small instances of Environments for TLC.                                *)
EXTENDS Environments, TLC

CONSTANTS s1, k1, k2, f1, v1

OneSession == {s1}
TwoKernels == {k1, k2}
OneProfile == {f1}
OneVersion == {v1}
TwoPackages == {1, 2}

AnyNames == Permutations(TwoKernels)
=============================================================================
