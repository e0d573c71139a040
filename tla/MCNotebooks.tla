---------------------------- MODULE MCNotebooks ----------------------------
(***************************************************************************)
(* A small instance of Notebooks for TLC.  To the model a session is the   *)
(* kernel it has: one that is reconnected anywhere stands for several.     *)
(***************************************************************************)
EXTENDS Notebooks

CONSTANTS s1, k1, k2, t1, t2

OneSession == {s1}
TwoKernels == {k1, k2}
TwoTexts == {t1, t2}
AnyNames == Permutations(Kernel) \cup Permutations(Text)
=============================================================================
