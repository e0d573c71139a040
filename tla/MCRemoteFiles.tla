--------------------------- MODULE MCRemoteFiles ---------------------------
(* A small instance of RemoteFiles for TLC.                                *)
EXTENDS RemoteFiles, TLC

CONSTANTS s1, k1, k2, p1, p2, short, long

OneSession == {s1}
TwoKernels == {k1, k2}
TwoPaths == {p1, p2}
Texts == {short, long}
LongTexts == {long}
AnyNames == Permutations(TwoKernels) \cup Permutations(TwoPaths)
=============================================================================
