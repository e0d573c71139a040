--------------------------- MODULE MCKernelClient ---------------------------
(* Small instances of KernelClient for TLC.                                *)
EXTENDS KernelClient

CONSTANTS c1, c2

TwoCallers == {c1, c2}
=============================================================================
