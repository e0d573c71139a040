----------------------------- MODULE MCDispatch -----------------------------
(* Small instances of Dispatch for TLC.                                    *)
EXTENDS Dispatch

CONSTANTS p1

OnePrincipal == {p1}
=============================================================================
