--------------------------- MODULE SlidingWindow ---------------------------
(***************************************************************************)
(* What a limit of Max requests per Window promises: a principal's request *)
(* is admitted exactly when fewer than Max of those admitted so far lie in *)
(* the closed window that ends now.  This limiter remembers every          *)
(* admission for ever; RateLimiter forgets what has expired and must       *)
(* decide the same.                                                        *)
(***************************************************************************)
EXTENDS Naturals, Sequences, FiniteSets

CONSTANTS Principal, Max, Window

VARIABLES clock, admitted, reply

vars == <<clock, admitted, reply>>

Init == /\ clock = 0
        /\ admitted = [p \in Principal |-> <<>>]
        /\ reply = [p \in Principal |-> "none"]

Recent(p) == Cardinality({i \in DOMAIN admitted[p] : admitted[p][i] + Window >= clock})

Tick == clock' = clock + 1 /\ UNCHANGED <<admitted, reply>>

Admit(p) == /\ Recent(p) < Max
            /\ admitted' = [admitted EXCEPT ![p] = Append(@, clock)]
            /\ reply' = [reply EXCEPT ![p] = "admitted"]
            /\ UNCHANGED clock

Refuse(p) == /\ Recent(p) >= Max
             /\ reply' = [reply EXCEPT ![p] = "refused"]
             /\ UNCHANGED <<clock, admitted>>

Next == Tick \/ \E p \in Principal : Admit(p) \/ Refuse(p)

Safety == Init /\ [][Next]_vars
=============================================================================
