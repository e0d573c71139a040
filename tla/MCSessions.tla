----------------------------- MODULE MCSessions -----------------------------
(* Small instances of Sessions for TLC.                                    *)
EXTENDS Sessions

CONSTANTS s1, s2, b1, b2, w1

OneSession == {s1}
TwoSessions == {s1, s2}
TwoBackends == {b1, b2}
NoWorker == {}
OneWorker == {w1}
=============================================================================
