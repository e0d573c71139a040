----------------------------- MODULE MCTraining -----------------------------
(* A small instance of Training for TLC: two jobs on one session.          *)
EXTENDS Training

CONSTANTS j1, j2, loop

TwoJobs == {j1, j2}
OneJob == {j1}
NoJob == {}
=============================================================================
