------------------------------- MODULE MCJobs -------------------------------
(* Small instances of Jobs for TLC.  j1 and j2 are model values.           *)
EXTENDS Jobs

CONSTANTS j1, j2

TwoJobs == {j1, j2}
FirstJob == {j1}
NoJob == {}
=============================================================================
