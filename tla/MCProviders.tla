---------------------------- MODULE MCProviders -----------------------------
(* Providers with three connects: one that replaces a backend another one  *)
(* replaced.                                                               *)
EXTENDS Providers
=============================================================================
