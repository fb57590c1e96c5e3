---------------------------- MODULE MCRateLimit -----------------------------
(* Small instances of RateLimit for TLC.                                   *)
EXTENDS RateLimit, TLC

Symmetry == Permutations(Requests) \cup Permutations(Clients)
=============================================================================
