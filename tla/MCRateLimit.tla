----------------------------- MODULE MCRateLimit -----------------------------
(* Constants for the model-checking runs of RateLimit. *)
EXTENDS RateLimit, TLC

Symmetry == Permutations(IPs) \union Permutations(Callers)
=============================================================================
