----------------------------- MODULE MCEndpoints -----------------------------
(* Constants for the model-checking run of Endpoints. *)
EXTENDS Endpoints, TLC

\* Nothing; two fields that belong together; one of them with another; a field
\* of PATCH with one of them.
MCShapes ==
  {{}, {"provider", "secret_ref"}, {"secret_ref", "target_url"},
   {"provider", "response"}}

Symmetry == Permutations(Ops)
=============================================================================
