----------------------------- MODULE MCMigrations -----------------------------
(* Constants for the model-checking runs of Migrations. *)
EXTENDS Migrations, TLC

CONSTANTS server, command, old

\* The command of an earlier release knows the first migration only.
MCSupports == [p \in Procs |-> IF p = old THEN 1 ELSE 2]
=============================================================================
