------------------------------- MODULE MCServer -------------------------------
(* Constants for the model-checking runs of Server. *)
EXTENDS Server, TLC

CONSTANTS tApp, tAlias, tSelf, tMeta, s1

App == [parses |-> TRUE, scheme |-> "http", host |-> "localhost", dot |-> FALSE,
        port |-> "3000", hook |-> FALSE]

\* Four targets: an application on another port; this server's own capture
\* URL; the same surface spelled with a trailing dot, which selfTarget does not
\* recognise; a metadata host.
AllUrls ==
  (tApp :> App)
  @@ (tSelf :> [App EXCEPT !.port = "8080", !.hook = TRUE])
  @@ (tAlias :> [App EXCEPT !.port = "8080", !.hook = TRUE, !.dot = TRUE])
  @@ (tMeta :> [App EXCEPT !.host = "169.254.169.254", !.port = ""])

MCUrl == [t \in Targets |-> AllUrls[t]]
MCLands == [t \in Targets |-> IF t \in {tSelf, tAlias} THEN s1 ELSE Elsewhere]

Symmetry == Permutations(Reqs) \union Permutations(Workers)
=============================================================================
