------------------------------- MODULE MCInbox -------------------------------
(* Constants for the model-checking runs of Inbox. *)
EXTENDS Inbox, TLC

CONSTANT s1

MCSlugOf == [r \in Reqs |-> s1]

\* A UI without streams, and two older pages.
Pager ==
  [live |-> FALSE, pool |-> 2, reqs |-> {1, 2, 3}, faults |-> 0, pages |-> TRUE,
   ordered |-> FALSE]

\* The same with a failure, and UIs with streams: with connections to spare,
\* and with as many connections as streams.
Failing == [Pager EXCEPT !.reqs = {1, 2}, !.faults = 1]
Streaming == [Failing EXCEPT !.live = TRUE, !.pages = FALSE]
Exhausted == [Streaming EXCEPT !.pool = 1, !.faults = 0, !.reqs = {1}]

MCWorlds == {Pager, Failing, Streaming, Exhausted}
MCGap == {[Pager EXCEPT !.ordered = TRUE]}
=============================================================================
