------------------------------ MODULE SaveFirst ------------------------------
(***************************************************************************)
(* What OmniHook promises about one captured request, whatever runs        *)
(* concurrently: it is stored before anyone hears of it.  The UI           *)
(* announcement, the positive answer to the provider and the delivery to   *)
(* the target each happen at most once, in any order, and only to a        *)
(* request that was stored.                                                *)
(***************************************************************************)
CONSTANT Reqs

VARIABLES
  kept,       \* requests that were stored
  announced,  \* requests the UI was told of
  acked,      \* requests the provider got a mock response or a 429 for
  sent        \* [Reqs -> number of deliveries put on the wire]

Init ==
  /\ kept = {}
  /\ announced = {}
  /\ acked = {}
  /\ sent = [r \in Reqs |-> 0]

Keep(r) ==
  /\ r \notin kept
  /\ kept' = kept \union {r}
  /\ UNCHANGED <<announced, acked, sent>>

Tell(r) ==
  /\ r \in kept \ announced
  /\ announced' = announced \union {r}
  /\ UNCHANGED <<kept, acked, sent>>

Acknowledge(r) ==
  /\ r \in kept \ acked
  /\ acked' = acked \union {r}
  /\ UNCHANGED <<kept, announced, sent>>

Deliver(r) ==
  /\ r \in kept
  /\ sent[r] = 0
  /\ sent' = [sent EXCEPT ![r] = 1]
  /\ UNCHANGED <<kept, announced, acked>>

Next == \E r \in Reqs : Keep(r) \/ Tell(r) \/ Acknowledge(r) \/ Deliver(r)

Spec == Init /\ [][Next]_<<kept, announced, acked, sent>>
=============================================================================
