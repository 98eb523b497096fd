------------------------------- MODULE Capture -------------------------------
(***************************************************************************)
(* The capture endpoint: one goroutine per arrival runs ServeHook.  Each   *)
(* SQL statement, the broadcast, the queue operation and the answer is a   *)
(* step of its own, so the handlers of several arrivals, the workers and   *)
(* the API interleave between any two of them.                             *)
(*                                                                         *)
(* Everything the handler knows of the endpoint it learned in Lookup:      *)
(* target is that snapshot, and it is never read again.                    *)
(***************************************************************************)
EXTENDS Forward

VARIABLES
  pc,         \* where the handler of a request is in ServeHook
  slug,       \* the slug in its path
  marked,     \* forward.Marked(r.Header)
  strips,     \* its Connection header names the marker of a delivery
  parent,     \* the captured request whose delivery this arrival is, or NoReq
  target,     \* the target_url snapshot
  reply,      \* the answer given
  saved,      \* history: requests whose INSERT succeeded
  announced   \* history: requests handed to Hub.Broadcast

captureVars == <<pc, slug, marked, strips, parent, target, reply, saved, announced>>

CapturePCs ==
  {"idle", "lookup", "create", "body", "announce", "enqueue", "drop",
   "gate", "done"}

Replies == {"none", "400", "413", "429", "503", "mock"}

CaptureTypeOK ==
  /\ pc \in [Reqs -> CapturePCs]
  /\ slug \in [Reqs -> Slugs \union {NoRow}]
  /\ marked \in [Reqs -> BOOLEAN]
  /\ strips \in [Reqs -> BOOLEAN]
  /\ parent \in [Reqs -> Reqs \union {NoReq}]
  /\ target \in [Reqs -> Targets \union {NoTarget}]
  /\ reply \in [Reqs -> Replies]
  /\ saved \subseteq Reqs
  /\ announced \subseteq Reqs

CaptureInit ==
  /\ pc = [r \in Reqs |-> "idle"]
  /\ slug = [r \in Reqs |-> NoRow]
  /\ marked = [r \in Reqs |-> FALSE]
  /\ strips = [r \in Reqs |-> FALSE]
  /\ parent = [r \in Reqs |-> NoReq]
  /\ target = [r \in Reqs |-> NoTarget]
  /\ reply = [r \in Reqs |-> "none"]
  /\ saved = {}
  /\ announced = {}

\* The handler moves on, or answers.
Goto(r, label) == pc' = [pc EXCEPT ![r] = label]

Answer(r, code) ==
  /\ Goto(r, "done")
  /\ reply' = [reply EXCEPT ![r] = code]

-----------------------------------------------------------------------------
\* An unused request identity becomes an arrival on /hook/s.
Arrive(r, s, mark, hop, p) ==
  /\ pc[r] = "idle"
  /\ Goto(r, "lookup")
  /\ slug' = [slug EXCEPT ![r] = s]
  /\ marked' = [marked EXCEPT ![r] = mark]
  /\ strips' = [strips EXCEPT ![r] = hop]
  /\ parent' = [parent EXCEPT ![r] = p]
  /\ UNCHANGED <<target, reply, saved, announced>>

\* Missing or malformed slug: answered before the database is touched.
RejectPath(r) ==
  /\ pc[r] = "lookup"
  /\ Answer(r, "400")
  /\ UNCHANGED <<slug, marked, strips, parent, target, saved, announced, forwardVars, storageVars>>

\* SELECT ... FROM endpoints WHERE slug=?
Lookup(r) ==
  /\ pc[r] = "lookup"
  /\ dbOpen
  /\ \/ /\ endpoints[slug[r]] # NoRow
        /\ target' = [target EXCEPT ![r] = endpoints[slug[r]]]
        /\ Goto(r, "body")
     \/ /\ endpoints[slug[r]] = NoRow
        /\ Goto(r, "create")
        /\ UNCHANGED target
  /\ UNCHANGED <<slug, marked, strips, parent, reply, saved, announced, forwardVars, storageVars>>

\* The auto-created endpoint is taken to have the default columns, even when
\* INSERT OR IGNORE met a row somebody else created since the SELECT.
AutoCreate(r) ==
  /\ pc[r] = "create"
  /\ InsertEndpoint(slug[r])
  /\ target' = [target EXCEPT ![r] = NoTarget]
  /\ Goto(r, "body")
  /\ UNCHANGED <<slug, marked, strips, parent, reply, saved, announced, forwardVars>>

\* A failed SELECT, INSERT OR IGNORE or INSERT is answered 503.
Unavailable(r) ==
  /\ \/ pc[r] \in {"lookup", "create"} /\ CanFail /\ UNCHANGED storageVars
     \/ pc[r] = "body" /\ InsertRequestFails(slug[r])
  /\ Answer(r, "503")
  /\ UNCHANGED <<slug, marked, strips, parent, target, saved, announced, forwardVars>>

\* Interrupted upload (400) or more than MAX_BODY_BYTES (413): nothing kept.
RejectBody(r) ==
  /\ pc[r] = "body"
  /\ \E code \in {"400", "413"} : Answer(r, code)
  /\ UNCHANGED <<slug, marked, strips, parent, target, saved, announced, forwardVars, storageVars>>

\* Mutant: the error of the INSERT is ignored.
SaveUnchecked(r) ==
  /\ pc[r] = "body"
  /\ \/ InsertRequest(r, slug[r]) /\ saved' = saved \union {r}
     \/ InsertRequestFails(slug[r]) /\ UNCHANGED saved
  /\ Goto(r, "announce")
  /\ UNCHANGED <<slug, marked, strips, parent, target, reply, announced, forwardVars>>

\* The body was read in full; INSERT INTO requests.
Save(r) ==
  /\ pc[r] = "body"
  /\ InsertRequest(r, slug[r])
  /\ saved' = saved \union {r}
  /\ Goto(r, "announce")
  /\ UNCHANGED <<slug, marked, strips, parent, target, reply, announced, forwardVars>>

\* Mutant: the loop breaker is missing.
ForwardsMarked(r) == target[r] # NoTarget

\* The guard of Forwarder.Enqueue.
Forwards(r) == target[r] # NoTarget /\ ~marked[r]

Announce(r) ==
  /\ pc[r] = "announce"
  /\ announced' = announced \union {r}
  /\ Goto(r, IF Forwards(r) THEN "enqueue" ELSE "gate")
  /\ UNCHANGED <<slug, marked, strips, parent, target, reply, saved, forwardVars, storageVars>>

\* Mutant: a full queue is only counted.
EnqueueSilently(r) ==
  /\ pc[r] = "enqueue"
  /\ Refuse(r, target[r]) \/ Push(r, target[r]) \/ Drop(r, target[r])
  /\ Goto(r, "gate")
  /\ UNCHANGED <<slug, marked, strips, parent, target, reply, saved, announced>>

\* Mutant: no return after the send, the drop is recorded as well.
EnqueueFallsThrough(r) ==
  /\ pc[r] = "enqueue"
  /\ \/ Refuse(r, target[r]) /\ Goto(r, "gate")
     \/ Push(r, target[r]) /\ Goto(r, "drop")
     \/ Drop(r, target[r]) /\ Goto(r, "drop")
  /\ UNCHANGED <<slug, marked, strips, parent, target, reply, saved, announced>>

Enqueue(r) ==
  /\ pc[r] = "enqueue"
  /\ \/ Refuse(r, target[r]) /\ Goto(r, "gate")
     \/ Push(r, target[r]) /\ Goto(r, "gate")
     \/ Drop(r, target[r]) /\ Goto(r, "drop")
  /\ UNCHANGED <<slug, marked, strips, parent, target, reply, saved, announced>>

EnqueueDropped(r) ==
  /\ pc[r] = "drop"
  /\ RecordDrop(r)
  /\ Goto(r, "gate")
  /\ UNCHANGED <<slug, marked, strips, parent, target, reply, saved, announced>>

\* The rate limiter decides between 429 and the mock response (RateLimit).
Gate(r) ==
  /\ pc[r] = "gate"
  /\ \E code \in {"429", "mock"} : Answer(r, code)
  /\ UNCHANGED <<slug, marked, strips, parent, target, saved, announced, forwardVars, storageVars>>

HandlerStep(r) ==
  \/ RejectPath(r) \/ Lookup(r) \/ AutoCreate(r) \/ Unavailable(r)
  \/ RejectBody(r) \/ Save(r) \/ Announce(r) \/ Enqueue(r)
  \/ EnqueueDropped(r) \/ Gate(r)
=============================================================================
