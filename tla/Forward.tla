------------------------------- MODULE Forward -------------------------------
(***************************************************************************)
(* Automatic forwarding: forward.Service, a bounded queue drained by a     *)
(* fixed pool of workers, and forward.Deliver, what a worker does with a   *)
(* job.  A worker's steps are separate actions wherever another goroutine  *)
(* can run in between: channel receive, SELECT, the HTTP exchange, INSERT. *)
(***************************************************************************)
EXTENDS Storage

CONSTANTS
  Workers,   \* the worker goroutines
  QueueLen,  \* capacity of the queue channel
  NoReq      \* not a request

ASSUME ForwardAssumption ==
  /\ QueueLen \in Nat \ {0}
  /\ NoReq \notin Reqs

VARIABLES
  queue,    \* the buffered channel s.queue
  wpc,      \* where each worker is in work() / Deliver
  wreq,     \* the job a worker holds: its requestID (NoReq if none)
  wtarget,  \* ... and its target
  quit,     \* s.quit is closed
  dropped,  \* s.dropped
  sends     \* history: how often a request was put on the wire

forwardVars == <<queue, wpc, wreq, wtarget, quit, dropped, sends>>

Job == [req : Reqs, target : Targets]

WorkerPCs == {"idle", "load", "send", "await", "exited"}

ForwardTypeOK ==
  /\ queue \in Seq(Job)
  /\ Len(queue) <= QueueLen
  /\ wpc \in [Workers -> WorkerPCs]
  /\ wreq \in [Workers -> Reqs \union {NoReq}]
  /\ wtarget \in [Workers -> Targets \union {NoTarget}]
  /\ quit \in BOOLEAN
  /\ dropped \in Nat
  /\ sends \in [Reqs -> Nat]

ForwardInit ==
  /\ queue = <<>>
  /\ wpc = [w \in Workers |-> "idle"]
  /\ wreq = [w \in Workers |-> NoReq]
  /\ wtarget = [w \in Workers |-> NoTarget]
  /\ quit = FALSE
  /\ dropped = 0
  /\ sends = [r \in Reqs |-> 0]

-----------------------------------------------------------------------------
\* Enqueue, called by a capture handler: three ways to go.

Refuse(r, t) ==
  /\ selfTarget(t)
  /\ record(r, "refused")
  /\ UNCHANGED forwardVars

\* Mutant: the capacity test is off by one.
PushOneMore(r, t) ==
  /\ ~selfTarget(t)
  /\ Len(queue) <= QueueLen
  /\ queue' = Append(queue, [req |-> r, target |-> t])
  /\ UNCHANGED <<wpc, wreq, wtarget, quit, dropped, sends, storageVars>>

Push(r, t) ==
  /\ ~selfTarget(t)
  /\ Len(queue) < QueueLen
  /\ queue' = Append(queue, [req |-> r, target |-> t])
  /\ UNCHANGED <<wpc, wreq, wtarget, quit, dropped, sends, storageVars>>

\* Mutant: no default branch, a full queue blocks the handler.
DropBlocks(r, t) == FALSE

\* The handler records the drop in a later statement.
Drop(r, t) ==
  /\ ~selfTarget(t)
  /\ Len(queue) >= QueueLen
  /\ dropped' = dropped + 1
  /\ UNCHANGED <<queue, wpc, wreq, wtarget, quit, sends, storageVars>>

RecordDrop(r) ==
  /\ record(r, "dropped")
  /\ UNCHANGED forwardVars

-----------------------------------------------------------------------------
\* A worker.  When both channels are ready the select picks either.

Take(w) ==
  /\ wpc[w] = "idle"
  /\ queue # <<>>
  /\ wpc' = [wpc EXCEPT ![w] = "load"]
  /\ wreq' = [wreq EXCEPT ![w] = Head(queue).req]
  /\ wtarget' = [wtarget EXCEPT ![w] = Head(queue).target]
  /\ queue' = Tail(queue)
  /\ UNCHANGED <<quit, dropped, sends, storageVars>>

Quit(w) ==
  /\ wpc[w] = "idle"
  /\ quit
  /\ wpc' = [wpc EXCEPT ![w] = "exited"]
  /\ UNCHANGED <<queue, wreq, wtarget, quit, dropped, sends, storageVars>>

\* Mutant: the worker returns from work() with its first job.
ReleaseQuits(w) ==
  /\ wpc' = [wpc EXCEPT ![w] = "exited"]
  /\ wreq' = [wreq EXCEPT ![w] = NoReq]
  /\ wtarget' = [wtarget EXCEPT ![w] = NoTarget]

\* Deliver returned: the worker is back at its select.
Release(w) ==
  /\ wpc' = [wpc EXCEPT ![w] = "idle"]
  /\ wreq' = [wreq EXCEPT ![w] = NoReq]
  /\ wtarget' = [wtarget EXCEPT ![w] = NoTarget]

RefuseBlocked(w) ==
  /\ wpc[w] = "load"
  /\ Blocked(wtarget[w])
  /\ record(wreq[w], "blocked")
  /\ Release(w)
  /\ UNCHANGED <<queue, quit, dropped, sends>>

\* Mutant: Deliver trusts the stored target.
LoadUnchecked(w) ==
  /\ wpc[w] = "load"
  /\ dbOpen
  /\ requests[wreq[w]] # NoRow
  /\ wpc' = [wpc EXCEPT ![w] = "send"]
  /\ UNCHANGED <<queue, wreq, wtarget, quit, dropped, sends, storageVars>>

Load(w) ==
  /\ wpc[w] = "load"
  /\ ~Blocked(wtarget[w])
  /\ dbOpen
  /\ requests[wreq[w]] # NoRow
  /\ wpc' = [wpc EXCEPT ![w] = "send"]
  /\ UNCHANGED <<queue, wreq, wtarget, quit, dropped, sends, storageVars>>

\* Missing row or failed SELECT: Deliver returns and records nothing.
LoadFails(w) ==
  /\ wpc[w] = "load"
  /\ ~Blocked(wtarget[w])
  /\ \/ /\ dbOpen
        /\ requests[wreq[w]] = NoRow
        /\ UNCHANGED unrecorded
     \/ /\ CanFail
        /\ unrecorded' = unrecorded \union {wreq[w]}
  /\ Release(w)
  /\ UNCHANGED <<queue, quit, dropped, sends, endpoints, requests, replays, dbOpen>>

\* client.Do fails before the request leaves (dial, DNS, resolved address).
SendFails(w) ==
  /\ wpc[w] = "send"
  /\ record(wreq[w], "error")
  /\ Release(w)
  /\ UNCHANGED <<queue, quit, dropped, sends>>

\* client.Do puts the marked request on the wire.
Send(w) ==
  /\ wpc[w] = "send"
  /\ wpc' = [wpc EXCEPT ![w] = "await"]
  /\ sends' = [sends EXCEPT ![wreq[w]] = @ + 1]
  /\ UNCHANGED <<queue, wreq, wtarget, quit, dropped, storageVars>>

\* Mutant: an error is retried although the request may have arrived.
FinishRetries(w, outcome) ==
  /\ wpc[w] = "await"
  /\ IF outcome = "error"
     THEN wpc' = [wpc EXCEPT ![w] = "send"] /\ UNCHANGED <<wreq, wtarget, storageVars>>
     ELSE record(wreq[w], outcome) /\ Release(w)
  /\ UNCHANGED <<queue, quit, dropped, sends>>

\* client.Do returned: a response ("status"), or an error such as the timeout.
Finish(w, outcome) ==
  /\ wpc[w] = "await"
  /\ record(wreq[w], outcome)
  /\ Release(w)
  /\ UNCHANGED <<queue, quit, dropped, sends>>

Queued == {queue[i].req : i \in DOMAIN queue}

InFlight == {wreq[w] : w \in Workers} \ {NoReq}
=============================================================================
