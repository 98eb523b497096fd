-------------------------------- MODULE Server --------------------------------
(***************************************************************************)
(* The running process: capture handlers, forward workers and management   *)
(* requests on one database, and the life of the process from the first    *)
(* arrival to its exit (runServe).  Timeouts are nondeterministic: each    *)
(* may strike at any point where the code waits with one.                  *)
(***************************************************************************)
EXTENDS Capture

CONSTANTS
  Elsewhere,  \* not a slug of this server
  Marks,      \* bound: which values of Marked arriving requests have
  Hops,       \* bound: may their Connection header name the marker?
  Lands       \* [Targets -> slug of this server a delivery reaches, or Elsewhere]

ASSUME ServerAssumption ==
  /\ Elsewhere \notin Slugs
  /\ Marks \subseteq BOOLEAN
  /\ Hops \subseteq BOOLEAN
  /\ Lands \in [Targets -> Slugs \union {Elsewhere}]

VARIABLES
  phase,  \* where runServe is
  clean   \* history: no timeout cut the shutdown short, the listener never failed

vars == <<storageVars, forwardVars, captureVars, phase, clean>>

Phases == {"up", "shutdown", "drain", "wait", "closed", "exited"}

TypeOK ==
  /\ StorageTypeOK
  /\ ForwardTypeOK
  /\ CaptureTypeOK
  /\ phase \in Phases
  /\ clean \in BOOLEAN

Init ==
  /\ StorageInit
  /\ ForwardInit
  /\ CaptureInit
  /\ phase = "up"
  /\ clean = TRUE

-----------------------------------------------------------------------------
\* A request reaches its handler.  While Shutdown waits, connections accepted
\* before the signal may still deliver one.
Accepting == phase \in {"up", "shutdown"}

\* A provider's request.  It may carry OmniHook's own marker: a replay into
\* the capture surface does.  It may also declare that header to be one of its
\* connection, or any other.
Receive(r) ==
  /\ Accepting
  /\ \E s \in Slugs, mark \in Marks, hop \in Hops : Arrive(r, s, mark, hop, NoReq)
  /\ UNCHANGED <<storageVars, forwardVars, phase, clean>>

Handle(r) ==
  /\ phase # "exited"
  /\ HandlerStep(r)
  /\ UNCHANGED <<phase, clean>>

\* The worker's local steps and statements.
Work(w) ==
  /\ Take(w) \/ Quit(w) \/ RefuseBlocked(w) \/ Load(w) \/ LoadFails(w) \/ SendFails(w)
  /\ UNCHANGED captureVars

SendAway(w) ==
  /\ wpc[w] = "send"
  /\ Lands[wtarget[w]] = Elsewhere
  /\ Send(w)
  /\ UNCHANGED captureVars

\* Mutant: Connection itself is not taken off the delivery.
SendBackKeepsConnection(w) ==
  /\ Accepting
  /\ wpc[w] = "send"
  /\ Lands[wtarget[w]] # Elsewhere
  /\ \E r \in Reqs :
       Arrive(r, Lands[wtarget[w]], ~strips[wreq[w]], strips[wreq[w]], wreq[w])
  /\ Send(w)

\* The target is this server under a name selfTarget does not know: the
\* delivery is a new arrival.  Deliver marked it, and StripHopByHop then took
\* off what the stored Connection header names, and that header itself.
SendBack(w) ==
  /\ Accepting
  /\ wpc[w] = "send"
  /\ Lands[wtarget[w]] # Elsewhere
  /\ \E r \in Reqs : Arrive(r, Lands[wtarget[w]], ~strips[wreq[w]], FALSE, wreq[w])
  /\ Send(w)

Responded(w) ==
  /\ wpc[w] = "await"
  /\ Lands[wtarget[w]] # Elsewhere =>
       \E r \in Reqs : parent[r] = wreq[w] /\ pc[r] = "done"
  /\ Finish(w, "status")
  /\ UNCHANGED captureVars

\* The client's 10 second timeout, or a connection cut short.
NoResponse(w) ==
  /\ Finish(w, "error")
  /\ UNCHANGED captureVars

WorkerStep(w) ==
  /\ phase # "exited"
  /\ Work(w) \/ SendAway(w) \/ SendBack(w) \/ Responded(w) \/ NoResponse(w)
  /\ UNCHANGED <<phase, clean>>

-----------------------------------------------------------------------------
\* Management requests, one statement each: the statements of POST and PATCH
\* /api/endpoints, and the three DELETE operations; and the hourly gc.
Manage ==
  /\ phase \notin {"closed", "exited"}
  /\ \/ \E s \in Slugs :
          \/ InsertEndpoint(s)
          \/ \E t \in Targets \union {NoTarget} : UpdateTarget(s, t)
          \/ DeleteEndpoint(s)
          \/ DeleteRequests(s)
     \/ \E r \in Reqs : DeleteRequest(r)
     \/ \E S \in SUBSET {r \in Reqs : requests[r] # NoRow} : ExpireRequests(S)
  /\ UNCHANGED <<forwardVars, captureVars, phase, clean>>

-----------------------------------------------------------------------------
\* SIGINT or SIGTERM: Shutdown closes the listener.
Signal ==
  /\ phase = "up"
  /\ phase' = "shutdown"
  /\ UNCHANGED <<storageVars, forwardVars, captureVars, clean>>

Handling == {r \in Reqs : pc[r] \notin {"idle", "done"}}

\* http.Server.Shutdown returns: no handler is running, or 10 seconds passed.
ShutdownReturns ==
  /\ phase = "shutdown"
  /\ phase' = "drain"
  /\ \/ Handling = {} /\ UNCHANGED clean
     \/ clean' = FALSE
  /\ UNCHANGED <<storageVars, forwardVars, captureVars>>

\* Mutant: Stop does not wait for the queue to drain.
CloseQuitAtOnce ==
  /\ phase = "drain"
  /\ phase' = "wait"
  /\ quit' = TRUE
  /\ UNCHANGED <<clean, storageVars, captureVars, queue, wpc, wreq, wtarget, dropped, sends>>

\* Service.Stop: the queue was seen empty, or 5 seconds passed; close(quit).
CloseQuit ==
  /\ phase = "drain"
  /\ phase' = "wait"
  /\ quit' = TRUE
  /\ \/ queue = <<>> /\ UNCHANGED clean
     \/ queue # <<>> /\ clean' = FALSE
  /\ UNCHANGED <<storageVars, captureVars, queue, wpc, wreq, wtarget, dropped, sends>>

\* Mutant: the second wait of Stop has no timeout.
CloseStorageWaits ==
  /\ phase = "wait"
  /\ \A w \in Workers : wpc[w] = "exited"
  /\ phase' = "closed"
  /\ dbOpen' = FALSE
  /\ UNCHANGED <<clean, endpoints, requests, replays, unrecorded, forwardVars, captureVars>>

\* Service.Stop returns: every worker is gone, or 5 seconds passed.  Then
\* sqldb.Close.
CloseStorage ==
  /\ phase = "wait"
  /\ phase' = "closed"
  /\ dbOpen' = FALSE
  /\ \/ (\A w \in Workers : wpc[w] = "exited") /\ UNCHANGED clean
     \/ (\E w \in Workers : wpc[w] # "exited") /\ clean' = FALSE
  /\ UNCHANGED <<endpoints, requests, replays, unrecorded, forwardVars, captureVars>>

\* ListenAndServe returned an error: storage is closed, nothing is drained.
ListenFails ==
  /\ phase = "up"
  /\ phase' = "closed"
  /\ dbOpen' = FALSE
  /\ clean' = FALSE
  /\ UNCHANGED <<endpoints, requests, replays, unrecorded, forwardVars, captureVars>>

\* runServe returns and the process is gone, whatever still ran in it.
Exit ==
  /\ phase = "closed"
  /\ phase' = "exited"
  /\ UNCHANGED <<storageVars, forwardVars, captureVars, clean>>

Main == ShutdownReturns \/ CloseQuit \/ CloseStorage \/ Exit

Next ==
  \/ \E r \in Reqs : Receive(r) \/ Handle(r)
  \/ \E w \in Workers : WorkerStep(w)
  \/ Manage
  \/ Signal \/ Main \/ ListenFails

Spec == Init /\ [][Next]_vars

-----------------------------------------------------------------------------
(* Fairness.  A handler's every step ends: the body read by ReadTimeout, a  *)
(* statement by busy_timeout.  A worker's every step ends: the exchange by  *)
(* the client timeout.  runServe's waits all have a deadline.               *)

HandlerFairness == \A r \in Reqs : WF_vars(Handle(r))
WorkerFairness == \A w \in Workers : WF_vars(WorkerStep(w))
MainFairness == WF_vars(Main)

\* Only runServe is scheduled.
MainSpec == Spec /\ MainFairness

-----------------------------------------------------------------------------
\* A stored capture whose handler must hand it to the forwarder.
Owed == {r \in saved : Forwards(r)}

\* Somebody still holds it and will deal with it.
Held(r) ==
  pc[r] \in {"announce", "enqueue", "drop"} \/ r \in Queued \union InFlight

Settled(r) == replays[r] # <<>>
Erased(r) == requests[r] = NoRow

\* No owed capture vanishes while the process runs: at every moment it is in
\* a handler's hand, in the queue or with a worker, or its outcome is in
\* replays, unless the user deleted it or the database refused the record.
Accounted ==
  phase # "exited" =>
    \A r \in Owed : Held(r) \/ Settled(r) \/ Erased(r) \/ r \in unrecorded

\* The answer and the table agree: a mock response or a 429 is given only for
\* a stored capture, and 400, 413 and 503 only for one that was not stored.
AnswerAgrees ==
  \A r \in Reqs :
    /\ reply[r] \in {"mock", "429"} => r \in saved
    /\ reply[r] \in {"400", "413", "503"} => r \notin saved

\* What replays says of a capture is what happened on the wire: one row at
\* most, a refusal, drop or block never hides a delivery, and a status
\* stands for exactly one.
RecordAgrees ==
  \A r \in Reqs :
    /\ Len(replays[r]) <= 1
    /\ sends[r] <= 1
    /\ Settled(r) =>
         /\ replays[r][1] \in {"refused", "dropped", "blocked"} => sends[r] = 0
         /\ replays[r][1] = "status" => sends[r] = 1

\* Deliveries come to an end, under whatever name the target reached this
\* server: an arrival that is itself a delivery of a capture is stored but goes
\* no further, unless the captured request's own Connection header took the
\* marker off; and then it is the first of its chain, so that what it causes
\* goes no further.
LoopBounded ==
  \A r \in Reqs : parent[r] # NoReq =>
    /\ marked[r] => sends[r] = 0 /\ replays[r] = <<>>
    /\ marked[r] \/ (strips[parent[r]] /\ parent[parent[r]] = NoReq)

\* A worker never puts a capture on the wire towards a blocked or self target.
PolicyHolds ==
  \A w \in Workers :
    wpc[w] \in {"send", "await"} => ~Blocked(wtarget[w]) /\ ~selfTarget(wtarget[w])

\* If no deadline cut the shutdown short and no statement failed, then at exit
\* every owed capture has its outcome recorded or was deleted by the user.
CleanShutdownAccounts ==
  (phase = "exited" /\ clean /\ ~Faulty) =>
    \A r \in Owed : Settled(r) \/ Erased(r)

\* main.go: "Drain bounded forwarding before closing storage, so acknowledged
\* captures are not lost between forward and record."  quit says that the
\* process stopped this way; a capture that was sent has left a record.
AcknowledgedNotLost ==
  (phase = "exited" /\ quit /\ ~Faulty) =>
    \A r \in Owed :
      reply[r] \in {"mock", "429"} /\ sends[r] = 1 => Settled(r) \/ Erased(r)

\* The capture path never waits for a delivery: every accepted arrival is
\* answered although the workers may hang (while the process lives).
CaptureAnswered ==
  HandlerFairness =>
    \A r \in Reqs :
      (pc[r] # "idle") ~> (pc[r] = "done" \/ phase = "exited")

\* A shutdown ends although handlers and workers may hang.
ShutdownEnds == (phase # "up") ~> (phase = "exited")

\* A queued capture gets an outcome, is deleted, or the server is stopping,
\* as long as the workers are scheduled.
ForwardSettles ==
  WorkerFairness =>
    \A r \in Reqs :
      (r \in Queued) ~>
        (Settled(r) \/ Erased(r) \/ r \in unrecorded \/ phase # "up")

-----------------------------------------------------------------------------
\* The promise of SaveFirst, seen through the state of this process.
Promise == INSTANCE SaveFirst WITH
  kept <- saved,
  announced <- announced,
  acked <- {r \in Reqs : reply[r] \in {"mock", "429"}},
  sent <- sends

SavesFirst == Promise!Spec
=============================================================================
