----------------------------- MODULE ServerProofs -----------------------------
(***************************************************************************)
(* What holds of the server for any number of requests, slugs, targets and *)
(* workers, any queue length, with or without storage faults.              *)
(***************************************************************************)
EXTENDS Server, TLAPS

\* Taken together: the assumptions on the constants the proofs use.
LEMMA Constants ==
  /\ QueueLen \in Nat \ {0}
  /\ NoReq \notin Reqs
  /\ NoRow \notin Slugs
  /\ NoTarget \notin Targets
  /\ Lands \in [Targets -> Slugs \union {Elsewhere}]
  /\ Marks \subseteq BOOLEAN
  /\ Hops \subseteq BOOLEAN
BY ForwardAssumption, StorageAssumption, ServerAssumption

-----------------------------------------------------------------------------
(* The inductive invariant. *)

Early == {"idle", "lookup", "create", "body"}

\* What a handler knows at each of its labels.
HandlerInv ==
  \A r \in Reqs :
    /\ pc[r] # "idle" => slug[r] \in Slugs
    /\ pc[r] \in Early => r \notin saved /\ r \notin announced
    /\ pc[r] \in {"announce", "enqueue", "drop", "gate"} => r \in saved
    /\ pc[r] = "announce" => r \notin announced
    /\ pc[r] \in {"enqueue", "drop"} => Forwards(r)
    /\ pc[r] # "done" => reply[r] = "none"
    /\ reply[r] \in {"mock", "429"} => r \in saved
    /\ reply[r] \in {"400", "413", "503"} => r \notin saved

\* The handler of r has been through Enqueue.  Once true, always true.
Passed(r) == r \in saved /\ Forwards(r) /\ pc[r] \in {"gate", "done"}

\* Before that nothing was sent or recorded for r.
FreshInv ==
  \A r \in Reqs : ~Passed(r) => sends[r] = 0 /\ replays[r] = <<>>

\* A job in the queue was passed on by its handler and nobody touched it yet.
QueueInv ==
  /\ \A i \in 1 .. Len(queue) :
       /\ Passed(queue[i].req)
       /\ sends[queue[i].req] = 0
       /\ replays[queue[i].req] = <<>>
       /\ ~selfTarget(queue[i].target)
  /\ \A i, j \in 1 .. Len(queue) : queue[i].req = queue[j].req => i = j

Busy == {"load", "send", "await"}

\* A worker is alone with its job, and knows whether it was sent.
WorkerInv ==
  \A w \in Workers :
    /\ wpc[w] \notin Busy => wreq[w] = NoReq
    /\ wpc[w] \in Busy =>
         /\ wreq[w] \in Reqs
         /\ wtarget[w] \in Targets
         /\ Passed(wreq[w])
         /\ replays[wreq[w]] = <<>>
         /\ sends[wreq[w]] = IF wpc[w] = "await" THEN 1 ELSE 0
         /\ ~selfTarget(wtarget[w])
         /\ wpc[w] # "load" => ~Blocked(wtarget[w])
         /\ \A i \in 1 .. Len(queue) : queue[i].req # wreq[w]
         /\ \A v \in Workers : v # w => wreq[v] # wreq[w]

\* Every owed capture is somewhere.
AccountInv ==
  \A r \in Owed : Held(r) \/ Settled(r) \/ Erased(r) \/ r \in unrecorded

\* How far an orderly shutdown has come.
StopInv ==
  /\ dbOpen = (phase \notin {"closed", "exited"})
  /\ clean /\ phase \notin {"up", "shutdown"} => Handling = {}
  /\ clean /\ phase \in {"wait", "closed", "exited"} => queue = <<>>
  /\ clean /\ phase \in {"closed", "exited"} =>
       \A w \in Workers : wpc[w] = "exited"
  /\ ~Faulty /\ (dbOpen \/ clean) => unrecorded = {}

Inv ==
  /\ TypeOK /\ HandlerInv /\ FreshInv /\ QueueInv /\ WorkerInv
  /\ RecordAgrees /\ AccountInv /\ StopInv

-----------------------------------------------------------------------------
(* Types.  One lemma for each group of variables. *)

LEMMA RecordType ==
  ASSUME StorageTypeOK, NEW r \in Reqs, NEW outcome \in Outcomes, record(r, outcome)
  PROVE  StorageTypeOK'
<1>1. endpoints' = endpoints /\ requests' = requests /\ dbOpen' = dbOpen
  BY DEF record, storageVars
<1>2. replays' \in [Reqs -> Seq(Outcomes)]
  <2>1. CASE replays' = replays
    BY <2>1 DEF StorageTypeOK
  <2>2. CASE replays' = [replays EXCEPT ![r] = Append(@, outcome)]
    <3>1. replays[r] \in Seq(Outcomes)
      BY DEF StorageTypeOK
    <3>2. Append(replays[r], outcome) \in Seq(Outcomes)
      BY <3>1
    <3> QED
      BY <2>2, <3>2 DEF StorageTypeOK
  <2> QED
    BY <2>1, <2>2 DEF record, storageVars
<1>3. unrecorded' \subseteq Reqs
  BY DEF record, storageVars, StorageTypeOK
<1> QED
  BY <1>1, <1>2, <1>3 DEF StorageTypeOK

LEMMA EraseType ==
  ASSUME StorageTypeOK, NEW S \in SUBSET Reqs, Erase(S)
  PROVE  /\ requests' \in [Reqs -> Slugs \union {NoRow}]
         /\ replays' \in [Reqs -> Seq(Outcomes)]
<1>1. <<>> \in Seq(Outcomes)
  OBVIOUS
<1> QED
  BY <1>1 DEF Erase, StorageTypeOK

LEMMA ManageType == StorageTypeOK /\ Manage => StorageTypeOK'
<1> SUFFICES ASSUME StorageTypeOK, Manage PROVE StorageTypeOK'
  OBVIOUS
<1>1. ASSUME NEW s \in Slugs, InsertEndpoint(s) PROVE StorageTypeOK'
  BY <1>1 DEF InsertEndpoint, StorageTypeOK
<1>2. ASSUME NEW s \in Slugs, NEW t \in Targets \union {NoTarget}, UpdateTarget(s, t)
      PROVE StorageTypeOK'
  BY <1>2 DEF UpdateTarget, StorageTypeOK
<1>3. ASSUME NEW s \in Slugs, DeleteEndpoint(s) PROVE StorageTypeOK'
  <2>1. Erase(RequestsOf(s)) /\ RequestsOf(s) \in SUBSET Reqs
    BY <1>3 DEF DeleteEndpoint, RequestsOf
  <2> QED
    BY <1>3, <2>1, EraseType DEF DeleteEndpoint, StorageTypeOK
<1>4. ASSUME NEW s \in Slugs, DeleteRequests(s) PROVE StorageTypeOK'
  <2>1. Erase(RequestsOf(s)) /\ RequestsOf(s) \in SUBSET Reqs
    BY <1>4 DEF DeleteRequests, RequestsOf
  <2> QED
    BY <1>4, <2>1, EraseType DEF DeleteRequests, StorageTypeOK
<1>5. ASSUME NEW r \in Reqs, DeleteRequest(r) PROVE StorageTypeOK'
  <2>1. Erase({r}) /\ {r} \in SUBSET Reqs
    BY <1>5 DEF DeleteRequest
  <2> QED
    BY <1>5, <2>1, EraseType DEF DeleteRequest, StorageTypeOK
<1>6. ASSUME NEW S \in SUBSET {r \in Reqs : requests[r] # NoRow}, ExpireRequests(S)
      PROVE StorageTypeOK'
  <2>1. Erase(S) /\ S \in SUBSET Reqs
    BY <1>6 DEF ExpireRequests
  <2> QED
    BY <1>6, <2>1, EraseType DEF ExpireRequests, StorageTypeOK
<1> QED
  BY <1>1, <1>2, <1>3, <1>4, <1>5, <1>6 DEF Manage

LEMMA ReleaseType ==
  ASSUME ForwardTypeOK, NEW w \in Workers, Release(w),
         UNCHANGED <<queue, quit, dropped, sends>>
  PROVE  ForwardTypeOK'
BY DEF Release, ForwardTypeOK, WorkerPCs

LEMMA ArriveType ==
  ASSUME CaptureTypeOK, NEW r \in Reqs, NEW s \in Slugs, NEW mark \in BOOLEAN,
         NEW hop \in BOOLEAN, NEW p \in Reqs \union {NoReq}, Arrive(r, s, mark, hop, p)
  PROVE  CaptureTypeOK'
BY DEF Arrive, Goto, CaptureTypeOK, CapturePCs

-----------------------------------------------------------------------------
(* Steps that leave the forwarder alone: the handlers' own statements and   *)
(* the management operations.                                               *)

\* What the queue holds are jobs.
LEMMA QueuedJobs ==
  ASSUME ForwardTypeOK PROVE \A i \in 1 .. Len(queue) : queue[i] \in Job
<1>1. queue \in Seq(Job)
  BY DEF ForwardTypeOK
<1> QED
  BY <1>1

LEMMA Quiet ==
  ASSUME Inv, UNCHANGED <<queue, wpc, wreq, wtarget, sends>>,
         \A q \in Reqs : replays'[q] = replays[q] \/ replays'[q] = <<>>,
         \A q \in Reqs : Passed(q)' <=> Passed(q)
  PROVE  FreshInv' /\ QueueInv' /\ WorkerInv' /\ RecordAgrees'
<1>1. \A i \in 1 .. Len(queue) : queue[i].req \in Reqs
  BY QueuedJobs DEF Inv, TypeOK, Job
<1>2. FreshInv'
  BY DEF Inv, FreshInv
<1>3. QueueInv'
  BY <1>1 DEF Inv, QueueInv
<1>4. WorkerInv'
  BY DEF Inv, WorkerInv
<1>5. RecordAgrees'
  BY DEF Inv, RecordAgrees, Settled
<1> QED
  BY <1>2, <1>3, <1>4, <1>5

\* A handler that is at work keeps the shutdown from being orderly so far.
LEMMA HandlerStop ==
  ASSUME Inv, NEW r \in Reqs, pc[r] \notin {"idle", "done"},
         UNCHANGED <<dbOpen, phase, clean>>,
         unrecorded' = unrecorded \/ CanFail
  PROVE  StopInv'
<1>1. Handling # {}
  BY DEF Handling
<1>2. clean => phase \in {"up", "shutdown"}
  BY <1>1 DEF Inv, StopInv
<1>3. ~Faulty /\ dbOpen => unrecorded' = {}
  BY DEF Inv, StopInv, CanFail
<1> QED
  BY <1>2, <1>3 DEF Inv, StopInv

\* A handler changes what it owes, nobody else's account is touched.
LEMMA HandlerAccount ==
  ASSUME Inv, NEW r \in Reqs, UNCHANGED <<queue, wreq, replays, unrecorded>>,
         \A q \in Reqs \ {r} : /\ pc'[q] = pc[q]
                               /\ requests'[q] = requests[q]
                               /\ q \in Owed' => q \in Owed,
         r \in Owed' => (Held(r) \/ Settled(r) \/ Erased(r) \/ r \in unrecorded)',
         saved' \subseteq Reqs
  PROVE  AccountInv'
<1> SUFFICES ASSUME NEW q \in Owed'
             PROVE (Held(q) \/ Settled(q) \/ Erased(q) \/ q \in unrecorded)'
  BY DEF AccountInv
<1>1. q \in Reqs
  BY DEF Owed
<1>2. Queued' = Queued /\ InFlight' = InFlight
  BY DEF Queued, InFlight
<1>3. CASE q = r
  BY <1>3
<1>4. CASE q # r
  BY <1>1, <1>2, <1>4 DEF Inv, AccountInv, Held, Settled, Erased
<1> QED
  BY <1>3, <1>4

LEMMA RejectPathInv ==
  ASSUME Inv, NEW r \in Reqs, RejectPath(r), UNCHANGED <<phase, clean>>
  PROVE  Inv'
<1> USE DEF RejectPath, Goto, Answer
<1>1. TypeOK'
  BY DEF Inv, TypeOK, StorageTypeOK, ForwardTypeOK, CaptureTypeOK,
         storageVars, forwardVars, CapturePCs, Replies
<1>2. HandlerInv'
  BY DEF Inv, TypeOK, CaptureTypeOK, HandlerInv, Early, Forwards
<1>3. FreshInv' /\ QueueInv' /\ WorkerInv' /\ RecordAgrees'
  <2>1. \A q \in Reqs : Passed(q)' <=> Passed(q)
    BY DEF Inv, TypeOK, CaptureTypeOK, HandlerInv, Passed, Forwards, Early
  <2> QED
    BY <2>1, Quiet DEF storageVars, forwardVars
<1>4. AccountInv'
  <2>1. r \notin Owed'
    BY DEF Inv, HandlerInv, Owed, Early
  <2>2. \A q \in Reqs \ {r} : pc'[q] = pc[q] /\ (q \in Owed' => q \in Owed)
    BY DEF Inv, TypeOK, CaptureTypeOK, Owed, Forwards
  <2> QED
    BY <1>1, <2>1, <2>2, HandlerAccount DEF storageVars, forwardVars, TypeOK, CaptureTypeOK
<1>5. StopInv'
  BY HandlerStop DEF storageVars
<1> QED
  BY <1>1, <1>2, <1>3, <1>4, <1>5 DEF Inv

LEMMA RejectBodyInv ==
  ASSUME Inv, NEW r \in Reqs, RejectBody(r), UNCHANGED <<phase, clean>>
  PROVE  Inv'
<1> USE DEF RejectBody, Goto, Answer
<1>1. TypeOK'
  BY DEF Inv, TypeOK, StorageTypeOK, ForwardTypeOK, CaptureTypeOK,
         storageVars, forwardVars, CapturePCs, Replies
<1>2. HandlerInv'
  BY DEF Inv, TypeOK, CaptureTypeOK, HandlerInv, Early, Forwards
<1>3. FreshInv' /\ QueueInv' /\ WorkerInv' /\ RecordAgrees'
  <2>1. \A q \in Reqs : Passed(q)' <=> Passed(q)
    BY DEF Inv, TypeOK, CaptureTypeOK, HandlerInv, Passed, Forwards, Early
  <2> QED
    BY <2>1, Quiet DEF storageVars, forwardVars
<1>4. AccountInv'
  <2>1. r \notin Owed'
    BY DEF Inv, HandlerInv, Owed, Early
  <2>2. \A q \in Reqs \ {r} : pc'[q] = pc[q] /\ (q \in Owed' => q \in Owed)
    BY DEF Inv, TypeOK, CaptureTypeOK, Owed, Forwards
  <2> QED
    BY <1>1, <2>1, <2>2, HandlerAccount DEF storageVars, forwardVars, TypeOK, CaptureTypeOK
<1>5. StopInv'
  BY HandlerStop DEF storageVars
<1> QED
  BY <1>1, <1>2, <1>3, <1>4, <1>5 DEF Inv

LEMMA UnavailableInv ==
  ASSUME Inv, NEW r \in Reqs, Unavailable(r), UNCHANGED <<phase, clean>>
  PROVE  Inv'
<1> USE DEF Goto, Answer
<1>1. /\ pc[r] \in {"lookup", "create", "body"}
      /\ Answer(r, "503")
      /\ UNCHANGED <<slug, marked, strips, parent, target, saved, announced, forwardVars, storageVars>>
  BY DEF Unavailable, InsertRequestFails
<1>2. TypeOK'
  BY <1>1 DEF Inv, TypeOK, StorageTypeOK, ForwardTypeOK, CaptureTypeOK,
         storageVars, forwardVars, CapturePCs, Replies
<1>3. HandlerInv'
  BY <1>1 DEF Inv, TypeOK, CaptureTypeOK, HandlerInv, Early, Forwards
<1>4. FreshInv' /\ QueueInv' /\ WorkerInv' /\ RecordAgrees'
  <2>1. \A q \in Reqs : Passed(q)' <=> Passed(q)
    BY <1>1 DEF Inv, TypeOK, CaptureTypeOK, HandlerInv, Passed, Forwards, Early
  <2> QED
    BY <1>1, <2>1, Quiet DEF storageVars, forwardVars
<1>5. AccountInv'
  <2>1. r \notin Owed'
    BY <1>1 DEF Inv, HandlerInv, Owed, Early
  <2>2. \A q \in Reqs \ {r} : pc'[q] = pc[q] /\ (q \in Owed' => q \in Owed)
    BY <1>1 DEF Inv, TypeOK, CaptureTypeOK, Owed, Forwards
  <2> QED
    BY <1>1, <1>2, <2>1, <2>2, HandlerAccount DEF storageVars, forwardVars, TypeOK, CaptureTypeOK
<1>6. StopInv'
  BY <1>1, HandlerStop DEF storageVars
<1> QED
  BY <1>2, <1>3, <1>4, <1>5, <1>6 DEF Inv

LEMMA LookupInv ==
  ASSUME Inv, NEW r \in Reqs, Lookup(r), UNCHANGED <<phase, clean>>
  PROVE  Inv'
<1> USE DEF Lookup, Goto
<1>1. TypeOK'
  <2>1. endpoints[slug[r]] \in Targets \union {NoTarget, NoRow}
    BY DEF Inv, TypeOK, StorageTypeOK, HandlerInv
  <2>2. target' \in [Reqs -> Targets \union {NoTarget}]
    BY <2>1 DEF Inv, TypeOK, CaptureTypeOK
  <2>3. pc' \in [Reqs -> CapturePCs]
    BY DEF Inv, TypeOK, CaptureTypeOK, CapturePCs
  <2> QED
    BY <2>2, <2>3 DEF Inv, TypeOK, StorageTypeOK, ForwardTypeOK, CaptureTypeOK,
           storageVars, forwardVars
<1>2. HandlerInv'
  BY DEF Inv, TypeOK, CaptureTypeOK, HandlerInv, Early, Forwards
<1>3. FreshInv' /\ QueueInv' /\ WorkerInv' /\ RecordAgrees'
  <2>1. \A q \in Reqs : Passed(q)' <=> Passed(q)
    BY DEF Inv, TypeOK, CaptureTypeOK, HandlerInv, Passed, Forwards, Early
  <2> QED
    BY <2>1, Quiet DEF storageVars, forwardVars
<1>4. AccountInv'
  <2>1. r \notin Owed'
    BY DEF Inv, HandlerInv, Owed, Early
  <2>2. \A q \in Reqs \ {r} : pc'[q] = pc[q] /\ (q \in Owed' => q \in Owed)
    BY DEF Inv, TypeOK, CaptureTypeOK, Owed, Forwards
  <2> QED
    BY <1>1, <2>1, <2>2, HandlerAccount DEF storageVars, forwardVars, TypeOK, CaptureTypeOK
<1>5. StopInv'
  BY HandlerStop DEF storageVars
<1> QED
  BY <1>1, <1>2, <1>3, <1>4, <1>5 DEF Inv

LEMMA AutoCreateInv ==
  ASSUME Inv, NEW r \in Reqs, AutoCreate(r), UNCHANGED <<phase, clean>>
  PROVE  Inv'
<1> USE DEF AutoCreate, InsertEndpoint, Goto
<1>1. TypeOK'
  BY DEF Inv, TypeOK, StorageTypeOK, ForwardTypeOK, CaptureTypeOK, forwardVars, CapturePCs
<1>2. HandlerInv'
  BY DEF Inv, TypeOK, CaptureTypeOK, HandlerInv, Early, Forwards
<1>3. FreshInv' /\ QueueInv' /\ WorkerInv' /\ RecordAgrees'
  <2>1. \A q \in Reqs : Passed(q)' <=> Passed(q)
    BY DEF Inv, TypeOK, CaptureTypeOK, HandlerInv, Passed, Forwards, Early
  <2> QED
    BY <2>1, Quiet DEF forwardVars
<1>4. AccountInv'
  <2>1. r \notin Owed'
    BY DEF Inv, HandlerInv, Owed, Early
  <2>2. \A q \in Reqs \ {r} : pc'[q] = pc[q] /\ (q \in Owed' => q \in Owed)
    BY DEF Inv, TypeOK, CaptureTypeOK, Owed, Forwards
  <2> QED
    BY <1>1, <2>1, <2>2, HandlerAccount DEF forwardVars, TypeOK, CaptureTypeOK
<1>5. StopInv'
  BY HandlerStop
<1> QED
  BY <1>1, <1>2, <1>3, <1>4, <1>5 DEF Inv

LEMMA SaveInv ==
  ASSUME Inv, NEW r \in Reqs, Save(r), UNCHANGED <<phase, clean>>
  PROVE  Inv'
<1> USE DEF Save, InsertRequest, Goto
<1>1. TypeOK'
  BY DEF Inv, TypeOK, StorageTypeOK, ForwardTypeOK, CaptureTypeOK, HandlerInv,
         forwardVars, CapturePCs
<1>2. HandlerInv'
  BY DEF Inv, TypeOK, CaptureTypeOK, HandlerInv, Early, Forwards
<1>3. FreshInv' /\ QueueInv' /\ WorkerInv' /\ RecordAgrees'
  <2>1. \A q \in Reqs : Passed(q)' <=> Passed(q)
    BY DEF Inv, TypeOK, CaptureTypeOK, HandlerInv, Passed, Forwards, Early
  <2> QED
    BY <2>1, Quiet DEF forwardVars
<1>4. AccountInv'
  <2>1. Held(r)'
    BY DEF Inv, TypeOK, CaptureTypeOK, Held
  <2>2. \A q \in Reqs \ {r} : /\ pc'[q] = pc[q] /\ requests'[q] = requests[q]
                              /\ q \in Owed' => q \in Owed
    BY DEF Inv, TypeOK, StorageTypeOK, CaptureTypeOK, Owed, Forwards
  <2> QED
    BY <1>1, <2>1, <2>2, HandlerAccount DEF forwardVars, TypeOK, CaptureTypeOK
<1>5. StopInv'
  BY HandlerStop
<1> QED
  BY <1>1, <1>2, <1>3, <1>4, <1>5 DEF Inv

LEMMA AnnounceInv ==
  ASSUME Inv, NEW r \in Reqs, Announce(r), UNCHANGED <<phase, clean>>
  PROVE  Inv'
<1> USE DEF Announce, Goto
<1>1. TypeOK'
  BY DEF Inv, TypeOK, StorageTypeOK, ForwardTypeOK, CaptureTypeOK,
         storageVars, forwardVars, CapturePCs
<1>2. HandlerInv'
  BY DEF Inv, TypeOK, CaptureTypeOK, HandlerInv, Early, Forwards
<1>3. FreshInv' /\ QueueInv' /\ WorkerInv' /\ RecordAgrees'
  <2>1. \A q \in Reqs : Passed(q)' <=> Passed(q)
    BY DEF Inv, TypeOK, CaptureTypeOK, HandlerInv, Passed, Forwards, Early
  <2> QED
    BY <2>1, Quiet DEF storageVars, forwardVars
<1>4. AccountInv'
  <2>1. r \in Owed' => Held(r)'
    BY DEF Inv, TypeOK, CaptureTypeOK, Held, Owed, Forwards
  <2>2. \A q \in Reqs \ {r} : pc'[q] = pc[q] /\ (q \in Owed' => q \in Owed)
    BY DEF Inv, TypeOK, CaptureTypeOK, Owed, Forwards
  <2> QED
    BY <1>1, <2>1, <2>2, HandlerAccount DEF storageVars, forwardVars, TypeOK, CaptureTypeOK
<1>5. StopInv'
  BY HandlerStop DEF storageVars
<1> QED
  BY <1>1, <1>2, <1>3, <1>4, <1>5 DEF Inv

LEMMA GateInv ==
  ASSUME Inv, NEW r \in Reqs, Gate(r), UNCHANGED <<phase, clean>>
  PROVE  Inv'
<1> USE DEF Gate, Goto, Answer
<1>1. TypeOK'
  BY DEF Inv, TypeOK, StorageTypeOK, ForwardTypeOK, CaptureTypeOK,
         storageVars, forwardVars, CapturePCs, Replies
<1>2. HandlerInv'
  BY DEF Inv, TypeOK, CaptureTypeOK, HandlerInv, Early, Forwards
<1>3. FreshInv' /\ QueueInv' /\ WorkerInv' /\ RecordAgrees'
  <2>1. \A q \in Reqs : Passed(q)' <=> Passed(q)
    BY DEF Inv, TypeOK, CaptureTypeOK, HandlerInv, Passed, Forwards, Early
  <2> QED
    BY <2>1, Quiet DEF storageVars, forwardVars
<1>4. AccountInv'
  <2>1. r \in Owed' => (Held(r) \/ Settled(r) \/ Erased(r) \/ r \in unrecorded)'
    BY DEF Inv, AccountInv, Owed, Held, Settled, Erased, Forwards,
           storageVars, forwardVars, Queued, InFlight
  <2>2. \A q \in Reqs \ {r} : pc'[q] = pc[q] /\ (q \in Owed' => q \in Owed)
    BY DEF Inv, TypeOK, CaptureTypeOK, Owed, Forwards
  <2> QED
    BY <1>1, <2>1, <2>2, HandlerAccount DEF storageVars, forwardVars, TypeOK, CaptureTypeOK
<1>5. StopInv'
  BY HandlerStop DEF storageVars
<1> QED
  BY <1>1, <1>2, <1>3, <1>4, <1>5 DEF Inv

-----------------------------------------------------------------------------
(* Enqueue. *)

\* The handler of r records that r goes no further.
LEMMA HandlerRecords ==
  ASSUME Inv, NEW r \in Reqs, NEW outcome \in {"refused", "dropped"},
         pc[r] \in {"enqueue", "drop"}, record(r, outcome), Goto(r, "gate"),
         UNCHANGED <<slug, marked, strips, parent, target, reply, saved, announced>>,
         UNCHANGED forwardVars, UNCHANGED <<phase, clean>>
  PROVE  Inv'
<1> USE DEF Goto
<1>1. outcome \in Outcomes
  BY DEF Outcomes
<1>2. /\ endpoints' = endpoints /\ requests' = requests /\ dbOpen' = dbOpen
      /\ \/ replays' = [replays EXCEPT ![r] = Append(@, outcome)]
            /\ unrecorded' = unrecorded
         \/ replays' = replays /\ requests[r] = NoRow /\ unrecorded' = unrecorded
         \/ replays' = replays /\ CanFail /\ unrecorded' = unrecorded \union {r}
  BY DEF record, storageVars
<1>3. /\ ~Passed(r) /\ sends[r] = 0 /\ replays[r] = <<>>
      /\ replays \in [Reqs -> Seq(Outcomes)]
  BY DEF Inv, TypeOK, StorageTypeOK, FreshInv, Passed
<1>4. /\ \A q \in Reqs \ {r} : replays'[q] = replays[q]
      /\ replays'[r] = <<>> \/ replays'[r] = <<outcome>>
  BY <1>2, <1>3
<1>5. /\ \A q \in Reqs \ {r} : Passed(q)' <=> Passed(q)
      /\ \A q \in Reqs : Passed(q) => Passed(q)'
      /\ Passed(r)'
  BY DEF Inv, TypeOK, CaptureTypeOK, HandlerInv, Passed, Forwards
<1>6. TypeOK'
  <2>1. StorageTypeOK'
    BY <1>1, RecordType DEF Inv, TypeOK
  <2> QED
    BY <2>1 DEF Inv, TypeOK, ForwardTypeOK, CaptureTypeOK, forwardVars, CapturePCs
<1>7. HandlerInv'
  BY DEF Inv, TypeOK, CaptureTypeOK, HandlerInv, Early, Forwards
<1>8. FreshInv'
  BY <1>4, <1>5 DEF Inv, FreshInv, forwardVars
<1>9. QueueInv'
  <2>1. \A i \in 1 .. Len(queue) : queue[i].req \in Reqs /\ queue[i].req # r
    BY <1>3, QueuedJobs DEF Inv, TypeOK, QueueInv, Job
  <2> QED
    BY <1>4, <1>5, <2>1 DEF Inv, QueueInv, forwardVars
<1>10. WorkerInv'
  <2>1. \A w \in Workers : wpc[w] \in Busy => wreq[w] # r
    BY <1>3 DEF Inv, WorkerInv
  <2> QED
    BY <1>4, <1>5, <2>1 DEF Inv, WorkerInv, forwardVars
<1>11. RecordAgrees'
  <2>1. \A q \in Reqs \ {r} : replays'[q] = replays[q] /\ sends'[q] = sends[q]
    BY <1>4 DEF forwardVars
  <2>2. Len(replays'[r]) <= 1 /\ sends'[r] = 0
    <3>1. sends'[r] = 0
      BY <1>3 DEF forwardVars
    <3>2. CASE replays'[r] = <<>>
      BY <3>1, <3>2
    <3>3. CASE replays'[r] = <<outcome>>
      BY <3>1, <3>3
    <3> QED
      BY <1>4, <3>2, <3>3
  <2>3. replays'[r] # <<>> => replays'[r][1] = outcome
    BY <1>4
  <2> QED
    BY <2>1, <2>2, <2>3 DEF Inv, RecordAgrees, Settled
<1>12. AccountInv'
  <2> SUFFICES ASSUME NEW q \in Owed'
               PROVE (Held(q) \/ Settled(q) \/ Erased(q) \/ q \in unrecorded)'
    BY DEF AccountInv
  <2>1. q \in Owed /\ q \in Reqs /\ Queued' = Queued /\ InFlight' = InFlight
    BY DEF Inv, TypeOK, CaptureTypeOK, Owed, Forwards, Queued, InFlight, forwardVars
  <2>2. CASE q = r
    <3>1. CASE replays' = [replays EXCEPT ![r] = Append(@, outcome)]
      BY <1>3, <2>2, <3>1 DEF Settled
    <3>2. CASE replays' = replays
      BY <1>2, <1>3, <2>2, <3>2 DEF Settled, Erased
    <3> QED
      BY <1>2, <3>1, <3>2
  <2>3. CASE q # r
    BY <1>2, <1>4, <2>1, <2>3 DEF Inv, TypeOK, CaptureTypeOK, AccountInv, Held, Settled, Erased
  <2> QED
    BY <2>2, <2>3
<1>13. StopInv'
  BY <1>2, HandlerStop
<1> QED
  BY <1>6, <1>7, <1>8, <1>9, <1>10, <1>11, <1>12, <1>13 DEF Inv

\* Push: the job joins a queue that does not know it.
LEMMA PushInv ==
  ASSUME Inv, NEW r \in Reqs, pc[r] = "enqueue", Push(r, target[r]), Goto(r, "gate"),
         UNCHANGED <<slug, marked, strips, parent, target, reply, saved, announced>>,
         UNCHANGED <<phase, clean>>
  PROVE  Inv'
<1> USE DEF Push, Goto
<1> DEFINE job == [req |-> r, target |-> target[r]]
           n == Len(queue)
<1>1. /\ queue \in Seq(Job) /\ job \in Job /\ n \in Nat /\ n < QueueLen
  BY DEF Inv, TypeOK, ForwardTypeOK, CaptureTypeOK, HandlerInv, Forwards, Job
<1>2. /\ queue' = Append(queue, job) /\ queue' \in Seq(Job)
      /\ Len(queue') = n + 1
      /\ queue'[n + 1] = job
      /\ \A i \in 1 .. n : queue'[i] = queue[i]
  BY <1>1
<1>3. ~Passed(r) /\ sends[r] = 0 /\ replays[r] = <<>>
  BY DEF Inv, FreshInv, Passed
<1>4. /\ \A q \in Reqs \ {r} : Passed(q)' <=> Passed(q)
      /\ \A q \in Reqs : Passed(q) => Passed(q)'
      /\ Passed(r)'
  BY DEF Inv, TypeOK, CaptureTypeOK, HandlerInv, Passed, Forwards
<1>5. \A i \in 1 .. n : queue[i].req \in Reqs /\ queue[i].req # r
  BY <1>3, QueuedJobs DEF Inv, TypeOK, QueueInv, Job
<1>6. job.req = r /\ job.target = target[r]
  OBVIOUS
<1>15. \A i \in 1 .. (n + 1) : i \in 1 .. n \/ i = n + 1
  BY <1>1
<1> HIDE DEF job, n
<1>7. TypeOK'
  BY <1>1, <1>2, Constants DEF Inv, TypeOK, StorageTypeOK, ForwardTypeOK, CaptureTypeOK,
         storageVars, CapturePCs
<1>8. HandlerInv'
  BY DEF Inv, TypeOK, CaptureTypeOK, HandlerInv, Early, Forwards
<1>9. FreshInv'
  BY <1>4 DEF Inv, FreshInv, storageVars
<1>10. QueueInv'
  <2>1. ASSUME NEW i \in 1 .. (n + 1)
        PROVE  /\ Passed(queue[i].req)'
               /\ sends'[queue'[i].req] = 0
               /\ replays'[queue'[i].req] = <<>>
               /\ ~selfTarget(queue'[i].target)
    <3>1. CASE i \in 1 .. n
      BY <1>2, <1>4, <1>5, <3>1 DEF Inv, QueueInv, storageVars, n
    <3>2. CASE i = n + 1
      BY <1>2, <1>3, <1>4, <1>6, <3>2 DEF storageVars
    <3> QED
      BY <1>15, <3>1, <3>2
  <2>2. ASSUME NEW i \in 1 .. (n + 1), NEW j \in 1 .. (n + 1),
               queue'[i].req = queue'[j].req
        PROVE  i = j
    <3>1. CASE i \in 1 .. n /\ j \in 1 .. n
      BY <1>2, <2>2, <3>1 DEF Inv, QueueInv, n
    <3>2. CASE i = n + 1 /\ j = n + 1
      BY <3>2
    <3>3. CASE i \in 1 .. n /\ j = n + 1
      BY <1>2, <1>5, <1>6, <2>2, <3>3
    <3>4. CASE i = n + 1 /\ j \in 1 .. n
      BY <1>2, <1>5, <1>6, <2>2, <3>4
    <3> QED
      BY <1>15, <3>1, <3>2, <3>3, <3>4
  <2> QED
    BY <1>2, <2>1, <2>2 DEF QueueInv
<1>11. WorkerInv'
  <2>1. \A w \in Workers : wpc[w] \in Busy => wreq[w] # r
    BY <1>3 DEF Inv, WorkerInv
  <2>2. ASSUME NEW w \in Workers, wpc[w] \in Busy, NEW i \in 1 .. (n + 1)
        PROVE  queue'[i].req # wreq[w]
    <3>1. CASE i \in 1 .. n
      BY <1>2, <2>2, <3>1 DEF Inv, WorkerInv, n
    <3>2. CASE i = n + 1
      BY <1>2, <1>6, <2>1, <2>2, <3>2
    <3> QED
      BY <1>15, <3>1, <3>2
  <2> QED
    BY <1>2, <1>4, <2>2 DEF Inv, WorkerInv, storageVars
<1>12. RecordAgrees'
  BY DEF Inv, RecordAgrees, Settled, storageVars
<1>13. AccountInv'
  <2> SUFFICES ASSUME NEW q \in Owed'
               PROVE (Held(q) \/ Settled(q) \/ Erased(q) \/ q \in unrecorded)'
    BY DEF AccountInv
  <2>1. q \in Owed /\ q \in Reqs /\ InFlight' = InFlight
    BY DEF Inv, TypeOK, CaptureTypeOK, Owed, Forwards, InFlight
  <2>2. DOMAIN queue = 1 .. n /\ DOMAIN queue' = 1 .. (n + 1)
    BY <1>1, <1>2 DEF n
  <2>3. Queued \subseteq Queued'
    BY <1>1, <1>2, <2>2 DEF Queued
  <2>4. r \in Queued'
    <3>1. n + 1 \in DOMAIN queue' /\ queue'[n + 1].req = r
      BY <1>1, <1>2, <1>6, <2>2
    <3> QED
      BY <3>1 DEF Queued
  <2>5. CASE q = r
    BY <2>4, <2>5 DEF Held
  <2>6. CASE q # r
    BY <2>1, <2>3, <2>6 DEF Inv, TypeOK, CaptureTypeOK, AccountInv, Held, Settled, Erased, storageVars
  <2> QED
    BY <2>5, <2>6
<1>14. StopInv'
  <2>1. Handling # {}
    BY DEF Handling
  <2> QED
    BY <2>1 DEF Inv, StopInv, storageVars, Handling
<1> QED
  BY <1>7, <1>8, <1>9, <1>10, <1>11, <1>12, <1>13, <1>14 DEF Inv

LEMMA DropInv ==
  ASSUME Inv, NEW r \in Reqs, pc[r] = "enqueue", Drop(r, target[r]), Goto(r, "drop"),
         UNCHANGED <<slug, marked, strips, parent, target, reply, saved, announced>>,
         UNCHANGED <<phase, clean>>
  PROVE  Inv'
<1> USE DEF Drop, Goto
<1>1. TypeOK'
  BY DEF Inv, TypeOK, StorageTypeOK, ForwardTypeOK, CaptureTypeOK, storageVars, CapturePCs
<1>2. HandlerInv'
  BY DEF Inv, TypeOK, CaptureTypeOK, HandlerInv, Early, Forwards
<1>3. FreshInv' /\ QueueInv' /\ WorkerInv' /\ RecordAgrees'
  <2>1. \A q \in Reqs : Passed(q)' <=> Passed(q)
    BY DEF Inv, TypeOK, CaptureTypeOK, HandlerInv, Passed, Forwards, Early
  <2> QED
    BY <2>1, Quiet DEF storageVars
<1>4. AccountInv'
  <2>1. Held(r)'
    BY DEF Inv, TypeOK, CaptureTypeOK, Held
  <2>2. \A q \in Reqs \ {r} : pc'[q] = pc[q] /\ (q \in Owed' => q \in Owed)
    BY DEF Inv, TypeOK, CaptureTypeOK, Owed, Forwards
  <2> QED
    BY <1>1, <2>1, <2>2, HandlerAccount DEF storageVars, TypeOK, CaptureTypeOK
<1>5. StopInv'
  BY HandlerStop DEF storageVars
<1> QED
  BY <1>1, <1>2, <1>3, <1>4, <1>5 DEF Inv

LEMMA HandleInv ==
  ASSUME Inv, NEW r \in Reqs, Handle(r)
  PROVE  Inv'
<1>1. UNCHANGED <<phase, clean>>
  BY DEF Handle
<1>2. CASE Enqueue(r)
  <2>1. CASE Refuse(r, target[r]) /\ Goto(r, "gate")
    BY <1>1, <1>2, <2>1, HandlerRecords DEF Enqueue, Refuse
  <2>2. CASE Push(r, target[r]) /\ Goto(r, "gate")
    BY <1>1, <1>2, <2>2, PushInv DEF Enqueue
  <2>3. CASE Drop(r, target[r]) /\ Goto(r, "drop")
    BY <1>1, <1>2, <2>3, DropInv DEF Enqueue
  <2> QED
    BY <1>2, <2>1, <2>2, <2>3 DEF Enqueue
<1>3. CASE EnqueueDropped(r)
  BY <1>1, <1>3, HandlerRecords DEF EnqueueDropped, RecordDrop
<1> QED
  BY <1>1, <1>2, <1>3, RejectPathInv, LookupInv, AutoCreateInv, UnavailableInv,
     RejectBodyInv, SaveInv, AnnounceInv, GateInv DEF Handle, HandlerStep

-----------------------------------------------------------------------------
(* Arrivals and deliveries. *)

\* An arrival takes an unused identity: nobody knew it.
LEMMA ArriveFacts ==
  ASSUME Inv, NEW r \in Reqs, NEW s \in Slugs, NEW mark \in BOOLEAN,
         NEW hop \in BOOLEAN, NEW p \in Reqs \union {NoReq}, Arrive(r, s, mark, hop, p)
  PROVE  /\ CaptureTypeOK'
         /\ HandlerInv'
         /\ saved' = saved
         /\ \A q \in Reqs : Passed(q)' <=> Passed(q)
         /\ r \notin Owed'
         /\ \A q \in Reqs \ {r} : pc'[q] = pc[q] /\ (q \in Owed' => q \in Owed)
<1> USE DEF Arrive, Goto
<1>1. CaptureTypeOK'
  BY ArriveType DEF Inv, TypeOK
<1>2. pc[r] = "idle" /\ r \notin saved /\ saved' = saved
  BY DEF Inv, HandlerInv, Early
<1>3. HandlerInv'
  BY Constants DEF Inv, TypeOK, CaptureTypeOK, HandlerInv, Early, Forwards
<1>4. \A q \in Reqs : Passed(q)' <=> Passed(q)
  BY <1>2 DEF Inv, TypeOK, CaptureTypeOK, Passed, Forwards
<1>5. r \notin Owed'
  BY <1>2 DEF Owed
<1>6. \A q \in Reqs \ {r} : pc'[q] = pc[q] /\ (q \in Owed' => q \in Owed)
  BY DEF Inv, TypeOK, CaptureTypeOK, Owed, Forwards
<1> QED
  BY <1>1, <1>2, <1>3, <1>4, <1>5, <1>6

LEMMA ReceiveInv ==
  ASSUME Inv, NEW r \in Reqs, Receive(r)
  PROVE  Inv'
<1>1. PICK s \in Slugs, mark \in Marks, hop \in Hops : Arrive(r, s, mark, hop, NoReq)
  BY DEF Receive
<1>2. /\ phase \in {"up", "shutdown"}
      /\ UNCHANGED <<storageVars, forwardVars, phase, clean>>
  BY DEF Receive, Accepting
<1>3. mark \in BOOLEAN /\ hop \in BOOLEAN
  BY Constants
<1>4. /\ CaptureTypeOK' /\ HandlerInv' /\ saved' = saved
      /\ \A q \in Reqs : Passed(q)' <=> Passed(q)
      /\ r \notin Owed'
      /\ \A q \in Reqs \ {r} : pc'[q] = pc[q] /\ (q \in Owed' => q \in Owed)
  BY <1>1, <1>3, ArriveFacts
<1>5. TypeOK'
  BY <1>2, <1>4 DEF Inv, TypeOK, StorageTypeOK, ForwardTypeOK, storageVars, forwardVars
<1>6. FreshInv' /\ QueueInv' /\ WorkerInv' /\ RecordAgrees'
  BY <1>2, <1>4, Quiet DEF storageVars, forwardVars
<1>7. AccountInv'
  BY <1>2, <1>4, HandlerAccount DEF storageVars, forwardVars, Inv, TypeOK, CaptureTypeOK
<1>8. StopInv'
  BY <1>2 DEF Inv, StopInv, storageVars
<1> QED
  BY <1>4, <1>5, <1>6, <1>7, <1>8 DEF Inv

\* A worker puts its job on the wire; the arrivals may gain one meanwhile.
LEMMA SendInv ==
  ASSUME Inv, NEW w \in Workers, Send(w), UNCHANGED <<phase, clean>>,
         CaptureTypeOK', HandlerInv',
         \A q \in Reqs : Passed(q)' <=> Passed(q),
         \A q \in Reqs : q \in Owed' => q \in Owed /\ pc'[q] = pc[q],
         saved' = saved,
         clean /\ phase \notin {"up", "shutdown"} => Handling' = {}
  PROVE  Inv'
<1> USE DEF Send
<1> DEFINE r == wreq[w]
<1>1. /\ r \in Reqs /\ Passed(r) /\ sends[r] = 0 /\ replays[r] = <<>>
      /\ ~Blocked(wtarget[w])
      /\ \A i \in 1 .. Len(queue) : queue[i].req # r
      /\ \A v \in Workers : v # w => wreq[v] # r
      /\ sends \in [Reqs -> Nat]
  BY DEF Inv, TypeOK, ForwardTypeOK, WorkerInv, Busy
<1>2. /\ sends'[r] = 1
      /\ \A q \in Reqs \ {r} : sends'[q] = sends[q]
      /\ replays' = replays /\ queue' = queue /\ wreq' = wreq
  BY <1>1 DEF storageVars
<1>3. TypeOK'
  <2>1. sends' \in [Reqs -> Nat]
    BY <1>1
  <2> QED
    BY <2>1 DEF Inv, TypeOK, StorageTypeOK, ForwardTypeOK, storageVars, WorkerPCs
<1> HIDE DEF r
<1>4. FreshInv'
  BY <1>1, <1>2 DEF Inv, FreshInv
<1>5. QueueInv'
  <2>1. \A i \in 1 .. Len(queue) : queue[i].req \in Reqs
    BY QueuedJobs DEF Inv, TypeOK, Job
  <2> QED
    BY <1>1, <1>2, <2>1 DEF Inv, QueueInv
<1>6. WorkerInv'
  <2> SUFFICES ASSUME NEW v \in Workers
      PROVE  /\ wpc'[v] \notin Busy => wreq[v] = NoReq
             /\ wpc'[v] \in Busy =>
                  /\ wreq[v] \in Reqs
                  /\ wtarget[v] \in Targets
                  /\ Passed(wreq[v])
                  /\ replays[wreq[v]] = <<>>
                  /\ sends'[wreq[v]] = IF wpc'[v] = "await" THEN 1 ELSE 0
                  /\ ~selfTarget(wtarget[v])
                  /\ wpc'[v] # "load" => ~Blocked(wtarget[v])
                  /\ \A i \in 1 .. Len(queue) : queue[i].req # wreq[v]
                  /\ \A u \in Workers : u # v => wreq[u] # wreq[v]
    BY <1>2 DEF WorkerInv, Send
  <2>1. CASE v = w
    BY <1>1, <1>2, <2>1 DEF Inv, TypeOK, ForwardTypeOK, WorkerInv, Busy, r
  <2>2. CASE v # w
    BY <1>1, <1>2, <2>2 DEF Inv, TypeOK, ForwardTypeOK, WorkerInv, Busy
  <2> QED
    BY <2>1, <2>2
<1>7. RecordAgrees'
  BY <1>1, <1>2 DEF Inv, RecordAgrees, Settled
<1>8. AccountInv'
  <2> SUFFICES ASSUME NEW q \in Owed'
               PROVE (Held(q) \/ Settled(q) \/ Erased(q) \/ q \in unrecorded)'
    BY DEF AccountInv
  <2>1. q \in Reqs /\ q \in Owed /\ pc'[q] = pc[q]
    BY DEF Owed, CaptureTypeOK
  <2>2. Queued' = Queued /\ InFlight' = InFlight
    BY <1>2 DEF Queued, InFlight
  <2> QED
    BY <1>2, <2>1, <2>2 DEF Inv, AccountInv, Held, Settled, Erased, storageVars
<1>9. StopInv'
  <2>1. wpc[w] # "exited" /\ UNCHANGED <<dbOpen, unrecorded, queue>>
    BY DEF storageVars
  <2> QED
    BY <2>1 DEF Inv, StopInv
<1> QED
  BY <1>3, <1>4, <1>5, <1>6, <1>7, <1>8, <1>9 DEF Inv

LEMMA SendAwayInv ==
  ASSUME Inv, NEW w \in Workers, SendAway(w), UNCHANGED <<phase, clean>>
  PROVE  Inv'
<1>1. Send(w) /\ UNCHANGED captureVars
  BY DEF SendAway
<1>2. /\ CaptureTypeOK' /\ HandlerInv' /\ saved' = saved
      /\ \A q \in Reqs : Passed(q)' <=> Passed(q)
      /\ \A q \in Reqs : q \in Owed' => q \in Owed /\ pc'[q] = pc[q]
      /\ Handling' = Handling
  BY <1>1 DEF captureVars, Inv, TypeOK, CaptureTypeOK, HandlerInv, Passed, Owed, Forwards, Handling
<1> QED
  BY <1>1, <1>2, SendInv DEF Inv, StopInv

LEMMA SendBackInv ==
  ASSUME Inv, NEW w \in Workers, SendBack(w), UNCHANGED <<phase, clean>>
  PROVE  Inv'
<1>1. /\ phase \in {"up", "shutdown"} /\ Send(w)
      /\ wpc[w] = "send" /\ Lands[wtarget[w]] # Elsewhere
  BY DEF SendBack, Accepting
<1>2. wreq[w] \in Reqs /\ Lands[wtarget[w]] \in Slugs /\ (~strips[wreq[w]]) \in BOOLEAN
  BY <1>1, Constants DEF Inv, WorkerInv, Busy
<1>3. PICK r \in Reqs : Arrive(r, Lands[wtarget[w]], ~strips[wreq[w]], FALSE, wreq[w])
  BY DEF SendBack
<1>4. /\ CaptureTypeOK' /\ HandlerInv' /\ saved' = saved
      /\ \A q \in Reqs : Passed(q)' <=> Passed(q)
      /\ r \notin Owed'
      /\ \A q \in Reqs \ {r} : pc'[q] = pc[q] /\ (q \in Owed' => q \in Owed)
  BY <1>2, <1>3, ArriveFacts
<1> QED
  BY <1>1, <1>4, SendInv

-----------------------------------------------------------------------------
(* The worker's other steps. *)

LEMMA TakeInv ==
  ASSUME Inv, NEW w \in Workers, Take(w), UNCHANGED captureVars, UNCHANGED <<phase, clean>>
  PROVE  Inv'
<1> DEFINE job == Head(queue)
           n == Len(queue)
<1>1. /\ queue \in Seq(Job) /\ n \in Nat \ {0} /\ n <= QueueLen
      /\ wpc[w] = "idle" /\ wreq[w] = NoReq
      /\ wpc \in [Workers -> WorkerPCs]
      /\ wreq \in [Workers -> Reqs \union {NoReq}]
      /\ wtarget \in [Workers -> Targets \union {NoTarget}]
  BY DEF Take, Inv, TypeOK, ForwardTypeOK, WorkerInv, Busy
<1>2. /\ job = queue[1] /\ job \in Job
      /\ queue' = Tail(queue) /\ queue' \in Seq(Job) /\ Len(queue') = n - 1
      /\ \A i \in 1 .. (n - 1) : queue'[i] = queue[i + 1]
  BY <1>1 DEF Take
<1>3. /\ wpc' = [wpc EXCEPT ![w] = "load"]
      /\ wreq' = [wreq EXCEPT ![w] = job.req]
      /\ wtarget' = [wtarget EXCEPT ![w] = job.target]
      /\ UNCHANGED <<quit, dropped, sends, endpoints, requests, replays, dbOpen, unrecorded>>
  BY DEF Take, storageVars
<1>4. job.req \in Reqs /\ job.target \in Targets
  BY <1>2 DEF Job
<1> HIDE DEF job, n
<1>5. 1 \in 1 .. n /\ \A i \in 1 .. (n - 1) : i + 1 \in 1 .. n /\ i \in 1 .. n /\ i + 1 # 1
  BY <1>1
<1>6. /\ Passed(job.req) /\ sends[job.req] = 0 /\ replays[job.req] = <<>>
      /\ ~selfTarget(job.target)
      /\ \A i \in 1 .. (n - 1) : queue'[i].req # job.req
      /\ \A v \in Workers : wpc[v] \in Busy => wreq[v] # job.req
  BY <1>2, <1>5 DEF Inv, QueueInv, WorkerInv, n
<1>7. \A q \in Reqs : Passed(q)' <=> Passed(q)
  BY DEF captureVars, Passed, Forwards
<1>8. TypeOK'
  <2>1. Len(queue') <= QueueLen
    BY <1>1, <1>2, Constants
  <2>2. /\ wpc' \in [Workers -> WorkerPCs]
        /\ wreq' \in [Workers -> Reqs \union {NoReq}]
        /\ wtarget' \in [Workers -> Targets \union {NoTarget}]
    BY <1>1, <1>3, <1>4 DEF WorkerPCs
  <2> QED
    BY <1>2, <1>3, <2>1, <2>2 DEF Inv, TypeOK, StorageTypeOK, ForwardTypeOK, CaptureTypeOK, captureVars
<1>9. HandlerInv'
  BY DEF Inv, HandlerInv, captureVars, Forwards
<1>10. FreshInv' /\ RecordAgrees'
  BY <1>3, <1>7 DEF Inv, FreshInv, RecordAgrees, Settled
<1>11. QueueInv'
  <2>1. ASSUME NEW i \in 1 .. (n - 1)
        PROVE  /\ Passed(queue[i].req)'
               /\ sends'[queue'[i].req] = 0
               /\ replays'[queue'[i].req] = <<>>
               /\ ~selfTarget(queue'[i].target)
    <3>1. i + 1 \in 1 .. n /\ queue[i + 1].req \in Reqs /\ queue'[i] = queue[i + 1]
      BY <1>2, <1>5, QueuedJobs DEF Inv, TypeOK, Job, n
    <3> QED
      BY <1>3, <1>7, <3>1 DEF Inv, QueueInv, n
  <2>2. ASSUME NEW i \in 1 .. (n - 1), NEW j \in 1 .. (n - 1),
               queue'[i].req = queue'[j].req
        PROVE  i = j
    <3>1. i + 1 = j + 1
      BY <1>2, <1>5, <2>2 DEF Inv, QueueInv, n
    <3> QED
      BY <3>1
  <2> QED
    BY <1>2, <2>1, <2>2 DEF QueueInv
<1>12. WorkerInv'
  <2> SUFFICES ASSUME NEW v \in Workers
      PROVE  /\ wpc'[v] \notin Busy => wreq'[v] = NoReq
             /\ wpc'[v] \in Busy =>
                  /\ wreq'[v] \in Reqs
                  /\ wtarget'[v] \in Targets
                  /\ Passed(wreq[v])'
                  /\ replays'[wreq'[v]] = <<>>
                  /\ sends'[wreq'[v]] = IF wpc'[v] = "await" THEN 1 ELSE 0
                  /\ ~selfTarget(wtarget'[v])
                  /\ wpc'[v] # "load" => ~Blocked(wtarget'[v])
                  /\ \A i \in 1 .. Len(queue') : queue'[i].req # wreq'[v]
                  /\ \A u \in Workers : u # v => wreq'[u] # wreq'[v]
    BY DEF WorkerInv
  <2>1. CASE v = w
    <3>1. wpc'[v] = "load" /\ wreq'[v] = job.req /\ wtarget'[v] = job.target
      BY <1>1, <1>3, <2>1
    <3>2. \A u \in Workers : u # v => wreq'[u] # job.req
      BY <1>1, <1>3, <1>4, <1>6, <2>1, Constants DEF Inv, WorkerInv
    <3>3. Passed(wreq[v])'
      BY <1>4, <1>6, <1>7, <3>1
    <3>4. \A i \in 1 .. Len(queue') : queue'[i].req # job.req
      BY <1>2, <1>6
    <3> QED
      BY <1>3, <1>4, <1>6, <3>1, <3>2, <3>3, <3>4 DEF Busy
  <2>2. CASE v # w
    <3>1. wpc'[v] = wpc[v] /\ wreq'[v] = wreq[v] /\ wtarget'[v] = wtarget[v]
      BY <1>1, <1>3, <2>2
    <3>2. CASE wpc[v] \notin Busy
      BY <3>1, <3>2 DEF Inv, WorkerInv
    <3>3. CASE wpc[v] \in Busy
      <4>1. /\ wreq[v] \in Reqs /\ wtarget[v] \in Targets
            /\ Passed(wreq[v]) /\ replays[wreq[v]] = <<>>
            /\ sends[wreq[v]] = IF wpc[v] = "await" THEN 1 ELSE 0
            /\ ~selfTarget(wtarget[v])
            /\ wpc[v] # "load" => ~Blocked(wtarget[v])
        BY <3>3 DEF Inv, WorkerInv
      <4>2. \A i \in 1 .. (n - 1) : queue'[i].req # wreq[v]
        BY <1>2, <1>5, <3>3 DEF Inv, WorkerInv, n
      <4>3. \A u \in Workers : u # v => wreq'[u] # wreq[v]
        BY <1>1, <1>3, <1>6, <3>3 DEF Inv, WorkerInv
      <4>4. Passed(wreq[v])'
        BY <1>7, <3>1, <4>1
      <4>5. /\ sends'[wreq'[v]] = IF wpc'[v] = "await" THEN 1 ELSE 0
            /\ replays'[wreq'[v]] = <<>>
        BY <1>3, <3>1, <4>1
      <4>6. \A i \in 1 .. Len(queue') : queue'[i].req # wreq'[v]
        BY <1>2, <3>1, <4>2
      <4>7. wreq'[v] \in Reqs /\ wtarget'[v] \in Targets /\ wpc'[v] \in Busy
        BY <3>1, <3>3, <4>1
      <4>8. ~selfTarget(wtarget'[v]) /\ (wpc'[v] # "load" => ~Blocked(wtarget'[v]))
        BY <3>1, <4>1
      <4>9. \A u \in Workers : u # v => wreq'[u] # wreq'[v]
        BY <3>1, <4>3
      <4> QED
        BY <4>4, <4>5, <4>6, <4>7, <4>8, <4>9
    <3> QED
      BY <3>2, <3>3
  <2> QED
    BY <2>1, <2>2
<1>13. AccountInv'
  <2> SUFFICES ASSUME NEW q \in Owed'
               PROVE (Held(q) \/ Settled(q) \/ Erased(q) \/ q \in unrecorded)'
    BY DEF AccountInv
  <2>1. q \in Reqs /\ q \in Owed /\ pc' = pc
    BY DEF Inv, TypeOK, CaptureTypeOK, captureVars, Owed, Forwards
  <2>2. DOMAIN queue = 1 .. n /\ DOMAIN queue' = 1 .. (n - 1)
    BY <1>1, <1>2 DEF n
  <2>3. job.req \in InFlight'
    <3>1. wreq'[w] = job.req /\ job.req # NoReq
      BY <1>1, <1>3, <1>4, Constants
    <3> QED
      BY <3>1 DEF InFlight
  <2>4. q \in Queued => q = job.req \/ q \in Queued'
    <3> SUFFICES ASSUME NEW i \in 1 .. n, q = queue[i].req, i # 1
                 PROVE q \in Queued'
      BY <1>2, <2>2 DEF Queued
    <3>1. i - 1 \in 1 .. (n - 1) /\ (i - 1) + 1 = i
      BY <1>1
    <3>2. queue'[i - 1] = queue[i]
      BY <1>2, <3>1
    <3> QED
      BY <2>2, <3>1, <3>2 DEF Queued
  <2>5. InFlight \subseteq InFlight'
    BY <1>1, <1>3 DEF InFlight
  <2> QED
    BY <1>3, <2>1, <2>3, <2>4, <2>5 DEF Inv, AccountInv, Held, Settled, Erased
<1>14. StopInv'
  <2>1. queue # <<>> /\ wpc[w] # "exited"
    BY <1>1 DEF Take
  <2> QED
    BY <1>3, <2>1 DEF Inv, StopInv, Handling, captureVars
<1> QED
  BY <1>8, <1>9, <1>10, <1>11, <1>12, <1>13, <1>14 DEF Inv

LEMMA QuitInv ==
  ASSUME Inv, NEW w \in Workers, Quit(w), UNCHANGED captureVars, UNCHANGED <<phase, clean>>
  PROVE  Inv'
<1>1. /\ wpc[w] = "idle" /\ wpc' = [wpc EXCEPT ![w] = "exited"]
      /\ UNCHANGED <<queue, wreq, wtarget, sends, storageVars>>
  BY DEF Quit
<1>2. wpc \in [Workers -> WorkerPCs]
  BY DEF Inv, TypeOK, ForwardTypeOK
<1>3. \A q \in Reqs : Passed(q)' <=> Passed(q)
  BY DEF captureVars, Passed, Forwards
<1>4. TypeOK'
  <2>1. wpc' \in [Workers -> WorkerPCs]
    BY <1>1, <1>2 DEF WorkerPCs
  <2> QED
    BY <1>1, <2>1 DEF Quit, Inv, TypeOK, StorageTypeOK, ForwardTypeOK, CaptureTypeOK,
           storageVars, captureVars
<1>5. HandlerInv'
  BY DEF Inv, HandlerInv, captureVars, Forwards
<1>6. FreshInv' /\ RecordAgrees'
  BY <1>1, <1>3 DEF Inv, FreshInv, RecordAgrees, Settled, storageVars
<1>7. QueueInv'
  <2>1. \A i \in 1 .. Len(queue) : queue[i].req \in Reqs
    BY QueuedJobs DEF Inv, TypeOK, Job
  <2> QED
    BY <1>1, <1>3, <2>1 DEF Inv, QueueInv, storageVars
<1>8. WorkerInv'
  <2>1. \A v \in Workers : wpc'[v] \in Busy <=> wpc[v] \in Busy
    BY <1>1, <1>2 DEF Busy
  <2>2. \A v \in Workers : wpc[v] \in Busy => wpc'[v] = wpc[v]
    BY <1>1, <1>2 DEF Busy
  <2> QED
    BY <1>1, <1>3, <2>1, <2>2 DEF Inv, WorkerInv, storageVars
<1>9. AccountInv'
  BY <1>1 DEF Inv, AccountInv, Held, Settled, Erased, Owed, Forwards, Queued, InFlight,
     storageVars, captureVars
<1>10. StopInv'
  BY <1>1, <1>2 DEF Inv, StopInv, Handling, storageVars, captureVars
<1> QED
  BY <1>4, <1>5, <1>6, <1>7, <1>8, <1>9, <1>10 DEF Inv

LEMMA LoadInv ==
  ASSUME Inv, NEW w \in Workers, Load(w), UNCHANGED captureVars, UNCHANGED <<phase, clean>>
  PROVE  Inv'
<1>1. /\ wpc[w] = "load" /\ wpc' = [wpc EXCEPT ![w] = "send"]
      /\ ~Blocked(wtarget[w])
      /\ UNCHANGED <<queue, wreq, wtarget, sends, storageVars>>
  BY DEF Load
<1>2. wpc \in [Workers -> WorkerPCs]
  BY DEF Inv, TypeOK, ForwardTypeOK
<1>3. \A q \in Reqs : Passed(q)' <=> Passed(q)
  BY DEF captureVars, Passed, Forwards
<1>4. TypeOK'
  <2>1. wpc' \in [Workers -> WorkerPCs]
    BY <1>1, <1>2 DEF WorkerPCs
  <2> QED
    BY <1>1, <2>1 DEF Load, Inv, TypeOK, StorageTypeOK, ForwardTypeOK, CaptureTypeOK,
           storageVars, captureVars
<1>5. HandlerInv'
  BY DEF Inv, HandlerInv, captureVars, Forwards
<1>6. FreshInv' /\ RecordAgrees'
  BY <1>1, <1>3 DEF Inv, FreshInv, RecordAgrees, Settled, storageVars
<1>7. QueueInv'
  <2>1. \A i \in 1 .. Len(queue) : queue[i].req \in Reqs
    BY QueuedJobs DEF Inv, TypeOK, Job
  <2> QED
    BY <1>1, <1>3, <2>1 DEF Inv, QueueInv, storageVars
<1>8. WorkerInv'
  <2>1. \A v \in Workers : wpc'[v] \in Busy <=> wpc[v] \in Busy
    BY <1>1, <1>2 DEF Busy
  <2>2. /\ \A v \in Workers : wpc'[v] = "await" <=> wpc[v] = "await"
        /\ \A v \in Workers : wpc[v] # "load" => wpc'[v] # "load"
        /\ \A v \in Workers : v # w => wpc'[v] = wpc[v]
    BY <1>1, <1>2
  <2>3. \A v \in Workers : wpc'[v] \in Busy /\ wpc'[v] # "load" => ~Blocked(wtarget[v])
    BY <1>1, <2>1, <2>2 DEF Inv, WorkerInv
  <2> QED
    BY <1>1, <1>3, <2>1, <2>2, <2>3 DEF Inv, WorkerInv, storageVars
<1>9. AccountInv'
  BY <1>1 DEF Inv, AccountInv, Held, Settled, Erased, Owed, Forwards, Queued, InFlight,
     storageVars, captureVars
<1>10. StopInv'
  BY <1>1, <1>2 DEF Inv, StopInv, Handling, storageVars, captureVars
<1> QED
  BY <1>4, <1>5, <1>6, <1>7, <1>8, <1>9, <1>10 DEF Inv

\* Deliver returns: the outcome of the job is recorded, lost, or void.
LEMMA ReleaseInv ==
  ASSUME Inv, NEW w \in Workers, NEW outcome \in Outcomes,
         wpc[w] \in Busy, Release(w),
         UNCHANGED <<queue, quit, dropped, sends, endpoints, requests, dbOpen>>,
         UNCHANGED captureVars, UNCHANGED <<phase, clean>>, StorageTypeOK',
         \/ /\ replays' = [replays EXCEPT ![wreq[w]] = Append(@, outcome)]
            /\ unrecorded' = unrecorded
         \/ replays' = replays /\ requests[wreq[w]] = NoRow /\ unrecorded' = unrecorded
         \/ replays' = replays /\ CanFail /\ unrecorded' = unrecorded \union {wreq[w]},
         outcome \in {"refused", "dropped", "blocked"} => wpc[w] # "await",
         outcome = "status" => wpc[w] = "await"
  PROVE  Inv'
<1> DEFINE r == wreq[w]
<1>1. /\ r \in Reqs /\ Passed(r) /\ replays[r] = <<>>
      /\ sends[r] = IF wpc[w] = "await" THEN 1 ELSE 0
      /\ \A i \in 1 .. Len(queue) : queue[i].req # r
      /\ \A v \in Workers : v # w => wreq[v] # r
  BY DEF Inv, WorkerInv
<1>2. /\ wpc \in [Workers -> WorkerPCs]
      /\ wreq \in [Workers -> Reqs \union {NoReq}]
      /\ wtarget \in [Workers -> Targets \union {NoTarget}]
      /\ replays \in [Reqs -> Seq(Outcomes)]
  BY DEF Inv, TypeOK, ForwardTypeOK, StorageTypeOK
<1>3. /\ wpc'[w] = "idle" /\ wreq'[w] = NoReq
      /\ \A v \in Workers : v # w =>
           wpc'[v] = wpc[v] /\ wreq'[v] = wreq[v] /\ wtarget'[v] = wtarget[v]
  BY <1>2 DEF Release
<1>4. /\ \A q \in Reqs \ {r} : replays'[q] = replays[q]
      /\ replays'[r] = <<>> \/ replays'[r] = <<outcome>>
  BY <1>1, <1>2
<1>5. \/ replays'[r] = <<outcome>>
      \/ requests[r] = NoRow
      \/ r \in unrecorded'
  BY <1>1, <1>2
<1>6. unrecorded' = unrecorded \/ (CanFail /\ unrecorded \subseteq unrecorded')
  OBVIOUS
<1> HIDE DEF r
<1>7. \A q \in Reqs : Passed(q)' <=> Passed(q)
  BY DEF captureVars, Passed, Forwards
<1>8. TypeOK'
  BY ReleaseType DEF Inv, TypeOK, CaptureTypeOK, captureVars
<1>9. HandlerInv'
  BY DEF Inv, HandlerInv, captureVars, Forwards
<1>10. FreshInv'
  BY <1>1, <1>4, <1>7 DEF Inv, FreshInv
<1>11. QueueInv'
  <2>1. \A i \in 1 .. Len(queue) : queue[i].req \in Reqs
    BY QueuedJobs DEF Inv, TypeOK, Job
  <2> QED
    BY <1>1, <1>4, <1>7, <2>1 DEF Inv, QueueInv
<1>12. WorkerInv'
  <2> SUFFICES ASSUME NEW v \in Workers
      PROVE  /\ wpc'[v] \notin Busy => wreq'[v] = NoReq
             /\ wpc'[v] \in Busy =>
                  /\ wreq'[v] \in Reqs
                  /\ wtarget'[v] \in Targets
                  /\ Passed(wreq[v])'
                  /\ replays'[wreq'[v]] = <<>>
                  /\ sends'[wreq'[v]] = IF wpc'[v] = "await" THEN 1 ELSE 0
                  /\ ~selfTarget(wtarget'[v])
                  /\ wpc'[v] # "load" => ~Blocked(wtarget'[v])
                  /\ \A i \in 1 .. Len(queue') : queue'[i].req # wreq'[v]
                  /\ \A u \in Workers : u # v => wreq'[u] # wreq'[v]
    BY DEF WorkerInv
  <2>1. CASE v = w
    BY <1>3, <2>1 DEF Busy
  <2>2. CASE v # w
    <3>1. wpc'[v] = wpc[v] /\ wreq'[v] = wreq[v] /\ wtarget'[v] = wtarget[v] /\ wreq[v] # r
      BY <1>1, <1>3, <2>2
    <3>2. CASE wpc[v] \notin Busy
      BY <3>1, <3>2 DEF Inv, WorkerInv
    <3>3. CASE wpc[v] \in Busy
      <4>1. /\ wreq[v] \in Reqs /\ wtarget[v] \in Targets
            /\ Passed(wreq[v]) /\ replays[wreq[v]] = <<>>
            /\ sends[wreq[v]] = IF wpc[v] = "await" THEN 1 ELSE 0
            /\ ~selfTarget(wtarget[v])
            /\ wpc[v] # "load" => ~Blocked(wtarget[v])
            /\ \A i \in 1 .. Len(queue) : queue[i].req # wreq[v]
            /\ \A u \in Workers : u # v => wreq[u] # wreq[v]
        BY <3>3 DEF Inv, WorkerInv
      <4>2. Passed(wreq[v])'
        BY <1>7, <3>1, <4>1
      <4>3. replays'[wreq'[v]] = <<>>
        BY <1>4, <3>1, <4>1
      <4>4. \A u \in Workers : u # v => wreq'[u] # wreq'[v]
        BY <1>3, <3>1, <4>1, Constants
      <4> QED
        BY <3>1, <3>3, <4>1, <4>2, <4>3, <4>4
    <3> QED
      BY <3>2, <3>3
  <2> QED
    BY <2>1, <2>2
<1>13. RecordAgrees'
  <2> SUFFICES ASSUME NEW q \in Reqs
      PROVE  /\ Len(replays'[q]) <= 1
             /\ sends'[q] <= 1
             /\ replays'[q] # <<>> =>
                  /\ replays'[q][1] \in {"refused", "dropped", "blocked"} => sends'[q] = 0
                  /\ replays'[q][1] = "status" => sends'[q] = 1
    BY DEF RecordAgrees, Settled
  <2>1. CASE q # r
    BY <1>4, <2>1 DEF Inv, RecordAgrees, Settled
  <2>2. CASE q = r /\ replays'[q] = <<>>
    BY <1>1, <2>2
  <2>3. CASE q = r /\ replays'[q] = <<outcome>>
    <3>1. Len(replays'[q]) = 1 /\ replays'[q][1] = outcome
      BY <2>3
    <3>2. sends'[q] = IF wpc[w] = "await" THEN 1 ELSE 0
      BY <1>1, <2>3
    <3> QED
      BY <3>1, <3>2
  <2> QED
    BY <1>4, <2>1, <2>2, <2>3
<1>14. AccountInv'
  <2> SUFFICES ASSUME NEW q \in Owed'
               PROVE (Held(q) \/ Settled(q) \/ Erased(q) \/ q \in unrecorded)'
    BY DEF AccountInv
  <2>1. q \in Reqs /\ q \in Owed /\ pc' = pc /\ Queued' = Queued
    BY DEF Inv, TypeOK, CaptureTypeOK, captureVars, Owed, Forwards, Queued
  <2>2. CASE q = r
    BY <1>5, <2>2 DEF Settled, Erased
  <2>3. CASE q # r
    <3>1. q \in InFlight => q \in InFlight'
      BY <1>3, <2>3 DEF InFlight, r
    <3> QED
      BY <1>4, <1>6, <2>1, <2>3, <3>1 DEF Inv, AccountInv, Held, Settled, Erased
  <2> QED
    BY <2>2, <2>3
<1>15. StopInv'
  <2>1. wpc[w] # "exited"
    BY DEF Busy
  <2>2. clean => dbOpen /\ phase \notin {"closed", "exited"}
    BY <2>1 DEF Inv, TypeOK, StopInv
  <2>3. ~Faulty /\ (dbOpen \/ clean) => unrecorded' = {}
    BY <1>6, <2>2 DEF Inv, StopInv, CanFail
  <2>4. Handling' = Handling
    BY DEF Handling, captureVars
  <2> QED
    BY <2>2, <2>3, <2>4 DEF Inv, StopInv
<1> QED
  BY <1>8, <1>9, <1>10, <1>11, <1>12, <1>13, <1>14, <1>15 DEF Inv

\* The same, for the worker steps that end in a call of record.
LEMMA WorkerRecords ==
  ASSUME Inv, NEW w \in Workers, NEW outcome \in {"blocked", "error", "status"},
         wpc[w] \in Busy, record(wreq[w], outcome), Release(w),
         UNCHANGED <<queue, quit, dropped, sends>>,
         UNCHANGED captureVars, UNCHANGED <<phase, clean>>,
         outcome = "blocked" => wpc[w] = "load",
         outcome = "status" => wpc[w] = "await"
  PROVE  Inv'
<1>1. outcome \in Outcomes /\ wreq[w] \in Reqs
  BY DEF Outcomes, Inv, WorkerInv
<1>2. StorageTypeOK'
  BY <1>1, RecordType DEF Inv, TypeOK
<1>3. /\ UNCHANGED <<endpoints, requests, dbOpen>>
      /\ \/ /\ replays' = [replays EXCEPT ![wreq[w]] = Append(@, outcome)]
            /\ unrecorded' = unrecorded
         \/ replays' = replays /\ requests[wreq[w]] = NoRow /\ unrecorded' = unrecorded
         \/ replays' = replays /\ CanFail /\ unrecorded' = unrecorded \union {wreq[w]}
  BY DEF record, storageVars
<1> QED
  BY <1>1, <1>2, <1>3, ReleaseInv

LEMMA WorkerStepInv ==
  ASSUME Inv, NEW w \in Workers, WorkerStep(w)
  PROVE  Inv'
<1>1. UNCHANGED <<phase, clean>>
  BY DEF WorkerStep
<1>2. CASE Work(w) /\ RefuseBlocked(w)
  BY <1>1, <1>2, WorkerRecords DEF Work, RefuseBlocked, Busy
<1>3. CASE Work(w) /\ LoadFails(w)
  <2>1. /\ wpc[w] = "load" /\ wpc[w] \in Busy /\ Release(w)
        /\ UNCHANGED <<queue, quit, dropped, sends, endpoints, requests, replays, dbOpen>>
        /\ UNCHANGED captureVars
    BY <1>3 DEF Work, LoadFails, Busy
  <2>2. wreq[w] \in Reqs /\ "error" \in Outcomes
    BY <2>1 DEF Inv, WorkerInv, Outcomes
  <2>3. \/ requests[wreq[w]] = NoRow /\ unrecorded' = unrecorded
        \/ CanFail /\ unrecorded' = unrecorded \union {wreq[w]}
    BY <1>3 DEF LoadFails
  <2>4. StorageTypeOK'
    BY <2>1, <2>2, <2>3 DEF Inv, TypeOK, StorageTypeOK
  <2> QED
    BY <1>1, <2>1, <2>2, <2>3, <2>4, ReleaseInv
<1>4. CASE Work(w) /\ SendFails(w)
  BY <1>1, <1>4, WorkerRecords DEF Work, SendFails, Busy
<1>5. CASE Responded(w)
  BY <1>1, <1>5, WorkerRecords DEF Responded, Finish, Busy
<1>6. CASE NoResponse(w)
  BY <1>1, <1>6, WorkerRecords DEF NoResponse, Finish, Busy
<1>7. CASE Work(w) /\ (Take(w) \/ Quit(w) \/ Load(w))
  BY <1>1, <1>7, TakeInv, QuitInv, LoadInv DEF Work
<1>8. CASE SendAway(w) \/ SendBack(w)
  BY <1>1, <1>8, SendAwayInv, SendBackInv
<1> QED
  BY <1>2, <1>3, <1>4, <1>5, <1>6, <1>7, <1>8 DEF WorkerStep, Work

-----------------------------------------------------------------------------
(* Management, the shutdown, and the whole. *)

\* A deletion takes the row of a request and its outcomes together.
LEMMA ManageFacts ==
  ASSUME TypeOK, Manage
  PROVE  /\ \A q \in Reqs : \/ replays'[q] = replays[q] /\ requests'[q] = requests[q]
                            \/ replays'[q] = <<>> /\ requests'[q] = NoRow
         /\ UNCHANGED <<dbOpen, unrecorded>>
         /\ UNCHANGED <<forwardVars, captureVars, phase, clean>>
BY DEF Manage, InsertEndpoint, UpdateTarget, DeleteEndpoint, DeleteRequests,
       DeleteRequest, ExpireRequests, Erase

LEMMA ManageInv == Inv /\ Manage => Inv'
<1> SUFFICES ASSUME Inv, Manage PROVE Inv'
  OBVIOUS
<1>1. /\ \A q \in Reqs : \/ replays'[q] = replays[q] /\ requests'[q] = requests[q]
                         \/ replays'[q] = <<>> /\ requests'[q] = NoRow
      /\ UNCHANGED <<dbOpen, unrecorded>>
      /\ UNCHANGED <<forwardVars, captureVars, phase, clean>>
  BY ManageFacts DEF Inv
<1>2. TypeOK'
  BY <1>1, ManageType DEF Inv, TypeOK, ForwardTypeOK, CaptureTypeOK, forwardVars, captureVars
<1>3. HandlerInv'
  BY <1>1 DEF Inv, HandlerInv, captureVars, Forwards
<1>4. FreshInv' /\ QueueInv' /\ WorkerInv' /\ RecordAgrees'
  <2>1. \A q \in Reqs : Passed(q)' <=> Passed(q)
    BY <1>1 DEF captureVars, Passed, Forwards
  <2> QED
    BY <1>1, <2>1, Quiet DEF forwardVars
<1>5. AccountInv'
  <2> SUFFICES ASSUME NEW q \in Owed'
               PROVE (Held(q) \/ Settled(q) \/ Erased(q) \/ q \in unrecorded)'
    BY DEF AccountInv
  <2>1. q \in Reqs /\ q \in Owed /\ (Held(q)' <=> Held(q))
    BY <1>1 DEF Inv, TypeOK, CaptureTypeOK, captureVars, forwardVars, Owed, Forwards,
       Held, Queued, InFlight
  <2> QED
    BY <1>1, <2>1 DEF Inv, AccountInv, Settled, Erased
<1>6. StopInv'
  BY <1>1 DEF Inv, StopInv, Handling, forwardVars, captureVars
<1> QED
  BY <1>2, <1>3, <1>4, <1>5, <1>6 DEF Inv

\* What the life of the process changes, the other parts do not see.
LEMMA LifeInv ==
  ASSUME Inv, UNCHANGED <<endpoints, requests, replays, unrecorded, captureVars>>,
         UNCHANGED <<queue, wpc, wreq, wtarget, dropped, sends>>,
         quit' \in BOOLEAN, dbOpen' \in BOOLEAN, clean' \in BOOLEAN, phase' \in Phases,
         StopInv'
  PROVE  Inv'
<1>1. TypeOK'
  BY DEF Inv, TypeOK, StorageTypeOK, ForwardTypeOK, CaptureTypeOK, captureVars
<1>2. HandlerInv'
  BY DEF Inv, HandlerInv, captureVars, Forwards
<1>3. FreshInv' /\ QueueInv' /\ WorkerInv' /\ RecordAgrees'
  <2>1. \A q \in Reqs : Passed(q)' <=> Passed(q)
    BY DEF captureVars, Passed, Forwards
  <2> QED
    BY <2>1, Quiet
<1>4. AccountInv'
  BY DEF Inv, AccountInv, Held, Settled, Erased, Owed, Forwards, Queued, InFlight, captureVars
<1> QED
  BY <1>1, <1>2, <1>3, <1>4 DEF Inv

LEMMA ShutdownInv == Inv /\ (Signal \/ Main \/ ListenFails) => Inv'
<1> SUFFICES ASSUME Inv, Signal \/ Main \/ ListenFails PROVE Inv'
  OBVIOUS
<1> USE DEF Inv, TypeOK, StorageTypeOK, ForwardTypeOK, Phases, storageVars, forwardVars
<1>1. CASE Signal
  <2>1. StopInv'
    BY <1>1 DEF Signal, StopInv, Handling, captureVars
  <2> QED
    BY <1>1, <2>1, LifeInv DEF Signal
<1>2. CASE ShutdownReturns
  <2>1. StopInv'
    BY <1>2 DEF ShutdownReturns, StopInv, Handling, captureVars
  <2> QED
    BY <1>2, <2>1, LifeInv DEF ShutdownReturns
<1>3. CASE CloseQuit
  <2>1. StopInv'
    BY <1>3 DEF CloseQuit, StopInv, Handling, captureVars
  <2> QED
    BY <1>3, <2>1, LifeInv DEF CloseQuit
<1>4. CASE CloseStorage
  <2>1. /\ phase = "wait" /\ phase' = "closed" /\ dbOpen' = FALSE
        /\ UNCHANGED <<queue, wpc, pc, unrecorded>>
    BY <1>4 DEF CloseStorage, captureVars
  <2>4. clean' => clean /\ \A w \in Workers : wpc[w] = "exited"
    BY <1>4 DEF CloseStorage
  <2>5. dbOpen
    BY <2>1 DEF StopInv
  <2>2. /\ clean' => Handling' = {} /\ queue' = <<>>
        /\ ~Faulty => unrecorded' = {}
    BY <2>1, <2>4, <2>5 DEF StopInv, Handling
  <2>3. StopInv'
    BY <2>1, <2>2, <2>4 DEF StopInv
  <2> QED
    BY <1>4, <2>3, LifeInv DEF CloseStorage
<1>5. CASE ListenFails
  <2>1. StopInv'
    BY <1>5 DEF ListenFails, StopInv
  <2> QED
    BY <1>5, <2>1, LifeInv DEF ListenFails
<1>6. CASE Exit
  <2>1. StopInv'
    BY <1>6 DEF Exit, StopInv, Handling, captureVars
  <2> QED
    BY <1>6, <2>1, LifeInv DEF Exit
<1> QED
  BY <1>1, <1>2, <1>3, <1>4, <1>5, <1>6 DEF Main

LEMMA InitInv == Init => Inv
<1> SUFFICES ASSUME Init PROVE Inv
  OBVIOUS
<1> USE DEF Init, StorageInit, ForwardInit, CaptureInit
<1>1. TypeOK
  <2>1. <<>> \in Seq(Job) /\ <<>> \in Seq(Outcomes)
    OBVIOUS
  <2>2. StorageTypeOK
    BY <2>1 DEF StorageTypeOK
  <2>3. Len(queue) <= QueueLen
    BY Constants
  <2>4. ForwardTypeOK
    BY <2>1, <2>3 DEF ForwardTypeOK, WorkerPCs
  <2>5. CaptureTypeOK
    BY DEF CaptureTypeOK, CapturePCs, Replies
  <2> QED
    BY <2>2, <2>4, <2>5 DEF TypeOK, Phases
<1>2. HandlerInv /\ FreshInv
  BY DEF HandlerInv, FreshInv, Early, Passed
<1>3. QueueInv /\ WorkerInv
  <2>1. Len(queue) = 0
    OBVIOUS
  <2>2. 1 .. Len(queue) = {}
    BY <2>1
  <2> QED
    BY <2>2 DEF QueueInv, WorkerInv, Busy
<1>4. RecordAgrees
  <2>1. \A r \in Reqs : replays[r] = <<>> /\ sends[r] = 0
    OBVIOUS
  <2> QED
    BY <2>1 DEF RecordAgrees, Settled
<1>5. AccountInv
  BY DEF AccountInv, Owed
<1>6. StopInv
  BY DEF StopInv, Handling
<1> QED
  BY <1>1, <1>2, <1>3, <1>4, <1>5, <1>6 DEF Inv

LEMMA NextInv == Inv /\ [Next]_vars => Inv'
<1> SUFFICES ASSUME Inv, [Next]_vars PROVE Inv'
  OBVIOUS
<1>1. CASE Next
  BY <1>1, ReceiveInv, HandleInv, WorkerStepInv, ManageInv, ShutdownInv DEF Next
<1>2. CASE UNCHANGED vars
  <2>1. StopInv'
    BY <1>2 DEF vars, storageVars, forwardVars, captureVars, Inv, StopInv, Handling
  <2> QED
    BY <1>2, <2>1, LifeInv DEF vars, storageVars, forwardVars, Inv, TypeOK,
       StorageTypeOK, ForwardTypeOK
<1> QED
  BY <1>1, <1>2

LEMMA InvHolds == Spec => []Inv
<1> QED
  BY InitInv, NextInv, PTL DEF Spec

-----------------------------------------------------------------------------
(* Deliveries that come back. *)

\* A delivery that arrived here came of a request that arrived before it, and
\* carries no Connection header.  If it came unmarked, then that request's own
\* Connection header did it, so it was not a delivery itself.
ParentInv ==
  \A r \in Reqs : parent[r] # NoReq =>
    /\ parent[r] \in Reqs /\ pc[parent[r]] # "idle"
    /\ ~strips[r]
    /\ marked[r] \/ (strips[parent[r]] /\ parent[parent[r]] = NoReq)

\* All but an arrival leave the headers of every request as they are, and no
\* handler goes back to the start.
LEMMA HeadersStay ==
  ASSUME ParentInv, UNCHANGED <<marked, strips, parent>>,
         \A q \in Reqs : pc[q] # "idle" => pc'[q] # "idle"
  PROVE  ParentInv'
BY DEF ParentInv

\* An arrival with a request p behind it, or with none.
LEMMA ArriveParent ==
  ASSUME Inv, ParentInv, NEW r \in Reqs, NEW s, NEW mark \in BOOLEAN, NEW hop \in BOOLEAN,
         NEW p \in Reqs \union {NoReq}, Arrive(r, s, mark, hop, p),
         p # NoReq => /\ pc[p] # "idle"
                      /\ ~hop
                      /\ mark = ~strips[p]
  PROVE  ParentInv'
<1> USE DEF Arrive, Goto
<1>1. /\ pc[r] = "idle"
      /\ pc'[r] = "lookup" /\ marked'[r] = mark /\ strips'[r] = hop /\ parent'[r] = p
      /\ \A q \in Reqs \ {r} :
           /\ pc'[q] = pc[q] /\ marked'[q] = marked[q]
           /\ strips'[q] = strips[q] /\ parent'[q] = parent[q]
  BY DEF Inv, TypeOK, CaptureTypeOK
<1> SUFFICES ASSUME NEW q \in Reqs, parent'[q] # NoReq
             PROVE  /\ parent'[q] \in Reqs /\ pc'[parent'[q]] # "idle"
                    /\ ~strips'[q]
                    /\ marked'[q] \/ (strips'[parent'[q]] /\ parent'[parent'[q]] = NoReq)
  BY DEF ParentInv
<1>2. CASE q = r
  <2>1. p \in Reqs \ {r} /\ pc[p] # "idle" /\ mark = ~strips[p] /\ ~hop
    BY <1>1, <1>2
  <2>2. strips[p] => parent[p] = NoReq
    BY <2>1 DEF ParentInv
  <2> QED
    BY <1>1, <1>2, <2>1, <2>2
<1>3. CASE q # r
  <2>1. parent'[q] = parent[q] /\ parent[q] \in Reqs \ {r}
    BY <1>1, <1>3 DEF ParentInv
  <2> QED
    BY <1>1, <1>3, <2>1 DEF ParentInv
<1> QED
  BY <1>2, <1>3

LEMMA ParentNext == Inv /\ ParentInv /\ [Next]_vars => ParentInv'
<1> SUFFICES ASSUME Inv, ParentInv, [Next]_vars PROVE ParentInv'
  OBVIOUS
<1>1. CASE \E r \in Reqs : Receive(r)
  <2>1. PICK r \in Reqs, s \in Slugs, mark \in Marks, hop \in Hops :
               Arrive(r, s, mark, hop, NoReq)
    BY <1>1 DEF Receive
  <2> QED
    BY <2>1, Constants, ArriveParent
<1>2. CASE \E r \in Reqs : Handle(r)
  <2>1. PICK r \in Reqs : HandlerStep(r)
    BY <1>2 DEF Handle
  <2>2. /\ UNCHANGED <<marked, strips, parent>>
        /\ \E label \in CapturePCs \ {"idle"} : Goto(r, label)
    BY <2>1 DEF HandlerStep, RejectPath, Lookup, AutoCreate, Unavailable, RejectBody,
       Save, Announce, Enqueue, EnqueueDropped, Gate, Answer, CapturePCs
  <2> QED
    BY <2>2, HeadersStay DEF Goto, Inv, TypeOK, CaptureTypeOK
<1>3. CASE \E w \in Workers : WorkerStep(w) /\ UNCHANGED captureVars
  BY <1>3, HeadersStay DEF captureVars
<1>4. CASE \E w \in Workers : SendBack(w)
  <2>1. PICK w \in Workers : SendBack(w)
    BY <1>4
  <2>2. PICK r \in Reqs : Arrive(r, Lands[wtarget[w]], ~strips[wreq[w]], FALSE, wreq[w])
    BY <2>1 DEF SendBack
  <2>3. wreq[w] \in Reqs /\ pc[wreq[w]] # "idle"
    BY <2>1 DEF SendBack, Inv, WorkerInv, Busy, Passed
  <2>4. (~strips[wreq[w]]) \in BOOLEAN /\ FALSE \in BOOLEAN
    OBVIOUS
  <2> QED
    BY <2>2, <2>3, <2>4, ArriveParent
<1>5. CASE Manage \/ Signal \/ Main \/ ListenFails \/ UNCHANGED vars
  <2>1. UNCHANGED captureVars
    BY <1>5 DEF Manage, Signal, Main, ShutdownReturns, CloseQuit, CloseStorage, Exit,
       ListenFails, vars
  <2> QED
    BY <2>1, HeadersStay DEF captureVars
<1>6. ASSUME NEW w \in Workers, WorkerStep(w)
      PROVE  UNCHANGED captureVars \/ SendBack(w)
  BY <1>6 DEF WorkerStep, Work, SendAway, Responded, NoResponse
<1> QED
  BY <1>1, <1>2, <1>3, <1>4, <1>5, <1>6 DEF Next

-----------------------------------------------------------------------------
(* The theorems. *)

\* Type correctness of storage, forwarder, handlers and runServe; among it,
\* the queue never holds more than QueueLen jobs, whoever enqueues.
THEOREM TypeCorrect == Spec => []TypeOK
<1>1. Inv => TypeOK
  BY DEF Inv
<1> QED
  BY <1>1, InvHolds, PTL

\* Whatever deletions, faults and closing of the database the handler meets
\* between its SELECT and its INSERT, its answer (capture.go:153-190) tells
\* the provider whether the capture was stored.
THEOREM AnswersAgree == Spec => []AnswerAgrees
<1>1. Inv => AnswerAgrees
  BY DEF Inv, HandlerInv, AnswerAgrees
<1> QED
  BY <1>1, InvHolds, PTL

\* For any number of workers and any queue, the replays table holds at most
\* one automatic outcome per capture and it agrees with what was sent
\* (service.go:63-76, forward.go:26-83).
THEOREM RecordsAgree == Spec => []RecordAgrees
<1>1. Inv => RecordAgrees
  BY DEF Inv
<1> QED
  BY <1>1, InvHolds, PTL

\* Under whatever names targets reach this server and whatever the Connection
\* header of a captured request names, a marked delivery is never delivered on
\* (the Marked test, capture.go:174), and only the first of a chain can come
\* back unmarked (StripHopByHop, forward.go:65).
THEOREM NoLoop == Spec => []LoopBounded
<1>1. Init => ParentInv
  BY DEF Init, CaptureInit, ParentInv
<1>2. Inv /\ ParentInv => LoopBounded
  <2> SUFFICES ASSUME Inv, ParentInv, NEW r \in Reqs, parent[r] # NoReq
               PROVE  /\ marked[r] => sends[r] = 0 /\ replays[r] = <<>>
                      /\ marked[r] \/ (strips[parent[r]] /\ parent[parent[r]] = NoReq)
    BY DEF LoopBounded
  <2>1. marked[r] => ~Passed(r)
    BY DEF Passed, Forwards
  <2> QED
    BY <2>1 DEF Inv, FreshInv, ParentInv
<1> QED
  BY <1>1, <1>2, InvHolds, ParentNext, PTL DEF Spec

\* Only an outbound URL that passed both policies is put on the wire,
\* although the endpoint's target may have changed since (forward.go:27,
\* service.go:64).
THEOREM PolicyKept == Spec => []PolicyHolds
<1>1. Inv => PolicyHolds
  BY DEF Inv, WorkerInv, Busy, PolicyHolds
<1> QED
  BY <1>1, InvHolds, PTL

\* No interleaving of handlers, workers, deletions and shutdown makes an
\* owed capture vanish from a running process.
THEOREM AllAccounted == Spec => []Accounted
<1>1. Inv => Accounted
  BY DEF Inv, AccountInv, Accounted
<1> QED
  BY <1>1, InvHolds, PTL

\* The shutdown order of runServe (main.go:131-137) loses nothing as long as
\* no deadline cuts it short.
THEOREM CleanShutdown == Spec => []CleanShutdownAccounts
<1>1. Inv => CleanShutdownAccounts
  <2> SUFFICES ASSUME Inv, phase = "exited", clean, ~Faulty, NEW r \in Owed
               PROVE  Settled(r) \/ Erased(r)
    BY DEF CleanShutdownAccounts
  <2>1. /\ Handling = {} /\ queue = <<>> /\ unrecorded = {}
        /\ \A w \in Workers : wpc[w] = "exited"
    BY DEF Inv, StopInv
  <2>2. r \in Reqs
    BY DEF Owed, Inv, TypeOK, CaptureTypeOK
  <2>3. pc[r] \in {"idle", "done"}
    BY <2>1, <2>2 DEF Handling
  <2>4. Queued = {}
    <3>1. DOMAIN queue = {}
      BY <2>1
    <3> QED
      BY <3>1 DEF Queued
  <2>5. InFlight = {}
    BY <2>1 DEF Inv, WorkerInv, Busy, InFlight
  <2>6. ~Held(r)
    BY <2>3, <2>4, <2>5 DEF Held
  <2> QED
    BY <2>1, <2>6 DEF Inv, AccountInv
<1> QED
  BY <1>1, InvHolds, PTL

-----------------------------------------------------------------------------
(* The server implements SaveFirst. *)

Acked == {r \in Reqs : reply[r] \in {"mock", "429"}}

\* Every step of a handler keeps, tells, acknowledges, or does nothing the
\* promise speaks of.
LEMMA HandleKeepsPromise ==
  ASSUME Inv, NEW r \in Reqs, HandlerStep(r)
  PROVE  Promise!Next \/ UNCHANGED <<saved, announced, Acked, sends>>
<1> USE DEF Goto, Answer
<1>1. reply \in [Reqs -> Replies] /\ (pc[r] # "done" => reply[r] = "none")
  BY DEF Inv, TypeOK, CaptureTypeOK, HandlerInv
<1>2. CASE Save(r)
  <2>1. Promise!Keep(r)
    BY <1>2 DEF Save, Promise!Keep, Inv, HandlerInv, Early, forwardVars
  <2> QED
    BY <2>1 DEF Promise!Next
<1>3. CASE Announce(r)
  <2>1. Promise!Tell(r)
    BY <1>3 DEF Announce, Promise!Tell, Inv, HandlerInv, forwardVars
  <2> QED
    BY <2>1 DEF Promise!Next
<1>4. CASE Gate(r)
  <2>1. r \in saved /\ r \notin Acked
    BY <1>1, <1>4 DEF Gate, Inv, HandlerInv, Acked
  <2>2. Acked' = Acked \union {r}
    BY <1>1, <1>4 DEF Gate, Acked
  <2>3. Promise!Acknowledge(r)
    BY <1>4, <2>1, <2>2 DEF Gate, Promise!Acknowledge, Acked, forwardVars
  <2> QED
    BY <2>3 DEF Promise!Next
<1>5. CASE RejectPath(r) \/ RejectBody(r) \/ Unavailable(r)
  <2>1. \E code \in {"400", "413", "503"} :
          pc[r] # "done" /\ reply' = [reply EXCEPT ![r] = code]
    BY <1>5 DEF RejectPath, RejectBody, Unavailable
  <2>2. Acked' = Acked
    BY <1>1, <2>1 DEF Acked
  <2> QED
    BY <1>5, <2>2 DEF RejectPath, RejectBody, Unavailable, forwardVars
<1>6. CASE Lookup(r) \/ AutoCreate(r)
  BY <1>6 DEF Lookup, AutoCreate, forwardVars, Acked
<1>7. CASE Enqueue(r) \/ EnqueueDropped(r)
  BY <1>7 DEF Enqueue, EnqueueDropped, Refuse, Push, Drop, RecordDrop, forwardVars, Acked
<1> QED
  BY <1>2, <1>3, <1>4, <1>5, <1>6, <1>7 DEF HandlerStep

\* A worker delivers a capture at most once, and only a stored one.
LEMMA WorkKeepsPromise ==
  ASSUME Inv, NEW w \in Workers, WorkerStep(w)
  PROVE  Promise!Next \/ UNCHANGED <<saved, announced, Acked, sends>>
<1>1. CASE SendAway(w) \/ SendBack(w)
  <2>1. /\ Send(w) /\ UNCHANGED <<saved, announced, reply>>
        /\ wpc[w] = "send"
    BY <1>1 DEF SendAway, SendBack, Send, Arrive, captureVars
  <2>2. wreq[w] \in Reqs /\ wreq[w] \in saved /\ sends[wreq[w]] = 0
    BY <2>1 DEF Inv, WorkerInv, Busy, Passed
  <2>3. sends' = [sends EXCEPT ![wreq[w]] = 1]
    BY <2>1, <2>2 DEF Send
  <2>4. Promise!Deliver(wreq[w])
    BY <2>1, <2>2, <2>3 DEF Promise!Deliver, Acked
  <2> QED
    BY <2>2, <2>4 DEF Promise!Next
<1>2. CASE Work(w) \/ Responded(w) \/ NoResponse(w)
  <2>1. sends' = sends /\ UNCHANGED captureVars
    BY <1>2 DEF Work, Take, Quit, RefuseBlocked, Load, LoadFails, SendFails,
       Responded, NoResponse, Finish
  <2> QED
    BY <2>1 DEF captureVars, Acked
<1> QED
  BY <1>1, <1>2 DEF WorkerStep

\* Handlers, workers, management and shutdown together keep the promise that
\* a capture is stored before it is announced, answered or delivered, and is
\* announced, answered and delivered at most once (architecture.md:66).
THEOREM Refines == Spec => SavesFirst
<1>1. Init => Promise!Init
  BY DEF Init, CaptureInit, ForwardInit, Promise!Init
<1>2. Inv /\ [Next]_vars => [Promise!Next]_<<saved, announced, Acked, sends>>
  <2> SUFFICES ASSUME Inv, [Next]_vars
               PROVE  Promise!Next \/ UNCHANGED <<saved, announced, Acked, sends>>
    OBVIOUS
  <2>1. ASSUME NEW r \in Reqs, Receive(r) PROVE UNCHANGED <<saved, announced, Acked, sends>>
    BY <2>1 DEF Receive, Arrive, forwardVars, Acked
  <2>2. ASSUME NEW r \in Reqs, Handle(r)
        PROVE  Promise!Next \/ UNCHANGED <<saved, announced, Acked, sends>>
    BY <2>2, HandleKeepsPromise DEF Handle
  <2>3. CASE Manage
    BY <2>3 DEF Manage, captureVars, forwardVars, Acked
  <2>4. CASE Signal \/ Main \/ ListenFails
    BY <2>4 DEF Signal, Main, ShutdownReturns, CloseQuit, CloseStorage, Exit, ListenFails,
       captureVars, forwardVars, Acked
  <2>5. CASE UNCHANGED vars
    BY <2>5 DEF vars, captureVars, forwardVars, Acked
  <2> QED
    BY <2>1, <2>2, <2>3, <2>4, <2>5, WorkKeepsPromise DEF Next
<1> QED
  BY <1>1, <1>2, InvHolds, PTL DEF Spec, SavesFirst, Promise!Spec, Acked
=============================================================================
