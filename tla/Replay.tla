-------------------------------- MODULE Replay --------------------------------
(***************************************************************************)
(* Replaying one captured request: POST /api/requests/<id>/replay and the  *)
(* command `omnihook replay` send it up to MaxTimes times, one after the   *)
(* other, to a target of the user's choice.  Several batches may run at    *)
(* once, the request may be deleted under them, and the API's batch has a  *)
(* deadline and a client that may leave.                                   *)
(*                                                                         *)
(* Of a response only its class is kept; delays are waits of any length.   *)
(* The endpoint's provider and secret may change between any two sends, so *)
(* each send that is signed anew may find any of them, with any captured   *)
(* request.  Headers the user adds are left out: they are sent as given.   *)
(***************************************************************************)
EXTENDS Outbound, Signatures, FiniteSets

CONSTANTS
  Batches,   \* identities of batches, each used once
  MaxTimes,  \* 50
  Captured,  \* the headers captured requests may have
  Faulty     \* may a statement fail?

ASSUME ReplayAssumption == MaxTimes \in Nat \ {0} /\ Faulty \in BOOLEAN

VARIABLES
  stored,   \* the request's row exists
  rows,     \* its rows in replays by batch, oldest first
  kind,     \* "api" or "command"
  target,   \* in.Target, -target
  times,    \* how many sends are wanted
  resign,   \* in.Resign, -resign
  pc,       \* where the batch is
  outcome,  \* what came of the send at hand
  results,  \* the results so far, one per finished send
  ended,    \* batchCtx is done: its deadline, the server's, or the client left
  mute,     \* the 30 s of the server's ReadTimeout and WriteTimeout have passed
  reply,    \* the answer or exit code
  wire,     \* history: exchanges begun
  late,     \* history: exchanges begun after batchCtx was done
  stray,    \* history: exchanges begun after the request was deleted
  lost,     \* history: batches that lost a record to a failed statement
  stale     \* history: batches that signed a request in vain

vars == <<stored, rows, kind, target, times, resign, pc, outcome, results, ended,
          mute, reply, wire, late, stray, lost, stale>>

batch == <<kind, target, times, resign, ended, mute>>
history == <<wire, late, stray, lost, stale>>

\* No such row; barred; no fresh signature; no response; below 400; the rest.
Results == {"missing", "blocked", "unsigned", "error", "accepted", "rejected"}
Recorded == Results \ {"missing"}
Answered == {"accepted", "rejected"}

Labels ==
  {"idle", "exists", "next", "sleep", "poll", "load", "send", "await", "record",
   "return", "done"}

Replies ==
  {"none", "400", "404", "500", "single", "list", "cancelled", "exit0", "exit1"}

TypeOK ==
  /\ stored \in BOOLEAN
  /\ rows \in [Batches -> Seq(Recorded)]
  /\ kind \in [Batches -> {"api", "command"}]
  /\ target \in [Batches -> Targets]
  /\ times \in [Batches -> Nat]
  /\ resign \in [Batches -> BOOLEAN]
  /\ pc \in [Batches -> Labels]
  /\ outcome \in [Batches -> Results]
  /\ results \in [Batches -> Seq(Results)]
  /\ ended \in [Batches -> BOOLEAN]
  /\ mute \in [Batches -> BOOLEAN]
  /\ reply \in [Batches -> Replies]
  /\ wire \in [Batches -> Nat]
  /\ late \in [Batches -> Nat]
  /\ stray \in [Batches -> Nat]
  /\ lost \subseteq Batches
  /\ stale \subseteq Batches
  /\ \A b \in Batches : Len(results[b]) <= MaxTimes

Init ==
  /\ stored = TRUE
  /\ rows = [b \in Batches |-> <<>>]
  /\ kind = [b \in Batches |-> "api"]
  /\ target \in [Batches -> Targets]
  /\ times = [b \in Batches |-> 1]
  /\ resign \in [Batches -> BOOLEAN]
  /\ pc = [b \in Batches |-> "idle"]
  /\ outcome = [b \in Batches |-> "missing"]
  /\ results = [b \in Batches |-> <<>>]
  /\ ended = [b \in Batches |-> FALSE]
  /\ mute = [b \in Batches |-> FALSE]
  /\ reply = [b \in Batches |-> "none"]
  /\ wire = [b \in Batches |-> 0]
  /\ late = [b \in Batches |-> 0]
  /\ stray = [b \in Batches |-> 0]
  /\ lost = {}
  /\ stale = {}

-----------------------------------------------------------------------------
At(b, label) == pc[b] = label
Goto(b, label) == pc' = [pc EXCEPT ![b] = label]

Answer(b, code) ==
  /\ Goto(b, "done")
  /\ reply' = [reply EXCEPT ![b] = code]

\* What the batch has to do is known: a request to the API, or a command line.
Begin(b, k, n, label) ==
  /\ At(b, "idle")
  /\ kind' = [kind EXCEPT ![b] = k]
  /\ times' = [times EXCEPT ![b] = n]
  /\ Goto(b, label)
  /\ UNCHANGED <<stored, rows, target, resign, outcome, results, ended, mute, reply, history>>

BeginAPI(b) == \E n \in 0 .. MaxTimes + 1 : Begin(b, "api", n, "exists")

\* The command checks its numbers before the first statement and does not ask
\* whether the request exists.
BeginCommand(b) == \E n \in 1 .. MaxTimes : Begin(b, "command", n, "next")

\* A command line with malformed input.
Usage(b) ==
  /\ At(b, "idle")
  /\ Answer(b, "exit1")
  /\ UNCHANGED <<stored, rows, batch, outcome, results, history>>

\* Malformed input to the API, found before or after it asked for the row.
Reject(b) ==
  /\ At(b, "exists")
  /\ Answer(b, "400")
  /\ UNCHANGED <<stored, rows, batch, outcome, results, history>>

\* Mutant: any number below one is taken as it is.
Unclamped(n) == n

\* Mutant: off by one.
CapPlusOne(n) == n <= MaxTimes + 1

Clamped(n) == IF n < 1 THEN 1 ELSE n

WithinCap(n) == n <= MaxTimes

\* SELECT EXISTS(...), then the number of sends is checked: fewer than one
\* means one.
Exists(b) ==
  /\ At(b, "exists")
  /\ \/ Faulty /\ Answer(b, "500") /\ UNCHANGED times
     \/ ~stored /\ Answer(b, "404") /\ UNCHANGED times
     \/ /\ stored
        /\ WithinCap(times[b])
        /\ times' = [times EXCEPT ![b] = Clamped(@)]
        /\ Goto(b, "next")
        /\ UNCHANGED reply
  /\ UNCHANGED <<stored, rows, kind, target, resign, ended, mute, outcome, results, history>>

-----------------------------------------------------------------------------
Last(b) == Len(results[b]) = times[b]

\* Mutant: only the last send decides the exit code.
ExitsByLast(b, code) ==
  code = IF results[b][times[b]] \in Answered THEN "exit0" ELSE "exit1"

\* A send without a response makes the command fail, one with a status of 400
\* or more only with --fail-on-http-error.
Exits(b, code) ==
  LET of == {results[b][i] : i \in 1 .. Len(results[b])} IN
  \/ code = "exit0" /\ of \subseteq Answered
  \/ code = "exit1" /\ ~(of \subseteq {"accepted"})

\* The head of the loop, or the answer behind it.
NextSend(b) ==
  /\ At(b, "next")
  /\ \/ /\ ~Last(b)
        /\ \E label \in {"sleep", "poll"} :
             /\ label = "sleep" => results[b] # <<>>
             /\ Goto(b, label)
        /\ UNCHANGED reply
     \/ /\ Last(b)
        /\ kind[b] = "api"
        /\ Answer(b, IF times[b] = 1 THEN "single" ELSE "list")
     \/ /\ Last(b)
        /\ kind[b] = "command"
        /\ \E code \in {"exit0", "exit1"} : Exits(b, code) /\ Answer(b, code)
  /\ UNCHANGED <<stored, rows, batch, outcome, results, history>>

\* The delay between two sends is over.  If batchCtx is done as well the
\* select may go either way.
Wake(b) ==
  /\ At(b, "sleep")
  /\ Goto(b, "poll")
  /\ UNCHANGED <<stored, rows, batch, outcome, results, reply, history>>

Cancel(b) ==
  /\ pc[b] \in {"sleep", "poll"}
  /\ ended[b]
  /\ Answer(b, "cancelled")
  /\ UNCHANGED <<stored, rows, batch, outcome, results, history>>

\* Mutant: the deadline is only looked at during the delay.
PollsNot(b) ==
  /\ At(b, "poll")
  /\ Goto(b, "load")
  /\ UNCHANGED <<stored, rows, batch, outcome, results, reply, history>>

\* The last look at the deadline before a send.  The command has none.
Poll(b) ==
  /\ At(b, "poll")
  /\ ~ended[b]
  /\ Goto(b, "load")
  /\ UNCHANGED <<stored, rows, batch, outcome, results, reply, history>>

-----------------------------------------------------------------------------
\* A send is over, and the user's results have one more.
Gains(b, result) ==
  /\ Goto(b, "next")
  /\ results' = [results EXCEPT ![b] = Append(@, result)]

\* The send at hand has this outcome, which is to be recorded.
Becomes(b, what) ==
  /\ Goto(b, "record")
  /\ outcome' = [outcome EXCEPT ![b] = what]

\* A stored request: its headers, and verified_by as Chain reported it under
\* any configuration, or "" if it is older than that column.
Requests ==
  UNION {[headers : {h},
          verifiedBy : {""} \union {VerifiedBy(hint, h) : hint \in Hints}] : h \in Captured}

Bodies == {"captured", "given"}

\* What comes of signing r anew for an endpoint with this provider and secret:
\* no signature, or what Chain says if the request that is sent, which lacks
\* what its Connection header names, is captured under the provider recorded
\* for it, or else the endpoint's.
Resigned(r, provider, secret, body) ==
  LET p == Effective(r.verifiedBy, provider)
      recorded == IF r.verifiedBy = "" THEN provider ELSE r.verifiedBy
  IN IF ~CanRefresh(p, secret, r.headers) THEN "unsigned"
     ELSE IF Excepted(p, r.headers) THEN "excepted"
     ELSE Status(secret, recorded,
                 Stripped(Merged(Refresh(p, secret, r.headers, body), r.headers)), body)

Verdicts ==
  {Resigned(r, provider, secret, body) :
     r \in Requests, provider \in Hints, secret \in Secrets \union {NoSecret}, body \in Bodies}

\* Mutant: the request is read for the first send only.
LoadOnce(b) ==
  /\ At(b, "load")
  /\ stored \/ results[b] # <<>>
  /\ \/ Blocked(target[b]) /\ Becomes(b, "blocked")
     \/ ~Blocked(target[b]) /\ Goto(b, "send") /\ UNCHANGED outcome
  /\ UNCHANGED <<stored, rows, batch, results, reply, history>>

\* SELECT of the request and its endpoint, then the checks before the wire.
Load(b) ==
  /\ At(b, "load")
  /\ stored
  /\ \/ Blocked(target[b]) /\ Becomes(b, "blocked") /\ UNCHANGED stale
     \/ /\ ~Blocked(target[b])
        /\ ~resign[b]
        /\ Goto(b, "send")
        /\ UNCHANGED <<outcome, stale>>
     \/ /\ ~Blocked(target[b])
        /\ resign[b]
        /\ \E verdict \in Verdicts :
             /\ \/ verdict = "unsigned" /\ Becomes(b, "unsigned")
                \/ verdict # "unsigned" /\ Goto(b, "send") /\ UNCHANGED outcome
             /\ stale' = IF verdict \in {"FAIL", "SKIPPED"} THEN stale \union {b} ELSE stale
  /\ UNCHANGED <<stored, rows, batch, results, reply, wire, late, stray, lost>>

\* Mutant: a send that found no row is tried again.
LoadRetries(b) ==
  /\ At(b, "load")
  /\ ~stored \/ Faulty
  /\ Goto(b, "next")
  /\ UNCHANGED <<stored, rows, batch, outcome, results, reply, history>>

\* No row, or a failed SELECT: a result that leaves no record.
LoadFails(b) ==
  /\ At(b, "load")
  /\ ~stored \/ Faulty
  /\ Gains(b, "missing")
  /\ UNCHANGED <<stored, rows, batch, outcome, reply, history>>

\* Mutant: an exchange is tried again when it fails.
AwaitRetries(b) ==
  /\ At(b, "await")
  /\ \/ \E what \in Answered : Becomes(b, what)
     \/ Goto(b, "send") /\ UNCHANGED outcome
  /\ UNCHANGED <<stored, rows, batch, results, reply, history>>

\* client.Do: the connection is refused, or the exchange begins.
SendFails(b) ==
  /\ At(b, "send")
  /\ Becomes(b, "error")
  /\ UNCHANGED <<stored, rows, batch, results, reply, history>>

Count(f, b, counts) == IF counts THEN [f EXCEPT ![b] = @ + 1] ELSE f

Send(b) ==
  /\ At(b, "send")
  /\ Goto(b, "await")
  /\ wire' = Count(wire, b, TRUE)
  /\ late' = Count(late, b, ended[b])
  /\ stray' = Count(stray, b, ~stored)
  /\ UNCHANGED <<stored, rows, batch, outcome, results, reply, lost, stale>>

\* A response, or the 15 second timeout and every other error.
Await(b) ==
  /\ At(b, "await")
  /\ \E what \in Answered \union {"error"} : Becomes(b, what)
  /\ UNCHANGED <<stored, rows, batch, results, reply, history>>

\* Mutant: only sends that had a response are recorded.
RecordAnswered(b) ==
  /\ At(b, "record")
  /\ rows' = [rows EXCEPT ![b] = IF stored /\ outcome[b] \in Answered THEN Append(@, outcome[b]) ELSE @]
  /\ Goto(b, "return")
  /\ UNCHANGED <<stored, batch, outcome, results, reply, history>>

\* INSERT INTO replays, its error ignored: without the parent row, or when the
\* statement fails, nothing is recorded and the result is returned all the same.
Record(b) ==
  /\ At(b, "record")
  /\ \/ /\ stored
        /\ rows' = [rows EXCEPT ![b] = Append(@, outcome[b])]
        /\ UNCHANGED lost
     \/ /\ ~stored
        /\ UNCHANGED <<rows, lost>>
     \/ /\ Faulty
        /\ lost' = lost \union {b}
        /\ UNCHANGED rows
  /\ Goto(b, "return")
  /\ UNCHANGED <<stored, batch, outcome, results, reply, wire, late, stray, stale>>

\* The result is appended to the answer, or printed: by now the row is committed.
Return(b) ==
  /\ At(b, "return")
  /\ Gains(b, outcome[b])
  /\ UNCHANGED <<stored, rows, batch, outcome, reply, history>>

Step(b) ==
  \/ Reject(b) \/ Exists(b) \/ NextSend(b) \/ Wake(b) \/ Cancel(b) \/ Poll(b)
  \/ Load(b) \/ LoadFails(b) \/ Send(b) \/ SendFails(b) \/ Await(b) \/ Record(b)
  \/ Return(b)

-----------------------------------------------------------------------------
InProgress(b) == pc[b] \notin {"idle", "done"}

\* Five minutes are over, or the client closed its connection.
Expire(b) ==
  /\ InProgress(b)
  /\ kind[b] = "api"
  /\ ~ended[b]
  /\ ended' = [ended EXCEPT ![b] = TRUE]
  /\ UNCHANGED <<stored, rows, kind, target, times, resign, mute, pc, outcome, results, reply, history>>

\* ReadTimeout and WriteTimeout, 30 s each, pass during a delay (up to 60 s) or
\* an exchange that is not among the first two (up to 15 s each): the request's
\* context is cancelled, and what the handler writes from now on is not sent.
Mute(b) ==
  /\ \/ At(b, "sleep")
     \/ At(b, "await") /\ wire[b] > 2
  /\ kind[b] = "api"
  /\ ~mute[b]
  /\ mute' = [mute EXCEPT ![b] = TRUE]
  /\ ended' = [ended EXCEPT ![b] = TRUE]
  /\ UNCHANGED <<stored, rows, kind, target, times, resign, pc, outcome, results, reply, history>>

\* The process is killed with the batch under way.
Die(b) ==
  /\ InProgress(b)
  /\ Goto(b, "done")
  /\ UNCHANGED <<stored, rows, batch, outcome, results, reply, history>>

\* DELETE of the request, its endpoint or by gc; replays rows go with it.
Delete ==
  /\ stored
  /\ stored' = FALSE
  /\ rows' = [b \in Batches |-> <<>>]
  /\ UNCHANGED <<batch, pc, outcome, results, reply, history>>

Next ==
  \/ \E b \in Batches : \/ BeginAPI(b) \/ BeginCommand(b) \/ Usage(b)
                        \/ Step(b) \/ Expire(b) \/ Mute(b) \/ Die(b)
  \/ Delete

Spec == Init /\ [][Next]_vars

\* Every wait of a batch is bounded: a statement by busy_timeout, a delay by
\* 60 s, an exchange by 15 s.
FairSpec == Spec /\ \A b \in Batches : WF_vars(Step(b))

-----------------------------------------------------------------------------
\* How many of the first n elements of s are in S; how many of all.
Rank(s, S, n) == Cardinality({i \in 1 .. n : s[i] \in S})

HowMany(s, S) == Rank(s, S, Len(s))

Only(s, S) == \A i \in 1 .. Len(s) : s[i] \in S

\* The answer has one result for every send that was asked for, and a single
\* send has one to show; only a batch that was cut off has fewer.
ResultsComplete ==
  \A b \in Batches :
    /\ reply[b] \in {"single", "list", "exit0"} => Last(b) /\ times[b] \in 1 .. MaxTimes
    /\ reply[b] = "single" => Len(results[b]) = 1
    /\ reply[b] = "exit1" => Last(b) \/ results[b] = <<>>
    /\ reply[b] = "cancelled" => ended[b] /\ Len(results[b]) < times[b]
    /\ reply[b] \in {"400", "404", "500"} => wire[b] = 0

\* CHANGELOG.md: "multi-replay with per-attempt results (API array ...)".  A
\* batch that ran to its end, its client still there, delivers its results.
ResultsArrive == \A b \in Batches : reply[b] = "list" => ~mute[b]

\* What the results say is what happened on the wire: a status stands for
\* exactly one exchange, an error for one at most, anything else for none.
WireTold ==
  \A b \in Batches :
    reply[b] # "none" =>
      /\ HowMany(results[b], Answered) <= wire[b]
      /\ wire[b] <= HowMany(results[b], Answered \union {"error"})

\* The history of a request that is still there and the results given to the
\* user are the same, in the same order, for every batch: the n-th row is the
\* n-th of the results that leave a row.  Only a batch that gave no answer,
\* yet or for ever, may have one row more, that of its last exchange.
HistoryAgrees ==
  \A b \in Batches :
    stored /\ b \notin lost =>
      LET told == HowMany(results[b], Recorded) IN
      /\ \/ Len(rows[b]) = told
         \/ reply[b] = "none" /\ Len(rows[b]) = told + 1 /\ rows[b][told + 1] = outcome[b]
      /\ \A i \in 1 .. Len(results[b]) :
           results[b][i] \in Recorded => rows[b][Rank(results[b], Recorded, i)] = results[b][i]

\* Once the deadline has passed or the client has left, one more exchange may
\* begin, the one whose check was just made, and no other.
AtMostOneLate == \A b \in Batches : late[b] <= 1

\* Once the request is deleted each batch begins one more exchange at most,
\* the one that had read it, and records nothing.
AtMostOneStray ==
  /\ \A b \in Batches : stray[b] <= 1
  /\ ~stored => \A b \in Batches : rows[b] = <<>>

\* The command succeeds only if every send had a response, and fails only if
\* one of them was not accepted or it was called wrongly.
ExitTells ==
  \A b \in Batches :
    /\ reply[b] = "exit0" => Only(results[b], Answered)
    /\ reply[b] = "exit1" => results[b] = <<>> \/ ~Only(results[b], {"accepted"})

\* docs/PROVIDERS.md: "re-sign with the endpoint secret and verify PASS again".
\* Whatever the configuration at capture was, and whatever the endpoint's is by
\* now: what is signed anew would pass if it were captured again, unless it
\* was captured with the headers of Standard Webhooks in both shapes, or with
\* a Connection header that names one of those the provider verifies.
ResignVerifies == stale = {}

\* A batch always ends, whatever is deleted or fails meanwhile.
BatchEnds == \A b \in Batches : (pc[b] # "idle") ~> (pc[b] = "done")
=============================================================================
