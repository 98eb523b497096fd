------------------------------- MODULE Storage -------------------------------
(***************************************************************************)
(* The SQLite database behind OmniHook, one atomic action per SQL          *)
(* statement the capture path, the forwarder and the API issue (no code    *)
(* path wraps two statements in a transaction).  Of a row only the columns *)
(* the control depends on are kept: an endpoint row is its target_url, a   *)
(* request row the slug it refers to, a replay row its outcome.            *)
(*                                                                         *)
(* A statement fails when the handle is closed, when a foreign key has no  *)
(* parent row, and, if Faulty, at any time (busy timeout, full disk).      *)
(***************************************************************************)
EXTENDS Outbound

CONSTANTS
  Reqs,      \* identities of captured requests
  Slugs,     \* endpoint slugs
  NoRow,     \* the row does not exist
  NoTarget,  \* target_url = ""
  Faulty     \* may a statement on an open database fail?

ASSUME StorageAssumption ==
  /\ NoRow \notin Slugs
  /\ NoRow \notin Targets \union {NoTarget}
  /\ NoTarget \notin Targets
  /\ Faulty \in BOOLEAN

VARIABLES
  endpoints,   \* [Slugs -> target_url of the row, or NoRow]
  requests,    \* [Reqs -> endpoint_slug of the row, or NoRow]
  replays,     \* [Reqs -> outcomes of its replay rows, oldest first]
  dbOpen,      \* FALSE once sql.DB.Close returned
  unrecorded   \* history: requests whose outcome a failed statement lost

storageVars == <<endpoints, requests, replays, dbOpen, unrecorded>>

\* What a replay row of an automatic delivery says.
Outcomes == {"refused", "dropped", "blocked", "status", "error"}

StorageTypeOK ==
  /\ endpoints \in [Slugs -> Targets \union {NoTarget, NoRow}]
  /\ requests \in [Reqs -> Slugs \union {NoRow}]
  /\ replays \in [Reqs -> Seq(Outcomes)]
  /\ dbOpen \in BOOLEAN
  /\ unrecorded \subseteq Reqs

StorageInit ==
  /\ endpoints = [s \in Slugs |-> NoRow]
  /\ requests = [r \in Reqs |-> NoRow]
  /\ replays = [r \in Reqs |-> <<>>]
  /\ dbOpen = TRUE
  /\ unrecorded = {}

\* A statement that touches no missing parent may still be refused.
CanFail == ~dbOpen \/ Faulty

\* INSERT OR IGNORE INTO endpoints(slug): an existing row is left as it is.
InsertEndpoint(s) ==
  /\ dbOpen
  /\ endpoints' = [endpoints EXCEPT ![s] = IF @ = NoRow THEN NoTarget ELSE @]
  /\ UNCHANGED <<requests, replays, dbOpen, unrecorded>>

\* UPDATE endpoints SET target_url=? WHERE slug=?
UpdateTarget(s, t) ==
  /\ dbOpen
  /\ endpoints[s] # NoRow
  /\ endpoints' = [endpoints EXCEPT ![s] = t]
  /\ UNCHANGED <<requests, replays, dbOpen, unrecorded>>

\* Rows of requests and, by ON DELETE CASCADE, their replays disappear.
Erase(S) ==
  /\ requests' = [r \in Reqs |-> IF r \in S THEN NoRow ELSE requests[r]]
  /\ replays' = [r \in Reqs |-> IF r \in S THEN <<>> ELSE replays[r]]

RequestsOf(s) == {r \in Reqs : requests[r] = s}

\* DELETE FROM endpoints WHERE slug=?: cascades to requests and replays.
DeleteEndpoint(s) ==
  /\ dbOpen
  /\ endpoints[s] # NoRow
  /\ endpoints' = [endpoints EXCEPT ![s] = NoRow]
  /\ Erase(RequestsOf(s))
  /\ UNCHANGED <<dbOpen, unrecorded>>

\* DELETE FROM requests WHERE endpoint_slug=?
DeleteRequests(s) ==
  /\ dbOpen
  /\ Erase(RequestsOf(s))
  /\ UNCHANGED <<endpoints, dbOpen, unrecorded>>

\* DELETE FROM requests WHERE id=?
DeleteRequest(r) ==
  /\ dbOpen
  /\ requests[r] # NoRow
  /\ Erase({r})
  /\ UNCHANGED <<endpoints, dbOpen, unrecorded>>

\* gc: DELETE FROM requests WHERE received_at < ?.  S is what is old enough;
\* with --retention-hours 0 that is everything.  Its second statement deletes
\* endpoints whose expires_at has passed, a column no code sets.
ExpireRequests(S) ==
  /\ dbOpen
  /\ Erase(S)
  /\ UNCHANGED <<endpoints, dbOpen, unrecorded>>

\* INSERT INTO requests: succeeds only under an existing endpoint row.
InsertRequest(r, s) ==
  /\ dbOpen
  /\ endpoints[s] # NoRow
  /\ requests' = [requests EXCEPT ![r] = s]
  /\ UNCHANGED <<endpoints, replays, dbOpen, unrecorded>>

InsertRequestFails(s) ==
  /\ CanFail \/ endpoints[s] = NoRow
  /\ UNCHANGED storageVars

\* INSERT INTO replays by record(): its error is ignored, so a failure leaves
\* no trace.  A missing request row is a foreign key failure.
record(r, outcome) ==
  \/ /\ dbOpen
     /\ requests[r] # NoRow
     /\ replays' = [replays EXCEPT ![r] = Append(@, outcome)]
     /\ UNCHANGED <<endpoints, requests, dbOpen, unrecorded>>
  \/ /\ dbOpen
     /\ requests[r] = NoRow
     /\ UNCHANGED storageVars
  \/ /\ CanFail
     /\ unrecorded' = unrecorded \union {r}
     /\ UNCHANGED <<endpoints, requests, replays, dbOpen>>
=============================================================================
