-------------------------------- MODULE Inbox --------------------------------
(***************************************************************************)
(* The inbox as a user sees it: the web UI keeps a copy of the newest page *)
(* of captures, which it reads anew every ten seconds and whenever the     *)
(* stream of an endpoint tells it to, and of the older pages the user      *)
(* asked for.  A stream is an HTTP response fed from a channel of the hub. *)
(* Captures, deletions, broken streams and restarts of the server happen   *)
(* at any time.                                                            *)
(*                                                                         *)
(* A request is a number: its place in the order of (received_at, id).     *)
(* Times have milliseconds, ids are random and clocks are adjusted, so     *)
(* that captures need not come in this order.  What an event says is not   *)
(* read by the UI, so that channels are only counted.                      *)
(***************************************************************************)
EXTENDS FiniteSetsExt

CONSTANTS
  Reqs,       \* 1 .. n, greater is newer
  Slugs,
  SlugOf,     \* [Reqs -> Slugs]
  Limit,      \* rows of a page, 100
  Cap,        \* room of a subscriber's channel, 16
  WireLen,    \* bound: messages of a stream on their way to the UI
  Worlds      \* bound: what is explored together, see World

World ==
  [live : BOOLEAN,       \* the UI opens streams: it has EventSource and no token
   pool : Nat \ {0},     \* connections a browser has to one server, 6
   reqs : SUBSET Reqs,   \* bound: which requests are captured
   faults : Nat,         \* bound: how many reads fail and servers crash
   pages : BOOLEAN,      \* bound: does the user load older pages?
   ordered : BOOLEAN]    \* bound: do captures come in the order of their keys?

ASSUME InboxAssumption ==
  /\ IsFiniteSet(Reqs) /\ Reqs \subseteq Nat \ {0}
  /\ SlugOf \in [Reqs -> Slugs]
  /\ {Limit, Cap} \subseteq Nat \ {0}
  /\ WireLen \in Nat /\ WireLen >= 2
  /\ Worlds \subseteq World

VARIABLES
  known,     \* slugs in the table endpoints
  stored,    \* the table requests
  used,      \* history: requests ever stored
  coming,    \* stored, but its handler has not called Broadcast yet
  srv,       \* streams: none, or where the handler of the slug's stream is
  chan,      \* events in its channel
  wire,      \* calls of refresh() its messages will cause
  told,      \* endpoints this UI has deleted, its answer just arriving
  world,     \* one of Worlds
  busy,      \* refreshInFlight
  again,     \* refreshAgain
  asked,     \* which of the two reads of a refresh are not answered yet
  eps, page, \* their answers
  view,      \* the requests on the screen
  button,    \* "Load older" or its "Retry" is on the screen
  failed,    \* an error is on the screen instead
  next,      \* nextInboxCursor
  paging,    \* paginationStarted
  older,     \* olderRequests: how often each request is in it
  load,      \* the read of loadOlder
  bottom,    \* history: the last row of the page nextInboxCursor was got with
  owed,      \* history: stored below it at the first click on "Load older", and still
  faults     \* failed reads and crashes so far

tables == <<known, stored, used, coming>>
stream == <<srv, chan, wire>>
refreshing == <<busy, again, asked>>
answers == <<eps, page>>
screen == <<view, button, failed>>
pages == <<next, paging, older, load, bottom, owed>>
vars == <<tables, stream, told, world, refreshing, answers, screen, pages, faults>>

NoCursor == 0

Cursors == Reqs \union {NoCursor}

Page == [rows : SUBSET Reqs, next : Cursors]
NoPage == [rows |-> {}, next |-> NoCursor]
NoLoad == [at |-> "idle", cursor |-> NoCursor, page |-> NoPage]

TypeOK ==
  /\ known \subseteq Slugs
  /\ stored \subseteq used /\ used \subseteq Reqs
  /\ \A r \in stored : SlugOf[r] \in known
  /\ coming \subseteq used
  /\ srv \in [Slugs -> {"none", "new", "exists", "subscribed", "live", "over"}]
  /\ chan \in [Slugs -> 0 .. Cap]
  /\ wire \in [Slugs -> 0 .. WireLen]
  /\ told \subseteq Slugs
  /\ {busy, again, button, failed, paging} \subseteq BOOLEAN
  /\ world \in Worlds
  /\ asked \subseteq {"eps", "page"}
  /\ eps \subseteq Slugs
  /\ page \in Page
  /\ view \subseteq Reqs
  /\ next \in Cursors
  /\ older \in [Reqs -> Nat]
  /\ load \in [at : {"idle", "asked", "answered", "failed"}, cursor : Cursors, page : Page]
  /\ bottom \in Cursors
  /\ owed \subseteq Reqs
  /\ faults \in 0 .. world.faults

Init ==
  /\ known = {} /\ stored = {} /\ used = {} /\ coming = {}
  /\ srv = [s \in Slugs |-> "none"]
  /\ chan = [s \in Slugs |-> 0]
  /\ wire = [s \in Slugs |-> 0]
  /\ told = {}
  /\ world \in Worlds
  /\ busy = TRUE /\ again = FALSE /\ asked = {"eps", "page"}
  /\ eps = {} /\ page = NoPage
  /\ view = {} /\ button = FALSE /\ failed = FALSE
  /\ next = NoCursor /\ paging = FALSE /\ older = [r \in Reqs |-> 0]
  /\ load = NoLoad
  /\ bottom = NoCursor /\ owed = {}
  /\ faults = 0

-----------------------------------------------------------------------------
(* The tables. *)

\* A capture's auto-create, or POST /api/endpoints.
Create(s) ==
  /\ s \notin known
  /\ known' = known \union {s}
  /\ UNCHANGED <<stored, used, coming, stream, told, world, refreshing, answers, screen,
                 pages, faults>>

\* The INSERT of a capture.  Its event is of no use to a UI without streams.
Capture(r) ==
  /\ r \notin used
  /\ r \in world.reqs
  /\ world.ordered => \A q \in used : q < r
  /\ SlugOf[r] \in known
  /\ stored' = stored \union {r}
  /\ used' = used \union {r}
  /\ coming' = IF world.live THEN coming \union {r} ELSE coming
  /\ UNCHANGED <<known, stream, told, world, refreshing, answers, screen, pages, faults>>

Subscribed(s) == srv[s] \in {"subscribed", "live"}

\* Mutant: what does not fit into a channel is kept for it somewhere else.
BroadcastUnbounded(r) ==
  /\ r \in coming
  /\ coming' = coming \ {r}
  /\ chan' = [chan EXCEPT ![SlugOf[r]] = IF Subscribed(SlugOf[r]) THEN @ + 1 ELSE @]
  /\ UNCHANGED <<known, stored, used, srv, wire, told, world, refreshing, answers, screen,
                 pages, faults>>

\* Hub.Broadcast, under the hub's mutex: a full channel gets nothing.
Broadcast(r) ==
  /\ r \in coming
  /\ coming' = coming \ {r}
  /\ chan' = [chan EXCEPT ![SlugOf[r]] = IF Subscribed(SlugOf[r]) /\ @ < Cap THEN @ + 1 ELSE @]
  /\ UNCHANGED <<known, stored, used, srv, wire, told, world, refreshing, answers, screen,
                 pages, faults>>

\* The rows in R go.
Erase(R) ==
  /\ stored' = stored \ R
  /\ owed' = owed \ R

\* DELETE of requests, by anybody, or gc.
DeleteRequests ==
  /\ \E R \in SUBSET stored : R # {} /\ Erase(R)
  /\ UNCHANGED <<known, used, coming, stream, told, world, refreshing, answers, screen,
                 next, paging, older, load, bottom, faults>>

\* DELETE of an endpoint, by another client or this UI (which without streams
\* has only to refresh, as it may at any time).
DeleteEndpoint(s) ==
  /\ s \in known
  /\ known' = known \ {s}
  /\ Erase({r \in stored : SlugOf[r] = s})
  /\ told' \in {told, IF world.live THEN told \union {s} ELSE told}
  /\ UNCHANGED <<used, coming, stream, world, refreshing, answers, screen, next, paging,
                 older, load, bottom, faults>>

-----------------------------------------------------------------------------
(* The stream of an endpoint: the handler on the server and the EventSource *)
(* of the browser.  When the browser closes it, it is gone at once: what    *)
(* its handler still does, until it notices, concerns its own channel only. *)

Fails == faults < world.faults /\ faults' = faults + 1

\* Every read, and every stream, needs a connection.
Open == {s \in Slugs : srv[s] \in {"exists", "subscribed", "live"}}
Connection == Cardinality(Open) < world.pool

Handler(s, from, to) ==
  /\ srv[s] = from
  /\ srv' = [srv EXCEPT ![s] = to]

\* SELECT EXISTS.
Exists(s) ==
  /\ Connection
  /\ IF s \in known THEN Handler(s, "new", "exists") ELSE Handler(s, "new", "over")
  /\ UNCHANGED <<tables, chan, wire, told, world, refreshing, answers, screen, pages, faults>>

Subscribe(s) ==
  /\ Handler(s, "exists", "subscribed")
  /\ UNCHANGED <<tables, chan, wire, told, world, refreshing, answers, screen, pages, faults>>

\* The event "ready" and the flush: onopen and its listener refresh, each.
Ready(s) ==
  /\ Handler(s, "subscribed", "live")
  /\ wire' = [wire EXCEPT ![s] = 2]
  /\ UNCHANGED <<tables, chan, told, world, refreshing, answers, screen, pages, faults>>

\* An event of the channel becomes a message.  The write blocks while the
\* browser does not read.
Send(s) ==
  /\ srv[s] = "live"
  /\ chan[s] > 0
  /\ wire[s] < WireLen
  /\ chan' = [chan EXCEPT ![s] = @ - 1]
  /\ wire' = [wire EXCEPT ![s] = @ + 1]
  /\ UNCHANGED <<tables, srv, told, world, refreshing, answers, screen, pages, faults>>

\* The server's WriteTimeout or a failing write or SELECT ends the handler,
\* which unsubscribes.
End(s) ==
  /\ s \in Open \/ srv[s] = "new"
  /\ srv' = [srv EXCEPT ![s] = "over"]
  /\ chan' = [chan EXCEPT ![s] = 0]
  /\ wire' = [wire EXCEPT ![s] = 0]
  /\ UNCHANGED <<tables, told, world, refreshing, answers, screen, pages, faults>>

\* onerror.
Error(s) ==
  /\ Handler(s, "over", "none")
  /\ UNCHANGED <<tables, chan, wire, told, world, refreshing, answers, screen, pages, faults>>

\* The server is killed and started again.
Crash ==
  /\ Fails
  /\ srv' = [s \in Slugs |-> IF srv[s] = "none" THEN "none" ELSE "over"]
  /\ chan' = [s \in Slugs |-> 0]
  /\ wire' = [s \in Slugs |-> 0]
  /\ coming' = {}
  /\ UNCHANGED <<known, stored, used, told, world, refreshing, answers, screen, pages>>

-----------------------------------------------------------------------------
(* refresh(). *)

\* Mutant: what is asked for while a refresh is in flight is forgotten.
RefreshUnlessBusy ==
  /\ busy' = TRUE
  /\ asked' = IF busy THEN asked ELSE {"eps", "page"}
  /\ again' = again

\* A call of refresh(): a refresh in flight will be followed by another one.
Refresh ==
  /\ busy' = TRUE
  /\ asked' = IF busy THEN asked ELSE {"eps", "page"}
  /\ again' = busy

\* The finally clause, after a refresh that succeeded or failed.
Settle ==
  /\ busy' = again
  /\ again' = FALSE
  /\ asked' = IF again THEN {"eps", "page"} ELSE {}
  /\ eps' = {}
  /\ page' = NoPage

\* What is drawn takes the place of a Retry of loadOlder.
Redraw == load' = IF load.at = "failed" THEN NoLoad ELSE load

\* Mutant: a refresh arms the timer anew when it succeeds.
TickUnlessFailed ==
  /\ ~failed
  /\ Refresh
  /\ UNCHANGED <<tables, stream, told, world, answers, screen, pages, faults>>

\* setInterval, a new endpoint, or a click on Retry.
Tick ==
  /\ Refresh
  /\ UNCHANGED <<tables, stream, told, world, answers, screen, pages, faults>>

\* A message of a stream arrives.
Message(s) ==
  /\ wire[s] > 0
  /\ wire' = [wire EXCEPT ![s] = @ - 1]
  /\ Refresh
  /\ UNCHANGED <<tables, srv, chan, told, world, answers, screen, pages, faults>>

\* This UI learns that its DELETE succeeded: the stream is closed.
Deleted(s) ==
  /\ s \in told
  /\ told' = told \ {s}
  /\ srv' = [srv EXCEPT ![s] = "none"]
  /\ chan' = [chan EXCEPT ![s] = 0]
  /\ wire' = [wire EXCEPT ![s] = 0]
  /\ Refresh
  /\ UNCHANGED <<tables, world, answers, screen, pages, faults>>

Below(cursor) == IF cursor = NoCursor THEN stored ELSE {r \in stored : r < cursor}

\* The greatest n of R, or all of it.
Newest(R, n) == {r \in R : Cardinality({q \in R : q > r}) < n}

\* Mutant: the row fetched in excess becomes the cursor.
NextOffByOne(R) ==
  IF Cardinality(R) > Limit THEN Max(R \ Newest(R, Limit)) ELSE NoCursor

\* nextCursor: the last row of the page, if there are rows behind it.
Following(R) ==
  IF Cardinality(R) > Limit THEN Min(Newest(R, Limit)) ELSE NoCursor

\* One page of the inbox: LIMIT ? of what lies beyond the cursor.
PageFrom(cursor) ==
  [rows |-> Newest(Below(cursor), Limit), next |-> Following(Below(cursor))]

\* GET /api/endpoints and GET /api/requests run side by side.
ReadEndpoints ==
  /\ "eps" \in asked
  /\ Connection
  /\ asked' = asked \ {"eps"}
  /\ eps' = known
  /\ UNCHANGED <<tables, stream, told, world, busy, again, page, screen, pages, faults>>

ReadPage ==
  /\ "page" \in asked
  /\ Connection
  /\ asked' = asked \ {"page"}
  /\ page' = PageFrom(NoCursor)
  /\ UNCHANGED <<tables, stream, told, world, busy, again, eps, screen, pages, faults>>

\* Either read fails, which ends the refresh with an error on the screen.
ReadFails ==
  /\ asked # {}
  /\ Fails
  /\ failed' = TRUE /\ view' = {} /\ button' = FALSE
  /\ Redraw
  /\ Settle
  /\ UNCHANGED <<tables, stream, told, world, next, paging, older, bottom, owed>>

Seen == {r \in Reqs : older[r] > 0}

\* Both answers are there: the list is drawn, by endpoint, the page first and
\* the older pages behind it; rows of endpoints not listed are not drawn.
Render ==
  /\ busy
  /\ asked = {}
  /\ \/ paging /\ UNCHANGED <<next, bottom>>
     \/ /\ ~paging
        /\ next' = page.next
        /\ bottom' = IF page.next = NoCursor THEN NoCursor ELSE Min(page.rows)
  /\ view' = {r \in page.rows \union Seen : SlugOf[r] \in eps}
  /\ button' = (next' # NoCursor)
  /\ failed' = FALSE
  /\ srv' = [s \in Slugs |-> IF world.live /\ s \in eps /\ srv[s] = "none" THEN "new" ELSE srv[s]]
  /\ Redraw
  /\ Settle
  /\ UNCHANGED <<tables, chan, wire, told, world, paging, older, owed, faults>>

-----------------------------------------------------------------------------
(* loadOlder: of nextInboxCursor, or of the same cursor again. *)

Click ==
  /\ button
  /\ world.pages
  /\ \/ /\ load.at = "idle"
        /\ load' = [load EXCEPT !.at = "asked", !.cursor = next]
        /\ owed' = IF paging THEN owed ELSE {r \in stored : r < bottom}
     \/ /\ load.at = "failed"
        /\ load' = [load EXCEPT !.at = "asked"]
        /\ UNCHANGED owed
  /\ UNCHANGED <<tables, stream, told, world, refreshing, answers, screen, next, paging, older,
                 bottom, faults>>

ReadOlder ==
  /\ load.at = "asked"
  /\ Connection
  /\ load' = [load EXCEPT !.at = "answered", !.page = PageFrom(load.cursor)]
  /\ UNCHANGED <<tables, stream, told, world, refreshing, answers, screen, next, paging, older,
                 bottom, owed, faults>>

ShowOlder ==
  /\ load.at = "answered"
  /\ paging' = TRUE
  /\ bottom' = NoCursor
  /\ older' = [r \in Reqs |-> IF r \in load.page.rows \ Seen THEN older[r] + 1 ELSE older[r]]
  /\ next' = load.page.next
  /\ load' = NoLoad
  /\ Refresh
  /\ UNCHANGED <<tables, stream, told, world, answers, screen, owed, faults>>

\* The error replaces the list; its Retry asks for the same cursor.
OlderFails ==
  /\ load.at = "asked"
  /\ Fails
  /\ load' = [load EXCEPT !.at = "failed"]
  /\ failed' = TRUE /\ view' = {} /\ button' = TRUE
  /\ UNCHANGED <<tables, stream, told, world, refreshing, answers, next, paging, older, bottom,
                 owed>>

-----------------------------------------------------------------------------
Next ==
  \/ \E s \in Slugs : Create(s) \/ DeleteEndpoint(s) \/ Deleted(s)
  \/ \E r \in Reqs : Capture(r) \/ Broadcast(r)
  \/ DeleteRequests
  \/ \E s \in Slugs :
       \/ Exists(s) \/ Subscribe(s) \/ Ready(s) \/ Send(s) \/ End(s)
       \/ Error(s) \/ Message(s)
  \/ Crash
  \/ Tick \/ ReadEndpoints \/ ReadPage \/ ReadFails \/ Render
  \/ Click \/ ReadOlder \/ ShowOlder \/ OlderFails

Spec == Init /\ [][Next]_vars

\* The timer fires, a read is answered, a list is drawn; the server's 30 s
\* WriteTimeout ends every stream.  Nothing is assumed of handlers and the hub.
FairSpec ==
  /\ Spec
  /\ WF_vars(Tick) /\ WF_vars(ReadEndpoints) /\ WF_vars(ReadPage) /\ WF_vars(Render)
  /\ \A s \in Slugs : WF_vars(s \in Open /\ End(s)) /\ WF_vars(Error(s))

-----------------------------------------------------------------------------
(* Properties. *)

\* The page in hand, or to be read, will show r, or what was asked for next.
UnderWay(r) ==
  \/ again
  \/ /\ busy
     /\ "page" \in asked \/ r \in page.rows
     /\ "eps" \in asked \/ SlugOf[r] \in eps

\* No lost wakeup: a stored and announced request of an endpoint with an open
\* stream, among the newest Limit, is on the screen, or something is under way
\* that will bring it there, or the user sees an error.  Dropped events, bursts
\* during a refresh and captures before the stream was ready included.
NothingMissed ==
  \A r \in stored \ coming :
    LET s == SlugOf[r] IN
    srv[s] = "live" /\ Cardinality({q \in used : q > r}) < Limit
      => r \in view \/ failed \/ chan[s] > 0 \/ wire[s] > 0 \/ UnderWay(r)

\* Keyset pages over a moving table: what was stored below the first page when
\* the user went on to the older ones, and is still stored, is in olderRequests
\* exactly once as soon as the cursor has passed it.
OlderComplete == paging => \A r \in owed : r >= next => older[r] = 1

\* A request among the newest Limit is shown in the end, with streams or
\* without, unless it is deleted or pushed out.
CaptureShown ==
  \A r \in Reqs :
    (r \in Newest(stored, Limit)) ~> (r \in view \/ r \notin Newest(stored, Limit))

\* docs/architecture.md: "reconnecting and refreshing must recover saved
\* state".  Every stored request comes to be on the screen or behind "Load
\* older", unless it is deleted.
Recovered ==
  \A r \in Reqs :
    r \in stored ~> (r \in view \/ (button /\ r < next) \/ r \notin stored)
=============================================================================
