# OmniHook in TLA+

OmniHook is a local webhook inspector: it stores every request sent to
`/hook/<slug>`, shows it in a UI, can forward it to a local application, and
can replay it.  This directory holds TLA+ modules of its concurrent core, the
TLC configurations that check them, and TLAPS proofs of the theorems that
matter most.  `PROJECT.json` lists the runs, the mutants that show each
property can fail, the source lines behind each definition, the hazards and
the theorems.

    tlc -workers 2 -config MCServer_safety.cfg MCServer     # one run
    tlapm ServerProofs.tla                                  # the proofs

## 1. Inventory

| Part (source) | State | Operations | What makes it hard |
|---|---|---|---|
| Capture handler (`internal/capture`) | locals of one goroutine per arrival | `ServeHook`: look the endpoint up, auto-create it, read the body, verify, INSERT, broadcast, enqueue, rate gate, answer | other goroutines run between any two statements; any statement may fail |
| Storage (`migrations`, `internal/db`) | tables endpoints, requests, replays; cascading foreign keys | single statements, never a transaction | rows vanish under a running handler or delivery; busy timeout; the handle is closed under running goroutines |
| Forward service (`internal/forward`) | queue (128), 8 workers, `quit` | `Enqueue`, `work`, `Deliver`, `Stop` | full queue, stalled targets, timeouts after the request has left, quit racing with jobs |
| Outbound policy (`internal/outbound`) | none | `Blocked`, dial check, redirects, hop-by-hop headers | targets change between capture and delivery |
| Rate limiter (`internal/ratelimit`) | a bucket per client IP | `Allow` | the clock is read outside the mutex; the sweep deletes buckets |
| Lifecycle (`cmd/omnihook`) | where `runServe` is | signal, `Shutdown`, `Stop`, `Close`, failed listener | three deadlines, each may cut the orderly shutdown short |
| Management API (`internal/api`) | none of its own | endpoints, requests, replay, SSE stream, login | several statements per request without a transaction; pagination over a moving table |
| Event hub (`internal/capture`, `Hub`) | subscriber channels (16 each), drop counter | `Subscribe`, `Broadcast` | slow readers lose notifications; a stream begins after the list was read |
| Replay (`internal/replay`, API) | the batch so far | `SendWithOptions` up to 50 times | deletion in between, the batch deadline |
| Retention (`internal/gc`) | none | two DELETE statements | interleaves with everything |
| Migrations (`internal/db`) | schema_migrations | `applyMigrations` | crash, or processes of other releases on the same file; SQLite's locks and snapshots |
| Verification (`internal/verify`) | none | `Chain`, `RefreshSignatures` | pure; which provider a stored request belongs to, headers in two shapes |
| Web UI (`internal/webui`) | first page, older pages, cursor, streams, in the browser | `refresh`, `connectStream`, `loadOlder`, `delEndpoint`, `show` | calls while a refresh is in flight, a table that moves under the pages, a bounded pool of connections |
| CLI, config, slug | none | dispatch, validation | `new`, `replay` and `gc` write to the database of a running server |

**How they interact.**  `net/http` runs one goroutine per request.  A capture
handler shares the database with everyone, passes jobs to the workers through
the queue channel (never waiting), events to the hub through subscriber
channels (never waiting), and calls the limiter under its mutex.  A worker
reads the request back from the database, calls the target, and writes one row
of `replays`.  The target may be this server: then a delivery is a new
arrival.  `runServe` stops the listener, then the workers, then closes the
database, each with a deadline after which it goes on regardless.

**What each part owes.**  Capture: the answer tells the provider truly whether
the request is stored; storing comes before everything else; an answer always
comes.  Forwarder: at most one delivery and one outcome per capture, an
outcome for every capture it was owed for, nothing barred on the wire, no loop.
Limiter: the rate, over any window.  Lifecycle: a shutdown ends, and if it is
orderly nothing owed is lost.  Hub: a subscriber that reads and refreshes sees
every capture.  UI: a stored capture gets onto the screen and stays reachable.
Migrations: a recorded version is in the schema, and whoever opens the file
finds what he was written for.  Verification: what is signed anew verifies.
API: a success answer means what it says.  Pagination: a row present throughout
appears exactly once.

## 2. Modules

    Outbound <- Storage <- Forward <- Capture <- Server <- MCServer
                                                 Server <- ServerProofs
                                                 Server implements SaveFirst
    RateLimit <- MCRateLimit,  RateLimit <- RateLimitProofs
    Endpoints <- MCEndpoints,  Endpoints <- EndpointsProofs
    Outbound, Signatures <- Replay <- MCReplay
    Signatures <- SignaturesProofs;  Replay, SignaturesProofs <- ReplayProofs
    Inbox <- MCInbox,  Inbox <- InboxProofs
    Migrations <- MCMigrations,  Migrations <- MigrationsProofs

* **Outbound**: `Blocked` and `selfTarget` over targets that are model values
  with the parts `url.Parse` would return.  A trailing dot is kept apart
  because one function strips it and the other does not.
* **Storage**: the three tables reduced to the columns control depends on,
  one action per SQL statement.  Foreign keys, cascades, statements that fail.
  gc is the deletion of any set of requests: what is old enough depends only on
  the retention the operator chose.  Its second statement is left out, because
  it deletes endpoints whose `expires_at` has passed and no code sets that column.
* **Forward**: queue channel, workers, `Enqueue` in its three outcomes,
  `Deliver` cut where another goroutine can run: receive, SELECT, exchange,
  INSERT.  `sends` is a history variable: requests put on the wire.  The
  branch of `Deliver` for an error of `http.NewRequest` is left out: a
  stored method was a valid one and `Blocked` has parsed the URL.
* **Capture**: the program counter of every `ServeHook`, what it read in its
  SELECT, and its answer.  `saved` and `announced` are history variables.
  Header and signature handling only fill columns; **Signatures** has what is
  in them.  The gate
  chooses freely between 429 and the mock response; **RateLimit** is the
  limiter behind it.
* **Server**: composes the three with the management statements that change
  what they read, and with `runServe`.  `Lands` says for each target whether a
  delivery to it comes back to this server, and under which slug, independent
  of what `selfTarget` thinks of its spelling.  `SendBack` is the step where a
  worker's send is another handler's arrival.  It carries the marker unless
  the captured request's `Connection` header names it: `StripHopByHop` runs
  after the marker was set, and takes `Connection` itself off as well.  `Hops`
  says whether arrivals may have such a header.  A provider's own arrival may
  carry the marker too (a manual replay into the capture surface does).
  `clean` records that no deadline cut the shutdown short.
* **SaveFirst**: the abstract promise about one capture: stored before it is
  announced, acknowledged or delivered, and each of these at most once.
* **RateLimit**: `Allow` cut at the mutex: `Now` reads the clock, `Grant` or
  `Deny` apply the reading later, after at most `Skew` ticks, in any order.
  Credit is counted in ticks of refilling, so that the float64 arithmetic is
  exact integer arithmetic here; rounding is not modelled.  `rps <= 0`
  (limiter off) has no state and is not modelled.
* **Endpoints**: the configuration of one endpoint.  A creation through the API
  (`post`) or by `omnihook new` (`new`) is an INSERT OR IGNORE and up to three
  UPDATEs without a transaction, a PATCH one UPDATE, and a capture a SELECT with
  an auto-create behind it.  A column holds the identity of the operation that
  wrote it, so that the properties can ask whose value it is.  `Fails` is a
  failing statement, `Kill` the end of a `new` process, `Crash` that of the
  server with everything it was doing.  The last statement of an operation and
  its answer are two steps (`Succeed`), so both can also fall between them.
* **Replay**: a batch of the API or of `omnihook replay`, one action per
  statement, check and exchange.  The INSERT into `replays` (`Record`) and the
  result that is appended or printed (`Return`) are two, and the process may be
  killed between them.  `ended` says that `batchCtx` is done, which
  the loop looks at only between sends; `mute` that the server's 30 s
  `ReadTimeout` and `WriteTimeout` have passed.  As in Forward, the error of
  `http.NewRequest` is left out.  Batches share nothing but the request's row
  and its deletion.  A send that is to be signed anew finds any captured request
  under any configuration of its endpoint, because both may differ from send to
  send: `Verdicts` is what **Signatures** says of all of them.
* **Signatures**: `Chain`, the providers' `Verify` and `RefreshSignatures` as
  operators.  Headers are a function from the names present; an HMAC is the
  record of what it was made from, so that it verifies exactly if that is the
  same; a `Connection` header is the set of names in it, which are not sent on.
  A time is fresh or old: what is signed at a send is sent well within
  five minutes.  Encodings and headers with several signatures are left out, and
  so is `Generic`, which only the offline command `verify` could use.
* **Inbox**: the newest page on the screen of one UI, with everything between it
  and the table: hub, stream handler, message, coalesced `refresh`, the two reads
  side by side, the list drawn from both, and `loadOlder` with its cursor.  A
  request is its place in the order of `(received_at, id)`.  Every read and
  stream needs one of the browser's connections (6, HTTP/1.1).  A `World` bounds
  what is explored together and is fixed from the start.
* **Migrations**: `applyMigrations` statement by statement, by processes of two
  releases.  SQLite is kept as far as it decides who fails: one writer, readers
  on snapshots, a deferred transaction that cannot write once its snapshot is
  old, a busy timeout for those that begin with a write.

Which variable is what in the code:

| Variable | Code |
|---|---|
| `endpoints`, `requests`, `replays` | `target_url`, `endpoint_slug` and the outcome column(s) of the tables; `NoRow` if there is no row |
| `dbOpen` | `sqldb.Close` has not returned |
| `unrecorded` | history: captures whose record was lost to a failed statement |
| `queue`, `quit`, `dropped` | the fields of `forward.Service` |
| `wpc`, `wreq`, `wtarget` | a worker goroutine's position and its `job` |
| `pc`, `slug`, `marked`, `target`, `reply` | a handler's position, locals and answer |
| `strips` | the stored `Connection` header names `X-Omnihook-Forward` |
| `parent` | which capture's delivery an arrival is |
| `phase` | where `runServe` is: up, in `Shutdown`, in the first and second wait of `Stop`, after `Close`, gone |
| `row` | the columns of the row of `endpoints` that can be configured; `response` stands for those only PATCH sets |
| `given`, `view`, `reply` (Endpoints) | fields supplied; what `ServeHook` read, or its defaults; status or exit code |
| `wrote`, `cut`, `before`, `births` | history: columns written, operations begun before the latest deletion, who was answered before whom, creations of the row |
| `rows`, `results` | the request's rows of `replays`, by batch; `results` of the API, the printed lines of the command |
| `times`, `outcome` | `times` of the request or flag; the result of the send at hand |
| `wire`, `late`, `stray`, `lost` | history: exchanges begun, and begun after the deadline or after the deletion; records lost to a failed statement |
| `resign`, `stale` | `resign` of the request or flag; history: batches that sent a new signature that does not verify |
| `srv`, `chan`, `wire` (Inbox) | by slug: the stream handler's position, the subscriber's channel, messages that will call `refresh` |
| `busy`, `again`, `asked` | `refreshInFlight`, `refreshAgain`, the reads that are not answered |
| `eps`, `page` | the answers of `refresh` |
| `load` | the read of `loadOlder`; `failed` while its Retry is on the screen |
| `view`, `button`, `failed` | the list on the screen, its button, an error in its place |
| `next`, `paging`, `older` | `nextInboxCursor`, `paginationStarted`, `olderRequests` |
| `coming`, `told` | captures between INSERT and `Broadcast`; deletions whose answer is on its way to `delEndpoint` |
| `bottom`, `owed` | history: the last row of the first page, and what was stored below it when the user went on |
| `ledger`, `versions`, `schema` | `schema_migrations` exists, its rows, what the tables have |
| `writer`, `snapshot`, `commits`, `added` | SQLite's write lock, a transaction's snapshot, the file's version, uncommitted changes |
| `clock`, `wants`, `at` | `time.Now`, the argument and the reading `t` of a caller of `Allow` |
| `buckets`, `credit`, `last` | `l.buckets`, `b.tokens`, `b.last` (= `b.seen`) |

## 3. What the runs check

| Run | Instance | Properties |
|---|---|---|
| safety | 2 requests, marked or not, no `Connection` headers, 1 worker, queue 1; an application, an alias of this server, a self target, a metadata host; every statement may fail | `TypeOK`, `AnswerAgrees`, `LoopBounded`, `RecordAgrees`, `PolicyHolds`, refinement `SavesFirst` |
| burst | 3 requests, 2 workers, queue 1; the target is an alias of this server, and every provider's `Connection` header names the marker | `Accounted`, `CleanShutdownAccounts`, `LoopBounded` |
| liveness | 2 requests, target is an alias of this server; `runServe` fair, handlers and workers where the property says so | `CaptureAnswered`, `ShutdownEnds`, `ForwardSettles` |
| loss | 2 requests to an application, no fairness | `AcknowledgedNotLost`, **violated** |
| endpoints | 3 operations of any kind on one row, statements may fail, processes be killed anywhere | `TypeOK`, `PatchAtomic`, `AnswersTrue`, `ReadYourWrites`, `DeletionsTold`, `CreateKeeps` |
| replay | a batch of up to 3 sends to an application or the metadata host; statements may fail, batches are fair | `TypeOK`, `ResultsComplete`, `WireTold`, `HistoryAgrees`, `AtMostOneLate`, `AtMostOneStray`, `ExitTells`, `ResignVerifies`, `BatchEnds` |
| unheard | the same to the application, no faults, no fairness | `ResultsArrive`, **violated** |
| inbox | 1 slug, a page and a channel of 1 row; 3 requests with two older pages, or 2 with a fault, with streams, or 1 with a stream that holds the only connection | `TypeOK`, `NothingMissed`, `OlderComplete`, `CaptureShown` |
| gap | 3 requests in order, older pages, no faults | `Recovered`, **violated** |
| open | a server, a command, a command of the previous release, 1 fault; 6 kinds of file | `TypeOK`, `VersionsTrue`, `OpenedComplete`, `AloneOpens`, `RetryOpens` |
| limit | 1 client, 2 callers, rps 3, tokens of 2 ticks, skew 1, sweep after 8, clock to 11 | `TypeOK`, `RateBound`, `DenialDeserved` |
| fresh_burst | the same | `BurstAllowed`, **violated** |

**Bounds.**  Two requests are the least with which a delivery comes back as
another arrival, a job waits behind a busy worker, and handlers interleave;
with three the queue of one overflows while both workers or the queue are
taken, and a delivery of a delivery comes back: of such a chain the first comes
unmarked and the second marked, so that a fourth request could not follow.
`LoopBounded` is checked twice: with every statement failing and marked
arrivals in safety, with the marker taken off in burst.  One slug suffices because rows of different slugs meet nowhere but in
the queue, which does not look at slugs.  Targets are the four classes the
policy distinguishes.  Deletion and re-creation of the endpoint are unbounded.
In `endpoints` three operations are the least with which a configuration is
acknowledged, the row deleted and re-created, or two PATCHes race under a row
that a third operation made; the sets of fields supplied are chosen so that
any two creations or PATCHes overlap, in one column or in two.  In `replay`
three sends are the least with which 30 s are over before the last (two
exchanges of 15 s do not exceed it), something is sent after a deletion and
something after that, and a middle result differs from the first and the last;
the API is also asked for none and for one too many.  One batch is enough,
since another could only do to it what `Delete` does.
Signatures are checked for every set of identities, times and at most two
signature headers, two secrets of which one is not base64, and none, every
provider then and now, and a body replaced or not; `Connection` names one
of the headers a provider reads, another header, or is absent (then with two
signatures, otherwise with one).  In `inbox` a page of one row
makes every capture push one off; with three rows there is a page behind the
second, and a capture before, between or behind any two.  A channel of one row is
full after one event.  Two slugs would only add a second stream, and the world
with one connection has as many streams as connections.  In `open` three
processes are the least of which two race while the third has another release.
In `limit` the clock runs long enough for a bucket to be emptied, refilled,
swept (`Idle` is `Second + 2 * Skew`, the least the assumption allows) and
emptied again; with two callers readings are swapped at every point.
Identical requests, workers, clients and callers are symmetric; the runs with
liveness properties use no symmetry.  Deadlock is not checked: a server that
has exited, or whose request identities and clock are used up, stops.

**Four disagreements with the text of the repository.**

1. `main.go:133` says the forwarder is drained before storage is closed "so
   acknowledged captures are not lost between forward and record".  `Stop` has
   a deadline of 5 s per wait and a delivery one of 10 s.  `loss` shows a
   capture that was answered and put on the wire, whose worker still waits when
   the database is closed: no row tells of it.  `CleanShutdownAccounts` is the
   part that holds: nothing is lost unless a deadline struck.
2. `ratelimit.go:12` allows "bursts up to rps".  `fresh_burst` shows a client
   denied before it was granted rps requests: the later of two readings makes
   the bucket, the earlier one then refills it by a negative amount.
   `DenialDeserved` bounds the damage by the skew.
3. `CHANGELOG.md:75` promises an array of per-attempt results, and
   `api/server.go:616` gives a batch 5 minutes "while the caller watches".  The
   server's `WriteTimeout` is 30 s (`main.go:112`).  `unheard` shows a batch of
   three sends to a slow target that completes and is recorded, and whose
   array is written to a connection whose deadline has passed.
4. `docs/architecture.md:71` says of the notifications that "reconnecting and
   refreshing must recover saved state".  `refresh` (`index.html:47`) reads the
   newest 100 requests and leaves the cursor where the older pages have it.
   `gap` shows a request that a capture pushes off the first page after the user
   loaded older ones: it is in neither, and no refresh brings it back.
   `OlderComplete` and `CaptureShown` are the parts that hold.

**Found on the way**, and excluded by what the properties say:

* A request with `Svix-Signature` and `Webhook-Timestamp` or `Webhook-Signature`
  is signed anew in the first shape, and `Standard.Verify` looks at the second
  one first (`resign.go:50`, `standard.go:27`): it does not pass (`TwoShapes`).
* A request whose `Connection` header names its signature header loses the new
  signature to `StripHopByHop` just before it is sent (`replay.go:120`), and does
  not pass either (`Excepted`).
* The repository's `README.md:71` says that every delivery carries the marker, and
  `docs/flow.md:71` that it prevents loops.
  A provider whose `Connection` header names `X-Omnihook-Forward` gets one more
  delivery out of a target that reaches this server: the first one comes back
  unmarked (`forward.go:63-65`).  It carries no `Connection` header, so the next
  one is marked and is not delivered on.  That is what `LoopBounded` says.
* A process killed between a commit and its answer has changed or deleted a row,
  or recorded an exchange, that nobody was told of; `AnswersTrue`,
  `DeletionsTold` and `HistoryAgrees` name these as the only differences.
* Rows are shown twice when a deletion moves them from the older pages into the
  first one; `loadOlder` looks for duplicates only among the older pages.
* A click on the button when the last older page has arrived and the list is not
  drawn anew yet asks with an empty cursor, and appends the first page again.
* A binary that has looked at `MAX(version)` before a newer one upgraded the file
  goes on with it (`db.go:93`): the refusal is a check before the act.
* With as many endpoints as the browser has connections refreshes wait until
  the 30 s write timeout of the server ends a stream, which is the only reason
  for which `CaptureShown` holds there.

**Fairness.**  Weak fairness of each handler: its body read ends by the 30 s
`ReadTimeout`, a statement by the 5 s busy timeout, and nothing else in
`ServeHook` waits (the queue send has a default branch, which is what the
mutant of `CaptureAnswered` removes).  Weak fairness of each worker: its
exchange ends by the 10 s client timeout.  Weak fairness of `runServe`: every
wait after the signal has a deadline.  Weak fairness of each batch: a delay is
at most 60 s, an exchange 15 s, a statement the busy timeout.  In `inbox` the
10 s timer fires, a read that has a connection is answered, and a list is drawn;
every stream ends by the write timeout, and its `onerror` is called.  Nothing is
assumed of the hub, the handlers of the streams or their messages, so that
`CaptureShown` holds without a single notification.  In `open` a statement ends,
and whoever saw the program fail starts it again.  No run assumes more than its question
needs: `CaptureAnswered` lets workers hang, `ShutdownEnds` lets both handlers
and workers hang.  The arrival of requests, the signal and the management
operations are never fair.

**Environment.**  Timeouts may strike whenever the code waits with one; a
dial may fail at any time; while `Shutdown` waits, a connection accepted
before may still deliver a request.  Nothing between a worker and this server
removes the marker.  A statement that reports an error has changed nothing.  Messages of one stream
keep their order and are lost only with the stream; closing an `EventSource`
takes effect at once.  The user loads one older page at a time.  SQLite behaves
as its documentation of WAL mode says: `Current` and `Busy` in Migrations.

## 4. What is proved

Every invariant and action property that a passing run checks is also a theorem, for
every value of the constants: any numbers of requests, slugs, targets, workers,
operations, callers, clients, batches and processes, any queue, channel and page
length, any sets of fields and headers, with or without faults.  The theorems
assume only the `ASSUME`s of the modules: special values are different from
ordinary ones, the queue has room for a job, `Lands` is a function into the
slugs or `Elsewhere`; for the limiter, that a bucket is swept only after
`Second + 2 * Skew` ticks (60 s against 1 s in the code); for the UI, that finitely
many requests are ever captured and that two messages of a stream (`onopen` and
`ready`) fit on their way; for the migrations, that a process is of one of the two
releases.

| Module | Theorem | Statement |
|---|---|---|
| `ServerProofs` | `AnswersAgree`, `RecordsAgree`, `NoLoop`, `PolicyKept` | the safety invariants of the run safety |
| | `AllAccounted`, `CleanShutdown` | those of the run burst |
| | `Refines` | `Spec => SavesFirst`, the refinement of the run safety |
| `EndpointsProofs` | `PatchesAtomic`, `AnswersAreTrue`, `ReadsWrites`, `DeletionsAreTold` | the invariants of the run endpoints |
| | `CreationKeeps` | `Spec => CreateKeeps`, its action property |
| `RateLimitProofs` | `RateLimited` | `Spec => []RateBound` |
| | `DenialsDeserved` | `Spec => DenialDeserved`, an action property |
| `ReplayProofs` | `ResultsAreComplete`, `WireIsTold`, `HistoriesAgree`, `OneLate`, `OneStray`, `ExitCodesTell`, `ResignsVerify` | the invariants of the run replay |
| `SignaturesProofs` | `RefreshedPasses` | what `RefreshSignatures` makes, `Verify` accepts |
| `InboxProofs` | `NothingIsMissed`, `OlderIsComplete` | the invariants of the run inbox |
| `MigrationsProofs` | `VersionsAreTrue`, `OpenedAreComplete`, `AloneGetsIn` | the invariants of the run open |
| all but `SignaturesProofs` | `TypeCorrect` | `Spec => []TypeOK` |

Almost none of the properties is inductive.  Each module has an `Inv` that is, made
of named parts; one lemma per action says that the action keeps it.  Each `Inv`
was checked with TLC before it was proved.

**Server.**  The invariant `Inv` adds
`HandlerInv` (what a handler knows at each label), `FreshInv` (before a
handler has been through `Enqueue` nothing was sent or recorded for its
request), `QueueInv` (jobs of the queue are untouched and no request is in it
twice), `WorkerInv` (a worker is alone with its job; it was sent exactly if
the worker is past the send), `AccountInv` and `StopInv` (how far an orderly
shutdown has come).  The heart is ownership: a request is with its handler,
in the queue, with one worker, or finished, and only its owner writes `sends`
and `replays`.  There is one lemma per step of the handler and the worker;
steps that touch neither queue nor workers share `Quiet`, steps in which a
worker ends a delivery share `ReleaseInv`.

`LoopBounded` needs `ParentInv` beside `Inv`: a delivery that came back has no
`Connection` header, and if it came unmarked then the request behind it had one,
so that request was no delivery.  Its step is `ArriveParent`: an arrival takes an
identity that is nobody's parent yet.

**Endpoints.**  `PatchAtomic` fails to be inductive because nothing in it says
that an operation yet to begin has written nothing, `AnswersTrue` because it
does not know how far a creation has come.  `Inv` adds `LabelInv` (what a label
tells of kind, answer and writes), `ProgressInv` (the columns a creation has
behind it), `OwnerInv` and `WrittenInv` (what is in the row was written, and
what was written is in the row unless it was overwritten or deleted) and
`BeforeInv` (what a capture may not have missed).  Overwriting is accounted for
by `Contested`, which only grows because an operation never changes the columns
it supplies.  One lemma per action; those that end an operation without
success share `QuietInv`.

`DeletionsTold` has an invariant of its own beside `Inv`, `ToldInv`: only
finitely many operations have begun, which is what a statement with `Cardinality`
needs when nothing is assumed about the set of operations.  A deletion whose
commit is done but not its answer counts as told; a kill moves it to those
nobody heard of, which only widens the gap between the two bounds.

**RateLimit.**  A bucket's credit pays for the grants: the inductive invariant
bounds, for each grant of the past, the cost of everything granted since by a
full bucket and the time passed less what is left in the bucket.  After a sweep
nothing of this is kept, which is sound because a sweep needs so much time
that every earlier grant is paid for.  `DenialDeserved` needs the other
direction.  `SpentInv` says for every moment `t` that what the grants of the last
second before `t` took, together with what is left, is a full bucket but for the
time between `t` (or the clock) and the bucket's last reading.  A refill that is
capped starts the account anew with a full bucket; a grant too old to count for
`t` left a credit that was not negative at a reading before `t`.

**Replay.**  The results are counted.  `WireInv` says that the exchanges on the
wire lie between the statuses and the statuses with the errors, with the
exception of the exchange under way, by the label and the outcome in hand.
`RankPrefix`, `HowManyAppend` and `RankBounds` say what one more result does to
the counts; `HistoryAgrees` follows from them with `RowsInv`: a batch has a row
that is not in its results exactly at the label between `Record` and `Return`, or
if it was killed there.  `LateInv` holds because a send after `ended` is not
followed by another before the loop has looked at `batchCtx`, `StrayInv` because
every send reads the request anew.  `ResignVerifies` needs no history: it is
`RefreshedPasses` at the send that signs.

**Signatures.**  The signature goes out under a name that makes the provider's
`Detect` true, the merge lets the fresh values win over the captured ones, and
`Either` finds the same id and timestamp in both.  For Standard Webhooks the shape
that is looked at first is the one that was signed, unless the headers have both;
that is the precondition `TwoShapes` of the theorem.  `StripHopByHop` then takes
off nothing the verifier reads: the other half of `Excepted`.  An endpoint whose provider is
detected detects the same one again (`GenericKept`).

**Inbox.**  `NothingMissed` is about what is on the screen, which says nothing
while a refresh is in flight.  `WakeInv` replaces it by what is in hand: each of
the two answers lists the capture or is still to be read.  An event that arrives
meanwhile sets `again`, an answer read before the capture is therefore followed
by another; and a page read after it lists the capture, because at most
`Limit - 1` newer ones are stored (`FirstListed`).  `PagesInv` keeps of each page
on its way that it has every owed row between its two cursors, which `ShowOlder`
then adds to the older pages once.  A Retry asks with the cursor of the attempt
that failed, so a failure leaves no gap.

**Migrations.**  `TxInv` ties a transaction to its version, and who is about to
record a version to the change, made by itself or found in the schema.
`ProgressInv` says that a process is past a version only when it is recorded.  For
`AloneOpens` the history `excused` is taken at its word: without an excuse nobody
else writes while a process opens the file, so its snapshot is still the latest
when it comes to write (`AloneInv`).

**Model-checked only.**  Liveness under fairness: `CaptureAnswered`,
`ShutdownEnds`, `ForwardSettles`, `BatchEnds`, `CaptureShown` and `RetryOpens`.
TLAPS has no rules for `ENABLED`, on which weak fairness rests.  And what the
violated runs show.

## 5. Not modelled, and the plan

* **Configuration and slugs**: `Load`, `Validate` and `slug.Valid` look at
  strings, once, before there is any state.
* **Login, logout, headers, health**: a comparison and a cookie; no state in
  the server.
* **The detail pane**: `show` drops late answers by a sequence number.  Its
  error path does not look at it, so that a late error replaces a later answer.
* **Reads of the command line** (`list`, `show`, `verify`) and of one request or
  its attempts change nothing.
* **The list of one endpoint's requests** is the aggregated one with a condition
  more; the UI does not use it.
* **Header restoration, the standard hop-by-hop headers, formatting, file permissions** are
  data or I/O.  `scripts/checkdocs` checks links of documents and is no part of
  the program.

Theorems planned: refinements that say for Replay and Inbox in one formula what
their invariants say in several; for Signatures, that a signature of one body or
secret is not accepted for another; for Outbound, what a target that passes
`Blocked` cannot be.
