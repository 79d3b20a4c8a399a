# Verification of xkcd-search-service

TLA+ modules, TLC configurations and TLAPS proofs for the services under
`src/search-services`. The project models the concurrent, failing, distributed
part of the program: the update service that fills a PostgreSQL table and
announces its changes over NATS, and the search service that keeps an
in-memory index of that table, the words service and the ranking of what is
found, the API gateway with its two limiters and its token check, the frontend
with its pages, and the processes themselves: how they start, migrate the
database, reach one another, stop and are started again.

Tools: `tlc -config X.cfg M` (runs), `tlapm M.tla` for the modules whose names
end in `Proofs`.

## 1. The system

| Component | State it keeps | Operations | Talks to |
|---|---|---|---|
| **update** core (`update/core/service.go`) | `inProgress` (atomic flag); per call: two channels, workers, batch | `Update`, `Drop`, `Stats`, `Status` | PostgreSQL, xkcd.com, words, NATS |
| update database (`update/adapters/db`) | tables `comics`, `comics_stats` | `Add`, `Drop` (transactions), `IDs`, `Stats` | PostgreSQL |
| update publisher (`update/adapters/publisher`) | NATS connection with reconnect buffer | `Publish` | NATS |
| **search** core (`search/core/service.go`) | `index` (map) under an `RWMutex` | `ISearch`, `Search`, `UpdateIndex`, `ResetIndex`, `HandleEvent` | PostgreSQL, words |
| search scheduler (`search/adapters/scheduler`) | ticker (`index_ttl`, 24 h) | `Start` and its loop | search core |
| search subscriber (`search/adapters/subscriber`) | NATS subscription, one callback goroutine | callback to `HandleEvent` | NATS, search core |
| **api** gateway (`api/adapters`) | rate limiter (token bucket), concurrency limiter (semaphore) | HTTP handlers, gRPC clients, JWT check | update, search, words |
| **frontend** (`frontend/adapters`) | none on the server; cookie and page state in the browser | pages, proxy handlers, JWT check | api |
| **words** (`words`) | none | `Norm` | – |
| **processes** (`*/main.go`) | the step of `run` each is at, the goroutine that waits for a signal | start, serve, stop on a signal, end | PostgreSQL, each other |
| migrations (`update/adapters/db/migrations.go`) | version and dirty flag in the database | `Migrate` | PostgreSQL |
| gRPC clients (`*/adapters/{words,update,search}`) | a channel each, with backoff | the calls, `Ping` | words, update, search |

How they interact: an administrator's `POST /api/db/update` goes through
gateway and gRPC to `Update`, which reads the ids in the table and the newest
number of xkcd.com, fetches what is missing with `concurrency` goroutines,
inserts the batch and recomputes the statistics in one transaction, and
publishes `update`. `Drop` truncates both tables and publishes `reset`. The
search service's subscription goroutine handles one event at a time; the
scheduler rebuilds the index at start and on every tick; `ISearch` requests
read index and table. The only shared memory is the flag (update) and the
index with its lock (search); the processes share the database and the broker.

Hard behaviours (`hazards` in PROJECT.json gives the lines):

- *update*: a check-and-set flag with deferred release on every error path; a
  feed/collect pool over two channels that is free of deadlock only because
  both are as large as the catalogue; ids read minutes before they are used; a
  two-statement transaction; an ambiguous commit; a crash between commit and
  publish; cancellation of the request at any point; a statistics reply
  assembled from two systems.
- *search*: two writers and many readers on an `RWMutex` whose readers hold it
  across two outside calls; events that are lost, late, or handled during a
  rebuild; a rebuild that fails; restarts; an index and a table read at
  different moments.
- *ranking*: shares compared by cross products, unstable sorting, a limit that
  may lie on either side of the number of matches.
- *processes*: services that start in any order although search reads what
  update creates; a migration cut at any of its steps; a graceful stop that waits
  for handlers nobody waits for, or for a service that stops at the same time;
  channels that outlive the server they lead to.
- *gateway, frontend*: a bucket in debt with waiters that give up; slots under
  panic and broken streams; an error translated five times (service, gRPC, two
  HTTP hops, browser); commands that go on without a client; tokens that expire
  on the way.

What makes each correct:

- *update*: one writer at a time and the flag always comes back; the statistics
  belong to the table; no key collision; the collector waits for exactly the
  outstanding jobs; a successful update is complete; every call returns; changes
  and events follow the abstract store.
- *search*: no torn read; the index equals the table once the last event was
  handled; `ISearch` then returns what a scan returns, `Search` always the best;
  nobody is stuck at the lock; the index converges without events.
- *processes*: no service serves without tables; a signal cuts no call of an RPC
  server that ends in time; everything comes up and finds everything again; every
  request ends.
- *rate limiter*: never more than `burst + rate * t` admissions in any window of
  length `t`, served in order. *concurrency limiter*: at most `n` inside, every
  slot returns. *gateway, frontend*: an answer never says that something was done
  which was not; a list of comics is complete or an error; a page whose session
  is over goes away.

## 2. Modules

`ComicStore` is the **abstract specification** of the update side: a table that
changes in whole batches or becomes empty, a statistics row that always fits
it, and at most one event per change, on its way before the next change. Its
`owed` is the event the last change still owes.

`UpdateService` is the **detailed specification**, one action per statement of
the handlers that another process could interleave with:

| Code | Actions |
|---|---|
| `Update` 67-143 | `Update` (CompareAndSwap), `ReadIDs`, `ReadLastID`, `Feed`, `CloseJobs`, `Collect`, `EndCollect`, `Publish`, `Release` (deferred Store) |
| `worker` 145-179 | `TakeJob`, `SendComic` (special comic, or Get and Norm succeed), `SendNil` |
| `db.Add`, `db.Drop` | `Insert`, `UpdateStats`, `Truncate`, `ResetStats`, `Commit`, `CommitError` |
| `Drop` 190-206, `Stats` 39-58 | `Drop`; `Stats`, `ReadStats`, `EndStats` |
| environment | `Cancel` (request context done), `Crash` (and restart), `NewComic`, `Take` |

`run[c]` holds the locals of handler `c`: `jobs` and `ok`/`nil` are the contents
of the two channels, `busy` the workers' hands, `awaiting` the rest of the loop
over `jobCount`. `Fail` is every error return. A call that finds the flag set
changes nothing and is therefore no action. What a transaction wrote stays in
the run until `Commit`, so a rollback has nothing to undo. `skipped` is history:
the ids whose fetch failed, which the code only logs. `Status` only reads the
flag.

`SearchIndex` **composes** the abstract store (it `EXTENDS ComicStore`; every
change and event of the update side is a step of it) with the search process:

| Code | Actions |
|---|---|
| update side, NATS | `Change`, `Publish`, `Attach` (the subscription reaches the broker), `Disconnect`, `Miss` |
| `main`, scheduler | `Start`, `Tick`, `Exit` (crash, signal, failed first rebuild) |
| `HandleEvent`, `UpdateIndex`, `ResetIndex` | `HandleEvent`, `Lock`, `Drain`, `ReadTable`, `ReadError`, `Fill`, `Reset`, `Unlock` |
| `ISearch` | `RLock`, `Lookup`, `Fetch`, `RUnlock` (reply or error) |
| `Search` | `Search` (it takes no lock and reads the table once), `Return` |

It **extends** `Ranking`, the pure part of the searches, and with it
`WordsService`. `Norm` is the loop of `words.go` over the words of a phrase, one
`Keep` a round: stem, leave out stop words and what has been seen, keep the order. `Ahead` is
the less function of `rankedSearch`; `RankedSearch` and `ByScore` are the sets of
lists the two searches may return, a set because `sort.Slice` leaves the order of
ties open; `Scores` is the counting loop of `ISearch`. The column `words` of a
comic is `Norm` of its text (`Listed`); `TextAssumption` says that the rest of the
models, for which a comic has a set of keywords (`WordsOf`), means the same.

The lock is Go's `RWMutex`: a writer announces itself (`Lock`), later readers
block, it proceeds when the earlier ones have left (`Drain`), and `Unlock` lets
the blocked readers in before the next writer. The events are those in the
publisher's reconnect buffer, in the broker, and in the subscriber's buffer, in
order. Three variables are history, written and never read by the other
actions: `shown` (the table the index was built from), `lost` (the event of
the last change was dropped or its handling failed) and `current` (readers
whose lookup came after the last change had been dealt with).

`SlotAllocator` is the **abstract specification** of the rate limiter: slots
on the time line, a `Period` apart or more, given in order, each the earliest
that is left when the request is looked at. `RateLimiter` is the **detailed
one**, the token bucket of `rate.go`:

| Code | Actions |
|---|---|
| `wait` 52-78 | `Check` (first select), `Lock` (and `time.Now`), `TooLate` (refused, lock released) |
| `wait` 80-95 | `TakeToken` (token, unlock, timer), `Wake`, `Abandon` (either branch of the second select) |
| `Limit` | `Arrive`, `Enter` (`next.ServeHTTP`) |
| environment | `Tick` (clock), `End` (context cancelled, deadline come) |

A token is worth `Period` ticks, so `credit` is the exact value of `rl.tokens`
times `Period`. `Refilled`, `Delay` are `tokensAt`, `durationFromTokens`. The
zero time of a fresh limiter is a full bucket before the start (`Boot`). The
limit `Inf` of the code cannot be configured (`NewRateLimiter` takes an int).
`slots` and `entered` are history.

`AdminGateway` follows an **admin's command**: page, frontend, gateway, update
service and back. A tab of a browser has a click and a poll under way.

| Code | Actions |
|---|---|
| `admin.js` | `Send`, `ShowClick` (alert), `Dismiss`, `ShowPoll`, `Leave` |
| frontend `web.go`, `auth.go`, `api.go` | `Login`, `OpenAdmin`, `WebCheck`, `WebReply`, `AskStatus` (second question of the statistics), `ClientFails` (time-out) |
| gateway `auth.go`, `api.go`, `update.go` | `GateCheck`, `GateReply`, `Unreachable` |
| update service | `Begin`, `Refuse`, `Finish`, `Read`, `Crash`, `EndOrphan` |
| clock | `Expire` |

`ServerCode`, `StubError`, `GateStatus`, `ClientError`, `WebStatus`, `Alert`
are the translations of an answer, in this order. A token is the number of its
login and the oldest expires first. `did` is history: what the service really
did. The service is no more than its flag here, because `UpdateService` has the
rest; an `Update` whose client has gone (`Abandon`) keeps the flag until it returns
(`EndOrphan`). `abandoned` counts such commands apart from the flag, so that one
that overlaps a retry would show.

`SearchGateway` follows a **search**: `Arrive`, `Acquire` or `Busy`
(`concurrency.go`), `BadRequest`, `OpenFails`, `Open`, then `Recv`, `Eof` or
`Break` (`collectCommics`), `Panic`, `Release` (deferred), `Recover`
(`recovery.go`), `WebReply`, `Show` (`search.js`), `Leave`. A comic is a count;
which comics they are is `SearchIndex`'s business. Requests of
`GET /api/isearch` take the same handler without the semaphore.

`Services` models the **processes**. `Run[s]` is the program of service `s`, the
steps of its `run` that can fail or wait, in the order of the code:

| Code | Actions |
|---|---|
| `main`, `run` up to serving | `Launch`, `Connect` (`sqlx.Connect` pings), `Migrate`, `Apply`, `Record` (version dirty, script, version clean), `Listen`, `Rebuild` (search's first), `Serve` |
| errors of `run` | `StartError` (the step cannot succeed: dirty database, no tables, server already stopped), `StartFault` (anything else) |
| signal, stop | `Interrupt`, `Drain` (GracefulStop or Shutdown begins), `Drained`, `ForceStop` (after 30 s), `Return` |
| a request and its calls | `Send`, `Accept`, `Refuse`, `Ask`, `Hear`, `Answer`, `Close`, `GiveUp` |
| gRPC channel | `Refuse` (a call fails, the channel backs off), `Reconnect` |
| environment | `Crash`, `EndOrphan` |

A request is the stack of the handlers that work for it (`frames`), each with the
services it has still to ask, the service its innermost call is on the way to,
and the answer that call got. When a caller gives up, dies or loses its
connection, the handlers above it become `orphans`: they go on and nobody
waits, but a graceful stop does. `schema` is what outlives the processes.
Here a handler is no more than whom it asks, and a process that ends is started
again (`Launch`); what handlers do is the business of the other modules, and
`UpdateService`'s `Crash` and `SearchIndex`'s `Exit` and `Start` are these processes
seen from inside.

`ComicSystem` **composes the two services themselves**: it extends `UpdateService`
and instantiates `SearchIndex` (as `Index`) with the update service's table, events
and `Owed` in place of the abstract store. `ServiceStep` is any step of the update
service, `SearchStep` any step of the search process or of its connection, which
takes the events (`UpdateService`'s `Take`, where the environment does). What
`SearchIndex` remembers of changes (`lost`, `current`) follows from what a step
does to the store (`Remembered`). `promised` is history: the comics that an
`Update` without an error has reported as stored (`Stored`), less those a `Drop`
took away.

`MCUpdateService`, `MCSearchIndex`, `MCComicSystem`, `MCRateLimiter`,
`MCAdminGateway`, `MCSearchGateway` and `MCServices` give the constants their
values; `UpdateServiceProofs`, `RankingProofs`, `SearchIndexProofs`,
`ComicSystemProofs`, `RateLimiterProofs`, `AdminGatewayProofs`,
`SearchGatewayProofs` and `ServicesProofs` hold the theorems. Operators introduced
by "Bug for P" are variants of a definition with a plausible bug: with the variant
in its place, property P fails. They take no part in the specifications.

## 3. Runs

| Run | Instance | Question | States |
|---|---|---|---|
| `update_service` | 2 callers, 2 workers, comics 1..3 (2 special), 1 event | safety of the update service; does it implement `ComicStore`, does every call return? | 346,290 |
| `search_index` | 2 readers, comics 1..2, 2 words, 2 events, 3 requests | lock protocol, freshness, exactness and order of both searches | 794,002 |
| `search_live` | 1 reader, 1 comic, 1 event | no waiting for ever, convergence | 16,939 |
| `comic_system` | 1 caller, 1 worker, 1 reader, 1 comic, 1 event, 2 requests | do the two services behave as `SearchIndex`, is a stored comic found? | 630,778 |
| `rate_limiter` | 2 requests, period 2, deadlines 1 and 3 ticks away, time 2 to 5, 3 slots | is the rate kept, does the bucket implement `SlotAllocator`, does every request leave? | 202,170 |
| `admin_gateway` | 2 tabs, one polling, 2 tokens | do the answers tell the truth? | 921,403 |
| `admin_live` | 1 tab, polling, 2 tokens | is a click answered, does an expired page leave? | 9,955 |
| `admin_refusal` | as `admin_gateway` | is a refusal alerted as one? | violated |
| `admin_expiry` | as `admin_gateway` | is an expired session told apart from success? | violated |
| `search_gateway` | 2 requests, 1 slot, 2 comics | slots, completeness of the list, is every search answered? | 42,217 |
| `services` | api, update and search, 1 request | migration, graceful stop; does everything come up, reconnect and answer? | 193,878 |
| `services_http` | frontend, api and words, 1 request | does an HTTP server wait for its handlers? | violated |

*Update safety.* `FlagHeldByOne`, `StatsConsistent`, `NoKeyCollision`,
`JobsConserved`, `UpdateComplete`, `FetchedWithinTotal` say, in this order: the
flag excludes and is set exactly while a call is inside; the row always fits the
table; the ids read first are still right at the insert; the collector waits for
exactly what is outstanding, and neither the feeding loop nor a worker ever waits
for room in a channel, though all is queued before anything is received; success
means nothing but failed fetches is missing; a statistics reply is never ahead of
the catalogue, because the table is read first and the catalogue only grows.

*Search safety.* `NoTornRead`: while a reader is inside no writer works and the
index is that of one table. `FreshWhenSettled` is the comment of `UpdateIndex`
(`search/core/service.go:165`) made precise: once the event of the last change
has been handled, the published index is that of the table, whatever ticks,
older events, restarts and reconnects came in between. It has one exception,
which the model makes visible: an older `reset` event that arrives after a
rebuild empties the index without looking at the table, so an event is not
considered settled by someone else's rebuild while such a reset is to come
(`ResetPending`). `ISearchExact`: an ISearch that starts after the last change was
handled and ends before the next returns the best of the comics a scan finds, no
comic twice, as many as asked for. Any other, whose index is out of date or whose
rows change between the two reads, may miss comics, but what it returns has
keywords of the phrase and is in the right order: the read lock keeps one table
published from the lookup to the reply. `SearchExact` says the same of `Search`, where
the best have more keywords in common and, among equals, fewer others; both are
stated with sets, where the code counts in lists and compares products.

*Both services.* `ImplementsIndex`: the update service, with every interleaving of
its goroutines, every failed statement, ambiguous commit and crash, never does to
the search service what `SearchIndex` does not account for. `Found`, from end to
end: a comic that an `Update` reported as stored is in the answer of every search
that shares a keyword with it, unless the limit is reached with comics that share
as many. It speaks of a `Search` that no change overtakes and of an `ISearch` that
begins when the last event was handled and ends before the next change
(`current`); what else is searched may miss it, until the tick (`EventuallyFresh`).

*Processes.* `SchemaSound`: however often a migration was killed or failed, the
row of the statistics was inserted once, and neither update nor search serves
without tables. `Graceful`: the process of an RPC server ends on a signal only
when its handlers have returned, or after 30 s. `StartsUp` and `Recovers` speak of
behaviours in which from some point on nobody kills or interrupts a process and no
start fails for a reason outside the system (`Quiet`). Processes may still end by
themselves for ever, with the error of a step that cannot succeed: search starts
and fails until update has created the tables, and a database that is dirty ends
every start of update. Each service then serves in the end, and each channel
connects again, with one exception, which both properties name (`Stuck`): a
migration that was cut after its first step leaves the database dirty, and update
starts and fails until somebody repairs the version table, as search does if the
tables are missing. The services beside them serve and reach each other all the
same. `RequestsEnd`: every request ends, whatever was killed, stuck and abandoned;
it does not need `Quiet`.

*Liveness.* `CallsReturn`, `SearchReturns`, `EventHandled`, and
`EventuallyFresh`: when the table stops changing and the process stops
crashing, the index becomes and stays that of the table, with or without
events.

*Rate limiter.* `RateBound`: between the slots of any two requests lie as many
periods as there are requests from one to the other, whoever waited, gave up or
was refused in between and however long the bucket was idle.
`AdmittedWithinRate`: the handler has seen no more requests than the time
allows, so nobody is let through before his slot; with a rate of zero nobody is
let through at all.
`ImplementsSlots`: a refused request leaves no trace in the bucket, an abandoned
one keeps its slot. `Leaves`: no path keeps the lock, no timer is forgotten.

*Admin's commands.* `OneCommand`: whatever clients give up and services crash,
one command at a time works, those that nobody waits for any more counted too, and
the flag is set exactly while it does: a retry of an abandoned command is refused
until that command has returned, and no longer. `AnswersTrue`: at
gateway and frontend, 200 means carried out, and 202 that another command was
under way. `FailureReported`: the page never calls a command a success that
failed or never reached the service, unless the session had expired.
`ExpiredPageLeaves`: a tab whose token has expired leaves the admin page.
`ClickAnswered`: a click is answered even if the update never ends.

*Searches.* `SlotsAccounted`: the semaphore holds an element for each search
that is being served and no other. `PageTrue`: a list on the page is complete,
and "No comics found" is said only if none was. `Answered`: every search leaves.

### Disagreements

Three runs show a statement of the repository that the code does not keep:

- `services_http`: gateway and frontend give their handlers 30 s and log "stopped
  gracefully" (`api/main.go:114-120`, `frontend/main.go:97-104`). `ListenAndServe`
  returns as soon as `Shutdown` is called, `run` returns nil, and the process ends
  with handlers at work; the goroutine in `Shutdown` is not waited for.
- `admin_refusal`: "Update already in progress" (`admin.js:41`) is never shown,
  because `response.ok` (`admin.js:37`) holds for 202. A second click during an
  update is told "Update started successfully".
- `admin_expiry`: "automatic redirect when the token expires" (`README.md:22`)
  holds for the poll (`ExpiredPageLeaves`), not for a click: `fetch` follows the
  redirect, finds the login page with 200, and the page reports the command as
  carried out.

Seen on the way, but against no statement of the repository: a `Drop` refused
because an update runs is answered 500, because the RPC server maps every error
of `Drop` to `Internal` (`update/adapters/grpc/server.go:64-69`), so that the
202 of `api.go:224-226` cannot happen; an error of the search service that
arrives with the first `Recv` is answered 500, also if it is `Unavailable` or
`InvalidArgument`, because only the error of opening the stream is mapped; a
waiter of a limiter with rate zero is refused at once if its context has a deadline
(`rate.go:73-77`), where the comment in `rate.go:33` has it wait, but no caller
sets a deadline; `checkExistingToken` and `logout` of `login.js` look for the
session in `document.cookie`, where a cookie that is `HttpOnly` never shows; an
update service killed in its migration needs a repair by hand (`Stuck` above).

**Bounds.** `MaxID` bounds the catalogue, `MaxEvents` the events on their way
(steps that would exceed them are disabled), `Callers`, `Workers`, `Readers` the
goroutines. Three comics give the pool an id that exists, the special id and an id
that is missing, with more jobs than workers; two callers suffice for every mutual
exclusion and stale read, which involve two parties; two readers let one block
while the other is inside; the two events of `search_index` give an event behind
an older one. Two words shared by two comics tell total from unique counts and
union from overwriting; the text of one repeats a word, one request has a word
that is stemmed and a stop word, one is too long, and each asks for fewer comics
than match, so order, ties and limit show. One request is the deepest stack in
`services` (gateway and a service, whose words service is not deployed there);
`services_http` has the frontend and words beside the gateway. The order in which
three services start, fail, stop and reconnect is what these properties are about;
a second request would only add handlers to wait for, and the proofs take any
deployment and any number of requests. `comic_system` has one of everything, which
is what TLC can take of a product of two services; one handler is all that ever
holds the flag, and one event and one comic suffice for a rebuild that misses a
change. That the limit is reached with other comics does not happen there; the
theorem has it, and `search_index` shows the order among several comics. Symmetry
permutes the readers of `search_index`, which has no liveness property. The clock
of the rate limiter stops at `MaxTime`, and `MaxGrants` bounds the slots, which is
enough for a wait behind two earlier slots (one of them abandoned), an idle time
that fills the bucket, and refusals in between. Two tabs give two commands that
overlap, the poll of one of them meets its own alert; two tokens give an expired
session beside a valid one. Two searches for one slot let one be refused, and two
comics tell a part from none and from all. The theorems remove the bounds for
every safety property (section 4).

Deadlock is checked except where the system may stop: the runs of the rate
limiter (the clock stops at its horizon) and of the admin's commands (all tokens
are used up). The services never stop: a supervisor starts them again.

**Fairness.** `UpdateService`: weak fairness of each handler and each worker
(Go schedules runnable goroutines; a call outside returns a result or an
error). No client has to call and no process has to crash or to be spared.
The assumption on calls is real: `Norm` has no deadline in `Update`, and a words
service that never answers would keep the flag set.
`SearchIndex`: weak fairness of start (the process is restarted by its
supervisor), of the exit after a failed first rebuild, of ticker, subscription
goroutine, writers and readers; strong fairness of `Lock` (Go's mutex hands over
to a waiter it has starved for 1 ms) and of the scheduler's successful read of
the table (the database does not refuse it for ever). Connecting, publishing and
changing the table are not fair.
`RateLimiter`: the clock runs, goroutines are scheduled, strong fairness of the
mutex as above. No request has to arrive, no context has to end.
`AdminGateway`: processes run, the frontend's client has a time-out
(`frontend/adapters/api/api.go:36`), so `ClientFails` is fair; the user closes
alerts; the page's interval fires and its code runs whenever no alert is open
again and again (strong fairness of poll and `ShowPoll`). An update need not
end, a token need not expire.
`Services`: processes run and are restarted, the error of a step that cannot
succeed ends the process, a signal's goroutine runs, every call ends (a channel has
a connect time-out, handlers return), and each process's channels try to reconnect
(the backoff of the clients is 1 to 10 s). Nobody has to call, kill or interrupt.
Where a property needs that faults end, `Quiet` says so: it rules out kills,
signals and faults of a start, and no process that ends with an error of its own.
`SearchGateway`: goroutines run, and a stream goes on or fails. The second half is
an assumption on the search service, since `Recv` has no time-out in the gateway.

## 4. Proofs

`UpdateServiceProofs` proves for every number of callers, workers, comics, words
and events, from `ServiceAssumption` and `ConcurrencyAssumption` (what
`NewService` checks, and finiteness of the keyword set):

- `TypeCorrect`, `Invariant`, and from the invariant `MutualExclusion`,
  `StatisticsExact`, `BatchIsNew`, `JobsAccounted`, `UpdateStoresAll`,
  `ReplyWithinTotal`: the six safety properties of the run;
- `Refinement`: every step of the update service is a step of `ComicStore` or
  leaves its variables alone.

None of the safety properties is inductive alone. `IInv` strengthens them: the
table lies within the catalogue; an id of a run is in one place (`OnePlace`);
the count equals the outstanding jobs (`Counted`); the feeding loop has handed
out or passed over every id below `next` (`Fed`); a handler between reading the
ids and committing still knows the table (`Known`), which needs
`FlagHeldByOne`, because only the holder changes it; what a Stats call has read
lies below the growing catalogue (`Replied`). That no send waits follows from
`Fed` and `OnePlace`: a channel as long as the catalogue that misses one of its
ids has room (`FewerThan`). Each action has a lemma showing it preserves `IInv`;
the steps of one handler leave the other handlers' part alone by a frame lemma.

`RateLimiterProofs` proves from `RateAssumption`, for any set of requests, any
period, deadlines and bounds: `TypeCorrect`; `SlotRefinement`, if the rate is
positive, every step is one of `SlotAllocator` or leaves it alone;
`RateBoundHolds`; and `AdmissionsWithinRate`, whatever the rate. The invariant
ties the bucket to the slots: the credit at `last` is what separates `last` from
the slot after the newest one, or the bucket is full and that slot is past. From
it the time a request gets, its reading of the clock plus its wait, is the
allocator's earliest slot, whether the bucket has debt or has been capped. The
bound is then a fact about any sequence whose neighbours are a period apart. The
step from slots to requests is the invariant `Paid`: whoever has entered, or could
enter at some time, has a slot of his own not after that time. So the requests
that have entered are no more than the slots up to now, and these no more than
burst and elapsed time allow (`FewSlots`). That only finitely many have entered is
proved on the way (`Counts`), not assumed.

`SearchGatewayProofs` proves from `GatewayAssumption` (finitely many requests at
a time, capacity and results are numbers): `TypeCorrect`, `SlotsAreAccounted`,
`PageIsTrue`. That the channel is never taken from when it is empty needs the
count of the holders (`SlotsAccounted`), which needs that only limited routes come
to the limiter; `PageTrue` needs that status 200 comes with every comic found
(`Progress`), from the end of the stream to the page.

`AdminGatewayProofs` proves from `AdminAssumption`, for any number of tabs, polls
and logins: `TypeCorrect`, `OneAtATime`, `AnswersAreTrue`, `FailuresAreReported`.
The invariant says of each call what is known of it at its place (`Good`), so
the proof follows an answer through its five translations; `Truth` is the lemma
that each of them keeps apart what was carried out from what was not. That a
token which has expired stays so (`Expiring`) is needed for the last hop, where
the alert speaks about the token the call was sent with. `OneAtATime` rests on
`Abandoning` and `OneAbandoned`: a client that goes leaves at most one command
behind, and that command keeps the flag.

`RankingProofs` proves facts about lists, for any texts, phrases and limits: the
entries of a list without repetitions that are in a set are as many as the set
they form (`CountInList`); the first elements of a sorted list of a set are its
best (`FirstAreBest`, for any relation "better"); and `LessRanks`, that the less
function of `rankedSearch` with its cross products is the order by matches and then
by fewer words. `NormKeepsFirst` is about `Norm`: for every phrase, no keyword twice,
the stems of the phrase that are no stop words and nothing else, in the order of
their first appearance. It goes by the rounds of the loop: of the rounds after which
the kept keywords are not the first appearances so far, a least one (`Least`, from the
well-foundedness of the naturals) would have a predecessor without that flaw, and
`KeepStep` takes it over the round.

`SearchIndexProofs` proves from `StoreAssumption`, `VocabularyAssumption` (`Words`
holds whatever the stemmer yields but stop words), `TextAssumption`,
`RequestAssumption` and `ReaderAssumption`, for any number of readers, comics,
words and events: `TypeCorrect`, `NeverTorn`, `Fresh`, `ISearchReturnsBest`,
`SearchReturnsBest`. The invariant says who has the lock (`Locking`), that the index
is that of `shown` less the rows a writer has still to append (`Building`), what
is known of the table while an event is owed, on its way or being handled
(`Told`), and of a reader that has looked up the settled index (`Answered`).
`Told` is the heart: a `reset` may empty the index only because the table it
announces is still empty, or a later event is still to come, and an index that a
tick built before the event was handled is rebuilt by the event. `Sound` is a second
invariant on top of it: nobody rewrites the index while a reader is inside, so at
the fetch the scores are still those of the table published (`SoundLookup`,
`SoundKept`), whatever rows are left to return. That the keywords
of a request and of a comic are lists without repetitions of words of the vocabulary
is `NormType`, from `NormKeepsFirst`. TLC evaluates the assumptions on the runs'
texts and requests.

`ComicSystemProofs` proves from `ServiceAssumption`, `ConcurrencyAssumption` and
`SystemAssumption` (those of `SearchIndex`), for any number of callers, workers,
readers, comics and events: `SystemRefinement`, `SearchesOfService`,
`PromisedIsFound`, `TypesCorrect`. A step of the update service is one of the
abstract store (`MapsStep`, from `UpdateServiceProofs`) that takes no event
(`EventsStay`), hence `Change`, `Publish` or a stutter of `SearchIndex`
(`ServiceMaps`); a step of the search service leaves `IInv` of the update service
alone, because the invariant speaks of events only by their type (`EventsGo`). With
the refinement every theorem of `SearchIndexProofs`, instantiated as `Proved`, holds
of the two services (`SearchesOfService`). `PromisedIsFound` puts both
halves together: what was promised is in the table (`SysInv`: only a `Drop` takes
rows away, and `UpdateComplete` at the return), and what is in the table and matches
is in the list of the best or the list is full (`ListedFound`).

`ServicesProofs` proves from `ServicesAssumption`, for any deployment and any
requests: `TypeCorrect`, `SchemaIsSound`, `SignalCutsNoCall`. The migration is one
process's (`ProgramInv`: only update is at its steps), so version, dirty flag,
tables and row fit the step it is at (`SchemaInv`); a server that has drained has
no handler, and accepts none, until it ends (`DrainedInv`).

Only model-checked: liveness (the prover has no fairness reasoning). Every safety
property of the passing runs is proved.

## 5. Assumptions and omissions

- A call to PostgreSQL, xkcd.com, words or NATS is one step that succeeds or
  fails; `Get` and `Norm` of one comic are one step. A statement that takes the
  context succeeds only while the request is not cancelled.
- An ambiguous COMMIT takes effect no later than the handler's return.
- xkcd.com answers with the number it was asked for, its numbers are dense and
  only grow; `Norm` returns a set of keywords that depends on the comic only.
- One replica of each service (`k8s/deployments`): the flag is per process.
- `context.TODO()` of the event handler and the ignored contexts of the search
  storage mean that only results and errors of these calls matter.
- The rate limiter computes in floating point and nanoseconds; the model is exact.
  The lock taken only to read the constant `rl.limit` (`rate.go:52-54`) is part
  of `Check`.
- Tokens are unforgeable and expire in the order of their logins, at the same
  time for frontend, gateway and browser. A call of the update service's
  `Stats` and `Status` is one step here; `UpdateService` has its parts.
- A call and its answer travel in order on one connection; a lost connection is a
  failed call. The gateway has no time-outs of its own for the calls to the
  services.
- The limit on a phrase is counted in words where the code counts bytes, and a
  phrase is a list of words: splitting at what is neither letter nor digit is left
  out, the English stemmer and its stop words are given (`Stem`, `StopWords`).
- A `Search` is one step: it depends on one read of the table and on nothing
  else that changes. Its failures leave no trace.
- The enlarged picture of a comic is left out.

**Not modelled.** Configuration: read once; an error ends the process before its
first step. Generated gRPC code. A COMMIT whose connection broke and that takes
effect after its handler has returned: what PostgreSQL does then, and how long it
takes, is outside the repository, and the table would change in a way no statement
of the code describes. An answer of xkcd.com with another number than the one asked
for (`update/core/service.go:174`). Two searches of one page whose answers cross
(`search.js` shows the one that comes last): no document promises anything about
it, and an invariant would restate the missing check. Logging.

## 6. Plan

Done: `ComicStore`, `UpdateService`, `SearchIndex` with `Ranking` and
`WordsService`, `ComicSystem`, `SlotAllocator`, `RateLimiter`, `AdminGateway`,
`SearchGateway`, `Services`, and proofs of every safety property of the passing runs.

Left, in this order:

1. A limbo COMMIT that outlives its handler, as a variant of `CommitError`, with
   what then remains of `ImplementsStore`.
2. `Services` with a second request, on a deployment small enough for TLC's
   liveness check.
3. Of `AdminGateway` and `SearchGateway`, what an abstract command and an abstract
   search promise, with the detailed modules shown to implement them.
