# A TLA+ development for webalytics

webalytics is a self-hosted web analytics system.  A browser tracker
(`packages/tracker`) sends events to a Go server (`cmd/webalytics`,
`internal/`), which checks them against Postgres and Redis and writes them in
batches to ClickHouse; an HTTP API reads them back for dashboards and manages
the sites.  This directory models the parts in which order, timing and failure
matter, checks them with TLC on small instances and proves the main results
with TLAPS for every value of the constants.

Paths below are relative to the repository's root.  `PROJECT.json` lists the
components, the runs, the source lines of every definition, the hazards and
the theorems.

## 1. The system

### Data path

    page -> tracker -> POST /collect -> validation -> rate limiter -> site cache
                                                          |               |
                                                        Redis          Postgres
                                                                          |
                                     ClickHouse <- batch writer <- enricher

The order is that of `handler.go` 51-163: a malformed payload spends no budget,
a request for an unknown site does.

| component | state it keeps | operations | what is hard | what makes it correct |
|---|---|---|---|---|
| Browser tracker (`packages/tracker/src/core.ts`, `transport.ts`, `vitals.ts`) | buffer, flush timer, last URL, enabled flag, the vitals reported so far, fetches under way | `init`, `track`, `flush`, `setEnabled`, history hooks, page lifecycle listeners, vitals observers | the order of listeners on one browser event; a timer that fires after an unload flush; a microtask between `init()` and the first pageview; return from the back/forward cache | each event handed to the browser once; one pageview per visit; one report per vital; nothing left in the buffer of a page that goes away |
| Collect handler (`internal/ingest/handler.go`, `payload.go`, `validator.go`) | none of its own | one request: decode, validate, limit, look the site up, check consent, hostname and bots, enrich, submit; every drop answers 204 | the order of the drops decides who spends whose budget; the process may be shutting down | accepted means submitted; a dropped request leaves no trace but the counters it passed |
| Site cache (`internal/storage/postgres/sitecache.go`) | a map from public id to a site or a miss, with an expiry | `Lookup`, `Invalidate` | no lock is held between miss, query and put; admin writes and their `Invalidate` come in between | bounded staleness; an invalidated entry returns only through a lookup that was already under way |
| Rate limiter (`internal/ingest/ratelimit.go`) | counters in Redis named by kind, id and second, which expire | `Allow` | the clock is read before Redis is reached; keys expire; calls fail after they were applied | no more than the limit pass; nobody is refused without cause |
| Enricher (`internal/ingest/enricher.go`, `internal/enrich`) | none | referrer, user agent, place, rating, daily session hash | two readings of the clock around midnight | pure functions of the request, but for the clock |
| Batch writer (`internal/ingest/batcher.go`) | buffer, closed flag, two one-slot channels, the batch in flight | `Submit`, `Close`, the loop goroutine | appends during an insert; dropped sends; drain on close; failed inserts | every accepted event settled exactly once; the loop wakes and ends |
| Event sink (`internal/storage/clickhouse/events.go`) | the `events` table | `InsertEvents` | an error does not say what was stored | none beyond the driver's |
| Process lifecycle (`cmd/webalytics/main.go`, `internal/server/server.go`) | where `run()` and `server.Run` stand, the requests in hand | signal, HTTP shutdown, `Close`, exit | two goroutines react to the same signal, each with a timeout of its own; the pools close without one | it ends once the Postgres queries in hand have returned; what is lost is known |

### Control plane and reading

| component | state | what is hard | what would make it correct |
|---|---|---|---|
| Control plane stores (`internal/storage/postgres`) and HTTP API (`internal/api/v1`) | sites, domains with at most one primary, tokens | concurrent transactions under READ COMMITTED, a partial unique index, rotation beside revocation | one primary per site; a conflict is reported only for a hostname that is taken, or for a race for the primary that was lost; a revoked token stays revoked |
| Authentication (`internal/auth`) | none beyond the token rows | one read of a row, then pure decisions | decisions follow the row |
| Statistics (`internal/api/v1/stats.go`, `internal/storage/clickhouse/queries.go`, `migrations/clickhouse`) | the materialized sessions table | rows of one session that are not merged yet; two queries for one answer | a session counts once; no share exceeds 1 |
| Migrations (`deploy/migrate.sh`, `migrations/postgres`) | the schema, the table of applied versions, the roles | a stop between applying a file and recording it, a re-run, a new release | the server starts on a whole schema; nothing is applied twice |
| Framework adapters (`packages/tracker-next`, `packages/tracker-angular`) | a ref or a subscription per mount | effects that run again; the address is read after the route is known | one pageview per route, with that route's address |
| Dashboards (`apps/dashboard-next`, `packages/dashboard-react`, `packages/dashboard-angular`) | the window picked, the loads under way, the answers shown | answers out of order, loads overtaken, one failure; clocks that change; rounding | the active window is shown, whole, and reads as what the server said |

Middleware, configuration, logging, provisioning scripts, Terraform, the demo
and the end-to-end test keep no state of their own worth a model.

### Interactions

* The tracker and the server share only HTTP requests.  The tracker never
  retries and ignores the answers.
* Request goroutines share the cache (a mutex), the limiter (Redis) and the
  batch writer (a mutex and a channel).
* Admin handlers write Postgres and then call `Invalidate`; the cache is not
  told of domain changes.
* `run()` owns the batch writer's `Close`; `server.Run` owns the listener.
  They learn of a signal independently.
* The adapters switch the tracker's own pageviews off and call `track` when the
  framework's router has finished a navigation.
* A dashboard knows the server by its query parameters alone, which its client
  and `stats.go` spell out separately.
* `docker compose` starts the server when `migrate.sh` has succeeded.

## 2. The modules

| module | models | kind |
|---|---|---|
| `DeliveryContract` | what the write path promises of an event | abstract specification |
| `BatchWriter` | `internal/ingest/batcher.go` | component; implements `DeliveryContract` |
| `Lifecycle` | `main.go` `run()`, `server.go` `Run()`, requests, around `BatchWriter` | composition |
| `LifecycleProofs` | | theorems about `BatchWriter` and `Lifecycle` |
| `SiteCache` | `sitecache.go` beside the admin handlers | component with its environment |
| `SiteCacheProofs` | | theorems about `SiteCache` |
| `RateLimiter` | `ratelimit.go` with the Redis counters | component with its environment |
| `RateLimiterProofs` | | theorems about `RateLimiter` |
| `Collect` | `handler.go`, `enricher.go`, `session.go`: a request of `/collect` between limiter, cache, two clocks and `Submit` | component with its environment |
| `CollectProofs` | | theorems about `Collect` |
| `Tracker` | `core.ts`, `transport.ts`, `vitals.ts` | component with the browser |
| `TrackerProofs` | | theorems about `Tracker` and `Adapters` |
| `Adapters` | `tracker-next`'s two components, `tracker-angular`'s service, with the routers | component with its frameworks |
| `DomainsContract` | what the callers of `domains.go` may rely on: every call is one step | abstract specification |
| `Domains` | `domains.go` `Create` and `Delete`, each a transaction (`conn.go`), with the indexes of `0001_init.up.sql` | component with Postgres; implements `DomainsContract` |
| `Migrate` | `deploy/migrate.sh`, with what the files of `migrations/postgres` need of each other and the `depends_on` of `docker-compose.yml` | component with Postgres and the operator |
| `ControlPlane` | `Migrate`, and `Domains` once the server is up | composition |
| `ControlPlaneProofs` | | theorems about `Domains`, `Migrate` and `ControlPlane` |
| `Reporting` | the tables and view of `migrations/clickhouse`, `events.go`'s insert, the summary and the breakdown of `queries.go` and `stats.go` | component with ClickHouse |
| `ReportingProofs` | | theorems about `Reporting` |
| `DashboardClient` | `client.ts` (windows, filters, requests), `lib/api.ts`, and the parameters `stats.go` reads | operators |
| `Tiles` | `format.ts` and the tiles of `dashboard-react`, the thresholds of `rating.go` | operators |
| `LiveDashboard` | `dashboard-angular`'s `<wb-dashboard>` and its tiles | component with the server's answers |
| `ServerDashboard` | `apps/dashboard-next`'s four pages, with the `<Dashboard>` of `dashboard-react` | component with the server's answers |
| `Dashboards` | one or the other beside a clock | composition |
| `DashboardsProofs` | | theorems about `Dashboards`, `DashboardClient` and `Tiles` |
| `MC...` | instances for TLC | |

Every module follows one convention: a section of code that nothing can
interrupt (a region under a mutex, a JavaScript task, one Redis transaction,
one SQL statement) is one action; a point where it waits or unlocks is a
control state between two actions.  Definitions whose comment starts with
`mutant:` are not part of a specification: each is a plausible bug that the
property listed with it in `PROJECT.json` must catch.

### BatchWriter

`buf`, `closed` are the fields; `trigger` and `tick` are the slots of the two
channels; `loop` is the loop goroutine's place (`select`, `flush`, `insert`,
`check`, `done`), `batch` the local of `flush`.  `submit[e]` and `close[c]` say
how far each call is.  The append of `Submit` and its non-blocking send are two
actions, because the code unlocks between them; so are `closed = true` and the
send of `Close`.  `rows[e]` and `failed` are what ClickHouse holds and what the
log calls failed: an insert that reports an error stores any subset of the
batch, since neither the driver nor an expired context says more.  Buffer and
batch are sets: an event is the identity of its `Submit` call, and the order of
rows inside a block means nothing to a table that sorts them.

`DeliveryContract` keeps of all this only the fate of each event: new, then
taken or refused; taken, then stored or lost.  The refinement mapping is
`fateOf`, at the end of `BatchWriter`.

### Lifecycle

Adds the requests (`Arrive`, `SubmitFrom`, `Answer`), the signal,
`server.Run` (`listening`, `shutdown`, and the three ways it returns) and
`run()` (`select`, `close`, `closeApp`, `closeIngest`, `exited`, with the branch
taken in `via`).  Its select is nondeterministic when both channels are ready,
as Go's is.  A request is one to `/collect`, named by its event, or one to the
API (`Calls`).  `Query` takes a Postgres connection from one of the two pools
and `QueryEnds` gives it back, which may never happen.  `closeApp` and
`closeIngest` are the deferred `pools.Close()` (`main.go:56`, `conn.go:54-64`):
each pool first stops giving out connections and then waits for those it has
given.  The other deferred calls wait for nobody and are part of the step that
leaves `close`.  All actions have the guard `Alive`: when `run()` returns, the
process and its memory are gone.  Of the requests' path before `Submit` only the
connection it holds is modelled.

### SiteCache

One public id, whose row is a version number: `wrote[v]` is the time at which
version v replaced the one before.  `Lookup` is three steps, `Miss`, `Answered`
or `QueryFails`, and `Put`; a hit changes nothing.  `PatchSite` and `DeleteSite`
commit and call `Invalidate` later; `WriteQuietly` stands for domain changes and
for commits whose handler answers an error, which never do.  `raced` is a
history variable: it marks the lookups that held their row when `Invalidate`
ran, and the entries they store.

### RateLimiter

The clock counts ticks, several to a second, and a counter is named by the
second of the clock reading at the start of `Allow`.  INCR and EXPIRE travel in
one MULTI/EXEC and are one step.  A failing call may have been applied.
Nothing limits the time between the reading and the INCR, since `Allow` sets no
deadline: an INCR may find the counter of its second expired and start it again
at 1.  `counted`, `passed` and `incrAt` are history: the checks in which a call
was counted, those it passed, and when its INCR reached Redis.

### Collect

One site, whose versions are kept in `site`, and requests with what matters of
their headers and body (`input`).  The steps of a request are separated where
the handler waits (body, limiter, cache) and by its two readings of the clock:
`Date` is `now()` in the handler and dates the event, `Build` calls the session
hasher, which reads the clock on its own.  The cache may answer with any version
so far, which is less than `SiteCache` promises; a version is chosen once per
request, and all checks use it.  The clock shows days only: nothing but midnight
matters to the properties.  `FilterBot` may or may not fire, user agents being
left out; so may `BuildFails` and `ReceiveMalformed`.  That the two readings can lie
on both sides of midnight is why a session id of one day can stand on an event
of the day before, although `session.go:19` calls it unlinkable across days.

### Tracker

Each task of the page is an action and includes all its listeners in the order
in which they run: `Hide` sends the buffer (document listener) and then makes
LCP final (window listener), `PageHide` makes the vitals final and then sends
(both on window, registered in that order).  The first pageview is `Boot`, the
microtask that `init()` queues.  Events are numbers in the order of their entry.
`Track` may be given props that `JSON.stringify` throws on (a cycle, a BigInt),
which put its event in `broken`.  `transport.send` serialises outside its `try`,
so an event of `broken` ends the loop over the batch there, when the buffer is
already empty: `Serialised` is what gets out before.  The exception reaches the
timer, a listener or the caller of `flush()`, and changes nothing else.
`visit`, `viewed`, `owed` and `early` are history for the pageview property.

### Adapters

One behaviour is of one adapter: `app`, `pages` or `angular`.  `log` holds the
routes the router has committed and what was reported for each; `location` is
what `location.href` says, which is what a pageview carries.  `due` says that an
effect or an event is to follow the last commit.  A link (`Push`) changes the
address when its route is committed; the back button (`Pop`) changes it at once,
and the router follows (`Follow`).  Angular changes the address and emits
`NavigationEnd` in one task.  `RerunApp` and `RerunPages` are effects that React
runs again: the first is stopped by `firedRef`, the second loses the listener of
the Pages Router, because the ref still holds the tracker.  `ManualInit` is the
application that calls Angular's `init()` itself.

### Domains

The domains of one site.  A `Create` is up to six steps: begin, `Count`,
`DemoteFind` and `Demote` (the rows an UPDATE finds in its snapshot, and what it
does once it has their locks), `InsertHostname` and `InsertPrimary` (the two
unique indexes, in the order in which Postgres checks them), `CommitCreate`.
`row[r]` is what is committed, `touched[t]` what t has changed and not yet
committed.  `WaitsFor(t)` collects everything a statement waits for; a step's
guard is that it is empty.  A call ends by committing, by `ErrConflict` or
`ErrNotFound`, or by `Fail`; a COMMIT whose answer is lost has happened all the
same.  `BreakDeadlock` is Postgres's deadlock detector.  `before`, `blame` and
`orphaned` are history.

`DomainsContract` has no statements: a `Create` adds its domain, of a hostname
that is not taken, and if it is primary takes the place of whatever is; a
`Delete` removes the domain it was asked for; or a call changes nothing and says
why.  The mapping, at the end of `Domains`, shows the committed rows (`Live`,
`Primaries`) and the answers (`answerOf`).  A call takes effect at its COMMIT.

### Migrate and ControlPlane

`schema` is the set of files whose changes are committed, `recorded` the rows of
`schema_migrations`; each file ends psql's single transaction with a COMMIT of
its own, so that applying (`Apply`) and recording (`Record`) are two steps.  The
script looks for `organizations` and, if nothing is recorded, records every file
of the release (`Look`, `Backfill`); then goes through the files (`Check`); then
sets the passwords of the two roles (`Passwords`), which fails without them;
then compose starts the server (`api`).  `Interrupt` stops the script anywhere,
`Down` stops everything, `Upgrade` checks a release with one more file out.  Of
a file the model knows which others it needs and whether it can be run again;
the values in `MCControlPlane` are those of the four files.  The database is
new, or one from before `schema_migrations`, of this release or of any older
one.  `torn` and `assumed` are history: a run has met a database that is not
`Clean` (neither one that records what it has nor the one the backfill has in
mind, untracked and with every file of the release), and the files that an older
untracked database lacked from the start.  `ControlPlane` lets the calls of
`Domains` begin once the server is up: a call needs tables that a migration has
made.

### Reporting

An event has the columns that reports count by (`session`, `ts`, `kind`,
`path`), chosen in `Init` within what `Collect` guarantees of a session's dates
(`SpansMidnight`, the `SessionSpan` of that module).  A row of `sessions` is the
set of the events it sums up, so its counts are cardinalities and merging two
rows is their union.  An insert is two steps, the table and then the view, and
may fail with any part of either done; `torn` remembers the events of such
inserts.  `Merge` is the background merge of parts: it may happen at any time or
never, and never joins rows of two months, which are different partitions.  A
report is one query per step (`TopLine`, `PreviousTopLine`, the two of
`PageThenTotal`) and keeps the events each query met; `start` is history.
`Bounces` is the summary's second query, as an operator of the state in which it
runs.

### DashboardClient and Tiles

Operators only.  `ExpandWindow` counts a preset back on the local clock, as
`setHours` and `setDate` do; the zone changes its clocks once, at `Change`.
`FiltersToQS` and `ParseFilters` are the two ends of the query.  `Accepts` is what
the server can answer at all: a window that is not empty, and the parameters
each statistic requires.  A number that is drawn is a `Figure`: the number, the
unit it is shown in, and what is shown.  Rates and shares arrive as quotients of
counts, divided as `stats.go` does.  Bars are percentages of a track and a
chart is points in its 1000 x 300 box.  What the server may answer at all is
`AnswerAssumption`, in `Dashboards`.

### LiveDashboard, ServerDashboard and Dashboards

`loads.live` is the load that `switchMap` listens to, `loads.older` the last one
it left unfinished, whose requests nothing aborts.  `Tick` and `Pick` begin a
load; `Answer` shows it when its last request is answered; `Fail` ends the whole
stream if it is of the load listened to.  After `Destroy` the loads go on,
because `shareReplay(1)` does not count its subscribers.

On the server `Open` begins a page; the overview's tiles are async components
and ask one by one (`Ask`), the other pages ask for everything at once and, on
the realtime page, for the site last (`Answered`).  One failed request fails the
page (`Failed`).  `Seed` is the seed script that writes the ids and the token.

## 3. What TLC checks

| run | result | distinct states | shows |
|---|---|---|---|
| `batcher` | holds | 71,000 | three Submits, two Closes, batch size 2: no event lost silently, doubled or stranded; a full or a closed writer always has something on its way to wake the loop; `DeliveryContract`, by which a finished writer has settled all it took, is implemented |
| `lifecycle` | holds | 610,000 | a signal ends the process when the queries it has in hand return; the drained branch loses nothing; unless `Close` timed out, nothing accepted is in memory at exit |
| `site_cache` | holds | 1,500,000 | the age of a hit, and where an entry older than its `Invalidate` comes from |
| `rate_limiter` | holds | 648,000 | in any two seconds no more than the limit pass the counter of one second, however late they come; a refusal has its cause; one address cannot use up a site's budget |
| `collect` | holds | 260,000 | the events of one session are dated on one day or two neighbours |
| `control_plane` | holds | 541,000 | the server starts on the whole schema, but for the two exceptions listed below, and a file is run twice or a run fails only after one that was stopped or on an older untracked database; then, of the domains: one primary at most; the primary is lost only by deleting it; a conflict has its cause in a taken hostname or in a primary committed since the call began; calls act as the single steps of `DomainsContract`; every call ends |
| `tracker` | holds | 1,681,000 | every event handed over once, unless it or one before it in its batch cannot be serialised, one report per vital, pageviews match visits, an abandoned page has an empty buffer, `flush()` waits for what it should, the buffer drains |
| `tracker_hidden` | violated | | see finding 1 |
| `adapters` | holds | 1,170,000 | every route that is committed has its pageview and one only (the Pages Router's may have more, or none once its effect has run again), with the route's own address unless the browser went back or forward in between |
| `reporting` | holds | 1,310,000 | each event is counted once in the sessions rollup; bounces are right once a session's rows are one; no share exceeds 1 |
| `dashboards` | holds | 170,000 | the live dashboard shows the active window, and never goes back to an older answer; a page rendered on the server is shown whole; windows are as long as they say, but for the hour the clocks change; nothing is drawn that reads as another number |
| `dashboard_filters` | violated | | see finding 2 |

Type invariants are proved (section 4) for every value of the constants and not
checked by a run.  That `Close` returns nil only when every event accepted is
settled (`DrainedOnClose`) has no run of its own: `DeliveryContract`'s `Finish`
says it of the loop's end, and section 4 proves it.

### Bounds

* `batcher`: with three events and a batch size of two the buffer passes
  through empty, below, at and (during an insert) above its limit.  The second
  closer meets a closed writer.
* `lifecycle`: one of two events can be in the buffer or in an insert while the
  other is still in its handler, which is the distinction the properties draw.
  One API call is enough to hold either pool while the other closes.
* `site_cache`: two lookups that overlap each other and an admin request; the
  two lifetimes differ; `MaxTime` 5 lets an entry be stored, expire and be
  replaced, `MaxWrites` 3 lets the site change before, during and after a
  lookup.  Lookups and admins are symmetric.
* `rate_limiter`: limits 1 and 2 and three requests, so each counter is met
  below, at and above its limit; two ticks to the second, so that a call can
  start at the end of one second and be counted in the next; the two seconds of a
  counter's life are four ticks, so that `MaxTime` 4 lets a counter of the first
  tick expire and a late call start it again.  One address and one site: the
  counters of two do not meet.
* `collect`: two requests can be of one session or of two, before, across and
  after either of two midnights, under one version of the site or two.
  `Midnight` does not come twice between the two clock readings of a request:
  nothing waits between them.
* `control_plane`: three runs of the script are a stopped one, the one that meets
  what it left, and one after that; the four files are those of the repository.
  An untracked database has any number of the first files of the release.
  A release with another file comes only after a run that succeeded.  Two
  bounds are stated in `ControlPlane`: calls are followed after a first,
  uninterrupted run on a clean database, and no release is deployed once they
  have begun.  Three Creates are a first domain and two that overlap as its
  successors, or three that all count none; two hostnames make some of them
  collide and others not; the Delete can take the primary before, between and
  after their statements.
* `adapters`: three routes and four visits are there and back again by link or
  by button, with a third route between, before or after `init()`.
* `tracker`: `MaxVisits` 2, one tracked event and the five vitals bound the
  events to eight.  `MinTracked` and `MaxTracked` make the tracked event the
  second of all, so that it may have an event before it and several behind it in
  its batch whether or not it can be serialised.  Pushing the address that is
  already shown, hiding, showing, leaving and coming back are not bounded.
* `reporting`: two events are the least that can be in one insert or in two, in
  one session or in two, and on both sides of a query; three days in months of
  two put the events of a session in the same month or across its end; the two windows
  begin and end between the days.  Three events exceed twenty million states.
* `dashboards`: two of the eight requests are followed, one with a window and one
  without, so that a load can be overtaken half-way; two picks are one to another
  window and one back; the clocks go forward at 2 of 0 to 3, so that loads lie
  before, in and after the hour in which "1h" is refused.  The answers are the
  numbers at which a format changes, with their neighbours, and every chart of
  up to four points among 0, 1 and 7.

CHECK_DEADLOCK is off everywhere because each of these systems may rightly
stop: after `Close`, after exit, at the clock's bound, on a page left for good,
when every call has been made, when a dashboard is closed, when all
events are stored and merged and the report is finished.

### Fairness

* `BatchWriter`: weak fairness of the loop goroutine, of each pending
  non-blocking send, and nothing else: the Go scheduler runs what is ready, and
  `InsertEvents` returns because its context ends after ten seconds.  Nobody is
  forced to call `Submit` or `Close`, and `CloseTerminates` does without the
  ticker, as the unit test with its one-hour ticker does.  `TickDelivers`
  states its own premise, a ticker that keeps ticking.
* `Lifecycle`: weak fairness of `server.Run` and of `run()`, whose waits for
  requests and for the loop end with a timeout.  None for handlers, ClickHouse or
  the loop: they may hang for ever and `SignalEnds` still holds.  Its premise,
  `QueriesReturn`, is that each request gives back the Postgres connection it
  holds: `pools.Close()` has no timeout, and nothing in the code guarantees it.
* `Tracker`: weak fairness of the microtask and of the timer, while the page
  runs.  None for fetches, which may hang.
* `Domains`, and `PlaneFairness`, which is the same: weak fairness of the
  statements of a call that has begun and need not wait, and of the deadlock
  detector.  `CallsEnd` needs the detector: a
  Create that has demoted the primary and waits for a hostname, and one that
  counted no domain, has inserted that hostname and waits for the place of the
  primary, wait for each other.  The code takes no lock that would rule this
  out, and the loser gets an internal error.  Nothing is assumed of `migrate.sh`
  or of who starts it.
* `Dashboards`: weak fairness of the timer, which RxJS repeats while it is
  subscribed to, and of the answer or failure of each request of the load that
  is listened to: the database clients' own read timeouts end a query that
  takes too long, an answer past the server's WriteTimeout (`server.go:29`) is an
  error, and a lost connection rejects the browser's fetch.
  None for the reader.  `PickedShown` is about a dashboard without a refresh
  timer: with one whose period is shorter than an answer takes, `switchMap` drops
  every load before it is complete, and nothing is ever shown.

### Findings

1. `core.ts:218` says that the buffer is flushed when the page becomes hidden.
   The flush listens on `document` and the last LCP value is made final by a
   listener on `window`, which runs later: LCP stays behind until the timer
   fires, and is lost if the browser ends the hidden page first.
2. `dashboard.component.ts:87` says that the dashboard's filters are applied to
   every query that supports them.  The clients send them under plural names
   and joined by commas; the server reads singular names, one value each.  No
   filter has any effect.

What else the models show, without a run of its own:

* `server.go:37-38` promises a shutdown within the configured timeout.  A request
  that hangs in a Postgres query keeps its connection, for which the deferred
  `pools.Close()` waits without limit: `SignalEnds` fails without its premise.  A
  second SIGTERM does not help, because `stop()` is deferred first and runs last
  (`main.go:48-49`).
* `transport.ts:4-5` and `types.ts:68-69` say that the transport never throws into
  the application's code.  `JSON.stringify` (`transport.ts:29`) is outside the
  `try`: props with a cycle or a BigInt make the send throw, out of `flush()` too,
  and with their event go all that are behind it in the batch.  This is the
  exception in `SentOnce`.
* `docker-compose.yml:66` says that the server does not start on a half-migrated
  schema.  `migrate.sh:17-29` takes every untracked database for one of the
  release on disk: on one of an older release it records files that were never
  run, and no run need have been stopped for it.  The missing roles stop the server
  unless they are there, as they are when the older release had their file.  These
  files are the `assumed` ones of `StartsWhole`.
* `domains.go:48-49` and `util.go:46-47` say of `ErrConflict`, a 409, that the
  (site, hostname) pair already exists.  A Create of a new hostname gets it too, when
  another one committed a primary after it began: the second case of
  `ConflictExplained`, the unique index of the primaries.  The hostname can simply
  be created again.
* `dashboard.component.ts:90` promises a refresh at an interval.  One failed fetch
  ends the stream that `switchMap` feeds (line 128), and with it every later
  refresh and every later pick.  `PickedShown` and `UpToDate` name that end as
  their exception.
* `ratelimit.go:61` lets a counter live two seconds "so the window can overlap
  safely".  A request that reaches Redis later than that starts the counter of its
  second again at 1.  Over the whole life of a second's key more than the
  limit may pass; in any two seconds they may not (`CapHolds`).
* `batcher.go:21` says it is not safe to `Close` while writers still call
  `Submit`.  `run()` does just that on a signal (`main.go:189-193`): it closes
  the writer while the server is draining its requests.  An event submitted
  then is dropped, and its request is answered as accepted.  `Lifecycle`'s
  properties are stated around this.
* `router.go:133` says that the invalidator lets admin writes punch through the
  ingest cache.  A lookup that has read the old row stores it after
  `Invalidate`, and it is served for another TTL: the `raced` entries of
  `OlderOnlyByRace`.
* `0002_materialized_views.sql:249` says that a bounce is a session with exactly
  1 pageview.  `queries.go:117-122` counts rows of `sessions`, of which a session
  has one for each insert until its parts are merged: two pageviews of one
  session, flushed apart, are two sessions and two bounces.  If one of them was
  dated at the very end of a month and hashed after midnight (`Collect`), their
  rows are in different partitions and stay two.  This is the premise of
  `BouncesWhenMerged`.
* `migrate.sh`: stopped between the COMMIT of file 0001 and its record, it takes
  the database for an old one the next time and records every file as applied,
  though one was.  `ALTER ROLE` then fails for want of the roles, on this run
  and every later one, and the server does not start.  If the roles had been
  provisioned before, nothing fails, and the server starts on one file of four,
  against `docker-compose.yml:66`; that is the exception in `StartsWhole`.
  Stopped after another file that cannot be run twice, each later run fails at
  that file.  The same goes for a backfill that was stopped half-way.
* The bar of ratings in the web vitals tile is never drawn: it looks for counts
  (`web-vitals.tsx:61`), and the answer holds percentages (`stats.go:263`).
* A destroyed `<wb-dashboard>` goes on asking the server
  (`dashboard.component.ts:129`).

## 4. What TLAPS proves

For any sets of events, closers, requests, addresses, lookups and admins, any
limits and lifetimes.

**LifecycleProofs**, from `MaxRows` being a positive number.  `TypeCorrect`;
`AccountedCorrect` and `AtMostOnceCorrect`; `NoLostWakeupCorrect` and
`DrainedCorrect`; `Refinement`.  `Places` (types,
`Accounted`, `AtMostOnce` and `LoopInv`: the batch is empty outside an insert,
and a finished loop means a closed, empty writer) is inductive on its own: that
no row is doubled depends on an event being in one place only.  `IInv` adds the
two wake-up invariants and `CloseInv`, which ties the places of the `Close`
calls to `closed` and to the loop.  The refinement is proved action by action:
`Submit` is an `Offer`, the inserts are `Settle`, the first `Close` is `Shut`,
the loop's end is `Finish`, and everything else is a stutter.

To the writer, a step of the process is one of its own or none (`ProcessStep`),
so all of this holds in `Lifecycle` too: `ProcessRefinement`.
`DrainedServerCorrect` rests on `NoneInHand` (a drained server has no request in
hand) and `OpenUntilClose` (the writer is open until `run()` leaves its select);
`ExitSettlesCorrect` on `ExitAfterClose` (which holds from the closing of the pools
on) and the writer's `DrainedOnClose`.  The one
assumption is that `run()` is among the callers of `Close`.

**SiteCacheProofs**, from the lifetimes, the latency and the bounds being
natural numbers.  `BoundedStalenessCorrect`: an entry's expiry is not later than
the reading of its row plus latency plus lifetime, and a version that replaced
it was written no earlier than that reading; for this the invariant says of each
lookup that holds a row when it read it, and that `wrote` is no later than the
clock.  `OlderOnlyByRaceCorrect`: a row that is older than the last invalidated
version is marked as raced.

**RateLimiterProofs**, from finite `Requests`, natural limits and at least one
tick to a second, and with no bound on how late a request reaches Redis.
`RejectedForCauseCorrect`: a counter never exceeds the number of calls counted in
it.  `CapCorrect` and `OneAddressCorrect` are about two seconds that may begin
anywhere.  Every INCR renews the expiry of its counter, so that the counter holds
at least the calls that came within the last two seconds before it; those of any
two seconds are therefore at most what the last to pass among them found, which is
the limit.  Expired counters may start again at 1, since none of the calls they
had counted is then still within two seconds.

**CollectProofs**, from natural bounds.  `SpanCorrect` rests on `ClockOrder` (the
salt is of the day of the event or of the next).  `Reporting` starts from
`SessionSpan`.

**TrackerProofs**, from natural bounds.  `Inv` is the types and six parts:
`ReportInv` (each vital that is done is reported, once), `CountInv` (how many
events there can be yet, given the visits and the reports), `BufInv` (an event
is in the buffer, or handed over once, or lost behind one that cannot be
serialised; the buffer holds the last events there are, so that a batch has no
gaps and whatever an exception takes along is all of them from the broken one
on), `FlushInv` (no event from before a
call of `flush()` comes back, and those on their way are awaited), `VisitInv`
(visits are owed a pageview in their order and paid at once, but before the
first) and `AwayInv`.  It is inductive; there is one lemma for each task of the
page, over lemmas about what the tasks share.  The five safety properties
follow from it.

Of the adapters, from `MaxCommits` being positive: `PageviewPerRouteCorrect` and
`NamesRouteCorrect`.  Neither is inductive.  `SinceInv` says when the tracker
came; `GuardInv` says what keeps a route from being reported twice (`firedRef`
under the App Router, the one effect of a `NavigationEnd` in Angular);
`AddressInv` says that a report that is still to come will find the address of its
route, unless the browser has moved.

**ControlPlaneProofs**, from no call being both a Create and a Delete, and what
`Migrate` assumes of the files.  `AtMostOnePrimary`, `PrimaryStays`,
`ConflictHasCause`.  None of these needs the row locks: `PendingAlone` says that
the call past the second index is alone there and has demoted whatever is
primary; `OthersCounted` and `FirstStays` make `PrimaryRemains` inductive, which
on its own does not survive the deletion of the last domain; `CountedDemoted`
says that of the primaries a call could have counted it has demoted those that
are left, so that only a later one can stop it; `RowAfterCommit` says that a
call that was refused has left no row, which is what makes the hostname or the
primary that it met another's.  One lemma for each action.

`Refinement`: the calls implement `DomainsContract`, however many there are and
however their statements interleave.  This does need the locks (`LockInv`): a
row that a call has changed is in no other's hands (`Exclusive`) and still there
(`HeldLive`), so that at its COMMIT a `Delete` removes a live row and a `Create`
demotes only live ones; a call past the index of the hostnames shares its
hostname with no domain and no other such call (`HostAlone`).  With
`PendingAlone`, a `Create` that is to be primary has changed every row that is
primary at its COMMIT (one that appeared after its own UPDATE stops it at the
second index), and with `FirstStays` one that is not to be leaves a primary, or
an orphaned site, as it found it.  Every step before the COMMIT is a stutter
(`CreateHidden`).  `HostnamesUnique` follows from `HostAlone`; `PlaneRefinement`
carries the refinement over to `ControlPlane`.

`StartsWholeCorrect` and `AgainCorrect` rest on
`MInv`: how far the script is bounds what is recorded (`Progress`); roles come
from infrastructure or from their file (`RolesInv`); a database that is not torn
has recorded all it has but the file in hand (`CleanInv`); one that has recorded
a file it has not, and did not lack as an old database from the start, is torn,
and unless infrastructure provided the roles it has none, and the file of the roles
or one before it is recorded in vain (`BadInv`): so it is the missing roles that
stop the server.  `RoleAssumption` is needed there:
the file of the roles builds on every file before it.  `PlaneKeepsDomains`
carries the invariant of `Domains` over to `ControlPlane`.

**ReportingProofs**, from finitely many events and windows that are not empty.
`RollupCorrect` rests on `BlockApart` (an event of the insert under way is in no
row yet); it shows that a sum over all the rows of a session, merged or not, is
the true number.  `SharesCorrect` rests on `FirstKept` (what the first query met
is still met by the second, because nothing is deleted), `CompareCorrect` on
`QueryMet` (what each window's query has met and what it cannot have missed).
`BouncesCorrect` counts rows on one side and sessions on the other: when each
session has one row, that row holds all of the session that has reached the view
(`RowOfSession`), which makes the two one to one, and the counts equal.

**DashboardsProofs**, from what the modules assume of clocks, requests and
filters.  Of the operators: `PresetWindow` (a preset's window is as long as its
name says but for the change of the clocks, and refused only for that, whenever
the change comes), `FormatIntReadsBack`, `FormatMsReadsBack` and
`FormatDurationReadsBack` (for every number), `BadgesAgreeCorrect` (the
thresholds in three places agree).  Of the states: `WindowAsAskedCorrect` from
the types; `UpToDateCorrect` and `NeverBackCorrect` from `LiveInv` (what is shown
is no later than the last load, and the last load is of the active window while
the stream is open); `PageWholeCorrect` from `PageInv` (whatever was asked was
asked since the page was opened).

`DrawnTrulyCorrect` needs no invariant beyond the types: it is about every answer
within `AnswerAssumption`, with lists and charts of any length and numbers of any
size.  A rounded quotient is within half of its last place (`QuotientReadsBack`);
a longest bar exists and no bar is longer (`GreatestOf`, `BarInTrack`); the
division that gives the width is monotone (`DivMonotone`); a chart's greatest
value bounds its points, which therefore stay inside the padding
(`ChartStaysInBox`); the total over a chart is defined for every length
(`TotalsExist`).  The last needs an induction.  The library's induction theorems
are about any predicate, and no installed prover instantiates them; `LeastNumber`
and `UpTo` state induction for a set of numbers instead, from the library's
theorem that the order of the numbers is well-founded.

`FiltersUnread` is finding 2 for every value of `Filters`: no request of the
live dashboard carries a name that the server reads.

What stays with TLC:

* liveness (`CloseTerminates`, `TickDelivers`, `SignalEnds`, `Drains`, `CallsEnd`,
  `PickedShown`), which is out of the prover's reach;
* the two violated statements, which are about counterexamples.

## 5. What the models leave out

* Columns, formats and wording; parsing of payloads, user agents and addresses.
* `SiteCache` assumes that a lookup stores its row within `MaxLatency`.  The
  code sets no such limit; the staleness bound is relative to it.  The cache
  map's growth is not modelled: entries are never evicted.
* `Lifecycle` starts with a server that listens.  Start-up is sequential and
  ends the process on any error.  The update of a token's last use
  (`tokens.go:63`) holds a connection after its request, for a few seconds by its
  own deadline, and so delays `pools.Close()` no longer than that.
* `Tracker` has both automatic features on.  The outbound click listener only
  calls `track`, and `identify` does nothing.  A beacon that the browser refuses
  counts as handed over, because the code does not look at the result.
* `setEnabled(false)` leaves what is already buffered to be sent.  With
  `autoPageviews` or `autoWebVitals` off the tracker only does less.
* `Adapters` leaves out `umd.ts`, which calls `init()` once the document is there,
  props that change while mounted, and the second tracker that a real remount
  makes: its pageviews are those of a new page.
* `Reporting` counts exactly where `uniq` estimates, reads of a table see one
  state of it, and rows do not reach their 400-day TTL.  A report filters by
  path only.  Limit and offset, time series, realtime, web vitals,
  `TotalOther` and `previous_year` are left out.
* `Migrate` has one run of the script at a time, as compose starts one
  container, and no down files.  What a file does is its place among the others.
* `Dashboards` leaves out styles and themes, wording, the choice of the interval,
  flags of countries, the picker of `dashboard-react` (links to other pages) and
  the `group_by` parameter beyond "none", the only value the pages send.

### Not modelled

* Authentication, tokens and public tokens: each call is one SQL statement, which
  Postgres makes atomic, followed or preceded by pure decisions.  There is no
  second step that a rotation or a revocation could come between.
* Middleware, configuration and logging: nothing outlives a request.
* Provisioning scripts: sequences of upserts that an operator starts again by
  hand.
* Infrastructure, demo and tests.

## 6. What remains

In order of importance:

1. `Collect` composed: its request with `RateLimiter`'s budgets (a drop spends
   only what it reached) and as the handler of `Lifecycle`.
2. `Reporting` extended: time series and realtime, pages of a breakdown read one
   after the other while events come in.
3. `Adapters` composed with `Tracker`, whose `track` they call.
