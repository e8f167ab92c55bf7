-------------------------- MODULE ServerDashboard --------------------------
(***************************************************************************)
(* apps/dashboard-next: four pages rendered on the server, one of which    *)
(* (/overview) is <Dashboard /> of packages/dashboard-react.               *)
(*                                                                         *)
(* The tiles of /overview are async components; each asks for itself when  *)
(* React comes to render it.  The other pages take one window and ask for  *)
(* everything at once; the first page asks for its site after that.  A     *)
(* request that fails makes the page fail: there is no error boundary.     *)
(* The pages are force-dynamic and the fetches no-store: nothing is kept   *)
(* from one rendering to the next.                                         *)
(***************************************************************************)
EXTENDS LiveDashboard

VARIABLES
  seeded,  \* the variables env.ts requires are set, in the environment or the seed file
  page,    \* the page last opened
  phase,   \* idle, rendering, shown or error
  opened,  \* when it was opened
  asked,   \* when each request of its was made
  got      \* the requests answered

serverVars == <<seeded, page, phase, opened, asked, got>>

Pages == {"overview", "realtime", "pages", "vitals"}

PageTiles(p) ==
  CASE p = "overview" -> Requests
    [] p = "realtime" -> {"realtime", "summary", "events", "site"}
    [] OTHER          -> {p}

(* <Dashboard window="7d" /> *)
OverviewRequest(tile, t) ==
  LET window == ExpandWindow("7d", t) IN
  CASE tile = "realtime"   -> Request("realtime", window, {}, <<>>)
    [] tile = "timeseries" -> Request("timeseries", window, {"metric", "interval"}, <<>>)
    [] tile = "summary"    -> Request("summary", window, {}, <<>>)
    [] tile = "vitals"     -> Request("web-vitals", window, {"group_by"}, <<>>)
    [] OTHER -> Request("breakdown", window, {"dimension", "metric", "limit"}, <<>>)

(* lib/api.ts *)
NextRequest(tile, t) ==
  LET window == DefaultWindow(t) IN
  CASE tile \in {"realtime", "site", "summary"} -> Request(tile, window, {}, <<>>)
    [] tile = "vitals" -> Request("web-vitals", window, {"group_by"}, <<>>)
    [] OTHER -> Request("breakdown", window, {"dimension", "metric", "limit"}, <<>>)

ServerRequest(tile, t) ==
  IF page = "overview" THEN OverviewRequest(tile, t) ELSE NextRequest(tile, t)

ServerInit ==
  /\ seeded \in BOOLEAN
  /\ page = "overview"
  /\ phase = "idle"
  /\ opened = 0
  /\ asked = <<>>
  /\ got = {}

(* make seed may run while the server does; env.ts reads lazily. *)
Seed ==
  /\ ~seeded
  /\ seeded' = TRUE
  /\ UNCHANGED <<page, phase, opened, asked, got>>

Open(p) ==
  /\ phase # "rendering"
  /\ page' = p
  /\ opened' = now
  /\ got' = {}
  /\ phase' = IF seeded THEN "rendering" ELSE "error"
  /\ asked' = IF seeded /\ p # "overview"
              THEN [tile \in PageTiles(p) \ {"site"} |-> now]
              ELSE <<>>
  /\ UNCHANGED seeded

AskedToo(tile) == [x \in DOMAIN asked \cup {tile} |-> IF x = tile THEN now ELSE asked[x]]

(* React renders another component of the overview. *)
Ask(tile) ==
  /\ phase = "rendering" /\ page = "overview"
  /\ tile \in PageTiles(page) \ DOMAIN asked
  /\ asked' = AskedToo(tile)
  /\ UNCHANGED <<seeded, page, phase, opened, got>>

CompleteAsked == got' = DOMAIN asked'  \* mutant: what was asked so far is enough

Complete == got' = PageTiles(page)

Answered(tile) ==
  /\ phase = "rendering"
  /\ tile \in DOMAIN asked \ got
  /\ Accepts(ServerRequest(tile, asked[tile]))
  /\ got' = got \cup {tile}
  /\ asked' = IF page = "realtime" /\ got' = PageTiles(page) \ {"site"}
              THEN AskedToo("site") ELSE asked
  /\ phase' = IF Complete THEN "shown" ELSE phase
  /\ UNCHANGED <<seeded, page, opened>>

Failed(tile) ==
  /\ phase = "rendering"
  /\ tile \in DOMAIN asked \ got
  /\ phase' = "error"
  /\ UNCHANGED <<seeded, page, opened, asked, got>>

ServerNext ==
  \/ Seed
  \/ \E p \in Pages : Open(p)
  \/ \E tile \in AllTiles \cup {"events", "site"} : Ask(tile) \/ Answered(tile) \/ Failed(tile)

----------------------------------------------------------------------------
(* What is drawn *)

Nothing == [figures |-> {}, shares |-> {}, bars |-> <<>>, chart |-> TimeseriesChart(<<>>),
            badges |-> {}]

(* fmtInt, fmtPct and fmtMs of metric-grid.tsx *)
FmtInt(n) == Figure(n, 1, n)

FmtPct(q) == Figure(1000 * q.part, q.whole, Round(1000 * q.part, q.whole))

OverviewDrawing(a) ==
  [figures |-> SummaryCards(a.summary).figures \cup Realtime(a.realtime).figures
               \cup TimeseriesChart(a.points).figures \cup TopList(a.pages).figures
               \cup WebVitalsCards(a.vitals, CoreVitals).figures,
   shares  |-> SummaryCards(a.summary).shares \cup TopList(a.pages).shares,
   bars    |-> TopList(a.pages).bars,
   chart   |-> TimeseriesChart(a.points),
   badges  |-> WebVitalsCards(a.vitals, CoreVitals).badges]

(* The tracker's own events are not among the custom ones. *)
CustomValues(rows) ==
  {rows[i].value : i \in {j \in DOMAIN rows : rows[j].key \notin {"pageview", "web_vital"}}}

RealtimePage(a) ==
  [Nothing EXCEPT
    !.figures = {FmtInt(n) : n \in {a.realtime.online, a.summary.visitors, a.summary.pageviews,
                                    a.summary.sessions, a.summary.avg}
                                   \cup Values(FirstOf(a.realtime.pages, 10))
                                   \cup Values(FirstOf(a.realtime.hosts, 10))
                                   \cup CustomValues(a.pages.rows)},
    !.shares  = {FmtPct(Quotient(a.summary.bounces, a.summary.rows))}
                \cup {FmtPct(Share(v, a.pages)) : v \in CustomValues(a.pages.rows)}]

TopPagesPage(a) ==
  [Nothing EXCEPT
    !.figures = {FmtInt(n) : n \in {a.pages.total} \cup Values(a.pages.rows)},
    !.shares  = {FmtPct(Share(v, a.pages)) : v \in Values(a.pages.rows)}]

(* A row for each metric, with rating_pct as the server sends it. *)
VitalsPage(a) ==
  LET Rated(m, k) == FmtPct(Quotient(a.vitals[m][k], a.vitals[m].samples)) IN
  [Nothing EXCEPT
    !.figures = {FmtInt(a.vitals[m].samples) : m \in DOMAIN a.vitals}
                \cup {FormatMs(a.vitals[m].p75) : m \in DOMAIN a.vitals \ {"CLS"}}
                \cup {FormatMs(a.vitals[m].p95) : m \in DOMAIN a.vitals \ {"CLS"}},
    !.shares  = {Rated(m, k) : m \in DOMAIN a.vitals, k \in {"good", "ni", "poor"}}]

ServerDrawing(p, a) ==
  CASE p = "overview" -> OverviewDrawing(a)
    [] p = "realtime" -> RealtimePage(a)
    [] p = "pages"    -> TopPagesPage(a)
    [] OTHER          -> VitalsPage(a)
=============================================================================
