----------------------------- MODULE Dashboards -----------------------------
(***************************************************************************)
(* The two ways a reader sees the statistics: the Angular dashboard that   *)
(* lives in a browser, or the pages rendered on the server.  They share    *)
(* the client, the server's answers, the drawing of the tiles and a clock; *)
(* a behaviour is of one or the other.                                     *)
(***************************************************************************)
EXTENDS ServerDashboard

CONSTANTS
  Answers,  \* what the server may have to say of a site and a window
  MaxNow    \* bound on the clock

ASSUME NowAssumption == MaxNow \in Nat \ {0}

(* The answers of stats.go, as far as they are drawn: counts, the bounces with *)
(* the number of rows of `sessions` they are counted among, and of a         *)
(* breakdown, whose total is asked for last, no row above the total.         *)
Rows == Seq([key : STRING, value : Nat])

Distribution == [p75 : Nat, p95 : Nat, samples : Nat, good : Nat, ni : Nat, poor : Nat]

ASSUME AnswerAssumption ==
  \A a \in Answers :
    /\ a.summary \in [visitors : Nat, pageviews : Nat, sessions : Nat, rows : Nat,
                      bounces : Nat, avg : Nat]
    /\ a.summary.bounces <= a.summary.rows
    /\ a.realtime \in [online : Nat, pages : Rows, hosts : Rows]
    /\ a.pages \in [rows : Rows, total : Nat]
    /\ \A v \in Values(a.pages.rows) : v <= a.pages.total
    /\ a.points \in Seq(Nat)
    /\ a.vitals \in [DOMAIN a.vitals -> Distribution]
    /\ \A m \in DOMAIN a.vitals, k \in {"good", "ni", "poor"} :
         a.vitals[m][k] <= a.vitals[m].samples

VARIABLE app  \* live or server

vars == <<app, now, liveVars, serverVars>>

Init ==
  /\ app \in {"live", "server"}
  /\ now \in 0 .. 1
  /\ LiveInit
  /\ ServerInit
  /\ app = "live" => ~seeded
  /\ app = "server" => ~refreshing /\ active = "7d"

Advance ==
  /\ now < MaxNow
  /\ now' = now + 1
  /\ UNCHANGED <<app, liveVars, serverVars>>

Live ==
  /\ app = "live"
  /\ LiveNext
  /\ UNCHANGED <<app, now, serverVars>>

Server ==
  /\ app = "server"
  /\ ServerNext
  /\ UNCHANGED <<app, now, liveVars>>

Next == Live \/ Server \/ Advance

(* The timer ticks, and every request of the load that is listened to is      *)
(* answered or fails: the database clients end a query that takes too long,  *)
(* and an answer past the WriteTimeout is an error.                          *)
TickOn == app = "live" /\ Tick /\ UNCHANGED <<app, now, serverVars>>

Settle(r) ==
  app = "live" /\ (Answer("live", r) \/ Fail("live", r)) /\ UNCHANGED <<app, now, serverVars>>

Fairness == WF_vars(TickOn) /\ \A r \in Requests : WF_vars(Settle(r))

Spec == Init /\ [][Next]_vars /\ Fairness

----------------------------------------------------------------------------
(* Properties of the live dashboard *)

(* What the dashboard shows changes only to an answer for the window that is *)
(* active at that moment, and never to an older one, whatever order the      *)
(* requests of several loads are answered in (dashboard.component.ts:128).   *)
NeverBack ==
  [][view' # view => view'.spec = active' /\ view'.at >= view.at]_vars

(* While the stream is open and no request of the last load is on its way,   *)
(* the dashboard shows the active window, as that load asked for it: no click *)
(* on the picker is forgotten, and no answer (onWindowChange, 134-137).      *)
UpToDate ==
  alive /\ stream = "open" /\ ticked /\ loads.live.left = {} =>
    view.spec = active /\ view.at = loads.live.at

(* Without a refresh timer that keeps starting loads, a window that is picked *)
(* is shown in the end, unless another is picked or the dashboard goes.  The  *)
(* fourth exception is what the code does: one request that fails ends the   *)
(* stream, and with it every click and tick to come (ts:90 and 128).         *)
PickedShown ==
  \A w \in Presets :
    active = w /\ app = "live" /\ ~refreshing ~>
      view.spec = w \/ active # w \/ stream = "ended" \/ ~alive

(* dashboard.component.ts:87 "Optional dimension filters, applied to every    *)
(* query that supports them": a filter the server knows too reaches it.      *)
KeyOf ==
  [hostnames |-> "hostname", paths |-> "path", devices |-> "device_type",
   countries |-> "country", referrer_hosts |-> "referrer_host",
   utm_sources |-> "utm_source", environments |-> "environment"]

FiltersApply ==
  \A r \in loads.live.left \ {"realtime"} :
    LET read == ParseFilters(LiveRequest(r, loads.live.spec, loads.live.at).query) IN
    \A n \in DOMAIN Filters \cap DOMAIN KeyOf :
      KeyOf[n] \in DOMAIN read /\ read[KeyOf[n]] = Filters[n]

----------------------------------------------------------------------------
(* Properties of both *)

(* Every window asked for a preset is as long as the preset says, but for an *)
(* hour while the clocks change, and is refused only for that (client.ts     *)
(* 211-238, stats.go 48-51).                                                 *)
WindowAsAsked ==
  /\ loads.live.spec \in Presets =>
       AsNamed(loads.live.spec, loads.live.at) /\ RefusedForClock(loads.live.spec, loads.live.at)
  /\ page = "overview" =>
       \A tile \in DOMAIN asked : AsNamed("7d", asked[tile]) /\ RefusedForClock("7d", asked[tile])

(* A page is shown with all of its tiles, each asked for while this page was *)
(* rendered, and all but the overview's about one and the same window.       *)
PageWhole ==
  phase = "shown" =>
    /\ got = PageTiles(page)
    /\ \A tile \in got : asked[tile] >= opened
    /\ page # "overview" => \A tile \in got \ {"site"} : asked[tile] = opened

(* The badge of a metric agrees with the rating the server gives the samples, *)
(* although the thresholds are written down in three places.                 *)
BadgesAgree(drawing) == \A b \in drawing.badges : BadgeAgrees(b)

Truly(drawing) ==
  /\ BadgesAgree(drawing)
  /\ \A f \in drawing.figures : ReadsBack(f)
  /\ \A f \in drawing.shares : ShareReadsBack(f)
  /\ BarsInTrack(drawing.bars)
  /\ ChartInBox(drawing.chart)

LiveTruly == \A a \in Answers : Truly(LiveDrawing(a))

PagesTruly == [p \in Pages |-> \A a \in Answers : Truly(ServerDrawing(p, a))]

(* On a dashboard or a page that is shown, no number is so rounded that       *)
(* another is read, nothing is drawn outside its chart or its track or out   *)
(* of order, and no badge contradicts the server, whatever it answered       *)
(* (format.ts, metric-grid.tsx, top-list.tsx, timeseries.tsx,                *)
(* web-vitals.tsx).                                                          *)
DrawnTruly ==
  /\ view # NoView => LiveTruly
  /\ phase = "shown" => PagesTruly[page]

TypeOK ==
  /\ app \in {"live", "server"} /\ now \in 0 .. MaxNow
  /\ refreshing \in BOOLEAN /\ alive \in BOOLEAN /\ ticked \in BOOLEAN
  /\ active \in Specs /\ stream \in {"open", "ended"} /\ picks \in 0 .. MaxPicks
  /\ loads \in [{"live", "older"} -> [spec : Specs, at : 0 .. MaxNow, left : SUBSET Requests]]
  /\ view \in {NoView} \cup [spec : Specs, at : 0 .. MaxNow]
  /\ seeded \in BOOLEAN /\ page \in Pages
  /\ phase \in {"idle", "rendering", "shown", "error"}
  /\ opened \in 0 .. MaxNow
  /\ asked \in [DOMAIN asked -> 0 .. MaxNow] /\ got \subseteq DOMAIN asked
  /\ DOMAIN asked \subseteq PageTiles(page)
=============================================================================
