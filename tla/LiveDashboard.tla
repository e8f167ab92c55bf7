--------------------------- MODULE LiveDashboard ---------------------------
(***************************************************************************)
(* packages/dashboard-angular: <wb-dashboard>, which lives in a browser    *)
(* and asks again at every tick of a timer and every click on the window   *)
(* picker.                                                                 *)
(*                                                                         *)
(*   combineLatest([window$, tick$]).pipe(switchMap(fetchAll),             *)
(*                                        shareReplay(1),                  *)
(*                                        takeUntilDestroyed())            *)
(*                                                                         *)
(* switchMap unsubscribes from a load when the next begins, but nothing    *)
(* aborts its requests: they go on and their answers are dropped.  The     *)
(* model keeps the last load and the last one that was left unfinished.    *)
(*                                                                         *)
(* shareReplay(1) does not count its subscribers: after the component is   *)
(* destroyed the timer and the loads it starts go on, shown to nobody.     *)
(***************************************************************************)
EXTENDS DashboardClient, Tiles

CONSTANTS
  Requests,  \* those of the eight requests of fetchAll that are followed
  Clicked,   \* the presets that are clicked on
  MaxPicks   \* bound on the clicks on the picker

AllTiles == {"summary", "realtime", "timeseries", "pages", "referrers", "countries",
             "devices", "vitals"}

ASSUME RequestAssumption ==
  /\ Requests # {} /\ Requests \subseteq AllTiles
  /\ Clicked \subseteq Presets
  /\ MaxPicks \in Nat

VARIABLES
  now,         \* the clock
  refreshing,  \* refreshMs > 0
  alive,       \* the component is not destroyed
  active,      \* activeWindow, which is also the value of window$
  ticked,      \* tick$ has emitted
  stream,      \* open, or ended by an error
  loads,       \* the last load, and the last one that was left unfinished
  view,        \* the load whose answers the template shows
  picks        \* the clicks so far

liveVars == <<refreshing, alive, active, ticked, stream, loads, view, picks>>

Idle == [spec |-> "7d", at |-> 0, left |-> {}]

NoView == [spec |-> "none", at |-> 0]

LiveInit ==
  /\ refreshing \in BOOLEAN
  /\ alive = TRUE
  /\ active \in {"7d", "custom"}
  /\ ticked = FALSE
  /\ stream = "open"
  /\ loads = [live |-> Idle, older |-> Idle]
  /\ view = NoView
  /\ picks = 0

----------------------------------------------------------------------------
(* Requests *)

(* The package's own expandWindow and filtersToQS, which are dashboard-react's *)
(* line for line.                                                            *)
LiveWindow(spec, t) == ExpandWindow(spec, t)

LiveRequestOf(endpoint, window, options, f) == Request(endpoint, window, options, f)

(* What fetchAll asks for; every request takes the window at the same moment. *)
LiveRequest(tile, spec, t) ==
  LET window == LiveWindow(spec, t) IN
  CASE tile = "realtime"   -> LiveRequestOf("realtime", window, {}, <<>>)
    [] tile = "timeseries" -> LiveRequestOf("timeseries", window, {"metric", "interval"}, Filters)
    [] tile = "summary"    -> LiveRequestOf("summary", window, {}, Filters)
    [] tile = "vitals"     -> LiveRequestOf("web-vitals", window, {}, Filters)
    [] OTHER               -> LiveRequestOf("breakdown", window, {"dimension"}, Filters)

Load(w) == [spec |-> w, at |-> now, left |-> Requests]

SwitchExhausted(w) ==  \* mutant: exhaustMap for switchMap
  loads' = IF loads.live.left = {} THEN [loads EXCEPT !.live = Load(w)] ELSE loads

(* switchMap: a load begins and the one before it is forgotten. *)
Switch(w) ==
  loads' = [live  |-> Load(w),
            older |-> IF loads.live.left # {} THEN loads.live ELSE loads.older]

Tick ==
  /\ stream = "open"
  /\ refreshing \/ ~ticked
  /\ ticked' = TRUE
  /\ Switch(active)
  /\ UNCHANGED <<refreshing, alive, active, stream, view, picks>>

PickSilently(w) ==  \* mutant: window$.next(w) is forgotten
  /\ alive
  /\ picks < MaxPicks
  /\ picks' = picks + 1
  /\ active' = w
  /\ UNCHANGED <<refreshing, alive, ticked, stream, loads, view>>

(* Choosing the window that is active already loads it once more. *)
Pick(w) ==
  /\ alive
  /\ picks < MaxPicks
  /\ picks' = picks + 1
  /\ active' = w
  /\ IF ticked /\ stream = "open" THEN Switch(w) ELSE UNCHANGED loads
  /\ UNCHANGED <<refreshing, alive, ticked, stream, view>>

----------------------------------------------------------------------------
(* Answers *)

ListenedToAll(k) == stream = "open" /\ alive  \* mutant: mergeMap for switchMap

ListenedTo(k) == k = "live" /\ stream = "open" /\ alive

(* combineLatest emits when the last of the requests is answered. *)
Answer(k, r) ==
  /\ r \in loads[k].left
  /\ Accepts(LiveRequest(r, loads[k].spec, loads[k].at))
  /\ loads' = [loads EXCEPT ![k].left = @ \ {r}]
  /\ IF loads[k].left = {r} /\ ListenedTo(k)
     THEN view' = [spec |-> loads[k].spec, at |-> loads[k].at]
     ELSE UNCHANGED view
  /\ UNCHANGED <<refreshing, alive, active, ticked, stream, picks>>

(* Any status but 2xx, and any failure of fetch, rejects.  One rejection      *)
(* ends the whole stream; the template keeps what it shows.                  *)
Fail(k, r) ==
  /\ r \in loads[k].left
  /\ loads' = [loads EXCEPT ![k].left = @ \ {r}]
  /\ stream' = IF k = "live" THEN "ended" ELSE stream
  /\ UNCHANGED <<refreshing, alive, active, ticked, view, picks>>

Destroy ==
  /\ alive
  /\ alive' = FALSE
  /\ UNCHANGED <<refreshing, active, ticked, stream, loads, view, picks>>

LiveNext ==
  \/ Tick
  \/ \E w \in Clicked : Pick(w)
  \/ \E k \in {"live", "older"}, r \in Requests : Answer(k, r) \/ Fail(k, r)
  \/ Destroy

----------------------------------------------------------------------------
(* What is drawn *)

(* The components of dashboard-angular.  They are handed their answers and ask *)
(* for nothing themselves; format.ts is that of dashboard-react.             *)
LiveSummary(m) == SummaryCards(m)

LiveRealtime(r) == Realtime(r)

LiveChart(points) == TimeseriesChart(points)

VisibleRows(rows) == FirstOf(rows, 8)

(* The total is that of all rows, the bars are measured by the visible ones. *)
LiveTopList(b) == TopList([b EXCEPT !.rows = VisibleRows(@)])

LiveCards(vitals) == WebVitalsCards(vitals, CoreVitals)

LiveDrawing(a) ==
  [figures |-> LiveSummary(a.summary).figures \cup LiveRealtime(a.realtime).figures
               \cup LiveChart(a.points).figures \cup LiveTopList(a.pages).figures
               \cup LiveCards(a.vitals).figures,
   shares  |-> LiveSummary(a.summary).shares \cup LiveTopList(a.pages).shares,
   bars    |-> LiveTopList(a.pages).bars,
   chart   |-> LiveChart(a.points),
   badges  |-> LiveCards(a.vitals).badges]
=============================================================================
