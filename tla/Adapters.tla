------------------------------ MODULE Adapters ------------------------------
(***************************************************************************)
(* The framework adapters of the tracker, which turn off the tracker's own *)
(* pageviews and report one whenever the framework's router is done with a *)
(* navigation:                                                             *)
(*                                                                         *)
(*   app      <Webalytics> of tracker-next, an effect of the App Router's  *)
(*            pathname and search parameters                               *)
(*   pages    <WebalyticsPages> of tracker-next, a listener to             *)
(*            routeChangeComplete                                          *)
(*   angular  WebalyticsService of tracker-angular, a subscription to      *)
(*            NavigationEnd                                                *)
(*                                                                         *)
(* A pageview carries the address the browser shows at that moment, not    *)
(* the route it is reported for.  A link changes the address when the      *)
(* router commits its route, the back button before the router knows.      *)
(***************************************************************************)
EXTENDS Naturals, Sequences

CONSTANTS
  Routes,    \* pathname and query of the routes
  MaxCommits  \* bound on the routes that are committed

ASSUME CommitAssumption == MaxCommits \in Nat \ {0}

Unnamed == "unnamed"

ASSUME RouteAssumption == Routes # {} /\ Unnamed \notin Routes

VARIABLES
  adapter,    \* app, pages or angular
  ready,      \* site and host are given; for angular, init() was called
  since,      \* the first visit after that
  listening,  \* pages: the listener is registered, or will be by the first effect
  location,   \* what location.href says
  log,        \* the routes committed: the pageviews reported for each, the address
              \* the last of them carried, and whether the browser moved before it
  due,        \* an effect or an event is to follow the last commit
  fired       \* app: firedRef

adapterVars == <<adapter, ready, since, listening, location, log, due, fired>>

current == Len(log)

route == log[current].route

Visit(r) == [route |-> r, views |-> 0, named |-> Unnamed, moved |-> FALSE]

(* The first route is there before the adapter's first effect, or before the  *)
(* first NavigationEnd, runs.  Without manualInit the initializer of         *)
(* provideWebalytics comes before that too.                                  *)
AdapterInit ==
  /\ adapter \in {"app", "pages", "angular"}
  /\ ready \in BOOLEAN
  /\ since = IF ready THEN 1 ELSE MaxCommits + 1
  /\ listening = ready
  /\ location \in Routes
  /\ log = <<Visit(location)>>
  /\ due = TRUE
  /\ fired = Unnamed

Viewed(v, address) == [v EXCEPT !.views = @ + 1, !.named = address]

----------------------------------------------------------------------------
(* Pageviews *)

ReportsAgain ==  \* mutant: the key is not compared with firedRef
  CASE adapter = "app"   -> ready
    [] adapter = "pages" -> listening
    [] OTHER             -> ready

Reports ==
  CASE adapter = "app"   -> ready /\ fired # route
    [] adapter = "pages" -> listening
    [] OTHER             -> ready

(* The effect of the App Router, routeChangeComplete, the first effects, and  *)
(* Angular's first NavigationEnd.                                            *)
Report ==
  /\ due
  /\ due' = FALSE
  /\ log' = IF Reports THEN [log EXCEPT ![current] = Viewed(@, location)] ELSE log
  /\ fired' = IF adapter = "app" /\ Reports THEN route ELSE fired
  /\ UNCHANGED <<adapter, ready, since, listening, location>>

----------------------------------------------------------------------------
(* The routers *)

CommitAtStart(r) ==  \* mutant: angular listens to NavigationStart
  /\ current < MaxCommits
  /\ location' = r
  /\ due' = (adapter # "angular")
  /\ log' = Append(log, IF adapter = "angular" /\ ready
                        THEN Viewed(Visit(r), location) ELSE Visit(r))
  /\ UNCHANGED <<adapter, ready, since, listening, fired>>

(* Angular changes the address and emits NavigationEnd in one task. *)
Commit(r) ==
  /\ current < MaxCommits
  /\ location' = r
  /\ due' = (adapter # "angular")
  /\ log' = Append(log, IF adapter = "angular" /\ ready
                        THEN Viewed(Visit(r), r) ELSE Visit(r))
  /\ UNCHANGED <<adapter, ready, since, listening, fired>>

(* A link; one that leads to the route that is shown is followed by another  *)
(* routeChangeComplete of the Pages Router alone.                            *)
Push(r) ==
  /\ ~due
  /\ r # route
  /\ Commit(r)

PushSame ==
  /\ adapter = "pages"
  /\ ~due
  /\ location = route
  /\ log[current].views < 2
  /\ due' = TRUE
  /\ UNCHANGED <<adapter, ready, since, listening, location, log, fired>>

(* Back or forward: the address changes, and the router follows.             *)
Pop(r) ==
  /\ r # location
  /\ location' = r
  /\ log' = [log EXCEPT ![current].moved = @ \/ due]
  /\ UNCHANGED <<adapter, ready, since, listening, due, fired>>

Follow ==
  /\ ~due
  /\ location # route
  /\ Commit(location)

----------------------------------------------------------------------------
(* Effects that run again, and init() *)

(* A new object for the same search parameters, or React's StrictMode. *)
RerunApp ==
  /\ adapter = "app"
  /\ ~due
  /\ due' = TRUE
  /\ UNCHANGED <<adapter, ready, since, listening, location, log, fired>>

(* StrictMode and Fast Refresh clean an effect up and run it again.  The ref  *)
(* still holds the tracker, so the effect returns before it registers the    *)
(* listener that the cleanup removed.                                        *)
RerunPages ==
  /\ adapter = "pages"
  /\ ~due
  /\ listening
  /\ listening' = FALSE
  /\ UNCHANGED <<adapter, ready, since, location, log, due, fired>>

(* With manualInit, an application calls init() when it sees fit. *)
ManualInit ==
  /\ adapter = "angular"
  /\ ~ready /\ ~due
  /\ ready' = TRUE
  /\ since' = current + 1
  /\ UNCHANGED <<adapter, listening, location, log, due, fired>>

----------------------------------------------------------------------------

AdapterNext ==
  \/ Report
  \/ \E r \in Routes : Push(r) \/ Pop(r)
  \/ PushSame \/ Follow
  \/ RerunApp \/ RerunPages \/ ManualInit

AdapterSpec == AdapterInit /\ [][AdapterNext]_adapterVars

----------------------------------------------------------------------------
(* Properties *)

AdapterTypeOK ==
  /\ adapter \in {"app", "pages", "angular"}
  /\ ready \in BOOLEAN /\ listening \in BOOLEAN /\ due \in BOOLEAN
  /\ since \in 1 .. MaxCommits + 1
  /\ location \in Routes /\ fired \in Routes \cup {Unnamed}
  /\ log \in Seq([route : Routes, views : Nat, named : Routes \cup {Unnamed},
                  moved : BOOLEAN])
  /\ current \in 1 .. MaxCommits

(* Every route that is committed once the tracker is there has its pageview   *)
(* when the router has come to rest, and has one only, however effects,      *)
(* refs, the back button and init() interleave; the Pages Router's may have  *)
(* more, and has one for certain only as long as its effect never runs again *)
(* (index.tsx 88-95, pages.ts 37-57, service.ts 43-60).                      *)
PageviewPerRoute ==
  \A v \in 1 .. current :
    LET settled == v >= since /\ (v < current \/ ~due) IN
    /\ v < since => log[v].views = 0
    /\ adapter # "pages" => log[v].views <= 1
    /\ settled /\ (adapter = "pages" => listening) => log[v].views >= 1

(* A pageview carries the address of the route it is reported for, unless the *)
(* browser had gone back or forward between the commit and the effect or the *)
(* event (index.tsx:94 reports when the effect runs, and core.ts:38 reads    *)
(* the address then).                                                        *)
NamesRoute ==
  \A v \in 1 .. current :
    log[v].views > 0 /\ ~log[v].moved => log[v].named = log[v].route
=============================================================================
