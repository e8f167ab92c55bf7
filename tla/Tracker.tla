------------------------------ MODULE Tracker ------------------------------
(***************************************************************************)
(* packages/tracker: the browser side, core.ts with transport.ts and       *)
(* vitals.ts, on one page with autoPageviews and autoWebVitals on.         *)
(*                                                                         *)
(* JavaScript runs one task at a time, so each task is one action: a call  *)
(* of the API, a history change, a timer, a fetch that settles, a          *)
(* performance entry, and each page lifecycle event with all its           *)
(* listeners, in the order they run in.  The first pageview waits in a     *)
(* microtask for the end of the task that called init(); no other task     *)
(* comes before it, only what the caller does after init() in that task.   *)
(* The browser may end the page at any moment; the model then just stops.  *)
(*                                                                         *)
(* Events are numbered in the order they enter the buffer, which is a set  *)
(* here because every event goes out in a request of its own, in that      *)
(* order.                                                                  *)
(***************************************************************************)
EXTENDS Naturals, FiniteSets

CONSTANTS
  Paths,      \* pathname + search of the addresses the page can show
  Excluded,   \* those that excludePaths matches
  MaxVisits,  \* bound on the addresses visited
  MinTracked, MaxTracked  \* bounds on the number of an event of track()

ASSUME BoundAssumption ==
  MaxVisits \in Nat \ {0} /\ MinTracked \in Nat /\ MaxTracked \in Nat

Vitals == {"TTFB", "FCP", "LCP", "CLS", "INP"}

MaxEvents == MaxTracked + MaxVisits + Cardinality(Vitals)

Ids == 1 .. MaxEvents

VARIABLES
  page,     \* open, hidden, or away: after pagehide, perhaps to come back
  booting,  \* the microtask with the first pageview has not run yet
  enabled,  \* state.enabled
  path,     \* pathOf(location)
  lastURL,  \* state.lastURL
  buf,      \* state.buf
  timer,    \* state.flushTimer is set
  next,     \* the number of the next event
  broken,   \* the events with props that JSON.stringify will throw on
  pending,  \* the fetches under way
  sent,     \* sent[i], the beacons and fetches made for event i
  flush,    \* a call of flush(): its place, the fetches it still awaits, and
            \* the number of the first event after it
  seen,     \* the vitals with a value above 0
  stopped,  \* the vitals whose observer is disconnected
  done,     \* lcpReported, clsReported, inpReported
  reports,  \* reports[v], the calls of report() for v
  visit,    \* the addresses the page has shown, the first one included
  viewed,   \* viewed[v], the pageviews recorded for visit v
  owed,     \* the visits that began while events were recorded
  early     \* the address changed before the first pageview

coreVars  == <<enabled, path, lastURL, buf, timer, next, broken>>
sendVars  == <<pending, sent, flush>>
vitalVars == <<seen, stopped, done, reports>>
visitVars == <<visit, viewed, owed, early>>
vars      == <<page, booting, coreVars, sendVars, vitalVars, visitVars>>

Recording(p) == enabled /\ p \notin Excluded

(* init(): TTFB is read, and emitted, before init() returns. *)
Init ==
  /\ page = "open"
  /\ booting = TRUE
  /\ enabled \in BOOLEAN
  /\ path \in Paths
  /\ lastURL = path
  /\ done = {}
  /\ stopped = {}
  /\ \E ttfb \in SUBSET {"TTFB"} :
       /\ seen = ttfb
       /\ reports = [v \in Vitals |-> IF v \in ttfb THEN 1 ELSE 0]
       /\ buf = IF Recording(path) /\ ttfb # {} THEN {1} ELSE {}
  /\ timer = (buf # {})
  /\ next = IF buf = {} THEN 1 ELSE 2
  /\ broken = {}
  /\ pending = {}
  /\ sent = [i \in Ids |-> 0]
  /\ flush = [at |-> "none", on |-> {}, before |-> 1]
  /\ visit = 1
  /\ viewed = [v \in 1 .. MaxVisits |-> 0]
  /\ owed = {}
  /\ early = FALSE

Running == page \in {"open", "hidden"}

Task == Running /\ ~booting

----------------------------------------------------------------------------
(* Buffer and transport *)

EmitUnarmed(new) ==  \* mutant: emit does not call scheduleFlush
  /\ buf' = buf \cup new
  /\ next' = next + Cardinality(new)
  /\ UNCHANGED timer

(* n events go through emit() while the page shows p. *)
Emitted(n, p) == IF Recording(p) THEN next .. next + n - 1 ELSE {}

Emit(new) ==
  /\ buf' = buf \cup new
  /\ next' = next + Cardinality(new)
  /\ timer' = (timer \/ new # {})

ByFetchToo(events, thrown) == events  \* mutant: no `continue` after sendBeacon

(* sendBeacon may throw, or be missing; fetch takes over.  Its result is not *)
(* looked at: a beacon that the browser refuses is lost like one it loses.   *)
ByFetch(events, thrown) == thrown

(* JSON.stringify stands outside the try, and flushBuffer has emptied the     *)
(* buffer: an event it throws on takes those behind it in the batch along,   *)
(* and the exception goes up to whoever flushed.                             *)
Serialised(events) == {i \in events : \A b \in events \cap broken : i < b}

Sent(beacons, fetches) ==
  [i \in Ids |-> sent[i] + Cardinality({i} \cap beacons) + Cardinality({i} \cap fetches)]

(* transport.send(events, unload = true) *)
SendUnload(events) ==
  LET out == Serialised(events) IN
  \E thrown \in SUBSET out :
    /\ sent' = Sent(out \ thrown, ByFetch(out, thrown))
    /\ pending' = pending \cup ByFetch(out, thrown)

(* transport.send(events, unload = false) *)
Send(events) ==
  /\ sent' = Sent({}, Serialised(events))
  /\ pending' = pending \cup Serialised(events)

(* An exception of send() is nobody's to catch here, and changes no more.    *)
TimerFires ==
  /\ Task
  /\ timer
  /\ timer' = FALSE
  /\ Send(buf)
  /\ buf' = {}
  /\ UNCHANGED <<page, booting, enabled, path, lastURL, next, broken, flush, vitalVars,
                 visitVars>>

(* Failures are swallowed: one that fails is settled too. *)
FetchSettles(i) ==
  /\ Task
  /\ i \in pending
  /\ pending' = pending \ {i}
  /\ flush' = [flush EXCEPT !.on = @ \ {i}]
  /\ UNCHANGED <<page, booting, coreVars, sent, vitalVars, visitVars>>

----------------------------------------------------------------------------
(* The API *)

(* Nothing looks at the props before they are sent.                          *)
Track ==
  /\ Running
  /\ next \in MinTracked .. MaxTracked
  /\ Emit(Emitted(1, path))
  /\ \E new \in SUBSET Emitted(1, path) : broken' = broken \cup new
  /\ UNCHANGED <<page, booting, enabled, path, lastURL, sendVars, vitalVars, visitVars>>

SetEnabled ==
  /\ Running
  /\ enabled' = ~enabled
  /\ UNCHANGED <<page, booting, path, lastURL, buf, timer, next, broken, sendVars, vitalVars,
                 visitVars>>

FlushCallEarly ==  \* mutant: the promises are collected before the buffer is sent
  /\ Running
  /\ flush.at = "none"
  /\ Send(buf)
  /\ buf' = {}
  /\ flush' = IF buf \cap broken = {}
                THEN [at |-> "waiting", on |-> pending, before |-> next] ELSE flush
  /\ UNCHANGED <<page, booting, enabled, path, lastURL, timer, next, broken, vitalVars,
                 visitVars>>

(* When send() throws so does flush(), and there is no promise.              *)
FlushCall ==
  /\ Running
  /\ flush.at = "none"
  /\ Send(buf)
  /\ buf' = {}
  /\ flush' = IF buf \cap broken = {}
                THEN [at |-> "waiting", on |-> pending', before |-> next] ELSE flush
  /\ UNCHANGED <<page, booting, enabled, path, lastURL, timer, next, broken, vitalVars,
                 visitVars>>

FlushResolves ==
  /\ Running
  /\ flush.at = "waiting"
  /\ flush.on = {}
  /\ flush' = [flush EXCEPT !.at = "resolved"]
  /\ UNCHANGED <<page, booting, coreVars, pending, sent, vitalVars, visitVars>>

----------------------------------------------------------------------------
(* Pageviews *)

Boot ==
  /\ booting
  /\ booting' = FALSE
  /\ Emit(Emitted(1, path))
  /\ viewed' = [viewed EXCEPT ![visit] = @ + Cardinality(Emitted(1, path))]
  /\ owed' = IF Recording(path) THEN owed \cup {visit} ELSE owed
  /\ UNCHANGED <<page, enabled, path, lastURL, broken, sendVars, vitalVars, visit, early>>

DispatchesAlways(p) == TRUE  \* mutant: every pushState counts as a visit

Dispatches(p) == p # lastURL

(* pushState, replaceState and popstate: the address is p, then dispatch().  *)
Navigate(p) ==
  /\ Running
  /\ p # path => visit < MaxVisits
  /\ path' = p
  /\ lastURL' = p
  /\ LET new == IF Dispatches(p) THEN Emitted(1, p) ELSE {} IN
     /\ Emit(new)
     /\ visit' = IF p # path THEN visit + 1 ELSE visit
     /\ viewed' = [viewed EXCEPT ![visit'] = @ + Cardinality(new)]
     /\ owed' = IF p # path /\ Recording(p) THEN owed \cup {visit'} ELSE owed
  /\ early' = (early \/ (booting /\ p # path))
  /\ UNCHANGED <<page, booting, enabled, broken, sendVars, vitalVars>>

----------------------------------------------------------------------------
(* Web vitals *)

(* An entry of largest-contentful-paint or event arrives at its observer.    *)
Entry(v) ==
  /\ Task
  /\ v \in {"LCP", "INP"} \ stopped
  /\ seen' = seen \cup {v}
  /\ UNCHANGED <<page, booting, coreVars, sendVars, stopped, done, reports, visitVars>>

FirstPaint ==
  /\ Task
  /\ "FCP" \notin stopped
  /\ stopped' = stopped \cup {"FCP"}
  /\ reports' = [reports EXCEPT !["FCP"] = @ + 1]
  /\ Emit(Emitted(1, path))
  /\ UNCHANGED <<page, booting, enabled, path, lastURL, broken, sendVars, seen, done, visitVars>>

DueAgain(vs) == {v \in vs : v = "CLS" \/ v \in seen}  \* mutant: no xxxReported

(* CLS is reported even when it is 0. *)
Due(vs) == {v \in vs \ done : v = "CLS" \/ v \in seen}

(* finalizeLCP, finalizeCLS, finalizeINP *)
Finalize(vs) ==
  /\ stopped' = stopped \cup (vs \ done)
  /\ done' = done \cup Due(vs)
  /\ reports' = [v \in Vitals |-> IF v \in Due(vs) THEN reports[v] + 1 ELSE reports[v]]
  /\ UNCHANGED seen

----------------------------------------------------------------------------
(* Page lifecycle *)

(* The document's listener, unloadFlush, runs before the window's, which is  *)
(* finalizeLCP.                                                              *)
Hide ==
  /\ page = "open" /\ ~booting
  /\ page' = "hidden"
  /\ SendUnload(buf)
  /\ Finalize({"LCP"})
  /\ LET new == Emitted(Cardinality(Due({"LCP"})), path) IN
     /\ buf' = new
     /\ next' = next + Cardinality(new)
     /\ timer' = (timer \/ new # {})
  /\ UNCHANGED <<booting, enabled, path, lastURL, broken, flush, visitVars>>

Show ==
  /\ page = "hidden" /\ ~booting
  /\ page' = "open"
  /\ UNCHANGED <<booting, coreVars, sendVars, vitalVars, visitVars>>

PageHideFlushFirst ==  \* mutant: unloadFlush is registered before the vitals
  /\ Task
  /\ page' = "away"
  /\ Finalize({"LCP", "CLS", "INP"})
  /\ LET new == Emitted(Cardinality(Due({"LCP", "CLS", "INP"})), path) IN
     /\ SendUnload(buf)
     /\ buf' = new
     /\ next' = next + Cardinality(new)
     /\ timer' = (timer \/ new # {})
  /\ UNCHANGED <<booting, enabled, path, lastURL, broken, flush, visitVars>>

(* The window's listeners: the vitals, then unloadFlush, which leaves the    *)
(* timer alone.  The visibilitychange that follows finds nothing left to do. *)
PageHide ==
  /\ Task
  /\ page' = "away"
  /\ Finalize({"LCP", "CLS", "INP"})
  /\ LET new == Emitted(Cardinality(Due({"LCP", "CLS", "INP"})), path)
         all == buf \cup new IN
     /\ SendUnload(all)
     /\ buf' = {}
     /\ next' = next + Cardinality(new)
     /\ timer' = (timer \/ new # {})
  /\ UNCHANGED <<booting, enabled, path, lastURL, broken, flush, visitVars>>

PageShow ==
  /\ page = "away"
  /\ page' = "open"
  /\ UNCHANGED <<booting, coreVars, sendVars, vitalVars, visitVars>>

----------------------------------------------------------------------------

Next ==
  \/ Track \/ SetEnabled \/ FlushCall \/ FlushResolves
  \/ \E p \in Paths : Navigate(p)
  \/ Boot
  \/ TimerFires
  \/ \E i \in Ids : FetchSettles(i)
  \/ \E v \in Vitals : Entry(v)
  \/ FirstPaint
  \/ Hide \/ Show \/ PageHide \/ PageShow

(* Microtasks and timers run as long as the page does. *)
Fairness == WF_vars(Boot) /\ WF_vars(TimerFires)

Spec == Init /\ [][Next]_vars /\ Fairness

----------------------------------------------------------------------------
(* Properties *)

TypeOK ==
  /\ page \in {"open", "hidden", "away"}
  /\ booting \in BOOLEAN /\ enabled \in BOOLEAN /\ timer \in BOOLEAN /\ early \in BOOLEAN
  /\ path \in Paths /\ lastURL \in Paths
  /\ buf \subseteq Ids /\ pending \subseteq Ids
  /\ next \in 1 .. MaxEvents + 1
  /\ broken \subseteq Ids
  /\ sent \in [Ids -> Nat]
  /\ flush \in [at : {"none", "waiting", "resolved"}, on : SUBSET Ids,
                before : 1 .. MaxEvents + 1]
  /\ seen \subseteq Vitals /\ stopped \subseteq Vitals /\ done \subseteq Vitals
  /\ reports \in [Vitals -> Nat]
  /\ visit \in 1 .. MaxVisits
  /\ viewed \in [1 .. MaxVisits -> Nat]
  /\ owed \subseteq 1 .. MaxVisits

(* The events that were taken out of the buffer and not handed over.         *)
Lost == {i \in Ids : i < next /\ i \notin buf /\ sent[i] = 0}

(* Each recorded event is in the buffer or has been handed to the browser     *)
(* once, by beacon or by fetch, whichever of the timer, flush() and the page *)
(* lifecycle comes first.  An event is lost only with one before it in its    *)
(* batch whose props do not go into JSON (transport.ts:29), although          *)
(* transport.ts:5 says "Failures are swallowed".                             *)
SentOnce ==
  /\ \A i \in Ids : sent[i] <= IF i < next /\ i \notin buf THEN 1 ELSE 0
  /\ \A i \in Lost : \E b \in broken \cap Lost : b <= i /\ b .. i \subseteq Lost

(* vitals.ts:8 "We only report final values (one callback per metric)", also *)
(* when the page is hidden and shown, or left and restored, many times.      *)
VitalOnce == \A v \in Vitals : reports[v] <= 1

(* Unless the address changes in the very task that calls init(), each visit *)
(* to an address has one pageview if it began while events were recorded,    *)
(* and none otherwise, however often the same address is pushed again.       *)
PageviewPerVisit ==
  ~early /\ ~booting =>
    \A v \in 1 .. visit : viewed[v] = IF v \in owed THEN 1 ELSE 0

(* A page that is left has nothing in its buffer, not even the vitals that   *)
(* become final at that moment.                                              *)
AwayIsFlushed == page = "away" => buf = {}

(* types.ts:41 "Resolves when writes complete": when flush() resolves, no    *)
(* event from before the call is in the buffer or on its way by fetch.       *)
FlushComplete ==
  flush.at = "resolved" =>
    \A i \in Ids : i < flush.before => i \notin buf \cup pending

(* No event stays in the buffer of a page that goes on running.              *)
Drains == buf # {} ~> buf = {}

(* core.ts:218 "Flush on pagehide / visibilitychange -> hidden": a page that *)
(* becomes hidden has nothing left in its buffer.                            *)
HiddenIsFlushed == [][page = "open" /\ page' = "hidden" => buf' = {}]_vars
=============================================================================
