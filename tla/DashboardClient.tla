-------------------------- MODULE DashboardClient --------------------------
(***************************************************************************)
(* What a dashboard asks and what the server understands: the client of    *)
(* packages/dashboard-react/src/client.ts, which dashboard-angular repeats *)
(* line for line, the loose client of apps/dashboard-next/lib/api.ts, and  *)
(* the query parameters internal/api/v1/stats.go reads.                    *)
(*                                                                         *)
(* Time is counted in parts of an hour.  The zone the client runs in       *)
(* changes its clocks once, at Change; local time is counted so that the   *)
(* offset before the change is 0.                                          *)
(***************************************************************************)
EXTENDS Integers, FiniteSets

CONSTANTS
  Hour,    \* the units of time in an hour
  Change,  \* when the clocks change
  Shift,   \* by how much: one hour forward, one hour back, or 0
  Custom,  \* the window of an application that names none of the presets
  Filters  \* the filters a dashboard is given: values by name

Presets == {"1h", "24h", "7d", "30d", "90d"}

Specs == Presets \cup {"custom"}

Names == {"hostnames", "paths", "devices", "countries", "referrer_hosts",
          "utm_sources", "environments", "releases"}

ASSUME ClockAssumption ==
  /\ Hour \in Nat \ {0}
  /\ Change \in Int
  /\ Shift \in {-Hour, 0, Hour}
  /\ Custom \in [from : Int, to : Int]

ASSUME FilterAssumption == DOMAIN Filters \subseteq Names

----------------------------------------------------------------------------
(* The window *)

Hours(spec) ==
  CASE spec = "1h"  -> 1
    [] spec = "24h" -> 24
    [] spec = "7d"  -> 168
    [] spec = "30d" -> 720
    [] OTHER        -> 2160

Local(t) == IF t < Change THEN t ELSE t + Shift

(* A local time that the change skips or repeats is read with the offset of  *)
(* before the change.                                                        *)
Instant(l) == IF l >= Change + (IF Shift > 0 THEN Shift ELSE 0) THEN l - Shift ELSE l

ExpandWindowAliased(spec, t) ==  \* mutant: `from` and `to` are the same Date
  IF spec = "custom" THEN Custom
  ELSE LET from == Instant(Local(t) - Hours(spec) * Hour) IN [from |-> from, to |-> from]

(* setHours and setDate count on the local clock. *)
ExpandWindow(spec, t) ==
  IF spec = "custom" THEN Custom
  ELSE [from |-> Instant(Local(t) - Hours(spec) * Hour), to |-> t]

(* apps/dashboard-next counts in milliseconds since the epoch. *)
DefaultWindow(t) == [from |-> t - 24 * Hour, to |-> t]

----------------------------------------------------------------------------
(* The query *)

(* The values of a filter go into one parameter, joined by commas; an empty  *)
(* list, like everything undefined, is left out.                             *)
Joined(values) == IF Cardinality(values) = 1 THEN values ELSE {values}

FiltersToQS(f) == [n \in {m \in DOMAIN f : f[m] # {}} |-> Joined(f[n])]

(* The requests for statistics, by what they must say. *)
Request(endpoint, window, options, f) ==
  [endpoint |-> endpoint, window |-> window, options |-> options, query |-> FiltersToQS(f)]

ReadByServer == {"hostname", "path", "route", "referrer_host", "utm_source", "country",
                 "device_type", "browser", "os", "environment", "event"}

ParseFilters(query) == [n \in DOMAIN query \cap ReadByServer |-> query[n]]

(* The parameters without which statsTimeseries and statsBreakdown answer 400. *)
Required(endpoint) ==
  CASE endpoint = "timeseries" -> {"metric", "interval"}
    [] endpoint = "breakdown"  -> {"dimension"}
    [] OTHER                   -> {}

ParseWindow(window) == window.to > window.from

(* What the server can answer at all; realtime and the site need no window.  *)
Accepts(r) ==
  \/ r.endpoint \in {"realtime", "site"}
  \/ ParseWindow(r.window) /\ Required(r.endpoint) \subseteq r.options

----------------------------------------------------------------------------
(* What a window asked at t should be *)

(* A preset that begins before the change, or within an hour after it, may   *)
(* be an hour longer or shorter than its name says; any other is exact.      *)
AsNamed(spec, t) ==
  LET w == ExpandWindow(spec, t)
      off == (t - Hours(spec) * Hour) - w.from IN
  /\ w.to = t
  /\ off \in {-Hour, 0, Hour}
  /\ t < Change \/ w.from >= Change + Hour \/ Shift = 0 => off = 0

(* The only preset the server refuses for its window is "1h", and only in    *)
(* the hour after the clocks went forward.                                   *)
RefusedForClock(spec, t) ==
  ~ParseWindow(ExpandWindow(spec, t)) =>
    spec = "1h" /\ Shift = Hour /\ t >= Change /\ t < Change + Hour
=============================================================================
