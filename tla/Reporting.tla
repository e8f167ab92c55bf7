----------------------------- MODULE Reporting -----------------------------
(***************************************************************************)
(* What the dashboards read: the tables `events` and `sessions` of         *)
(* ClickHouse (migrations/clickhouse), filled by the inserts of the batch  *)
(* writer, and the reports of internal/storage/clickhouse/queries.go and   *)
(* internal/api/v1/stats.go, which ask several queries in a row while      *)
(* inserts and background merges go on.                                    *)
(*                                                                         *)
(* A row of `sessions` stands for the events it sums up, and is modelled   *)
(* as their set: its counts are cardinalities, first_ts and last_ts the    *)
(* least and the greatest ts.  A report keeps the events its queries met;  *)
(* the numbers are functions of them.                                      *)
(***************************************************************************)
EXTENDS Integers, FiniteSets

CONSTANTS
  Events,    \* events that reach an insert
  Sessions,  \* session ids
  Paths,     \* values of url_path
  MaxTime,   \* ts is one of 0..MaxTime
  DayLen,    \* its days and months have these lengths
  MonthLen,
  MaxBlock,  \* most events in one insert
  Windows    \* windows asked for, [from, to)

ASSUME ReportingAssumption ==
  /\ IsFiniteSet(Events)
  /\ MaxTime \in Nat
  /\ DayLen \in Nat \ {0}
  /\ MonthLen \in Nat \ {0}
  /\ Windows \subseteq [from : Int, to : Int]
  /\ \A w \in Windows : w.from < w.to

VARIABLES
  session, ts, kind, path,  \* the columns of each event
  sent,     \* events an insert has begun with
  block,    \* events of the insert under way, empty if there is none
  events,   \* rows of `events`
  rows,     \* rows of `sessions`
  torn,     \* events of inserts that reported an error
  report    \* the report being made

columns == <<session, ts, kind, path>>
tables == <<sent, block, events, rows, torn>>
vars == <<columns, tables, report>>

Kinds == {"pageview", "custom", "web_vital"}

NoReport == [at |-> "idle", w |-> [from |-> 0, to |-> 1], filter |-> {},
             compare |-> FALSE, start |-> {}, first |-> {}, second |-> {}]

(* What Collect guarantees (its SessionSpan): a session id serves one UTC    *)
(* day, and events that were dated just before it.                           *)
SpansMidnight ==
  \A e, f \in Events :
    session[e] = session[f] => (ts[e] \div DayLen) - (ts[f] \div DayLen) \in -1..1

Init ==
  /\ session \in [Events -> Sessions]
  /\ ts \in [Events -> 0..MaxTime]
  /\ kind \in [Events -> Kinds]
  /\ path \in [Events -> Paths]
  /\ SpansMidnight
  /\ sent = {} /\ block = {} /\ events = {} /\ rows = {} /\ torn = {}
  /\ report = NoReport

----------------------------------------------------------------------------
(* Inserts and merges *)

(* mv_sessions leaves out the web vitals.                                    *)
Counted == {e \in Events : kind[e] # "web_vital"}

Month(e) == ts[e] \div MonthLen

FirstOf(r) == CHOOSE e \in r : \A f \in r : ts[e] <= ts[f]

SameSession(r) == \A e, f \in r : session[e] = session[f]

NewRowsOfAll(B) ==  \* mutant: no WHERE event_name != 'web_vital'
  {{e \in B : session[e] = s} : s \in {session[e] : e \in B}}

(* mv_sessions groups the events of one block by session.                    *)
NewRows(B) ==
  {{e \in B \cap Counted : session[e] = s} : s \in {session[e] : e \in B \cap Counted}}

BeginInsert(B) ==
  /\ block = {}
  /\ B # {} /\ Cardinality(B) <= MaxBlock
  /\ block' = B
  /\ sent' = sent \cup B
  /\ UNCHANGED <<columns, events, rows, torn, report>>

(* The rows of `events` can be read before the view has written its own.     *)
StoreEvents ==
  /\ block # {} /\ ~(block \subseteq events)
  /\ events' = events \cup block
  /\ UNCHANGED <<columns, sent, block, rows, torn, report>>

StoreRows ==
  /\ block # {} /\ block \subseteq events
  /\ rows' = rows \cup NewRows(block)
  /\ block' = {}
  /\ UNCHANGED <<columns, sent, events, torn, report>>

(* An error does not say what was stored; the batch is not sent again.       *)
InsertFails ==
  /\ block # {}
  /\ \E kept \in SUBSET block, written \in SUBSET NewRows(block) :
       /\ events' = events \cup kept
       /\ rows' = rows \cup written
  /\ torn' = torn \cup block
  /\ block' = {}
  /\ UNCHANGED <<columns, sent, report>>

(* Parts are merged in the background, within a partition, when ClickHouse   *)
(* sees fit; rows with the same sorting key become one.                      *)
Merge(q, r) ==
  /\ q # r
  /\ SameSession(q \cup r)
  /\ Month(FirstOf(q)) = Month(FirstOf(r))
  /\ rows' = (rows \ {q, r}) \cup {q \cup r}
  /\ UNCHANGED <<columns, sent, block, events, torn, report>>

----------------------------------------------------------------------------
(* Reports *)

Inside(t, w) == w.from <= t /\ t < w.to

(* buildFilterSQL; an empty filter lets everything pass.                     *)
Matches(e, w, filter) == Inside(ts[e], w) /\ (filter = {} \/ path[e] \in filter)

Found(w, filter) == {e \in events : Matches(e, w, filter)}

(* compare=previous_period                                                   *)
CompareWindow(w) == [from |-> w.from - (w.to - w.from), to |-> w.from]

(* uniq(session_id), countIf(event_name = 'pageview')                        *)
Visitors(S) == Cardinality({session[e] : e \in S})
Pageviews(S) == Cardinality({e \in S : kind[e] = "pageview"})

RowsIn(w) == {r \in rows : Inside(ts[FirstOf(r)], w)}

BouncesByEvents(w) == {r \in RowsIn(w) : Cardinality(r) = 1}  \* mutant: events_count = 1

(* countIf(pageviews = 1), the numerator of bounce_rate; the filters of the  *)
(* report do not apply to it.                                                *)
Bounces(w) == {r \in RowsIn(w) : Pageviews(r) = 1}

Begin(at, w, filter, compare) ==
  /\ report.at = "idle"
  /\ report' = [report EXCEPT !.at = at, !.w = w, !.filter = filter,
                              !.compare = compare, !.start = events]
  /\ UNCHANGED <<columns, tables>>

BeginSummary(w, filter, compare) == Begin("top", w, filter, compare)
BeginBreakdown(w, filter) == Begin("page", w, filter, FALSE)

(* The first query of a summary; its second one, over `sessions`, is Bounces.*)
TopLine ==
  /\ report.at = "top"
  /\ report' = [report EXCEPT !.at = IF report.compare THEN "previous" ELSE "done",
                              !.first = Found(report.w, report.filter)]
  /\ UNCHANGED <<columns, tables>>

PreviousTopLine ==
  /\ report.at = "previous"
  /\ report' = [report EXCEPT !.at = "done",
                              !.second = Found(CompareWindow(report.w), report.filter)]
  /\ UNCHANGED <<columns, tables>>

TotalThenPage ==  \* mutant: the total is asked for first
  /\ \/ /\ report.at = "page"
        /\ report' = [report EXCEPT !.at = "total", !.second = Found(report.w, report.filter)]
     \/ /\ report.at = "total"
        /\ report' = [report EXCEPT !.at = "shares", !.first = Found(report.w, report.filter)]
  /\ UNCHANGED <<columns, tables>>

(* The groups of a breakdown, then their total.                              *)
PageThenTotal ==
  /\ \/ /\ report.at = "page"
        /\ report' = [report EXCEPT !.at = "total", !.first = Found(report.w, report.filter)]
     \/ /\ report.at = "total"
        /\ report' = [report EXCEPT !.at = "shares", !.second = Found(report.w, report.filter)]
  /\ UNCHANGED <<columns, tables>>

Next ==
  \/ \E B \in SUBSET (Events \ sent) : BeginInsert(B)
  \/ StoreEvents \/ StoreRows \/ InsertFails
  \/ \E q, r \in rows : Merge(q, r)
  \/ \E w \in Windows, filter \in SUBSET Paths :
       (\E compare \in BOOLEAN : BeginSummary(w, filter, compare)) \/ BeginBreakdown(w, filter)
  \/ TopLine \/ PreviousTopLine
  \/ PageThenTotal

Spec == Init /\ [][Next]_vars

----------------------------------------------------------------------------
(* Properties *)

TypeOK ==
  /\ session \in [Events -> Sessions]
  /\ ts \in [Events -> 0..MaxTime]
  /\ kind \in [Events -> Kinds]
  /\ path \in [Events -> Paths]
  /\ sent \subseteq Events /\ events \subseteq sent /\ block \subseteq sent
  /\ torn \subseteq sent
  /\ rows \subseteq SUBSET sent /\ {} \notin rows
  /\ report \in [at : {"idle", "top", "previous", "page", "total", "shares", "done"},
                 w : Windows \cup {NoReport.w}, filter : SUBSET Paths, compare : BOOLEAN,
                 start : SUBSET sent, first : SUBSET sent, second : SUBSET sent]

Summed == {e \in Events : \E r \in rows : e \in r}

(* The rollup counts each event of a session once, in a row of that session, *)
(* whatever is inserted, merged and read in between; what it misses belongs  *)
(* to the insert under way or to one that failed.                            *)
RollupExact ==
  /\ \A q, r \in rows : q = r \/ q \cap r = {}
  /\ \A r \in rows : SameSession(r)
  /\ Summed \ torn = (events \cap Counted) \ (block \cup torn)

(* 0002_materialized_views.sql:249 "a bounce is a session with exactly 1     *)
(* pageview": true of a window's answer when every session's rows have been  *)
(* merged.                                                                   *)
Merged == \A q, r \in rows : SameSession(q \cup r) => q = r

OnePageview(w) ==
  {s \in Sessions :
     LET mine == {e \in Summed : session[e] = s} IN
     Pageviews(mine) = 1 /\ Inside(ts[FirstOf(mine)], w)}

BouncesWhenMerged ==
  Merged => \A w \in Windows : Cardinality(Bounces(w)) = Cardinality(OnePageview(w))

(* No key of a breakdown has a share of more than the whole, for either      *)
(* metric, though inserts come between the query for the keys and the one    *)
(* for the total.                                                            *)
ShareBounded ==
  report.at = "shares" =>
    \A p \in Paths :
      LET group == {e \in report.first : path[e] = p} IN
      /\ Visitors(group) <= Visitors(report.second)
      /\ Pageviews(group) <= Pageviews(report.second)

(* The window and the one it is compared with share no event and leave none  *)
(* out that was stored when the report began.                                *)
CompareAbuts ==
  report.at = "done" /\ report.compare =>
    LET w == report.w
        both == [from |-> w.from - (w.to - w.from), to |-> w.to] IN
    /\ report.first \cap report.second = {}
    /\ {e \in report.start : Matches(e, both, report.filter)}
         \subseteq report.first \cup report.second
=============================================================================
