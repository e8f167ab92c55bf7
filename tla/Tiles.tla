------------------------------- MODULE Tiles -------------------------------
(***************************************************************************)
(* What the tiles of the dashboards draw from the answers of the server:   *)
(* format.ts and the components of packages/dashboard-react (dashboard-    *)
(* angular has the same code in its own components, and cuts its lists     *)
(* itself), and the tables of apps/dashboard-next.                         *)
(*                                                                         *)
(* A number is shown as a whole number of units: a figure keeps what was   *)
(* shown, in the unit it was given in, beside the number it stands for.    *)
(* Rates and shares arrive as quotients.                                   *)
(***************************************************************************)
EXTENDS Integers, Sequences, FiniteSets

Least(S) == CHOOSE m \in S : \A x \in S : m <= x

Greatest(S) == CHOOSE m \in S : \A x \in S : x <= m

Values(rows) == {rows[i].value : i \in DOMAIN rows}

FirstOf(rows, n) == SubSeq(rows, 1, Least({n, Len(rows)}))

----------------------------------------------------------------------------
(* format.ts *)

(* Math.round and toFixed; where a half goes is not significant here. *)
Round(n, unit) == unit * ((n + unit \div 2) \div unit)

Figure(n, unit, shown) == [of |-> n, unit |-> unit, shown |-> shown]

FormatIntCoarse(n) ==  \* mutant: the millions begin at 100 000
  LET unit == IF n >= 100000 THEN 100000 ELSE IF n >= 1000 THEN 100 ELSE 1 IN
  Figure(n, unit, Round(n, unit))

(* One decimal of thousands or of millions. *)
FormatInt(n) ==
  LET unit == IF n >= 1000000 THEN 100000 ELSE IF n >= 1000 THEN 100 ELSE 1 IN
  Figure(n, unit, Round(n, unit))

(* Whole seconds, and whole minutes (cut, not rounded) from an hour on. *)
FormatDuration(s) ==
  IF s < 3600 THEN Figure(s, 1, s) ELSE Figure(s, 60, 60 * (s \div 60))

(* Milliseconds; from a second on, hundredths of a second. *)
FormatMs(n) == IF n >= 1000 THEN Figure(n, 10, Round(n, 10)) ELSE Figure(n, 1, n)

(* How the server divides two counts: 0 if there is nothing to divide by.    *)
Quotient(part, whole) ==
  IF whole = 0 THEN [part |-> 0, whole |-> 1] ELSE [part |-> part, whole |-> whole]

(* Tenths of a percent.  A quotient above 1 is taken for a percentage         *)
(* already.                                                                  *)
FormatPct(q) ==
  IF q.part <= q.whole
  THEN Figure(1000 * q.part, q.whole, Round(1000 * q.part, q.whole))
  ELSE Figure(1000 * q.part, q.whole, Round(10 * q.part, q.whole))

----------------------------------------------------------------------------
(* The tiles, as components of packages/dashboard-react *)

SummaryCards(m) ==
  [figures |-> {FormatInt(m.visitors), FormatInt(m.pageviews), FormatDuration(m.avg)},
   shares  |-> {FormatPct(Quotient(m.bounces, m.rows))}]

Realtime(r) ==
  [figures |-> {FormatInt(r.online)} \cup {FormatInt(v) : v \in Values(FirstOf(r.pages, 5))}]

(* barFill: a percentage of the track, of which the longest bar takes all.   *)
Bar(value, longest) ==
  LET pct == (100 * value) \div (IF longest = 0 THEN 1 ELSE longest) IN
  Greatest({2, Least({100, pct})})

BarsOf(rows) ==
  [i \in DOMAIN rows |->
    [value |-> rows[i].value, width |-> Bar(rows[i].value, Greatest(Values(rows)))]]

(* The share of a row is its value over the total of the answer. *)
Share(v, b) == Quotient(v, b.total)

TopList(b) ==
  [figures |-> {FormatInt(b.total)} \cup {FormatInt(v) : v \in Values(b.rows)},
   shares  |-> {FormatPct(Share(v, b)) : v \in Values(b.rows)},
   bars    |-> BarsOf(b.rows)]

(* The chart is 1000 x 300 with a padding of 8 and 12.  Along the line, x is  *)
(* given in parts of the gaps between the n points and y in parts of max.    *)
XOf(i, n) == IF n > 1 THEN 8 * (n - 1) + 984 * i ELSE 8

YOf(v, max) == 12 * max + 276 * (max - v)

Total(points) ==
  LET upTo[i \in 0 .. Len(points)] == IF i = 0 THEN 0 ELSE upTo[i - 1] + points[i]
  IN  upTo[Len(points)]

TimeseriesChart(points) ==
  LET n == Len(points)
      max == Greatest({1} \cup {points[i] : i \in 1 .. n})
      line == [i \in 1 .. n |-> [x |-> XOf(i - 1, n), y |-> YOf(points[i], max)]] IN
  [figures |-> {FormatInt(Total(points))},
   n |-> n, max |-> max, points |-> points, line |-> line,
   area |-> IF n = 0 THEN <<>>
            ELSE <<[x |-> XOf(0, n), y |-> YOf(0, max)]>> \o line
                 \o <<[x |-> XOf(n - 1, n), y |-> 288 * max]>>]

(* The thresholds of the cards, in milliseconds; CLS in thousandths. *)
Thresholds ==
  [LCP |-> [good |-> 2500, poor |-> 4000], INP |-> [good |-> 200, poor |-> 500],
   CLS |-> [good |-> 100, poor |-> 250], FCP |-> [good |-> 1800, poor |-> 3000],
   TTFB |-> [good |-> 800, poor |-> 1800]]

Kind(metric, p75, samples) ==
  IF samples = 0 THEN "warn"
  ELSE IF p75 <= Thresholds[metric].good THEN "good"
  ELSE IF p75 <= Thresholds[metric].poor THEN "warn" ELSE "bad"

Missing == [p75 |-> 0, samples |-> 0]

(* One card for each metric asked for; one the answer does not hold gets a    *)
(* dash and the badge of no samples.  The bar of ratings is never drawn: its *)
(* counts are not in the answer, which has rating_pct instead.               *)
WebVitalsCards(vitals, metrics) ==
  LET row(m) == IF m \in DOMAIN vitals THEN vitals[m] ELSE Missing IN
  [badges  |-> {[metric |-> m, p75 |-> row(m).p75, samples |-> row(m).samples,
                 kind |-> Kind(m, row(m).p75, row(m).samples)] : m \in metrics},
   figures |-> {FormatMs(vitals[m].p75) : m \in (metrics \cap DOMAIN vitals) \ {"CLS"}}
               \cup {FormatInt(vitals[m].samples) : m \in metrics \cap DOMAIN vitals}]

CoreVitals == {"LCP", "INP", "CLS"}

(* internal/enrich/rating.go, which rates each sample when it is stored. *)
WebVitalRating(metric, value) ==
  LET rate(good, ni) ==
        IF value <= good THEN "good" ELSE IF value <= ni THEN "needs-improvement" ELSE "poor" IN
  CASE metric = "LCP"  -> rate(2500, 4000)
    [] metric = "INP"  -> rate(200, 500)
    [] metric = "CLS"  -> rate(100, 250)
    [] metric = "FCP"  -> rate(1800, 3000)
    [] metric = "TTFB" -> rate(800, 1800)

----------------------------------------------------------------------------
(* What should hold of a drawing *)

Off(f) == IF f.shown > f.of THEN f.shown - f.of ELSE f.of - f.shown

(* A figure differs from its number by less than one unit, and a unit is at  *)
(* most a tenth of the number unless it is 1.                                *)
ReadsBack(f) == Off(f) < f.unit /\ (f.unit = 1 \/ 10 * f.unit <= f.of)

(* A percentage differs by at most half of its last place. *)
ShareReadsBack(f) == 2 * Off(f) <= f.unit

(* Every bar stays on its track, and a larger value never has a shorter bar. *)
BarsInTrack(bars) ==
  \A i, j \in DOMAIN bars :
    /\ bars[i].width \in 2 .. 100
    /\ bars[i].value < bars[j].value => bars[i].width <= bars[j].width

(* Line and area stay inside the padding, the points follow one another from *)
(* left to right, a larger value is drawn higher, and the area is closed     *)
(* along the foot of the chart.                                              *)
ChartInBox(c) ==
  LET gaps == IF c.n > 1 THEN c.n - 1 ELSE 1 IN
  /\ \A i \in DOMAIN c.area :
       /\ c.area[i].x \in 8 * gaps .. 992 * gaps
       /\ c.area[i].y \in 12 * c.max .. 288 * c.max
  /\ \A i, j \in DOMAIN c.line :
       /\ i < j => c.line[i].x < c.line[j].x
       /\ c.points[i] < c.points[j] => c.line[i].y > c.line[j].y
  /\ c.n > 0 => c.area[1].y = 288 * c.max /\ c.area[c.n + 2].y = 288 * c.max

(* A badge says of a p75 what the server says of a sample of that size. *)
BadgeAgrees(b) ==
  b.samples > 0 =>
    LET rating == WebVitalRating(b.metric, b.p75) IN
    b.kind = IF rating = "good" THEN "good" ELSE IF rating = "poor" THEN "bad" ELSE "warn"
=============================================================================
