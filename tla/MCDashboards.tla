---------------------------- MODULE MCDashboards ----------------------------
(* The clocks go forward at 2, so that "1h" is refused at 2 and a window of   *)
(* a day is an hour short after it.  Two of the eight requests are followed,  *)
(* one with a window and one without: with two, a load can be overtaken      *)
(* half-way.                                                                 *)
EXTENDS Dashboards

MCRequests == {"summary", "realtime"}

MCClicked == {"1h", "30d"}

MCCustom == [from |-> 0, to |-> 1]

MCFilters == [paths |-> {"/a"}]

(* The numbers where the formats change, with their neighbours. *)
Numbers ==
  UNION {{n - 1, n, n + 1} :
           n \in {1, 60, 100, 250, 500, 800, 950, 1000, 1049, 1050, 1800, 2500, 3000, 3600,
                  4000, 9950, 86400, 99949, 100000, 999949, 999950, 1000000, 1050000}}

Row(k, n) == [key |-> k, value |-> n]

(* An answer made of one number n: with every metric at n, lists that end in  *)
(* ones or that n divides into equal shares, and a chart around n.           *)
Sized(n) ==
  LET third == n \div 3
      vital == [p75 |-> n, p95 |-> n + third, samples |-> n, good |-> third, ni |-> third,
                poor |-> n - 2 * third] IN
  [summary  |-> [visitors |-> n, pageviews |-> n, sessions |-> n, rows |-> n,
               bounces |-> third, avg |-> n],
   realtime |-> [online |-> n, pages |-> [i \in 1 .. 12 |-> Row("/p", n)], hosts |-> <<Row("h", n)>>],
   pages    |-> [rows |-> <<Row("pageview", n), Row("signup", n - third)>>
                          \o [i \in 1 .. 8 |-> Row("/p", third)],
                 total |-> 10 * n + 1],
   points   |-> <<third, n, 0, n>>,
   vitals   |-> [m \in DOMAIN Thresholds |-> vital]]

(* No traffic; one point; two of the vitals, one of them without samples. *)
Sparse(points, vitals) ==
  [summary  |-> [visitors |-> 0, pageviews |-> 0, sessions |-> 0, rows |-> 0,
               bounces |-> 0, avg |-> 0],
   realtime |-> [online |-> 0, pages |-> <<>>, hosts |-> <<>>],
   pages    |-> [rows |-> <<>>, total |-> 0],
   points   |-> points,
   vitals   |-> vitals]

Silent == [p75 |-> 0, p95 |-> 0, samples |-> 0, good |-> 0, ni |-> 0, poor |-> 0]

MCAnswers ==
  {Sized(n) : n \in Numbers}
  \cup {Sparse(points, <<>>) : points \in UNION {[1 .. n -> {0, 1, 7}] : n \in 0 .. 4}}
  \cup {Sparse(<<>>, [INP |-> Silent])}
=============================================================================
