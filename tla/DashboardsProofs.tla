------------------------- MODULE DashboardsProofs -------------------------
(***************************************************************************)
(* What the dashboards ask, show and draw, for every set of requests,      *)
(* presets, filters and answers, and for every clock change of an hour.    *)
(***************************************************************************)
EXTENDS Dashboards, SequenceTheorems, WellFoundedInduction, TLAPS

----------------------------------------------------------------------------
(* The window *)

LEMMA HoursOfPreset ==
  ASSUME NEW spec \in Presets
  PROVE  \/ spec = "1h" /\ Hours(spec) = 1
         \/ Hours(spec) \in {24, 168, 720, 2160} /\ spec # "1h"
BY DEF Presets, Hours

(* The window of a number n of hours, as Hours(spec) gives it. *)
LEMMA WindowOfHours ==
  ASSUME NEW t \in Int, NEW n \in {1, 24, 168, 720, 2160}
  PROVE  LET from == Instant(Local(t) - n * Hour) IN
         /\ from \in Int
         /\ (t - n * Hour) - from \in {-Hour, 0, Hour}
         /\ t < Change \/ from >= Change + Hour \/ Shift = 0 => (t - n * Hour) - from = 0
         /\ ~(t > from) => n = 1 /\ Shift = Hour /\ t >= Change /\ t < Change + Hour
<1> USE ClockAssumption DEF Instant, Local
<1>1. CASE n = 1    BY <1>1
<1>2. CASE n = 24   BY <1>2
<1>3. CASE n = 168  BY <1>3
<1>4. CASE n = 720  BY <1>4
<1>5. CASE n = 2160 BY <1>5
<1>6. QED BY <1>1, <1>2, <1>3, <1>4, <1>5

(* A preset window is as long as its name says, but for the clock change, and *)
(* is refused only for that: expandWindow and ParseWindow, for every moment.  *)
THEOREM PresetWindow ==
  ASSUME NEW spec \in Presets, NEW t \in Int
  PROVE  AsNamed(spec, t) /\ RefusedForClock(spec, t)
<1>1. PICK n \in {1, 24, 168, 720, 2160} : n = Hours(spec) /\ (n = 1 => spec = "1h")
  BY HoursOfPreset
<1>2. spec # "custom" BY DEF Presets
<1> DEFINE from == Instant(Local(t) - n * Hour)
<1>3. /\ from \in Int
      /\ (t - n * Hour) - from \in {-Hour, 0, Hour}
      /\ t < Change \/ from >= Change + Hour \/ Shift = 0 => (t - n * Hour) - from = 0
      /\ ~(t > from) => n = 1 /\ Shift = Hour /\ t >= Change /\ t < Change + Hour
  BY WindowOfHours, SMTT(60)
<1>4. ExpandWindow(spec, t) = [from |-> from, to |-> t] BY <1>1, <1>2 DEF ExpandWindow
<1> HIDE DEF from
<1>5. /\ ExpandWindow(spec, t).from = from
      /\ ExpandWindow(spec, t).to = t
  BY <1>4
<1>6. AsNamed(spec, t) BY <1>1, <1>3, <1>5 DEF AsNamed
<1>7. RefusedForClock(spec, t)
  BY <1>1, <1>3, <1>5 DEF RefusedForClock, ParseWindow
<1>8. QED BY <1>6, <1>7

----------------------------------------------------------------------------
(* Figures and badges *)

(* No count is shown so rounded that another is read (formatInt). *)
THEOREM FormatIntReadsBack == \A n \in Nat : ReadsBack(FormatInt(n))
<1> SUFFICES ASSUME NEW n \in Nat PROVE ReadsBack(FormatInt(n))
  OBVIOUS
<1> USE DEF ReadsBack, FormatInt, Figure, Round, Off
<1>1. CASE n < 1000 BY <1>1
<1>2. CASE n >= 1000 /\ n < 1000000 BY <1>2
<1>3. CASE n >= 1000000 BY <1>3
<1>4. QED BY <1>1, <1>2, <1>3

(* Nor any number of milliseconds (formatMs). *)
THEOREM FormatMsReadsBack == \A n \in Nat : ReadsBack(FormatMs(n))
BY DEF ReadsBack, FormatMs, Figure, Round, Off

(* Nor any number of seconds, although formatDuration cuts them from an hour  *)
(* on.                                                                       *)
THEOREM FormatDurationReadsBack == \A s \in Nat : ReadsBack(FormatDuration(s))
BY DEF ReadsBack, FormatDuration, Figure, Off

LEMMA ThresholdsOf ==
  /\ Thresholds["LCP"].good = 2500 /\ Thresholds["LCP"].poor = 4000
  /\ Thresholds["INP"].good = 200  /\ Thresholds["INP"].poor = 500
  /\ Thresholds["CLS"].good = 100  /\ Thresholds["CLS"].poor = 250
BY DEF Thresholds

LEMMA RatingOf ==
  ASSUME NEW m \in CoreVitals, NEW v
  PROVE  /\ v <= Thresholds[m].good => WebVitalRating(m, v) = "good"
         /\ ~(v <= Thresholds[m].good) /\ v <= Thresholds[m].poor =>
              WebVitalRating(m, v) = "needs-improvement"
         /\ ~(v <= Thresholds[m].good) /\ ~(v <= Thresholds[m].poor) =>
              WebVitalRating(m, v) = "poor"
<1>1. m \in {"LCP", "INP", "CLS"} BY DEF CoreVitals
<1>2. CASE m = "LCP"
  <2>1. WebVitalRating(m, v) =
          IF v <= 2500 THEN "good" ELSE IF v <= 4000 THEN "needs-improvement" ELSE "poor"
    BY <1>2 DEF WebVitalRating
  <2>2. QED BY <1>2, <2>1, ThresholdsOf
<1>3. CASE m = "INP"
  <2>1. WebVitalRating(m, v) =
          IF v <= 200 THEN "good" ELSE IF v <= 500 THEN "needs-improvement" ELSE "poor"
    BY <1>3 DEF WebVitalRating
  <2>2. QED BY <1>3, <2>1, ThresholdsOf
<1>4. CASE m = "CLS"
  <2>1. WebVitalRating(m, v) =
          IF v <= 100 THEN "good" ELSE IF v <= 250 THEN "needs-improvement" ELSE "poor"
    BY <1>4 DEF WebVitalRating
  <2>2. QED BY <1>4, <2>1, ThresholdsOf
<1>5. QED BY <1>1, <1>2, <1>3, <1>4

LEMMA KindOf ==
  ASSUME NEW m, NEW v, NEW n, ~(n = 0)
  PROVE  /\ v <= Thresholds[m].good => Kind(m, v, n) = "good"
         /\ ~(v <= Thresholds[m].good) /\ v <= Thresholds[m].poor => Kind(m, v, n) = "warn"
         /\ ~(v <= Thresholds[m].good) /\ ~(v <= Thresholds[m].poor) => Kind(m, v, n) = "bad"
BY DEF Kind

LEMMA CardsAgree ==
  ASSUME NEW vitals, NEW b \in WebVitalsCards(vitals, CoreVitals).badges
  PROVE  BadgeAgrees(b)
<1> DEFINE row(m) == IF m \in DOMAIN vitals THEN vitals[m] ELSE Missing
<1>1. PICK m \in CoreVitals :
        b = [metric |-> m, p75 |-> row(m).p75, samples |-> row(m).samples,
             kind |-> Kind(m, row(m).p75, row(m).samples)]
  BY DEF WebVitalsCards
<1>2. /\ b.metric = m /\ b.p75 = row(m).p75 /\ b.samples = row(m).samples
      /\ b.kind = Kind(m, row(m).p75, row(m).samples)
  BY <1>1
<1> HIDE DEF row
<1>3. SUFFICES ASSUME b.samples > 0
               PROVE  b.kind = IF WebVitalRating(m, b.p75) = "good" THEN "good"
                               ELSE IF WebVitalRating(m, b.p75) = "poor" THEN "bad" ELSE "warn"
  BY <1>2 DEF BadgeAgrees
<1>4. ~(b.samples = 0) BY <1>3
<1>5. b.kind = Kind(m, b.p75, b.samples) BY <1>2
<1>6. CASE b.p75 <= Thresholds[m].good
  <2>1. b.kind = "good" /\ WebVitalRating(m, b.p75) = "good" BY <1>4, <1>5, <1>6, KindOf, RatingOf
  <2>2. QED BY <2>1, "good" # "poor"
<1>7. CASE ~(b.p75 <= Thresholds[m].good) /\ b.p75 <= Thresholds[m].poor
  <2>1. b.kind = "warn" /\ WebVitalRating(m, b.p75) = "needs-improvement"
    BY <1>4, <1>5, <1>7, KindOf, RatingOf
  <2>2. QED BY <2>1
<1>8. CASE ~(b.p75 <= Thresholds[m].good) /\ ~(b.p75 <= Thresholds[m].poor)
  <2>1. b.kind = "bad" /\ WebVitalRating(m, b.p75) = "poor"
    BY <1>4, <1>5, <1>8, KindOf, RatingOf
  <2>2. QED BY <2>1
<1>9. QED BY <1>6, <1>7, <1>8

(* Whatever the server answers, the badge of a metric agrees with the rating  *)
(* the server gives a sample of that size.                                   *)
THEOREM BadgesAgreeCorrect ==
  ASSUME NEW a, NEW p \in Pages
  PROVE  BadgesAgree(LiveDrawing(a)) /\ BadgesAgree(ServerDrawing(p, a))
<1>1. BadgesAgree(LiveDrawing(a))
  <2>1. LiveDrawing(a).badges = WebVitalsCards(a.vitals, CoreVitals).badges
    BY DEF LiveDrawing, LiveCards
  <2>2. QED BY <2>1, CardsAgree DEF BadgesAgree
<1>2. p \in {"overview", "realtime", "pages", "vitals"} BY DEF Pages
<1>3. CASE p = "overview"
  <2>1. ServerDrawing(p, a) = OverviewDrawing(a) BY <1>3 DEF ServerDrawing
  <2>2. ServerDrawing(p, a).badges = WebVitalsCards(a.vitals, CoreVitals).badges
    BY <2>1 DEF OverviewDrawing
  <2>3. QED BY <1>1, <2>2, CardsAgree DEF BadgesAgree
<1>4. CASE p # "overview"
  <2>1. ServerDrawing(p, a) \in {RealtimePage(a), TopPagesPage(a), VitalsPage(a)}
    BY <1>2, <1>4 DEF ServerDrawing
  <2>2. /\ RealtimePage(a).badges = {} /\ TopPagesPage(a).badges = {}
        /\ VitalsPage(a).badges = {}
    BY DEF RealtimePage, TopPagesPage, VitalsPage, Nothing
  <2>3. ServerDrawing(p, a).badges = {} BY <2>1, <2>2
  <2>4. QED BY <1>1, <2>3 DEF BadgesAgree
<1>5. QED BY <1>3, <1>4

----------------------------------------------------------------------------
(* Types *)

LEMMA TilesOfPages ==
  /\ PageTiles("overview") = Requests
  /\ PageTiles("realtime") = {"realtime", "summary", "events", "site"}
  /\ \A p \in Pages : p # "overview" /\ p # "realtime" => PageTiles(p) = {p}
  /\ Requests \subseteq AllTiles
<1>1. PageTiles("overview") = Requests BY DEF PageTiles
<1>2. PageTiles("realtime") = {"realtime", "summary", "events", "site"} BY DEF PageTiles
<1>3. ASSUME NEW p \in Pages, p # "overview", p # "realtime" PROVE PageTiles(p) = {p}
  BY <1>3 DEF PageTiles
<1>4. QED BY <1>1, <1>2, <1>3, RequestAssumption

LEMMA InitType == Init => TypeOK
<1> SUFFICES ASSUME Init PROVE TypeOK OBVIOUS
<1>1. Idle \in [spec : Specs, at : 0 .. MaxNow, left : SUBSET Requests]
  BY NowAssumption DEF Idle, Specs, Presets
<1>2. loads \in [{"live", "older"} -> [spec : Specs, at : 0 .. MaxNow, left : SUBSET Requests]]
  BY <1>1 DEF Init, LiveInit
<1>3. /\ app \in {"live", "server"} /\ now \in 0 .. MaxNow
      /\ refreshing \in BOOLEAN /\ alive \in BOOLEAN /\ ticked \in BOOLEAN
      /\ active \in Specs /\ stream \in {"open", "ended"} /\ picks \in 0 .. MaxPicks
      /\ view \in {NoView} \cup [spec : Specs, at : 0 .. MaxNow]
  <2>1. now \in 0 .. MaxNow BY NowAssumption DEF Init
  <2>2. picks \in 0 .. MaxPicks BY RequestAssumption DEF Init, LiveInit
  <2>3. active \in Specs BY DEF Init, LiveInit, Specs, Presets
  <2>4. /\ refreshing \in BOOLEAN /\ alive \in BOOLEAN /\ ticked \in BOOLEAN
        /\ app \in {"live", "server"} /\ stream \in {"open", "ended"}
        /\ view \in {NoView} \cup [spec : Specs, at : 0 .. MaxNow]
    BY Zenon DEF Init, LiveInit
  <2>5. QED BY <2>1, <2>2, <2>3, <2>4
<1>4. /\ seeded \in BOOLEAN /\ page \in Pages
      /\ phase \in {"idle", "rendering", "shown", "error"}
      /\ opened \in 0 .. MaxNow
  BY NowAssumption DEF Init, ServerInit, Pages
<1>5. asked = <<>> /\ got = {} BY DEF Init, ServerInit
<1>6. DOMAIN asked = {} BY <1>5
<1>7. asked \in [DOMAIN asked -> 0 .. MaxNow] BY <1>5, <1>6
<1>8. QED BY <1>2, <1>3, <1>4, <1>5, <1>6, <1>7 DEF TypeOK

LoadSet == [spec : Specs, at : 0 .. MaxNow, left : SUBSET Requests]

LEMMA SwitchType ==
  ASSUME TypeOK, NEW w \in Specs, Switch(w)
  PROVE  loads' \in [{"live", "older"} -> LoadSet]
<1>1. Load(w) \in LoadSet BY DEF Load, TypeOK, LoadSet
<1>2. loads.live \in LoadSet /\ loads.older \in LoadSet BY DEF TypeOK, LoadSet
<1>3. QED BY <1>1, <1>2 DEF Switch

LEMMA LeftType ==
  ASSUME TypeOK, NEW k \in {"live", "older"}, NEW r,
         loads' = [loads EXCEPT ![k].left = @ \ {r}]
  PROVE  /\ loads' \in [{"live", "older"} -> LoadSet]
         /\ loads'[k] = [spec |-> loads[k].spec, at |-> loads[k].at,
                         left |-> loads[k].left \ {r}]
         /\ \A j \in {"live", "older"} : j # k => loads'[j] = loads[j]
<1>1. loads[k] \in LoadSet BY DEF TypeOK, LoadSet
<1>2. [loads[k] EXCEPT !.left = @ \ {r}]
        = [spec |-> loads[k].spec, at |-> loads[k].at, left |-> loads[k].left \ {r}]
  BY <1>1 DEF LoadSet
<1>3. [spec |-> loads[k].spec, at |-> loads[k].at, left |-> loads[k].left \ {r}] \in LoadSet
  BY <1>1 DEF LoadSet
<1>4. loads' = [loads EXCEPT ![k] = [loads[k] EXCEPT !.left = @ \ {r}]]
  BY DEF TypeOK
<1>5. loads \in [{"live", "older"} -> LoadSet] BY DEF TypeOK, LoadSet
<1> DEFINE new == [spec |-> loads[k].spec, at |-> loads[k].at, left |-> loads[k].left \ {r}]
<1>6. new \in LoadSet /\ loads' = [loads EXCEPT ![k] = new] BY <1>2, <1>3, <1>4
<1> HIDE DEF new
<1>7. /\ loads' \in [{"live", "older"} -> LoadSet]
      /\ loads'[k] = new
      /\ \A j \in {"live", "older"} : j # k => loads'[j] = loads[j]
  BY <1>5, <1>6
<1>8. QED BY <1>7 DEF new

LEMMA LiveType ==
  ASSUME TypeOK, LiveNext, UNCHANGED <<app, now, serverVars>>
  PROVE  TypeOK'
<1>1. /\ app' = app /\ now' = now /\ seeded' = seeded /\ page' = page /\ phase' = phase
      /\ opened' = opened /\ asked' = asked /\ got' = got
  BY DEF serverVars
<1>2. /\ app' \in {"live", "server"} /\ now' \in 0 .. MaxNow
      /\ seeded' \in BOOLEAN /\ page' \in Pages
      /\ phase' \in {"idle", "rendering", "shown", "error"}
      /\ opened' \in 0 .. MaxNow
      /\ asked' \in [DOMAIN asked' -> 0 .. MaxNow] /\ got' \subseteq DOMAIN asked'
      /\ DOMAIN asked' \subseteq PageTiles(page')
  <2>1. PageTiles(page') = PageTiles(page) BY <1>1
  <2>2. QED BY <1>1, <2>1 DEF TypeOK
<1> SUFFICES
        /\ refreshing' \in BOOLEAN /\ alive' \in BOOLEAN /\ ticked' \in BOOLEAN
        /\ active' \in Specs /\ stream' \in {"open", "ended"} /\ picks' \in 0 .. MaxPicks
        /\ loads' \in [{"live", "older"} -> LoadSet]
        /\ view' \in {NoView} \cup [spec : Specs, at : 0 .. MaxNow]
  BY <1>2 DEF TypeOK, LoadSet
<1>3. loads \in [{"live", "older"} -> LoadSet] BY DEF TypeOK, LoadSet
<1>4. CASE Tick
  BY <1>4, SwitchType DEF Tick, TypeOK
<1>5. CASE \E w \in Clicked : Pick(w)
  <2>1. PICK w \in Clicked : Pick(w) BY <1>5
  <2>2. w \in Specs BY RequestAssumption DEF Specs
  <2>3. loads' \in [{"live", "older"} -> LoadSet]
    BY <1>3, <2>1, <2>2, SwitchType DEF Pick
  <2>4. picks' \in 0 .. MaxPicks BY <2>1, RequestAssumption DEF Pick, TypeOK
  <2>5. QED BY <2>1, <2>2, <2>3, <2>4 DEF Pick, TypeOK
<1>6. CASE \E k \in {"live", "older"}, r \in Requests : Answer(k, r)
  <2>1. PICK k \in {"live", "older"}, r \in Requests : Answer(k, r) BY <1>6
  <2>2. loads' \in [{"live", "older"} -> LoadSet] BY <2>1, LeftType DEF Answer
  <2>3. loads[k] \in LoadSet BY <1>3
  <2>4. [spec |-> loads[k].spec, at |-> loads[k].at] \in [spec : Specs, at : 0 .. MaxNow]
    BY <2>3 DEF LoadSet
  <2>5. view' \in {NoView} \cup [spec : Specs, at : 0 .. MaxNow]
    BY <2>1, <2>4 DEF Answer, TypeOK
  <2>6. QED BY <2>1, <2>2, <2>5 DEF Answer, TypeOK
<1>7. CASE \E k \in {"live", "older"}, r \in Requests : Fail(k, r)
  <2>1. PICK k \in {"live", "older"}, r \in Requests : Fail(k, r) BY <1>7
  <2>2. loads' \in [{"live", "older"} -> LoadSet] BY <2>1, LeftType DEF Fail
  <2>3. QED BY <2>1, <2>2 DEF Fail, TypeOK
<1>8. CASE Destroy BY <1>3, <1>8 DEF Destroy, TypeOK
<1>9. QED BY <1>4, <1>5, <1>6, <1>7, <1>8 DEF LiveNext

LEMMA ServerType ==
  ASSUME TypeOK, ServerNext, UNCHANGED <<app, now, liveVars>>
  PROVE  TypeOK'
<1>1. /\ app' = app /\ now' = now /\ refreshing' = refreshing /\ alive' = alive
      /\ active' = active /\ ticked' = ticked /\ stream' = stream /\ loads' = loads
      /\ view' = view /\ picks' = picks
  BY DEF liveVars
<1>2. /\ app' \in {"live", "server"} /\ now' \in 0 .. MaxNow
      /\ refreshing' \in BOOLEAN /\ alive' \in BOOLEAN /\ ticked' \in BOOLEAN
      /\ active' \in Specs /\ stream' \in {"open", "ended"} /\ picks' \in 0 .. MaxPicks
      /\ loads' \in [{"live", "older"} -> [spec : Specs, at : 0 .. MaxNow, left : SUBSET Requests]]
      /\ view' \in {NoView} \cup [spec : Specs, at : 0 .. MaxNow]
  BY <1>1 DEF TypeOK
<1> SUFFICES
      /\ seeded' \in BOOLEAN /\ page' \in Pages
      /\ phase' \in {"idle", "rendering", "shown", "error"}
      /\ opened' \in 0 .. MaxNow
      /\ asked' \in [DOMAIN asked' -> 0 .. MaxNow] /\ got' \subseteq DOMAIN asked'
      /\ DOMAIN asked' \subseteq PageTiles(page')
  BY <1>2 DEF TypeOK
<1>3. /\ seeded \in BOOLEAN /\ page \in Pages /\ now \in 0 .. MaxNow
      /\ phase \in {"idle", "rendering", "shown", "error"}
      /\ opened \in 0 .. MaxNow
      /\ asked \in [DOMAIN asked -> 0 .. MaxNow] /\ got \subseteq DOMAIN asked
      /\ DOMAIN asked \subseteq PageTiles(page)
  BY DEF TypeOK
<1>4. ASSUME NEW tile
      PROVE  /\ DOMAIN AskedToo(tile) = DOMAIN asked \cup {tile}
             /\ AskedToo(tile) \in [DOMAIN AskedToo(tile) -> 0 .. MaxNow]
  BY <1>3 DEF AskedToo
<1>5. CASE Seed
  <2>1. seeded' = TRUE /\ page' = page /\ phase' = phase /\ opened' = opened
        /\ asked' = asked /\ got' = got
    BY <1>5 DEF Seed
  <2>2. PageTiles(page') = PageTiles(page) BY <2>1
  <2>3. QED BY <1>3, <2>1, <2>2
<1>6. CASE \E p \in Pages : Open(p)
  <2>1. PICK p \in Pages : Open(p) BY <1>6
  <2>2. page' = p /\ opened' = now /\ got' = {} /\ seeded' = seeded
        /\ phase' \in {"rendering", "error"}
    BY <2>1 DEF Open
  <2>3. \/ asked' = [tile \in PageTiles(p) \ {"site"} |-> now]
        \/ asked' = <<>>
    BY <2>1 DEF Open
  <2>4. /\ asked' \in [DOMAIN asked' -> 0 .. MaxNow]
        /\ DOMAIN asked' \subseteq PageTiles(p)
    <3>1. CASE asked' = [tile \in PageTiles(p) \ {"site"} |-> now] BY <1>3, <3>1
    <3>2. CASE asked' = <<>>
      <4>1. DOMAIN asked' = {} BY <3>2
      <4>2. QED BY <3>2, <4>1
    <3>3. QED BY <2>3, <3>1, <3>2
  <2>5. PageTiles(page') = PageTiles(p) BY <2>2
  <2>6. QED BY <1>3, <2>2, <2>4, <2>5
<1>7. CASE \E tile \in AllTiles \cup {"events", "site"} : Ask(tile)
  <2>1. PICK tile \in AllTiles \cup {"events", "site"} : Ask(tile) BY <1>7
  <2>2. asked' = AskedToo(tile) /\ tile \in PageTiles(page) /\ page' = page /\ phase' = phase
        /\ opened' = opened /\ got' = got /\ seeded' = seeded
    BY <2>1 DEF Ask
  <2>3. PageTiles(page') = PageTiles(page) BY <2>2
  <2>4. /\ DOMAIN AskedToo(tile) = DOMAIN asked \cup {tile}
        /\ AskedToo(tile) \in [DOMAIN AskedToo(tile) -> 0 .. MaxNow]
    BY <1>4
  <2>5. DOMAIN asked' = DOMAIN asked \cup {tile} BY <2>2, <2>4
  <2>6. asked' \in [DOMAIN asked' -> 0 .. MaxNow]
    <3>1. asked' = AskedToo(tile) BY <2>2
    <3>2. QED BY ONLY <2>4, <3>1
  <2>7. DOMAIN asked' \subseteq PageTiles(page') BY <1>3, <2>2, <2>3, <2>5
  <2>8. got' \subseteq DOMAIN asked' BY <1>3, <2>2, <2>5
  <2>9. QED BY <1>3, <2>2, <2>6, <2>7, <2>8
<1>8. CASE \E tile \in AllTiles \cup {"events", "site"} : Answered(tile)
  <2>1. PICK tile \in AllTiles \cup {"events", "site"} : Answered(tile) BY <1>8
  <2>2. page' = page /\ opened' = opened /\ seeded' = seeded /\ got' = got \cup {tile}
        /\ tile \in DOMAIN asked /\ phase' \in {"rendering", "shown"}
    BY <2>1 DEF Answered
  <2>3. \/ asked' = asked
        \/ page = "realtime" /\ asked' = AskedToo("site")
    BY <2>1 DEF Answered
  <2>4. /\ asked' \in [DOMAIN asked' -> 0 .. MaxNow]
        /\ DOMAIN asked \subseteq DOMAIN asked'
        /\ DOMAIN asked' \subseteq PageTiles(page)
    <3>1. CASE asked' = asked BY <1>3, <3>1
    <3>2. CASE page = "realtime" /\ asked' = AskedToo("site")
      <4>1. "site" \in PageTiles(page) BY <3>2, TilesOfPages
      <4>2. /\ DOMAIN AskedToo("site") = DOMAIN asked \cup {"site"}
            /\ AskedToo("site") \in [DOMAIN AskedToo("site") -> 0 .. MaxNow]
        BY <1>4
      <4>3. DOMAIN asked' = DOMAIN asked \cup {"site"} BY <3>2, <4>2
      <4>4. asked' \in [DOMAIN asked' -> 0 .. MaxNow]
        <5>1. asked' = AskedToo("site") BY <3>2
        <5>2. QED BY ONLY <4>2, <5>1
      <4>5. QED BY <1>3, <4>1, <4>3, <4>4
    <3>3. QED BY <2>3, <3>1, <3>2
  <2>5. PageTiles(page') = PageTiles(page) BY <2>2
  <2>6. QED BY <1>3, <2>2, <2>4, <2>5
<1>9. CASE \E tile \in AllTiles \cup {"events", "site"} : Failed(tile)
  <2>1. PICK tile \in AllTiles \cup {"events", "site"} : Failed(tile) BY <1>9
  <2>2. seeded' = seeded /\ page' = page /\ phase' = "error" /\ opened' = opened
        /\ asked' = asked /\ got' = got
    BY <2>1 DEF Failed
  <2>3. PageTiles(page') = PageTiles(page) BY <2>2
  <2>4. QED BY <1>3, <2>2, <2>3
<1>10. QED BY <1>5, <1>6, <1>7, <1>8, <1>9 DEF ServerNext

LEMMA StepType == TypeOK /\ [Next]_vars => TypeOK'
<1> SUFFICES ASSUME TypeOK, [Next]_vars PROVE TypeOK' OBVIOUS
<1>1. CASE Live BY <1>1, LiveType DEF Live
<1>2. CASE Server BY <1>2, ServerType DEF Server
<1>3. CASE Advance
  <2>1. /\ refreshing' = refreshing /\ alive' = alive /\ active' = active
        /\ ticked' = ticked /\ stream' = stream /\ loads' = loads
        /\ view' = view /\ picks' = picks
        /\ app' = app /\ seeded' = seeded /\ page' = page /\ phase' = phase
        /\ opened' = opened /\ asked' = asked /\ got' = got
    BY <1>3 DEF Advance, liveVars, serverVars
  <2>2. now' \in 0 .. MaxNow BY <1>3, NowAssumption DEF Advance, TypeOK
  <2>3. PageTiles(page') = PageTiles(page) BY <2>1
  <2>4. QED BY <2>1, <2>2, <2>3 DEF TypeOK
<1>4. CASE UNCHANGED vars
  <2>1. /\ refreshing' = refreshing /\ alive' = alive /\ active' = active
        /\ ticked' = ticked /\ stream' = stream /\ loads' = loads
        /\ view' = view /\ picks' = picks
        /\ app' = app /\ seeded' = seeded /\ page' = page /\ phase' = phase
        /\ opened' = opened /\ asked' = asked /\ got' = got /\ now' = now
    BY <1>4 DEF vars, liveVars, serverVars
  <2>3. PageTiles(page') = PageTiles(page) BY <2>1
  <2>4. QED BY <2>1, <2>3 DEF TypeOK
<1>5. QED BY <1>1, <1>2, <1>3, <1>4 DEF Next

(* Both dashboards and their loads keep their types. *)
THEOREM TypeCorrect == Spec => []TypeOK
<1>1. QED BY InitType, StepType, PTL DEF Spec

----------------------------------------------------------------------------
(* What is asked *)

(* Every window asked for a preset is as long as its name says, but for an    *)
(* hour while the clocks change, and is refused only for that.               *)
THEOREM WindowAsAskedCorrect == Spec => []WindowAsAsked
<1>1. TypeOK => WindowAsAsked
  <2> SUFFICES ASSUME TypeOK PROVE WindowAsAsked OBVIOUS
  <2>1. loads.live.at \in Int
    <3>1. loads.live \in LoadSet BY DEF TypeOK, LoadSet
    <3>2. loads.live.at \in 0 .. MaxNow BY <3>1 DEF LoadSet
    <3>3. QED BY <3>2, NowAssumption
  <2>2. \A tile \in DOMAIN asked : asked[tile] \in Int
    <3>1. \A tile \in DOMAIN asked : asked[tile] \in 0 .. MaxNow BY DEF TypeOK
    <3>2. QED BY <3>1, NowAssumption
  <2>3. "7d" \in Presets BY DEF Presets
  <2>4. QED BY <2>1, <2>2, <2>3, PresetWindow DEF WindowAsAsked
<1>2. QED BY <1>1, TypeCorrect, PTL

(* Whatever filters the dashboard is given, the server reads none of them    *)
(* from any of its requests: it knows no name that FiltersToQS sends         *)
(* (dashboard-angular's client.ts:215, stats.go's parseFilters).             *)
THEOREM FiltersUnread ==
  ASSUME NEW r, NEW spec, NEW t
  PROVE  ParseFilters(LiveRequest(r, spec, t).query) = <<>>
<1>1. \A f : DOMAIN f \subseteq Names => ParseFilters(FiltersToQS(f)) = <<>>
  <2> SUFFICES ASSUME NEW f, DOMAIN f \subseteq Names
               PROVE  ParseFilters(FiltersToQS(f)) = <<>>
    OBVIOUS
  <2>1. DOMAIN FiltersToQS(f) \subseteq Names BY DEF FiltersToQS
  <2>2. Names \cap ReadByServer = {} BY DEF Names, ReadByServer
  <2>3. DOMAIN FiltersToQS(f) \cap ReadByServer = {} BY <2>1, <2>2
  <2>4. DOMAIN ParseFilters(FiltersToQS(f)) = {} BY <2>3 DEF ParseFilters
  <2>5. QED BY <2>3 DEF ParseFilters
<1>2. \A e, w, o, f : Request(e, w, o, f).query = FiltersToQS(f) BY DEF Request
<1>3. LiveRequest(r, spec, t).query \in {FiltersToQS(<<>>), FiltersToQS(Filters)}
  <2>1. CASE r = "realtime" BY <1>2, <2>1 DEF LiveRequest, LiveRequestOf
  <2>2. CASE r = "timeseries" BY <1>2, <2>2 DEF LiveRequest, LiveRequestOf
  <2>3. CASE r = "summary" BY <1>2, <2>3 DEF LiveRequest, LiveRequestOf
  <2>4. CASE r = "vitals" BY <1>2, <2>4 DEF LiveRequest, LiveRequestOf
  <2>5. CASE r \notin {"realtime", "timeseries", "summary", "vitals"}
    BY <1>2, <2>5 DEF LiveRequest, LiveRequestOf
  <2>6. QED BY <2>1, <2>2, <2>3, <2>4, <2>5
<1>4. DOMAIN Filters \subseteq Names /\ DOMAIN <<>> \subseteq Names BY FilterAssumption
<1>5. QED BY <1>1, <1>3, <1>4

----------------------------------------------------------------------------
(* What the live dashboard shows *)

(* Only a load that has begun is shown, the last load is the active window's  *)
(* as long as the stream is open, and UpToDate.                              *)
LiveInv ==
  /\ ~ticked => loads.live.left = {}
  /\ loads.live.at <= now
  /\ view.at <= loads.live.at
  /\ ticked /\ stream = "open" => loads.live.spec = active
  /\ UpToDate

LEMMA LiveTypes ==
  ASSUME TypeOK
  PROVE  /\ now \in Nat /\ loads.live.at \in Nat /\ view.at \in Nat
         /\ loads \in [{"live", "older"} -> LoadSet]
<1>1. loads \in [{"live", "older"} -> LoadSet] BY DEF TypeOK, LoadSet
<1>2. loads.live \in LoadSet BY <1>1
<1>3. loads.live.at \in 0 .. MaxNow BY <1>2 DEF LoadSet
<1>4. view.at \in 0 .. MaxNow BY NowAssumption DEF TypeOK, NoView
<1>5. QED BY <1>1, <1>3, <1>4, NowAssumption DEF TypeOK

LEMMA InitLive == Init => LiveInv
<1> SUFFICES ASSUME Init PROVE LiveInv OBVIOUS
<1>1. loads.live = Idle /\ view = NoView /\ ticked = FALSE BY DEF Init, LiveInit
<1>2. loads.live.left = {} /\ loads.live.at = 0 /\ view.at = 0 BY <1>1 DEF Idle, NoView
<1>3. now \in Nat BY DEF Init
<1>4. QED BY <1>1, <1>2, <1>3 DEF LiveInv, UpToDate

(* A load begins: the last load is that of w, from now. *)
LEMMA SwitchTo ==
  ASSUME NEW w, Switch(w)
  PROVE  /\ loads'.live.spec = w /\ loads'.live.at = now /\ loads'.live.left = Requests
<1>1. loads'.live = Load(w) BY DEF Switch
<1>2. QED BY <1>1 DEF Load

(* Any step of the live dashboard keeps LiveInv, and shows nothing but the    *)
(* active window's last load.                                                *)
LEMMA LiveStep ==
  ASSUME TypeOK, LiveInv, LiveNext, now' = now
  PROVE  /\ LiveInv'
         /\ view' # view => view'.spec = active' /\ view'.at >= view.at
<1>1. /\ now \in Nat /\ loads.live.at \in Nat /\ view.at \in Nat
      /\ loads \in [{"live", "older"} -> LoadSet]
  BY LiveTypes
<1>2. Requests # {} BY RequestAssumption
<1>3. CASE Tick
  <2>1. ticked' = TRUE /\ Switch(active) /\ active' = active /\ stream' = stream
        /\ view' = view /\ alive' = alive
    BY <1>3 DEF Tick
  <2>2. loads'.live.spec = active /\ loads'.live.at = now /\ loads'.live.left = Requests
    BY <2>1, SwitchTo
  <2>3. view.at <= now BY <1>1 DEF LiveInv
  <2>4. LiveInv' BY <1>1, <1>2, <2>1, <2>2, <2>3 DEF LiveInv, UpToDate
  <2>5. QED BY <2>1, <2>4
<1>4. CASE \E w \in Clicked : Pick(w)
  <2>1. PICK w \in Clicked : Pick(w) BY <1>4
  <2>2. active' = w /\ ticked' = ticked /\ stream' = stream /\ view' = view
        /\ alive' = alive
    BY <2>1 DEF Pick
  <2>3. CASE ticked /\ stream = "open"
    <3>1. loads'.live.spec = w /\ loads'.live.at = now /\ loads'.live.left = Requests
      BY <2>1, <2>3, SwitchTo DEF Pick
    <3>2. view.at <= now BY <1>1 DEF LiveInv
    <3>3. LiveInv' BY <1>1, <1>2, <2>2, <2>3, <3>1, <3>2 DEF LiveInv, UpToDate
    <3>4. QED BY <2>2, <3>3
  <2>4. CASE ~(ticked /\ stream = "open")
    <3>1. loads' = loads BY <2>1, <2>4 DEF Pick
    <3>2. LiveInv' BY <2>2, <2>4, <3>1 DEF LiveInv, UpToDate
    <3>3. QED BY <2>2, <3>2
  <2>5. QED BY <2>3, <2>4
<1>5. CASE \E k \in {"live", "older"}, r \in Requests : Answer(k, r)
  <2>1. PICK k \in {"live", "older"}, r \in Requests : Answer(k, r) BY <1>5
  <2>2. active' = active /\ ticked' = ticked /\ stream' = stream /\ alive' = alive
    BY <2>1 DEF Answer
  <2>3. r \in loads[k].left /\ loads' = [loads EXCEPT ![k].left = @ \ {r}]
    BY <2>1 DEF Answer
  <2>4. loads'[k] = [spec |-> loads[k].spec, at |-> loads[k].at, left |-> loads[k].left \ {r}]
        /\ \A j \in {"live", "older"} : j # k => loads'[j] = loads[j]
    BY <2>3, LeftType
  <2>5. loads'.live.spec = loads.live.spec /\ loads'.live.at = loads.live.at
    BY <2>4
  <2>6. loads.live.left = {} => loads'.live.left = {}
    BY <2>3, <2>4
  <2>7. CASE loads[k].left = {r} /\ ListenedTo(k)
    <3>1. k = "live" /\ stream = "open" /\ alive BY <2>7 DEF ListenedTo
    <3>2. view' = [spec |-> loads.live.spec, at |-> loads.live.at]
      BY <2>1, <2>7, <3>1 DEF Answer
    <3>3. view'.spec = loads.live.spec /\ view'.at = loads.live.at BY <3>2
    <3>4. ticked BY <2>3, <3>1 DEF LiveInv
    <3>5. loads.live.spec = active BY <3>1, <3>4 DEF LiveInv
    <3>6. LiveInv' BY <1>1, <2>2, <2>5, <3>3, <3>4, <3>5 DEF LiveInv, UpToDate
    <3>7. QED BY <1>1, <2>2, <3>3, <3>5, <3>6 DEF LiveInv
  <2>8. CASE ~(loads[k].left = {r} /\ ListenedTo(k))
    <3>1. view' = view BY <2>1, <2>8 DEF Answer
    <3>2. alive /\ stream = "open" /\ loads'.live.left = {} => loads.live.left = {}
      <4>1. CASE k = "live"
        <5>1. alive /\ stream = "open" => loads.live.left # {r} BY <2>8, <4>1 DEF ListenedTo
        <5>2. loads'.live.left = loads.live.left \ {r} BY <2>4, <4>1
        <5>3. QED BY <2>3, <4>1, <5>1, <5>2
      <4>2. CASE k = "older" BY <2>4, <4>2
      <4>3. QED BY <4>1, <4>2
    <3>3. LiveInv' BY <2>2, <2>5, <2>6, <3>1, <3>2 DEF LiveInv, UpToDate
    <3>4. QED BY <3>1, <3>3
  <2>9. QED BY <2>7, <2>8
<1>6. CASE \E k \in {"live", "older"}, r \in Requests : Fail(k, r)
  <2>1. PICK k \in {"live", "older"}, r \in Requests : Fail(k, r) BY <1>6
  <2>2. active' = active /\ ticked' = ticked /\ alive' = alive /\ view' = view
        /\ stream' = (IF k = "live" THEN "ended" ELSE stream)
    BY <2>1 DEF Fail
  <2>3. r \in loads[k].left /\ loads' = [loads EXCEPT ![k].left = @ \ {r}]
    BY <2>1 DEF Fail
  <2>4. loads'[k] = [spec |-> loads[k].spec, at |-> loads[k].at, left |-> loads[k].left \ {r}]
        /\ \A j \in {"live", "older"} : j # k => loads'[j] = loads[j]
    BY <2>3, LeftType
  <2>5. loads'.live.spec = loads.live.spec /\ loads'.live.at = loads.live.at
    BY <2>4
  <2>6. loads.live.left = {} => loads'.live.left = {}
    BY <2>3, <2>4
  <2>7. stream' = "open" => stream = "open" /\ loads'.live = loads.live
    BY <2>2, <2>4
  <2>8. LiveInv' BY <2>2, <2>5, <2>6, <2>7 DEF LiveInv, UpToDate
  <2>9. QED BY <2>2, <2>8
<1>7. CASE Destroy
  <2>1. alive' = FALSE /\ active' = active /\ ticked' = ticked /\ stream' = stream
        /\ loads' = loads /\ view' = view
    BY <1>7 DEF Destroy
  <2>2. QED BY <2>1 DEF LiveInv, UpToDate
<1>8. QED BY <1>3, <1>4, <1>5, <1>6, <1>7 DEF LiveNext

LEMMA LiveUnchanged ==
  ASSUME TypeOK, LiveInv, now' >= now, now' \in Nat, UNCHANGED liveVars
  PROVE  LiveInv' /\ view' = view
<1>1. /\ alive' = alive /\ active' = active /\ ticked' = ticked /\ stream' = stream
      /\ loads' = loads /\ view' = view
  BY DEF liveVars
<1>2. loads.live.at <= now' BY LiveTypes DEF LiveInv
<1>3. QED BY <1>1, <1>2 DEF LiveInv, UpToDate

LEMMA StepLive ==
  ASSUME TypeOK, LiveInv, [Next]_vars
  PROVE  /\ LiveInv'
         /\ view' # view => view'.spec = active' /\ view'.at >= view.at
<1>1. now \in Nat BY LiveTypes
<1>2. CASE Live BY <1>2, LiveStep DEF Live
<1>3. CASE Server
  <2>1. now' = now /\ UNCHANGED liveVars BY <1>3 DEF Server
  <2>2. now' >= now /\ now' \in Nat BY <1>1, <2>1
  <2>3. QED BY <2>1, <2>2, LiveUnchanged
<1>4. CASE Advance
  <2>1. now' >= now /\ now' \in Nat /\ UNCHANGED liveVars BY <1>1, <1>4 DEF Advance
  <2>2. QED BY <2>1, LiveUnchanged
<1>5. CASE UNCHANGED vars
  <2>1. now' = now /\ UNCHANGED liveVars BY <1>5 DEF vars
  <2>2. now' >= now /\ now' \in Nat BY <1>1, <2>1
  <2>3. QED BY <2>1, <2>2, LiveUnchanged
<1>6. QED BY <1>2, <1>3, <1>4, <1>5 DEF Next

LEMMA LiveInvCorrect == Spec => []LiveInv
<1>1. TypeOK /\ LiveInv /\ [Next]_vars => LiveInv' BY StepLive
<1>2. QED BY <1>1, InitLive, TypeCorrect, PTL DEF Spec

(* While the stream is open and the last load is through, the dashboard shows *)
(* the active window as that load asked for it.                              *)
THEOREM UpToDateCorrect == Spec => []UpToDate
<1>1. LiveInv => UpToDate BY DEF LiveInv
<1>2. QED BY <1>1, LiveInvCorrect, PTL

(* What is shown changes only to an answer for the active window, and never   *)
(* to an older one, whatever order loads are answered in.                    *)
THEOREM NeverBackCorrect == Spec => NeverBack
<1>1. TypeOK /\ LiveInv /\ [Next]_vars =>
        [view' # view => view'.spec = active' /\ view'.at >= view.at]_vars
  BY StepLive
<1>2. QED BY <1>1, LiveInvCorrect, TypeCorrect, PTL DEF Spec, NeverBack

----------------------------------------------------------------------------
(* Pages rendered on the server *)

PageInv ==
  /\ opened <= now
  /\ \A tile \in DOMAIN asked : asked[tile] >= opened
  /\ page # "overview" => \A tile \in DOMAIN asked \ {"site"} : asked[tile] = opened
  /\ phase = "shown" => got = PageTiles(page)

LEMMA PageTypes ==
  ASSUME TypeOK
  PROVE  /\ now \in Nat /\ opened \in Nat /\ got \subseteq DOMAIN asked
         /\ \A tile \in DOMAIN asked : asked[tile] \in Nat
<1>1. \A tile \in DOMAIN asked : asked[tile] \in 0 .. MaxNow BY DEF TypeOK
<1>2. QED BY <1>1, NowAssumption DEF TypeOK

LEMMA PageUnchanged ==
  ASSUME TypeOK, PageInv, now' >= now, now' \in Nat, UNCHANGED serverVars
  PROVE  PageInv'
<1>1. page' = page /\ phase' = phase /\ opened' = opened /\ asked' = asked /\ got' = got
  BY DEF serverVars
<1>2. opened <= now' BY PageTypes DEF PageInv
<1>3. PageTiles(page') = PageTiles(page) BY <1>1
<1>4. QED BY <1>1, <1>2, <1>3 DEF PageInv

LEMMA AskedTooKeeps ==
  ASSUME TypeOK, PageInv, NEW x
  PROVE  /\ DOMAIN AskedToo(x) = DOMAIN asked \cup {x}
         /\ \A tile \in DOMAIN AskedToo(x) : AskedToo(x)[tile] >= opened
         /\ \A tile \in DOMAIN AskedToo(x) \ {x} :
              tile \in DOMAIN asked /\ AskedToo(x)[tile] = asked[tile]
<1>1. now >= opened BY PageTypes DEF PageInv
<1>2. QED BY <1>1 DEF AskedToo, PageInv

LEMMA ServerStep ==
  ASSUME TypeOK, PageInv, ServerNext, now' = now
  PROVE  PageInv'
<1>1. now \in Nat /\ opened \in Nat BY PageTypes
<1>2. CASE Seed
  <2>1. page' = page /\ phase' = phase /\ opened' = opened /\ asked' = asked /\ got' = got
    BY <1>2 DEF Seed
  <2>2. PageTiles(page') = PageTiles(page) BY <2>1
  <2>3. QED BY <2>1, <2>2 DEF PageInv
<1>3. CASE \E p \in Pages : Open(p)
  <2>1. PICK p \in Pages : Open(p) BY <1>3
  <2>2. page' = p /\ opened' = now /\ phase' # "shown"
    BY <2>1 DEF Open
  <2>3. \/ p # "overview" /\ asked' = [tile \in PageTiles(p) \ {"site"} |-> now]
        \/ asked' = <<>>
    BY <2>1 DEF Open
  <2>4. \A tile \in DOMAIN asked' : asked'[tile] = now
    BY <2>3
  <2>5. QED BY <1>1, <2>2, <2>4 DEF PageInv
<1>4. CASE \E tile \in AllTiles \cup {"events", "site"} : Ask(tile)
  <2>1. PICK tile \in AllTiles \cup {"events", "site"} : Ask(tile) BY <1>4
  <2>2. asked' = AskedToo(tile) /\ page = "overview" /\ phase = "rendering" /\ page' = page
        /\ phase' = phase /\ opened' = opened
    BY <2>1 DEF Ask
  <2>3. \A x \in DOMAIN asked' : asked'[x] >= opened BY <2>2, AskedTooKeeps
  <2>4. QED BY <2>2, <2>3 DEF PageInv
<1>5. CASE \E tile \in AllTiles \cup {"events", "site"} : Answered(tile)
  <2>1. PICK tile \in AllTiles \cup {"events", "site"} : Answered(tile) BY <1>5
  <2>2. page' = page /\ opened' = opened /\ phase = "rendering"
        /\ phase' = (IF Complete THEN "shown" ELSE phase)
    BY <2>1 DEF Answered
  <2>3. \/ asked' = asked
        \/ asked' = AskedToo("site")
    BY <2>1 DEF Answered
  <2>4. /\ \A x \in DOMAIN asked' : asked'[x] >= opened
        /\ \A x \in DOMAIN asked' \ {"site"} : x \in DOMAIN asked /\ asked'[x] = asked[x]
    <3>1. CASE asked' = asked BY <3>1 DEF PageInv
    <3>2. CASE asked' = AskedToo("site") BY <3>2, AskedTooKeeps
    <3>3. QED BY <2>3, <3>1, <3>2
  <2>5. phase' = "shown" => got' = PageTiles(page') BY <2>2 DEF Complete
  <2>6. QED BY <2>2, <2>4, <2>5 DEF PageInv
<1>6. CASE \E tile \in AllTiles \cup {"events", "site"} : Failed(tile)
  <2>1. PICK tile \in AllTiles \cup {"events", "site"} : Failed(tile) BY <1>6
  <2>2. page' = page /\ phase' = "error" /\ opened' = opened /\ asked' = asked /\ got' = got
    BY <2>1 DEF Failed
  <2>3. QED BY <2>2 DEF PageInv
<1>7. QED BY <1>2, <1>3, <1>4, <1>5, <1>6 DEF ServerNext

(* A page is shown with all of its tiles, each asked for while this page was  *)
(* rendered, and all but the overview's about one and the same window.       *)
THEOREM PageWholeCorrect == Spec => []PageWhole
<1>1. Init => PageInv
  <2> SUFFICES ASSUME Init PROVE PageInv OBVIOUS
  <2>1. asked = <<>> /\ opened = 0 /\ phase = "idle" /\ now \in Nat
    BY DEF Init, ServerInit
  <2>2. DOMAIN asked = {} BY <2>1
  <2>3. QED BY <2>1, <2>2 DEF PageInv
<1>2. TypeOK /\ PageInv /\ [Next]_vars => PageInv'
  <2> SUFFICES ASSUME TypeOK, PageInv, [Next]_vars PROVE PageInv' OBVIOUS
  <2>1. now \in Nat BY PageTypes
  <2>2. CASE Server BY <2>2, ServerStep DEF Server
  <2>3. CASE Live \/ UNCHANGED vars
    <3>1. now' = now /\ UNCHANGED serverVars BY <2>3 DEF Live, vars
    <3>2. now' >= now /\ now' \in Nat BY <2>1, <3>1
    <3>3. QED BY <3>1, <3>2, PageUnchanged
  <2>4. CASE Advance
    <3>1. now' >= now /\ now' \in Nat /\ UNCHANGED serverVars BY <2>1, <2>4 DEF Advance
    <3>2. QED BY <3>1, PageUnchanged
  <2>5. QED BY <2>2, <2>3, <2>4 DEF Next
<1>3. TypeOK /\ PageInv => PageWhole
  BY PageTypes DEF PageInv, PageWhole
<1>4. QED BY <1>1, <1>2, <1>3, TypeCorrect, PTL DEF Spec

----------------------------------------------------------------------------
(* Induction                                                                 *)

(* Every non-empty set of naturals has a least element; with it, what holds   *)
(* of the naturals by induction is proved by a least counterexample.         *)
LEMMA LeastNumber ==
  ASSUME NEW S \in SUBSET Nat, S # {}
  PROVE  \E m \in S : \A x \in S : m <= x
<1> DEFINE R == OpToRel(<, Nat)
<1>1. \A x, y \in Nat : x < y => <<x, y>> \in R BY DEF OpToRel
<1>2. IsWellFoundedOn(R, Nat) BY NatLessThanWellFounded
<1> HIDE DEF R
<1>3. PICK m \in S : \A x \in S : ~(<<x, m>> \in R) BY <1>2, WFMin
<1>4. \A x \in S : ~(x < m) BY <1>1, <1>3
<1>5. QED BY <1>4

(* Induction up to n, for a set in the place of a predicate. *)
LEMMA UpTo ==
  ASSUME NEW n \in Nat, NEW G, 0 \in G, \A k \in 1 .. n : k - 1 \in G => k \in G
  PROVE  \A k \in 0 .. n : k \in G
<1> DEFINE Bad == {k \in 0 .. n : k \notin G}
<1>1. Bad \in SUBSET Nat OBVIOUS
<1>2. \A k : k \in Bad <=> k \in 0 .. n /\ k \notin G OBVIOUS
<1> HIDE DEF Bad
<1>3. ASSUME Bad # {} PROVE FALSE
  <2>1. PICK m \in Bad : \A x \in Bad : m <= x BY <1>1, <1>3, LeastNumber
  <2>2. m \in 1 .. n BY <1>2
  <2>3. m - 1 \notin Bad BY <2>1, <2>2
  <2>4. m - 1 \in G BY <1>2, <2>2, <2>3
  <2>5. QED BY <1>2, <2>2, <2>4
<1>4. QED BY <1>2, <1>3
----------------------------------------------------------------------------
(* Greatest and least                                                        *)

LEMMA GreatestIs ==
  ASSUME NEW S, NEW m \in S, \A x \in S : x <= m, S \subseteq Int
  PROVE  Greatest(S) = m
<1>1. Greatest(S) \in S /\ \A x \in S : x <= Greatest(S) BY DEF Greatest
<1>2. m <= Greatest(S) /\ Greatest(S) <= m BY <1>1
<1>3. m \in Int /\ Greatest(S) \in Int BY <1>1
<1> HIDE DEF Greatest
<1>4. QED BY <1>2, <1>3

LEMMA LeastIs ==
  ASSUME NEW S, NEW m \in S, \A x \in S : m <= x, S \subseteq Int
  PROVE  Least(S) = m
<1>1. Least(S) \in S /\ \A x \in S : Least(S) <= x BY DEF Least
<1>2. m <= Least(S) /\ Least(S) <= m BY <1>1
<1>3. m \in Int /\ Least(S) \in Int BY <1>1
<1>4. QED BY <1>2, <1>3

LEMMA GreaterOfTwo ==
  ASSUME NEW x \in Int, NEW y \in Int
  PROVE  Greatest({x, y}) = IF x <= y THEN y ELSE x
<1> DEFINE S == {x, y}
           m == IF x <= y THEN y ELSE x
<1>1. m \in S /\ S \subseteq Int /\ \A z \in S : z <= m OBVIOUS
<1> HIDE DEF S, m
<1>2. Greatest(S) = m BY <1>1, GreatestIs
<1>3. QED BY <1>2 DEF S, m

LEMMA LesserOfTwo ==
  ASSUME NEW x \in Int, NEW y \in Int
  PROVE  Least({x, y}) = IF x <= y THEN x ELSE y
<1> DEFINE S == {x, y}
           m == IF x <= y THEN x ELSE y
<1>1. m \in S /\ S \subseteq Int /\ \A z \in S : m <= z OBVIOUS
<1> HIDE DEF S, m
<1>2. Least(S) = m BY <1>1, LeastIs
<1>3. QED BY <1>2 DEF S, m

(* The numbers of a sequence have an upper bound. *)
LEMMA Bounded ==
  ASSUME NEW s \in Seq(Nat)
  PROVE  \E b \in Nat : \A i \in 1 .. Len(s) : s[i] <= b
<1> DEFINE G == {k \in Nat : \E b \in Nat : \A i \in 1 .. k : s[i] <= b}
<1>1. \A k : k \in G <=> k \in Nat /\ \E b \in Nat : \A i \in 1 .. k : s[i] <= b
  OBVIOUS
<1> HIDE DEF G
<1>2. Len(s) \in Nat /\ \A i \in 1 .. Len(s) : s[i] \in Nat OBVIOUS
<1>3. 0 \in G
  <2>1. \A i \in 1 .. 0 : s[i] <= 0 OBVIOUS
  <2>2. QED BY <1>1, <2>1
<1>4. ASSUME NEW k \in 1 .. Len(s), k - 1 \in G PROVE k \in G
  <2>1. PICK b \in Nat : \A i \in 1 .. k - 1 : s[i] <= b BY <1>1, <1>4
  <2>2. s[k] \in Nat BY <1>2
  <2>3. PICK c \in Nat : b <= c /\ s[k] <= c
    <3>1. CASE s[k] <= b BY <2>1, <3>1
    <3>2. CASE ~(s[k] <= b) BY <2>1, <2>2, <3>2
    <3>3. QED BY <3>1, <3>2
  <2>4. ASSUME NEW i \in 1 .. k PROVE s[i] <= c
    <3>1. CASE i = k BY <2>3, <3>1
    <3>2. CASE i # k
      <4>1. i \in 1 .. k - 1 /\ i \in 1 .. Len(s) BY <1>2, <3>2
      <4>2. s[i] <= b /\ s[i] \in Nat BY <1>2, <2>1, <4>1
      <4>3. QED BY <2>1, <2>3, <4>2
    <3>3. QED BY <3>1, <3>2
  <2>5. k \in Nat BY <1>2
  <2>6. QED BY <1>1, <2>3, <2>4, <2>5
<1>5. Len(s) \in G
  <2>1. \A k \in 0 .. Len(s) : k \in G BY <1>2, <1>3, <1>4, UpTo
  <2>2. QED BY <1>2, <2>1
<1>6. QED BY <1>1, <1>5

(* So a set of its numbers, and of a first one, has a greatest element.       *)
LEMMA GreatestOf ==
  ASSUME NEW s \in Seq(Nat), NEW first \in Nat
  PROVE  LET S == {first} \cup {s[i] : i \in 1 .. Len(s)} IN
         Greatest(S) \in S /\ \A x \in S : x <= Greatest(S)
<1> DEFINE S == {first} \cup {s[i] : i \in 1 .. Len(s)}
           Above == {b \in Nat : \A x \in S : x <= b}
<1>1. S \subseteq Nat /\ first \in S OBVIOUS
<1>2. PICK b \in Nat : \A x \in S : x <= b
  <2>1. PICK b \in Nat : \A i \in 1 .. Len(s) : s[i] <= b BY Bounded
  <2>2. \A i \in 1 .. Len(s) : s[i] \in Nat OBVIOUS
  <2>3. \A i \in 1 .. Len(s) : s[i] <= b + first BY <2>1, <2>2
  <2>4. b + first \in Nat /\ first <= b + first BY <2>1
  <2>5. \A x \in S : x <= b + first BY <2>3, <2>4
  <2>6. QED BY <2>4, <2>5
<1>3. \A c : c \in Above <=> c \in Nat /\ \A x \in S : x <= c OBVIOUS
<1> HIDE DEF Above, S
<1>4. Above \in SUBSET Nat /\ Above # {} BY <1>2, <1>3
<1>5. PICK m \in Above : \A c \in Above : m <= c BY <1>4, LeastNumber
<1>6. m \in Nat /\ \A x \in S : x <= m BY <1>3, <1>5
<1>7. m \in S
  <2>1. ASSUME m \notin S PROVE FALSE
    <3>1. \A x \in S : x <= m - 1 BY <1>1, <1>6, <2>1
    <3>2. m - 1 \in Nat BY <1>1, <1>6, <3>1
    <3>3. m - 1 \in Above BY <1>3, <3>1, <3>2
    <3>4. m <= m - 1 BY <1>5, <3>3
    <3>5. QED BY <1>6, <3>4
  <2>2. QED BY <2>1
<1>8. S \subseteq Int BY <1>1
<1>9. Greatest(S) = m BY <1>6, <1>7, <1>8, GreatestIs
<1>10. QED BY <1>6, <1>7, <1>9 DEF S

----------------------------------------------------------------------------
(* Totals                                                                    *)

(* The running totals of a sequence are well defined. *)
LEMMA TotalsExist ==
  ASSUME NEW s \in Seq(Nat)
  PROVE  \E f : f = [i \in 0 .. Len(s) |-> IF i = 0 THEN 0 ELSE f[i - 1] + s[i]]
<1> DEFINE Sums(f, k) == f = [i \in 0 .. k |-> IF i = 0 THEN 0 ELSE f[i - 1] + s[i]]
           G == {k \in Nat : \E f : Sums(f, k)}
<1>1. \A k : k \in G <=> k \in Nat /\ \E f : Sums(f, k) OBVIOUS
<1> HIDE DEF G
<1>2. 0 \in G
  <2> DEFINE g == [i \in 0 .. 0 |-> 0]
  <2>1. g = [i \in 0 .. 0 |-> IF i = 0 THEN 0 ELSE g[i - 1] + s[i]]
    <3>1. \A i \in 0 .. 0 : i = 0 OBVIOUS
    <3>2. QED BY <3>1
  <2> HIDE DEF g
  <2>2. Sums(g, 0) BY <2>1
  <2> HIDE DEF Sums
  <2>3. QED BY <1>1, <2>2
<1>3. ASSUME NEW k \in 1 .. Len(s), k - 1 \in G PROVE k \in G
  <2>1. PICK f : Sums(f, k - 1)
    <3> HIDE DEF Sums
    <3>1. QED BY <1>1, <1>3
  <2>2. f = [i \in 0 .. k - 1 |-> IF i = 0 THEN 0 ELSE f[i - 1] + s[i]] BY <2>1
  <2> DEFINE g == [i \in 0 .. k |-> IF i = k THEN f[k - 1] + s[k] ELSE f[i]]
  <2>3. ASSUME NEW i \in 0 .. k
        PROVE  g[i] = IF i = 0 THEN 0 ELSE g[i - 1] + s[i]
    <3>1. CASE i = k
      <4>1. i - 1 \in 0 .. k /\ i - 1 # k /\ k # 0 BY <3>1
      <4>2. g[i - 1] = f[k - 1] BY <3>1, <4>1
      <4>3. g[i] = f[k - 1] + s[k] BY <3>1
      <4> HIDE DEF g
      <4>4. QED BY <3>1, <4>1, <4>2, <4>3
    <3>2. CASE i # k
      <4>1. g[i] = f[i] BY <3>2
      <4>2. i \in 0 .. k - 1 BY <3>2
      <4>3. f[i] = IF i = 0 THEN 0 ELSE f[i - 1] + s[i] BY <2>2, <4>2
      <4>4. i # 0 => i - 1 \in 0 .. k /\ i - 1 # k BY <4>2
      <4>5. i # 0 => g[i - 1] = f[i - 1] BY <4>4
      <4> HIDE DEF g
      <4>6. QED BY <4>1, <4>3, <4>5
    <3>3. QED BY <3>1, <3>2
  <2>4. g = [i \in 0 .. k |-> g[i]] OBVIOUS
  <2> HIDE DEF g
  <2>5. g = [i \in 0 .. k |-> IF i = 0 THEN 0 ELSE g[i - 1] + s[i]] BY <2>3, <2>4
  <2>6. Sums(g, k) BY <2>5
  <2>7. k \in Nat OBVIOUS
  <2> HIDE DEF Sums
  <2>8. QED BY <1>1, <2>6, <2>7
<1>4. Len(s) \in G
  <2>1. Len(s) \in Nat OBVIOUS
  <2>2. \A k \in 0 .. Len(s) : k \in G BY <1>2, <1>3, <2>1, UpTo
  <2>3. QED BY <2>1, <2>2
<1>5. PICK f : Sums(f, Len(s))
  <2> HIDE DEF Sums
  <2>1. QED BY <1>1, <1>4
<1>6. QED BY <1>5

LEMMA TotalType == ASSUME NEW s \in Seq(Nat) PROVE Total(s) \in Nat
<1> DEFINE n == Len(s)
           upTo == CHOOSE f : f = [i \in 0 .. n |-> IF i = 0 THEN 0 ELSE f[i - 1] + s[i]]
           G == {k \in Nat : upTo[k] \in Nat}
<1>1. Total(s) = upTo[n] BY DEF Total
<1>2. upTo = [i \in 0 .. n |-> IF i = 0 THEN 0 ELSE upTo[i - 1] + s[i]]
  <2>1. \E f : f = [i \in 0 .. n |-> IF i = 0 THEN 0 ELSE f[i - 1] + s[i]] BY TotalsExist
  <2>2. QED BY <2>1
<1>3. n \in Nat /\ \A i \in 1 .. n : s[i] \in Nat OBVIOUS
<1> HIDE DEF upTo, n
<1>4. \A k : k \in G <=> k \in Nat /\ upTo[k] \in Nat OBVIOUS
<1> HIDE DEF G
<1>5. 0 \in G
  <2>1. upTo[0] = 0 BY <1>2, <1>3
  <2>2. QED BY <1>4, <2>1
<1>6. ASSUME NEW k \in 1 .. n, k - 1 \in G PROVE k \in G
  <2>1. upTo[k - 1] \in Nat /\ s[k] \in Nat BY <1>3, <1>4, <1>6
  <2>2. k \in 0 .. n /\ k # 0 /\ k \in Nat BY <1>3
  <2>3. upTo[k] = upTo[k - 1] + s[k] BY <1>2, <2>2
  <2>4. upTo[k] \in Nat BY <2>1, <2>3
  <2>5. QED BY <1>4, <2>2, <2>4
<1>7. n \in G
  <2>1. \A k \in 0 .. n : k \in G BY <1>3, <1>5, <1>6, UpTo
  <2>2. QED BY <1>3, <2>1
<1>8. QED BY <1>1, <1>4, <1>7
----------------------------------------------------------------------------
(* Shares                                                                    *)

LEMMA RoundNear ==
  ASSUME NEW n \in Nat, NEW unit \in Nat \ {0}
  PROVE  ShareReadsBack(Figure(n, unit, Round(n, unit)))
<1> DEFINE half == unit \div 2
           q == (n + half) \div unit
           shown == unit * q
           f == Figure(n, unit, Round(n, unit))
<1>1. half \in Nat /\ 2 * half <= unit /\ unit <= 2 * half + 1 OBVIOUS
<1>2. n + half \in Nat BY <1>1
<1>3. f.of = n /\ f.unit = unit /\ f.shown = shown BY DEF Figure, Round
<1> SUFFICES ShareReadsBack(f) OBVIOUS
<1> HIDE DEF half, f
<1>4. shown \in Int /\ shown <= n + half /\ n + half < shown + unit BY <1>2
<1> HIDE DEF shown
<1>5. CASE shown > n
  <2>1. Off(f) = shown - n BY <1>3, <1>5 DEF Off
  <2>2. 2 * (shown - n) <= unit BY <1>1, <1>4
  <2>3. QED BY <1>3, <2>1, <2>2 DEF ShareReadsBack
<1>6. CASE ~(shown > n)
  <2>1. Off(f) = n - shown BY <1>3, <1>6 DEF Off
  <2>2. 2 * (n - shown) <= unit BY <1>1, <1>4
  <2>3. QED BY <1>3, <2>1, <2>2 DEF ShareReadsBack
<1>7. QED BY <1>5, <1>6

(* Every share of a part in its whole, also in a whole of 0. *)
LEMMA QuotientReadsBack ==
  ASSUME NEW part \in Nat, NEW whole \in Nat, part <= whole
  PROVE  /\ ShareReadsBack(FormatPct(Quotient(part, whole)))
         /\ ShareReadsBack(FmtPct(Quotient(part, whole)))
<1> DEFINE q == Quotient(part, whole)
           n == 1000 * q.part
<1>1. q.part \in Nat /\ q.whole \in Nat \ {0} /\ q.part <= q.whole BY DEF Quotient
<1> HIDE DEF q
<1>2. n \in Nat BY <1>1
<1>3. /\ FormatPct(q) = Figure(n, q.whole, Round(n, q.whole))
      /\ FmtPct(q) = Figure(n, q.whole, Round(n, q.whole))
  BY <1>1 DEF FormatPct, FmtPct
<1> HIDE DEF n
<1>4. ShareReadsBack(Figure(n, q.whole, Round(n, q.whole))) BY <1>1, <1>2, RoundNear
<1>5. QED BY <1>3, <1>4 DEF q

----------------------------------------------------------------------------
(* Bars                                                                      *)

LEMMA DivMonotone ==
  ASSUME NEW x \in Nat, NEW y \in Nat, NEW d \in Nat \ {0}, x <= y
  PROVE  x \div d <= y \div d
<1> DEFINE p == x \div d
           q == y \div d
           left == d * p
           right == d * q
<1>1. /\ p \in Int /\ q \in Int /\ left <= x /\ y < right + d
      /\ left = d * p /\ right = d * q
  OBVIOUS
<1> HIDE DEF p, q
<1>2. ASSUME p > q PROVE FALSE
  <2>1. PICK r \in Nat : p = q + 1 + r
    <3>1. p - q - 1 \in Nat /\ p = q + 1 + (p - q - 1) BY <1>1, <1>2
    <3>2. QED BY <3>1
  <2>2. left = right + d + d * r
    <3>1. left = d * (q + 1 + r) BY <2>1
    <3>2. QED BY <1>1, <3>1
  <2>3. d * r >= 0 /\ d * r \in Int BY <2>1
  <2>4. left \in Int /\ right \in Int BY <1>1
  <2> DEFINE t == d * r
  <2>5. t >= 0 /\ t \in Int /\ left = right + d + t BY <2>2, <2>3
  <2> HIDE DEF t, left, right
  <2>6. QED BY <1>1, <2>4, <2>5
<1>3. p <= q BY <1>1, <1>2
<1>4. QED BY <1>3 DEF p, q

LEMMA DivNatural ==
  ASSUME NEW x \in Nat, NEW d \in Nat \ {0}
  PROVE  x \div d \in Nat
OBVIOUS

LEMMA BarInTrack ==
  ASSUME NEW v \in Nat, NEW w \in Nat, NEW longest \in Nat
  PROVE  /\ Bar(v, longest) \in 2 .. 100
         /\ v < w => Bar(v, longest) <= Bar(w, longest)
<1> DEFINE d == IF longest = 0 THEN 1 ELSE longest
           pct(x) == (100 * x) \div d
<1>1. d \in Nat \ {0} OBVIOUS
<1>2. \A x \in Nat : Bar(x, longest) = Greatest({2, Least({100, pct(x)})}) BY DEF Bar
<1> HIDE DEF d
<1>3. \A x \in Nat : pct(x) \in Nat BY <1>1, DivNatural
<1>4. v < w => pct(v) <= pct(w) BY <1>1, DivMonotone
<1> HIDE DEF pct
<1>5. ASSUME NEW x \in Nat
      PROVE  Bar(x, longest) = IF pct(x) <= 2 THEN 2 ELSE IF pct(x) <= 100 THEN pct(x) ELSE 100
  <2> DEFINE cut == Least({100, pct(x)})
  <2>1. pct(x) \in Int BY <1>3
  <2>2. cut = IF 100 <= pct(x) THEN 100 ELSE pct(x) BY <2>1, LesserOfTwo
  <2> HIDE DEF cut
  <2>3. cut \in Int BY <2>1, <2>2
  <2>4. Greatest({2, cut}) = IF 2 <= cut THEN cut ELSE 2 BY <2>3, GreaterOfTwo
  <2>5. Bar(x, longest) = Greatest({2, cut}) BY <1>2 DEF cut
  <2>6. QED BY <2>1, <2>2, <2>4, <2>5
<1>6. pct(v) \in Nat /\ pct(w) \in Nat BY <1>3
<1>7. /\ Bar(v, longest) = IF pct(v) <= 2 THEN 2 ELSE IF pct(v) <= 100 THEN pct(v) ELSE 100
      /\ Bar(w, longest) = IF pct(w) <= 2 THEN 2 ELSE IF pct(w) <= 100 THEN pct(w) ELSE 100
  BY <1>5
<1>8. QED BY <1>4, <1>6, <1>7

LEMMA RowsType ==
  ASSUME NEW rows \in Rows
  PROVE  /\ Len(rows) \in Nat /\ DOMAIN rows = 1 .. Len(rows)
         /\ \A i \in 1 .. Len(rows) : rows[i].value \in Nat
         /\ Values(rows) \in SUBSET Nat
         /\ Values(rows) = {rows[i].value : i \in 1 .. Len(rows)}
<1> DEFINE Row == [key : STRING, value : Nat]
<1>1. rows \in Seq(Row) BY DEF Rows
<1> HIDE DEF Row
<1>2. /\ Len(rows) \in Nat /\ DOMAIN rows = 1 .. Len(rows)
      /\ \A i \in 1 .. Len(rows) : rows[i] \in Row
  BY <1>1
<1>3. \A i \in 1 .. Len(rows) : rows[i].value \in Nat BY <1>2 DEF Row
<1>4. Values(rows) = {rows[i].value : i \in 1 .. Len(rows)} BY <1>2 DEF Values
<1>5. QED BY <1>2, <1>3, <1>4

LEMMA BarsOfRows ==
  ASSUME NEW rows \in Rows
  PROVE  BarsInTrack(BarsOf(rows))
<1> DEFINE n == Len(rows)
           longest == Greatest(Values(rows))
           s == [i \in 1 .. n |-> rows[i].value]
           bars == BarsOf(rows)
<1>1. CASE n = 0
  <2>1. DOMAIN bars = {} BY <1>1, RowsType DEF BarsOf
  <2>2. QED BY <2>1 DEF BarsInTrack
<1>2. CASE n # 0
  <2>1. n \in Nat /\ 1 \in 1 .. n BY <1>2, RowsType
  <2>2. s \in Seq(Nat) /\ Len(s) = n /\ \A i \in 1 .. n : s[i] = rows[i].value BY <2>1, RowsType
  <2>3. s[1] \in Nat /\ s[1] \in Values(rows) BY <2>1, <2>2, RowsType
  <2>4. {s[1]} \cup {s[i] : i \in 1 .. Len(s)} = Values(rows)
    <3>1. {s[i] : i \in 1 .. Len(s)} = Values(rows) BY <2>2, RowsType
    <3>2. QED BY <2>3, <3>1
  <2>5. longest \in Values(rows) BY <2>2, <2>3, <2>4, GreatestOf
  <2>6. longest \in Nat BY <2>5, RowsType
  <2> HIDE DEF longest, s
  <2>7. /\ DOMAIN bars = 1 .. n
        /\ \A i \in 1 .. n : /\ bars[i].value = rows[i].value
                             /\ bars[i].width = Bar(rows[i].value, longest)
    BY RowsType DEF BarsOf, longest
  <2> HIDE DEF bars
  <2>8. \A i \in 1 .. n : rows[i].value \in Nat BY RowsType
  <2>9. ASSUME NEW i \in 1 .. n, NEW j \in 1 .. n
        PROVE  /\ bars[i].width \in 2 .. 100
               /\ bars[i].value < bars[j].value => bars[i].width <= bars[j].width
    <3> DEFINE v == rows[i].value
               w == rows[j].value
    <3>1. v \in Nat /\ w \in Nat BY <2>8
    <3>2. bars[i].value = v /\ bars[i].width = Bar(v, longest) BY <2>7
    <3>3. bars[j].value = w /\ bars[j].width = Bar(w, longest) BY <2>7
    <3> HIDE DEF v, w
    <3>4. QED BY <2>6, <3>1, <3>2, <3>3, BarInTrack
  <2>10. BarsInTrack(bars) BY <2>7, <2>9 DEF BarsInTrack
  <2>11. QED BY <2>10 DEF bars
<1>3. QED BY <1>1, <1>2

(* The first rows of a list are rows, and no new ones. *)
LEMMA FirstRows ==
  ASSUME NEW rows \in Rows, NEW n \in Nat
  PROVE  /\ FirstOf(rows, n) \in Rows
         /\ Values(FirstOf(rows, n)) \subseteq Values(rows)
<1> DEFINE k == Least({n, Len(rows)})
           Row == [key : STRING, value : Nat]
           first == FirstOf(rows, n)
<1>1. Len(rows) \in Nat /\ rows \in Seq(Row) BY RowsType DEF Rows
<1>2. k = IF n <= Len(rows) THEN n ELSE Len(rows) BY <1>1, LesserOfTwo
<1>3. first = SubSeq(rows, 1, k) BY DEF FirstOf
<1> HIDE DEF k, Row, first
<1>4. k \in 0 .. Len(rows) BY <1>1, <1>2
<1>5. first \in Seq(Row) /\ Len(first) = k /\ \A i \in 1 .. k : first[i] = rows[i]
  BY <1>1, <1>3, <1>4
<1>6. first \in Rows BY <1>5 DEF Rows, Row
<1>7. Values(first) = {first[i].value : i \in 1 .. k} BY <1>5, <1>6, RowsType
<1>8. \A i \in 1 .. k : first[i].value \in Values(rows) BY <1>1, <1>4, <1>5, RowsType
<1>9. QED BY <1>6, <1>7, <1>8 DEF first
----------------------------------------------------------------------------
(* The chart                                                                 *)

(* A sequence between two more elements. *)
LEMMA Enclosed ==
  ASSUME NEW P, NEW s \in Seq(P), NEW first \in P, NEW last \in P
  PROVE  LET t == <<first>> \o s \o <<last>> IN
         /\ DOMAIN t = 1 .. Len(s) + 2 /\ t[1] = first /\ t[Len(s) + 2] = last
         /\ \A i \in 1 .. Len(s) : t[i + 1] = s[i]
<1> DEFINE n == Len(s)
           head == <<first>>
           foot == <<last>>
           open == head \o s
           t == open \o foot
<1>1. n \in Nat OBVIOUS
<1>2. head \in Seq(P) /\ Len(head) = 1 /\ head[1] = first OBVIOUS
<1>3. foot \in Seq(P) /\ Len(foot) = 1 /\ foot[1] = last OBVIOUS
<1> HIDE DEF head, foot
<1>4. /\ open \in Seq(P) /\ Len(open) = Len(head) + Len(s)
      /\ \A i \in 1 .. Len(head) + Len(s) :
           open[i] = IF i <= Len(head) THEN head[i] ELSE s[i - Len(head)]
  BY <1>2, ConcatProperties
<1> HIDE DEF open
<1>5. /\ t \in Seq(P) /\ Len(t) = Len(open) + Len(foot)
      /\ \A i \in 1 .. Len(open) + Len(foot) :
           t[i] = IF i <= Len(open) THEN open[i] ELSE foot[i - Len(open)]
  BY <1>3, <1>4, ConcatProperties
<1> HIDE DEF t
<1>6. Len(open) = n + 1 /\ Len(t) = n + 2 BY <1>1, <1>2, <1>3, <1>4, <1>5
<1> HIDE DEF n
<1>7. open[1] = first /\ t[1] = open[1]
  BY <1>1, <1>2, <1>3, <1>4, <1>5, <1>6 DEF n
<1>8. t[n + 2] = last
  <2> DEFINE j == n + 2
  <2>1. j \in 1 .. Len(open) + Len(foot) /\ ~(j <= Len(open)) /\ j - Len(open) = 1
    BY <1>1, <1>3, <1>6
  <2> HIDE DEF j
  <2>2. t[j] = foot[j - Len(open)] BY <1>5, <2>1
  <2>3. QED BY <1>3, <2>1, <2>2 DEF j
<1>9. ASSUME NEW i \in 1 .. n PROVE t[i + 1] = s[i]
  <2>1. /\ i + 1 \in 1 .. Len(open) + Len(foot) /\ i + 1 <= Len(open)
        /\ i + 1 \in 1 .. Len(head) + Len(s) /\ ~(i + 1 <= Len(head))
        /\ (i + 1) - Len(head) = i
    BY <1>1, <1>2, <1>3, <1>6 DEF n
  <2>2. t[i + 1] = open[i + 1] BY <1>5, <2>1
  <2>3. open[i + 1] = s[(i + 1) - Len(head)] BY <1>4, <2>1
  <2>4. QED BY <2>1, <2>2, <2>3
<1>10. DOMAIN t = 1 .. n + 2 BY <1>5, <1>6
<1>11. QED BY <1>7, <1>8, <1>9, <1>10 DEF t, open, head, foot, n

LEMMA ChartStaysInBox ==
  ASSUME NEW points \in Seq(Nat)
  PROVE  ChartInBox(TimeseriesChart(points))
<1> DEFINE n == Len(points)
           max == Greatest({1} \cup {points[i] : i \in 1 .. n})
           line == [i \in 1 .. n |-> [x |-> XOf(i - 1, n), y |-> YOf(points[i], max)]]
           first == [x |-> XOf(0, n), y |-> YOf(0, max)]
           last == [x |-> XOf(n - 1, n), y |-> 288 * max]
           area == IF n = 0 THEN <<>> ELSE <<first>> \o line \o <<last>>
           gaps == IF n > 1 THEN n - 1 ELSE 1
           c == TimeseriesChart(points)
<1>1. n \in Nat /\ \A i \in 1 .. n : points[i] \in Nat OBVIOUS
<1>2. max \in {1} \cup {points[i] : i \in 1 .. n} /\ \A i \in 1 .. n : points[i] <= max
  BY GreatestOf
<1>3. max \in Nat BY <1>1, <1>2
<1>4. /\ c.n = n /\ c.max = max /\ c.points = points /\ c.line = line /\ c.area = area
  BY DEF TimeseriesChart
<1> HIDE DEF n, max
<1>5. \A i \in 1 .. n : points[i] \in 0 .. max BY <1>1, <1>2, <1>3
<1> SUFFICES ChartInBox(c) OBVIOUS
<1> HIDE DEF c
<1>6. /\ gaps \in Nat /\ (n > 1 => gaps = n - 1)
      /\ \A i \in 1 .. n : XOf(i - 1, n) \in 8 * gaps .. 992 * gaps
  BY <1>1 DEF XOf
<1>7. \A v \in 0 .. max : YOf(v, max) \in 12 * max .. 288 * max BY <1>3 DEF YOf
<1>8. YOf(0, max) = 288 * max /\ 288 * max \in 12 * max .. 288 * max BY <1>3 DEF YOf
<1>9. /\ DOMAIN line = 1 .. n
      /\ \A i \in 1 .. n : line[i].x = XOf(i - 1, n) /\ line[i].y = YOf(points[i], max)
  OBVIOUS
<1>10. ASSUME NEW i \in 1 .. n, NEW j \in 1 .. n
       PROVE  /\ i < j => XOf(i - 1, n) < XOf(j - 1, n)
              /\ points[i] < points[j] => YOf(points[i], max) > YOf(points[j], max)
  <2>1. i < j => XOf(i - 1, n) < XOf(j - 1, n) BY <1>1 DEF XOf
  <2> DEFINE v == points[i]
             w == points[j]
  <2>2. v \in Nat /\ w \in Nat BY <1>1
  <2> HIDE DEF v, w
  <2>3. YOf(v, max) = 12 * max + 276 * max - 276 * v BY <1>3, <2>2 DEF YOf
  <2>4. YOf(w, max) = 12 * max + 276 * max - 276 * w BY <1>3, <2>2 DEF YOf
  <2>5. v < w => YOf(v, max) > YOf(w, max) BY <1>3, <2>2, <2>3, <2>4
  <2>6. QED BY <2>1, <2>5 DEF v, w
<1>11. n # 0 =>
         /\ DOMAIN area = 1 .. n + 2
         /\ area[1] = [x |-> XOf(0, n), y |-> YOf(0, max)]
         /\ area[n + 2] = [x |-> XOf(n - 1, n), y |-> 288 * max]
         /\ \A i \in 1 .. n : area[i + 1] = line[i]
  <2> DEFINE P == [x : Int, y : Int]
  <2>1. first \in P /\ last \in P /\ \A i \in 1 .. n : line[i] \in P
    BY <1>1, <1>3 DEF XOf, YOf
  <2> HIDE DEF P, first, last
  <2>2. line \in Seq(P) /\ Len(line) = n
    <3>1. line = [i \in 1 .. n |-> line[i]] OBVIOUS
    <3> HIDE DEF line
    <3>2. QED BY <1>1, <2>1, <3>1
  <2> HIDE DEF line
  <2>3. ASSUME n # 0
        PROVE  /\ DOMAIN area = 1 .. n + 2 /\ area[1] = first /\ area[n + 2] = last
               /\ \A i \in 1 .. n : area[i + 1] = line[i]
    <3>1. area = <<first>> \o line \o <<last>> BY <2>3
    <3> HIDE DEF area
    <3>2. QED BY <2>1, <2>2, <3>1, Enclosed
  <2>4. QED BY <2>3 DEF first, last
<1> HIDE DEF line, area, first, last, gaps
<1>12. ASSUME n # 0, NEW i \in 1 .. n + 2
       PROVE  /\ area[i].x \in 8 * gaps .. 992 * gaps
              /\ area[i].y \in 12 * max .. 288 * max
  <2>1. CASE i = 1
    <3>1. 1 \in 1 .. n BY <1>1, <1>12
    <3>2. XOf(0, n) \in 8 * gaps .. 992 * gaps BY <1>6, <3>1
    <3>3. QED BY <1>8, <1>11, <1>12, <2>1, <3>2
  <2>2. CASE i = n + 2
    <3>1. n \in 1 .. n BY <1>1, <1>12
    <3>2. XOf(n - 1, n) \in 8 * gaps .. 992 * gaps BY <1>6, <3>1
    <3>3. QED BY <1>8, <1>11, <1>12, <2>2, <3>2
  <2>3. CASE i # 1 /\ i # n + 2
    <3>1. i - 1 \in 1 .. n /\ (i - 1) + 1 = i BY <1>1, <1>12, <2>3
    <3>2. area[i] = line[i - 1] BY <1>11, <1>12, <3>1
    <3>3. area[i].x = XOf((i - 1) - 1, n) /\ area[i].y = YOf(points[i - 1], max)
      BY <1>9, <3>1, <3>2
    <3>4. XOf((i - 1) - 1, n) \in 8 * gaps .. 992 * gaps BY <1>6, <3>1
    <3>5. YOf(points[i - 1], max) \in 12 * max .. 288 * max BY <1>5, <1>7, <3>1
    <3>6. QED BY <3>3, <3>4, <3>5
  <2>4. QED BY <2>1, <2>2, <2>3
<1>13. DOMAIN area = IF n = 0 THEN {} ELSE 1 .. n + 2 BY <1>11 DEF area
<1>14. (IF c.n > 1 THEN c.n - 1 ELSE 1) = gaps BY <1>4 DEF gaps
<1>15. \A i \in DOMAIN area : /\ area[i].x \in 8 * gaps .. 992 * gaps
                              /\ area[i].y \in 12 * max .. 288 * max
  BY <1>12, <1>13
<1>16. \A i, j \in DOMAIN line :
         /\ i < j => line[i].x < line[j].x
         /\ points[i] < points[j] => line[i].y > line[j].y
  BY <1>9, <1>10
<1>17. n > 0 => area[1].y = 288 * max /\ area[n + 2].y = 288 * max BY <1>1, <1>8, <1>11
<1>18. QED BY <1>4, <1>14, <1>15, <1>16, <1>17 DEF ChartInBox

----------------------------------------------------------------------------
(* Drawings                                                                  *)

LEMMA NumbersReadBack ==
  ASSUME NEW n \in Nat
  PROVE  /\ ReadsBack(FormatInt(n)) /\ ReadsBack(FormatMs(n)) /\ ReadsBack(FormatDuration(n))
         /\ ReadsBack(FmtInt(n))
<1>1. ReadsBack(FmtInt(n)) BY DEF FmtInt, Figure, ReadsBack, Off
<1>2. QED BY <1>1, FormatIntReadsBack, FormatMsReadsBack, FormatDurationReadsBack

(* The form of an answer (AnswerAssumption), field by field. *)
LEMMA AnswerType ==
  ASSUME NEW a \in Answers
  PROVE  /\ a.summary.visitors \in Nat /\ a.summary.pageviews \in Nat
         /\ a.summary.sessions \in Nat /\ a.summary.avg \in Nat
         /\ a.summary.rows \in Nat /\ a.summary.bounces \in Nat
         /\ a.summary.bounces <= a.summary.rows
         /\ a.realtime.online \in Nat /\ a.realtime.pages \in Rows /\ a.realtime.hosts \in Rows
         /\ a.pages.rows \in Rows /\ a.pages.total \in Nat
         /\ \A v \in Values(a.pages.rows) : v \in Nat /\ v <= a.pages.total
         /\ a.points \in Seq(Nat)
<1> DEFINE m == a.summary
           r == a.realtime
           b == a.pages
<1>1. /\ m \in [visitors : Nat, pageviews : Nat, sessions : Nat, rows : Nat,
                bounces : Nat, avg : Nat]
      /\ m.bounces <= m.rows
      /\ r \in [online : Nat, pages : Rows, hosts : Rows]
      /\ b \in [rows : Rows, total : Nat]
      /\ \A v \in Values(b.rows) : v <= b.total
      /\ a.points \in Seq(Nat)
  BY AnswerAssumption
<1> HIDE DEF m, r, b
<1>2. b.rows \in Rows BY <1>1
<1>3. Values(b.rows) \in SUBSET Nat BY <1>2, RowsType
<1>4. /\ m.visitors \in Nat /\ m.pageviews \in Nat /\ m.sessions \in Nat /\ m.avg \in Nat
      /\ m.rows \in Nat /\ m.bounces \in Nat
  BY <1>1
<1>5. /\ r.online \in Nat /\ r.pages \in Rows /\ r.hosts \in Rows /\ b.total \in Nat
  BY <1>1
<1>6. \A v \in Values(b.rows) : v \in Nat /\ v <= b.total BY <1>1, <1>3
<1>7. QED BY <1>1, <1>2, <1>4, <1>5, <1>6 DEF m, r, b

LEMMA VitalsType ==
  ASSUME NEW a \in Answers, NEW m \in DOMAIN a.vitals
  PROVE  /\ a.vitals[m].p75 \in Nat /\ a.vitals[m].p95 \in Nat /\ a.vitals[m].samples \in Nat
         /\ \A k \in {"good", "ni", "poor"} :
              a.vitals[m][k] \in Nat /\ a.vitals[m][k] <= a.vitals[m].samples
<1> DEFINE d == a.vitals[m]
<1>1. a.vitals \in [DOMAIN a.vitals -> Distribution] BY AnswerAssumption
<1>2. d \in Distribution BY <1>1
<1>3. \A k \in {"good", "ni", "poor"} : d[k] <= d.samples BY AnswerAssumption
<1> HIDE DEF d
<1>4. d \in [p75 : Nat, p95 : Nat, samples : Nat, good : Nat, ni : Nat, poor : Nat]
  BY <1>2 DEF Distribution
<1>5. d.p75 \in Nat /\ d.p95 \in Nat /\ d.samples \in Nat BY <1>4
<1>6. d["good"] \in Nat /\ d["ni"] \in Nat /\ d["poor"] \in Nat BY <1>4
<1>7. \A k \in {"good", "ni", "poor"} : d[k] \in Nat BY <1>6
<1>8. QED BY <1>3, <1>5, <1>7 DEF d

(* The tiles, which both dashboards draw. *)
LEMMA SummaryDrawn ==
  ASSUME NEW a \in Answers
  PROVE  /\ \A f \in SummaryCards(a.summary).figures : ReadsBack(f)
         /\ \A f \in SummaryCards(a.summary).shares : ShareReadsBack(f)
BY AnswerType, NumbersReadBack, QuotientReadsBack DEF SummaryCards

LEMMA RealtimeDrawn ==
  ASSUME NEW a \in Answers
  PROVE  \A f \in Realtime(a.realtime).figures : ReadsBack(f)
<1> DEFINE first == FirstOf(a.realtime.pages, 5)
<1>1. a.realtime.online \in Nat /\ a.realtime.pages \in Rows BY AnswerType
<1>2. first \in Rows BY <1>1, FirstRows
<1>3. \A v \in Values(first) : v \in Nat BY <1>2, RowsType
<1>4. Realtime(a.realtime).figures =
        {FormatInt(a.realtime.online)} \cup {FormatInt(v) : v \in Values(first)}
  BY DEF Realtime
<1> HIDE DEF first
<1>5. QED BY <1>1, <1>3, <1>4, NumbersReadBack

LEMMA ListDrawn ==
  ASSUME NEW b, b.rows \in Rows, b.total \in Nat, \A v \in Values(b.rows) : v <= b.total
  PROVE  /\ \A f \in TopList(b).figures : ReadsBack(f)
         /\ \A f \in TopList(b).shares : ShareReadsBack(f)
         /\ BarsInTrack(TopList(b).bars)
<1>1. \A v \in Values(b.rows) : v \in Nat BY RowsType
<1>2. TopList(b).bars = BarsOf(b.rows) BY DEF TopList
<1>3. \A f \in TopList(b).figures : ReadsBack(f) BY <1>1, NumbersReadBack DEF TopList
<1>4. \A v \in Values(b.rows) : ShareReadsBack(FormatPct(Share(v, b)))
  BY <1>1, QuotientReadsBack DEF Share
<1>5. \A f \in TopList(b).shares : ShareReadsBack(f) BY <1>4 DEF TopList
<1>6. QED BY <1>2, <1>3, <1>5, BarsOfRows

LEMMA ChartDrawn ==
  ASSUME NEW points \in Seq(Nat)
  PROVE  /\ \A f \in TimeseriesChart(points).figures : ReadsBack(f)
         /\ ChartInBox(TimeseriesChart(points))
<1>1. TimeseriesChart(points).figures = {FormatInt(Total(points))} BY DEF TimeseriesChart
<1>2. QED BY <1>1, TotalType, NumbersReadBack, ChartStaysInBox

LEMMA CardsDrawn ==
  ASSUME NEW a \in Answers, NEW metrics
  PROVE  \A f \in WebVitalsCards(a.vitals, metrics).figures : ReadsBack(f)
<1>1. \A m \in DOMAIN a.vitals : /\ ReadsBack(FormatMs(a.vitals[m].p75))
                                 /\ ReadsBack(FormatInt(a.vitals[m].samples))
  BY VitalsType, NumbersReadBack
<1>2. WebVitalsCards(a.vitals, metrics).figures =
        {FormatMs(a.vitals[m].p75) : m \in (metrics \cap DOMAIN a.vitals) \ {"CLS"}}
        \cup {FormatInt(a.vitals[m].samples) : m \in metrics \cap DOMAIN a.vitals}
  BY DEF WebVitalsCards
<1>3. QED BY <1>1, <1>2

(* The live dashboard. *)
LEMMA LiveDrawn ==
  ASSUME NEW a \in Answers
  PROVE  Truly(LiveDrawing(a))
<1> DEFINE d == LiveDrawing(a)
           b == [a.pages EXCEPT !.rows = VisibleRows(@)]
<1>1. a.pages \in [rows : Rows, total : Nat] /\ a.points \in Seq(Nat)
  BY AnswerAssumption
<1>2. b.rows = FirstOf(a.pages.rows, 8) /\ b.total = a.pages.total BY <1>1 DEF VisibleRows
<1> HIDE DEF b
<1>3. b.rows \in Rows /\ b.total \in Nat /\ \A v \in Values(b.rows) : v <= b.total
  <2>1. a.pages.rows \in Rows /\ a.pages.total \in Nat BY <1>1
  <2>2. b.rows \in Rows /\ Values(b.rows) \subseteq Values(a.pages.rows)
    BY <1>2, <2>1, FirstRows
  <2>3. \A v \in Values(a.pages.rows) : v <= a.pages.total BY AnswerType
  <2>4. QED BY <1>2, <2>1, <2>2, <2>3
<1>4. /\ d.figures = SummaryCards(a.summary).figures \cup Realtime(a.realtime).figures
                     \cup TimeseriesChart(a.points).figures \cup TopList(b).figures
                     \cup WebVitalsCards(a.vitals, CoreVitals).figures
      /\ d.shares = SummaryCards(a.summary).shares \cup TopList(b).shares
      /\ d.bars = TopList(b).bars
      /\ d.chart = TimeseriesChart(a.points)
  BY DEF LiveDrawing, LiveSummary, LiveRealtime, LiveChart, LiveTopList, LiveCards, b
<1> SUFFICES Truly(d) OBVIOUS
<1>5. BadgesAgree(d)
  <2>1. "overview" \in Pages BY DEF Pages
  <2>2. QED BY <2>1, BadgesAgreeCorrect
<1> HIDE DEF d
<1>6. \A f \in d.figures : ReadsBack(f)
  BY <1>1, <1>3, <1>4, SummaryDrawn, RealtimeDrawn, ChartDrawn, ListDrawn, CardsDrawn
<1>7. \A f \in d.shares : ShareReadsBack(f) BY <1>3, <1>4, SummaryDrawn, ListDrawn
<1>8. BarsInTrack(d.bars) BY <1>3, <1>4, ListDrawn
<1>9. ChartInBox(d.chart) BY <1>1, <1>4, ChartDrawn
<1>10. QED BY <1>5, <1>6, <1>7, <1>8, <1>9 DEF Truly

(* The pages rendered on the server. *)
LEMMA OverviewDrawn ==
  ASSUME NEW a \in Answers
  PROVE  LET d == OverviewDrawing(a) IN
         /\ \A f \in d.figures : ReadsBack(f)
         /\ \A f \in d.shares : ShareReadsBack(f)
         /\ BarsInTrack(d.bars)
         /\ ChartInBox(d.chart)
<1> DEFINE d == OverviewDrawing(a)
           b == a.pages
<1>1. b.rows \in Rows /\ b.total \in Nat /\ (\A v \in Values(b.rows) : v <= b.total)
      /\ a.points \in Seq(Nat)
  BY AnswerType
<1> HIDE DEF b
<1>2. /\ d.figures = SummaryCards(a.summary).figures \cup Realtime(a.realtime).figures
                     \cup TimeseriesChart(a.points).figures \cup TopList(b).figures
                     \cup WebVitalsCards(a.vitals, CoreVitals).figures
      /\ d.shares = SummaryCards(a.summary).shares \cup TopList(b).shares
      /\ d.bars = TopList(b).bars
      /\ d.chart = TimeseriesChart(a.points)
  BY DEF OverviewDrawing, b
<1> HIDE DEF d
<1>3. \A f \in d.figures : ReadsBack(f)
  BY <1>1, <1>2, SummaryDrawn, RealtimeDrawn, ChartDrawn, ListDrawn, CardsDrawn
<1>4. \A f \in d.shares : ShareReadsBack(f) BY <1>1, <1>2, SummaryDrawn, ListDrawn
<1>5. BarsInTrack(d.bars) BY <1>1, <1>2, ListDrawn
<1>6. ChartInBox(d.chart) BY <1>1, <1>2, ChartDrawn
<1>7. QED BY <1>3, <1>4, <1>5, <1>6 DEF d

(* The other pages draw no bars and no chart. *)
LEMMA NothingDrawn == BarsInTrack(Nothing.bars) /\ ChartInBox(Nothing.chart)
<1>1. Nothing.bars = <<>> /\ Nothing.chart = TimeseriesChart(<<>>) BY DEF Nothing
<1>2. BarsInTrack(<<>>) BY DEF BarsInTrack
<1>3. <<>> \in Seq(Nat) OBVIOUS
<1>4. QED BY <1>1, <1>2, <1>3, ChartStaysInBox

LEMMA RealtimePageDrawn ==
  ASSUME NEW a \in Answers
  PROVE  LET d == RealtimePage(a) IN
         /\ \A f \in d.figures : ReadsBack(f)
         /\ \A f \in d.shares : ShareReadsBack(f)
         /\ d.bars = Nothing.bars /\ d.chart = Nothing.chart
<1> DEFINE d == RealtimePage(a)
           custom == CustomValues(a.pages.rows)
           counts == {a.realtime.online, a.summary.visitors, a.summary.pageviews,
                      a.summary.sessions, a.summary.avg}
                     \cup Values(FirstOf(a.realtime.pages, 10))
                     \cup Values(FirstOf(a.realtime.hosts, 10)) \cup custom
<1>1. custom \subseteq Values(a.pages.rows) BY DEF CustomValues, Values
<1>2. counts \subseteq Nat
  <2>1. Values(a.pages.rows) \subseteq Nat BY AnswerType
  <2>2. Values(FirstOf(a.realtime.pages, 10)) \subseteq Nat BY AnswerType, FirstRows, RowsType
  <2>3. Values(FirstOf(a.realtime.hosts, 10)) \subseteq Nat BY AnswerType, FirstRows, RowsType
  <2>4. {a.realtime.online, a.summary.visitors, a.summary.pageviews,
         a.summary.sessions, a.summary.avg} \subseteq Nat
    BY AnswerType
  <2> HIDE DEF custom
  <2>5. QED BY <1>1, <2>1, <2>2, <2>3, <2>4
<1>3. /\ d.figures = {FmtInt(n) : n \in counts}
      /\ d.shares = {FmtPct(Quotient(a.summary.bounces, a.summary.rows))}
                    \cup {FmtPct(Share(v, a.pages)) : v \in custom}
      /\ d.bars = Nothing.bars /\ d.chart = Nothing.chart
  BY DEF RealtimePage, Nothing
<1> HIDE DEF d, counts, custom
<1>4. \A f \in d.figures : ReadsBack(f) BY <1>2, <1>3, NumbersReadBack
<1>5. ShareReadsBack(FmtPct(Quotient(a.summary.bounces, a.summary.rows)))
  BY AnswerType, QuotientReadsBack
<1>6. \A v \in custom : ShareReadsBack(FmtPct(Share(v, a.pages)))
  BY <1>1, AnswerType, QuotientReadsBack DEF Share
<1>7. \A f \in d.shares : ShareReadsBack(f) BY <1>3, <1>5, <1>6
<1>8. QED BY <1>3, <1>4, <1>7 DEF d

LEMMA TopPagesPageDrawn ==
  ASSUME NEW a \in Answers
  PROVE  LET d == TopPagesPage(a) IN
         /\ \A f \in d.figures : ReadsBack(f)
         /\ \A f \in d.shares : ShareReadsBack(f)
         /\ d.bars = Nothing.bars /\ d.chart = Nothing.chart
<1> DEFINE d == TopPagesPage(a)
           counts == {a.pages.total} \cup Values(a.pages.rows)
<1>1. counts \subseteq Nat BY AnswerType
<1>2. /\ d.figures = {FmtInt(n) : n \in counts}
      /\ d.shares = {FmtPct(Share(v, a.pages)) : v \in Values(a.pages.rows)}
      /\ d.bars = Nothing.bars /\ d.chart = Nothing.chart
  BY DEF TopPagesPage, Nothing
<1> HIDE DEF d, counts
<1>3. \A f \in d.figures : ReadsBack(f) BY <1>1, <1>2, NumbersReadBack
<1>4. \A v \in Values(a.pages.rows) : ShareReadsBack(FmtPct(Share(v, a.pages)))
  BY AnswerType, QuotientReadsBack DEF Share
<1>5. \A f \in d.shares : ShareReadsBack(f) BY <1>2, <1>4
<1>6. QED BY <1>2, <1>3, <1>5 DEF d

LEMMA VitalsPageDrawn ==
  ASSUME NEW a \in Answers
  PROVE  LET d == VitalsPage(a) IN
         /\ \A f \in d.figures : ReadsBack(f)
         /\ \A f \in d.shares : ShareReadsBack(f)
         /\ d.bars = Nothing.bars /\ d.chart = Nothing.chart
<1> DEFINE d == VitalsPage(a)
           given == DOMAIN a.vitals
           Rated(m, k) == FmtPct(Quotient(a.vitals[m][k], a.vitals[m].samples))
           figures == {FmtInt(a.vitals[m].samples) : m \in given}
                      \cup {FormatMs(a.vitals[m].p75) : m \in given \ {"CLS"}}
                      \cup {FormatMs(a.vitals[m].p95) : m \in given \ {"CLS"}}
           shares == {Rated(m, k) : m \in given, k \in {"good", "ni", "poor"}}
<1>1. /\ d.figures = figures /\ d.shares = shares
      /\ d.bars = Nothing.bars /\ d.chart = Nothing.chart
  <2>1. d = [Nothing EXCEPT !.figures = figures, !.shares = shares] BY DEF VitalsPage
  <2> HIDE DEF d, figures, shares
  <2>2. QED BY <2>1 DEF Nothing
<1> HIDE DEF d
<1>2. \A m \in given : /\ ReadsBack(FmtInt(a.vitals[m].samples))
                       /\ ReadsBack(FormatMs(a.vitals[m].p75))
                       /\ ReadsBack(FormatMs(a.vitals[m].p95))
  BY VitalsType, NumbersReadBack
<1>3. \A m \in given, k \in {"good", "ni", "poor"} : ShareReadsBack(Rated(m, k))
  BY VitalsType, QuotientReadsBack
<1> HIDE DEF given, Rated
<1>4. \A f \in d.figures : ReadsBack(f) BY <1>1, <1>2
<1>5. \A f \in d.shares : ShareReadsBack(f) BY <1>1, <1>3
<1>6. QED BY <1>1, <1>4, <1>5 DEF d

LEMMA PageDrawn ==
  ASSUME NEW a \in Answers, NEW p \in Pages
  PROVE  Truly(ServerDrawing(p, a))
<1> DEFINE d == ServerDrawing(p, a)
<1> SUFFICES Truly(d) OBVIOUS
<1>1. BadgesAgree(d) BY BadgesAgreeCorrect
<1>2. p = "overview" => d = OverviewDrawing(a) BY DEF ServerDrawing
<1>3. p = "realtime" => d = RealtimePage(a) BY DEF ServerDrawing
<1>4. p = "pages" => d = TopPagesPage(a) BY DEF ServerDrawing
<1>5. p = "vitals" => d = VitalsPage(a) BY DEF ServerDrawing
<1> HIDE DEF d
<1>6. /\ \A f \in d.figures : ReadsBack(f)
      /\ \A f \in d.shares : ShareReadsBack(f)
      /\ BarsInTrack(d.bars)
      /\ ChartInBox(d.chart)
  <2>1. CASE p = "overview" BY <1>2, <2>1, OverviewDrawn
  <2>2. CASE p = "realtime" BY <1>3, <2>2, RealtimePageDrawn, NothingDrawn
  <2>3. CASE p = "pages"    BY <1>4, <2>3, TopPagesPageDrawn, NothingDrawn
  <2>4. CASE p = "vitals"   BY <1>5, <2>4, VitalsPageDrawn, NothingDrawn
  <2>5. QED BY <2>1, <2>2, <2>3, <2>4 DEF Pages
<1>7. QED BY <1>1, <1>6 DEF Truly

(* Whatever the server answers, what a dashboard or a page shows can be read  *)
(* back, stays inside its chart and its tracks, and agrees with the server's  *)
(* ratings (format.ts and the tiles).                                        *)
THEOREM DrawnTrulyCorrect == Spec => []DrawnTruly
<1>1. TypeOK => DrawnTruly
  <2> SUFFICES ASSUME TypeOK PROVE DrawnTruly OBVIOUS
  <2>1. LiveTruly BY LiveDrawn DEF LiveTruly
  <2>2. page \in Pages BY DEF TypeOK
  <2>3. PagesTruly[page] BY <2>2, PageDrawn DEF PagesTruly
  <2>4. QED BY <2>1, <2>3 DEF DrawnTruly
<1>2. QED BY <1>1, TypeCorrect, PTL
=============================================================================
