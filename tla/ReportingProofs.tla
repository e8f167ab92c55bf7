-------------------------- MODULE ReportingProofs --------------------------
(***************************************************************************)
(* Theorems about Reporting, for any finite set of events, any sessions,   *)
(* times, windows and sizes of inserts.                                    *)
(***************************************************************************)
EXTENDS Reporting, FiniteSetTheorems, TLAPS

(* No event of the insert under way is in a row yet, or was in a failed one. *)
BlockApart ==
  /\ \A r \in rows : r \subseteq Counted /\ \A e \in r : e \notin block
  /\ \A e \in block : e \notin torn

(* What the first query met is still there; nothing is ever deleted.         *)
FirstKept ==
  /\ report.start \subseteq events
  /\ report.at = "total" => report.first \subseteq Found(report.w, report.filter)
  /\ report.at = "shares" => report.first \subseteq report.second

(* Each window's query has met what it asks for and was there at the start.  *)
QueryMet ==
  /\ report.compare => report.at \in {"top", "previous", "done"}
  /\ report.at = "previous" \/ (report.at = "done" /\ report.compare) =>
       /\ \A e \in report.first : Inside(ts[e], report.w)
       /\ \A e \in report.start : Matches(e, report.w, report.filter) => e \in report.first
  /\ report.at = "done" /\ report.compare =>
       /\ \A e \in report.second : Inside(ts[e], CompareWindow(report.w))
       /\ \A e \in report.start :
            Matches(e, CompareWindow(report.w), report.filter) => e \in report.second

RollupInv == TypeOK /\ RollupExact /\ BlockApart

ReportInv == TypeOK /\ FirstKept /\ QueryMet

----------------------------------------------------------------------------
(* The rows a block adds *)

LEMMA NewRowsOfBlock ==
  ASSUME NEW B
  PROVE  /\ \A r \in NewRows(B) : r # {} /\ r \subseteq B /\ r \subseteq Counted
         /\ \A e \in B \cap Counted : \E r \in NewRows(B) : e \in r
         /\ \A r \in NewRows(B) : SameSession(r)
         /\ \A q, r \in NewRows(B) : q = r \/ q \cap r = {}
<1>1. \A r \in NewRows(B) : \E s : r = {e \in B \cap Counted : session[e] = s} /\ r # {}
  BY DEF NewRows
<1>2. \A e \in B \cap Counted :
        {f \in B \cap Counted : session[f] = session[e]} \in NewRows(B)
  BY DEF NewRows
<1>3. \A e \in B \cap Counted : \E r \in NewRows(B) : e \in r
  BY <1>2
<1>4. \A r \in NewRows(B) : SameSession(r)
  BY <1>1 DEF SameSession
<1>5. \A q, r \in NewRows(B) : q = r \/ q \cap r = {}
  BY <1>1
<1> QED
  BY <1>1, <1>3, <1>4, <1>5

----------------------------------------------------------------------------
(* Types *)

LEMMA TypeInit == Init => TypeOK
BY DEF Init, TypeOK, NoReport

LEMMA TypeStep == TypeOK /\ [Next]_vars => TypeOK'
<1> SUFFICES ASSUME TypeOK, [Next]_vars PROVE TypeOK'
  OBVIOUS
<1> USE DEF TypeOK, columns, tables
<1>1. ASSUME NEW B \in SUBSET (Events \ sent), BeginInsert(B) PROVE TypeOK'
  BY <1>1 DEF BeginInsert
<1>2. CASE StoreEvents
  BY <1>2 DEF StoreEvents
<1>3. CASE StoreRows
  <2>1. rows' = rows \cup NewRows(block)
    BY <1>3 DEF StoreRows
  <2>2. NewRows(block) \subseteq SUBSET block /\ {} \notin NewRows(block)
    BY NewRowsOfBlock
  <2> QED
    BY <1>3, <2>1, <2>2 DEF StoreRows
<1>4. CASE InsertFails
  <2>1. NewRows(block) \subseteq SUBSET block /\ {} \notin NewRows(block)
    BY NewRowsOfBlock
  <2> QED
    BY <1>4, <2>1 DEF InsertFails
<1>5. ASSUME NEW q \in rows, NEW r \in rows, Merge(q, r) PROVE TypeOK'
  BY <1>5 DEF Merge
<1>6. ASSUME NEW w \in Windows, NEW filter \in SUBSET Paths,
             (\E compare \in BOOLEAN : BeginSummary(w, filter, compare))
               \/ BeginBreakdown(w, filter)
      PROVE  TypeOK'
  <2>1. PICK at \in {"top", "page"}, compare \in BOOLEAN : Begin(at, w, filter, compare)
    BY <1>6 DEF BeginSummary, BeginBreakdown
  <2>2. report' = [report EXCEPT !.at = at, !.w = w, !.filter = filter,
                                 !.compare = compare, !.start = events]
    BY <2>1 DEF Begin
  <2>3. report' = [at |-> at, w |-> w, filter |-> filter, compare |-> compare,
                   start |-> events, first |-> report.first, second |-> report.second]
    BY <2>2
  <2> QED
    BY <2>1, <2>3 DEF Begin
<1>7. CASE TopLine \/ PreviousTopLine \/ PageThenTotal
  <2>1. \A w, filter : Found(w, filter) \subseteq sent
    BY DEF Found
  <2>2. report'.at \in {"previous", "total", "shares", "done"}
    BY <1>7 DEF TopLine, PreviousTopLine, PageThenTotal
  <2>3. report'.first \subseteq sent /\ report'.second \subseteq sent
    <3>1. CASE TopLine
      BY <2>1, <3>1 DEF TopLine
    <3>2. CASE PreviousTopLine
      BY <2>1, <3>2 DEF PreviousTopLine
    <3>3. CASE PageThenTotal
      <4>1. \/ /\ report'.first = Found(report.w, report.filter)
               /\ report'.second = report.second
            \/ /\ report'.second = Found(report.w, report.filter)
               /\ report'.first = report.first
        BY <3>3 DEF PageThenTotal
      <4> QED
        BY <2>1, <4>1
    <3> QED
      BY <1>7, <3>1, <3>2, <3>3
  <2>4. report' = [report EXCEPT !.at = report'.at, !.first = report'.first,
                                 !.second = report'.second]
    BY <1>7 DEF TopLine, PreviousTopLine, PageThenTotal
  <2>5. report' = [at |-> report'.at, w |-> report.w, filter |-> report.filter,
                   compare |-> report.compare, start |-> report.start,
                   first |-> report'.first, second |-> report'.second]
    BY <2>4
  <2>6. UNCHANGED <<session, ts, kind, path, sent, block, events, rows, torn>>
    BY <1>7 DEF TopLine, PreviousTopLine, PageThenTotal
  <2> QED
    BY <2>2, <2>3, <2>5, <2>6
<1>8. CASE UNCHANGED vars
  BY <1>8 DEF vars
<1> QED
  BY <1>1, <1>2, <1>3, <1>4, <1>5, <1>6, <1>7, <1>8
     DEF Next

----------------------------------------------------------------------------
(* The rollup *)

LEMMA RollupInit == Init => RollupInv
BY TypeInit DEF Init, RollupInv, RollupExact, BlockApart, Summed

(* Rows of the block under way do not meet the rows that are there.          *)
LEMMA WrittenApart ==
  ASSUME RollupInv, NEW written \in SUBSET NewRows(block), rows' = rows \cup written,
         UNCHANGED <<session, kind>>
  PROVE  /\ \A q, r \in rows' : q = r \/ q \cap r = {}
         /\ \A r \in rows' : SameSession(r)'
         /\ \A r \in rows' : r \subseteq Counted'
<1>1. ASSUME NEW q \in rows, NEW r \in written PROVE q \cap r = {}
  BY NewRowsOfBlock DEF RollupInv, BlockApart
<1>2. \A q, r \in rows' : q = r \/ q \cap r = {}
  BY <1>1, NewRowsOfBlock DEF RollupInv, RollupExact
<1>3. \A r \in rows' : SameSession(r)'
  BY NewRowsOfBlock DEF RollupInv, RollupExact, SameSession
<1>4. \A r \in rows' : r \subseteq Counted'
  BY NewRowsOfBlock DEF RollupInv, BlockApart, Counted
<1> QED
  BY <1>2, <1>3, <1>4

LEMMA RollupStep == RollupInv /\ [Next]_vars => RollupInv'
<1> SUFFICES ASSUME RollupInv, [Next]_vars PROVE RollupExact' /\ BlockApart'
  BY TypeStep DEF RollupInv
<1>0. TypeOK /\ RollupExact /\ BlockApart
  BY DEF RollupInv
<1>1. ASSUME NEW B \in SUBSET (Events \ sent), BeginInsert(B)
      PROVE  RollupExact' /\ BlockApart'
  <2>1. /\ block = {} /\ block' = B
        /\ UNCHANGED <<session, kind, events, rows, torn>>
    BY <1>1 DEF BeginInsert, columns
  <2>2. \A e \in B : e \notin events /\ e \notin torn /\ \A r \in rows : e \notin r
    BY <1>0 DEF TypeOK
  <2> QED
    BY <1>0, <2>1, <2>2 DEF RollupExact, BlockApart, SameSession, Counted, Summed
<1>2. CASE StoreEvents
  <2>1. /\ events' = events \cup block
        /\ UNCHANGED <<session, kind, block, rows, torn>>
    BY <1>2 DEF StoreEvents, columns
  <2> QED
    BY <1>0, <2>1 DEF RollupExact, BlockApart, SameSession, Counted, Summed
<1>3. CASE StoreRows
  <2>1. /\ block \subseteq events
        /\ rows' = rows \cup NewRows(block)
        /\ block' = {}
        /\ UNCHANGED <<session, kind, events, torn>>
    BY <1>3 DEF StoreRows, columns
  <2>2. Summed' = Summed \cup (block \cap Counted)
    BY <1>0, <2>1, NewRowsOfBlock DEF Summed, Counted
  <2>3. (Summed \ torn)' = ((events \cap Counted) \ (block \cup torn))'
    BY <1>0, <2>1, <2>2 DEF RollupExact, BlockApart, Counted
  <2> QED
    BY <2>1, <2>3, WrittenApart DEF RollupExact, BlockApart
<1>4. CASE InsertFails
  <2>1. PICK kept \in SUBSET block, written \in SUBSET NewRows(block) :
          events' = events \cup kept /\ rows' = rows \cup written
    BY <1>4 DEF InsertFails
  <2>2. torn' = torn \cup block /\ block' = {} /\ UNCHANGED <<session, kind>>
    BY <1>4 DEF InsertFails, columns
  <2>3. Summed \subseteq Summed' /\ Summed' \subseteq Summed \cup block
    BY <2>1, NewRowsOfBlock DEF Summed
  <2>4. (Summed \ torn)' = ((events \cap Counted) \ (block \cup torn))'
    BY <1>0, <2>1, <2>2, <2>3 DEF RollupExact, BlockApart, Counted
  <2> QED
    BY <2>1, <2>2, <2>4, WrittenApart DEF RollupExact, BlockApart
<1>5. ASSUME NEW q \in rows, NEW r \in rows, Merge(q, r)
      PROVE  RollupExact' /\ BlockApart'
  <2>1. /\ SameSession(q \cup r)
        /\ rows' = (rows \ {q, r}) \cup {q \cup r}
        /\ UNCHANGED <<session, kind, block, events, torn>>
    BY <1>5 DEF Merge, columns
  <2>2. Summed' = Summed
    BY <2>1 DEF Summed
  <2>3. ASSUME NEW x \in rows \ {q, r} PROVE x \cap (q \cup r) = {}
    <3>1. x \cap q = {} /\ x \cap r = {}
      BY <1>0 DEF RollupExact
    <3> QED
      BY <3>1
  <2>4. \A x, y \in rows' : x = y \/ x \cap y = {}
    BY <1>0, <2>1, <2>3 DEF RollupExact
  <2>5. \A x \in rows' : SameSession(x)'
    BY <1>0, <2>1 DEF RollupExact, SameSession
  <2>6. BlockApart'
    BY <1>0, <2>1 DEF BlockApart, Counted
  <2>7. (Summed \ torn)' = ((events \cap Counted) \ (block \cup torn))'
    BY <1>0, <2>1, <2>2 DEF RollupExact, Counted
  <2> QED
    BY <2>4, <2>5, <2>6, <2>7 DEF RollupExact
<1>6. CASE UNCHANGED <<columns, tables>>
  <2>1. UNCHANGED <<session, kind, block, events, rows, torn>>
    BY <1>6 DEF columns, tables
  <2> QED
    BY <1>0, <2>1 DEF RollupExact, BlockApart, SameSession, Counted, Summed
<1>7. ASSUME NEW w \in Windows, NEW filter \in SUBSET Paths,
             (\E compare \in BOOLEAN : BeginSummary(w, filter, compare))
               \/ BeginBreakdown(w, filter)
      PROVE  UNCHANGED <<columns, tables>>
  BY <1>7 DEF BeginSummary, BeginBreakdown, Begin
<1>8. CASE TopLine \/ PreviousTopLine \/ PageThenTotal \/ UNCHANGED vars
  BY <1>6, <1>8 DEF TopLine, PreviousTopLine, PageThenTotal, vars
<1> QED
  BY <1>1, <1>2, <1>3, <1>4, <1>5, <1>6, <1>7, <1>8 DEF Next

----------------------------------------------------------------------------
(* The reports *)

LEMMA ReportInit == Init => ReportInv
<1> SUFFICES ASSUME Init PROVE FirstKept /\ QueryMet
  BY TypeInit DEF ReportInv
<1>1. report.at = "idle" /\ report.compare = FALSE /\ report.start = {}
  BY DEF Init, NoReport
<1> QED
  BY <1>1 DEF FirstKept, QueryMet

LEMMA ReportStep == ReportInv /\ [Next]_vars => ReportInv'
<1> SUFFICES ASSUME ReportInv, [Next]_vars PROVE FirstKept' /\ QueryMet'
  BY TypeStep DEF ReportInv
<1>0. TypeOK /\ FirstKept /\ QueryMet
  BY DEF ReportInv
<1>1. ASSUME events \subseteq events', UNCHANGED <<columns, report>>
      PROVE  FirstKept' /\ QueryMet'
  BY <1>0, <1>1 DEF FirstKept, QueryMet, Found, Matches, columns
<1>2. ASSUME NEW w \in Windows, NEW filter \in SUBSET Paths,
             (\E compare \in BOOLEAN : BeginSummary(w, filter, compare))
               \/ BeginBreakdown(w, filter)
      PROVE  FirstKept' /\ QueryMet'
  <2>1. PICK at \in {"top", "page"}, compare \in BOOLEAN :
          /\ Begin(at, w, filter, compare)
          /\ compare => at = "top"
    BY <1>2 DEF BeginSummary, BeginBreakdown
  <2>2. report'.at = at /\ report'.compare = compare /\ report'.start = events
    BY <1>0, <2>1 DEF Begin, TypeOK
  <2>3. events' = events
    BY <2>1 DEF Begin, tables
  <2> QED
    BY <2>1, <2>2, <2>3 DEF FirstKept, QueryMet
<1>3. CASE TopLine
  <2>1. /\ report.at = "top"
        /\ report'.at = IF report.compare THEN "previous" ELSE "done"
        /\ report'.first = Found(report.w, report.filter)
        /\ UNCHANGED <<ts, path, events, report.w, report.filter, report.compare,
                       report.start>>
    BY <1>0, <1>3 DEF TopLine, columns, tables, TypeOK
  <2>2. \A e \in report.start : e \in events
    BY <1>0 DEF FirstKept
  <2> QED
    BY <1>0, <2>1, <2>2 DEF FirstKept, QueryMet, Found, Matches, Inside
<1>4. CASE PreviousTopLine
  <2>1. /\ report.at = "previous"
        /\ report'.at = "done"
        /\ report'.second = Found(CompareWindow(report.w), report.filter)
        /\ UNCHANGED <<ts, path, events, report.w, report.filter, report.compare,
                       report.start, report.first>>
    BY <1>0, <1>4 DEF PreviousTopLine, columns, tables, TypeOK
  <2> QED
    BY <1>0, <2>1 DEF FirstKept, QueryMet, Found, Matches, Inside, CompareWindow
<1>5. CASE PageThenTotal
  <2>1. /\ UNCHANGED <<session, ts, path, events, report.w, report.filter, report.compare,
                       report.start>>
        /\ \/ /\ report.at = "page" /\ report'.at = "total"
              /\ report'.first = Found(report.w, report.filter)
           \/ /\ report.at = "total" /\ report'.at = "shares"
              /\ report'.first = report.first
              /\ report'.second = Found(report.w, report.filter)
    BY <1>0, <1>5 DEF PageThenTotal, columns, tables, TypeOK
  <2> QED
    BY <1>0, <2>1 DEF FirstKept, QueryMet, Found, Matches
<1>6. CASE StoreEvents \/ StoreRows \/ InsertFails \/ UNCHANGED vars
  BY <1>1, <1>6 DEF StoreEvents, StoreRows, InsertFails, vars, tables
<1>7. ASSUME NEW B, BeginInsert(B) PROVE FirstKept' /\ QueryMet'
  BY <1>1, <1>7 DEF BeginInsert
<1>8. ASSUME NEW q, NEW r, Merge(q, r) PROVE FirstKept' /\ QueryMet'
  BY <1>1, <1>8 DEF Merge
<1> QED
  BY <1>2, <1>3, <1>4, <1>5, <1>6, <1>7, <1>8 DEF Next

----------------------------------------------------------------------------
(* Theorems *)

LEMMA Invariant == Spec => [](RollupInv /\ ReportInv)
BY RollupInit, RollupStep, ReportInit, ReportStep, PTL DEF Spec

(* Every variable keeps its type, and the tables hold only what was sent.    *)
THEOREM TypeCorrect == Spec => []TypeOK
<1>1. RollupInv => TypeOK
  BY DEF RollupInv
<1> QED
  BY <1>1, Invariant, PTL

(* The rows of the sessions table never count an event twice, never mix      *)
(* sessions, and miss nothing but what is being inserted or has failed: so   *)
(* that merging them all gives the true numbers, whenever that happens.      *)
THEOREM RollupCorrect == Spec => []RollupExact
<1>1. RollupInv => RollupExact
  BY DEF RollupInv
<1> QED
  BY <1>1, Invariant, PTL

LEMMA SharesFollow == ReportInv => ShareBounded
<1> SUFFICES ASSUME ReportInv, report.at = "shares", NEW p \in Paths
             PROVE  LET group == {e \in report.first : path[e] = p} IN
                    /\ Visitors(group) <= Visitors(report.second)
                    /\ Pageviews(group) <= Pageviews(report.second)
  BY DEF ShareBounded
<1> DEFINE group == {e \in report.first : path[e] = p}
           V(S) == {session[e] : e \in S}
           P(S) == {e \in S : kind[e] = "pageview"}
<1>1. group \subseteq report.second
  BY DEF ReportInv, FirstKept
<1>2. IsFiniteSet(report.second)
  <2>1. report.second \subseteq Events
    BY DEF ReportInv, TypeOK
  <2> QED
    BY <2>1, ReportingAssumption, FS_Subset
<1>3. IsFiniteSet(V(report.second)) /\ IsFiniteSet(P(report.second))
  <2>1. IsFiniteSet(P(report.second))
    <3>1. P(report.second) \subseteq report.second
      OBVIOUS
    <3> QED
      BY <1>2, <3>1, FS_Subset
  <2>2. IsFiniteSet(V(report.second))
    <3> DEFINE of == [e \in report.second |-> session[e]]
    <3>1. of \in Surjection(report.second, V(report.second))
      BY DEF Surjection, Range
    <3> HIDE DEF of
    <3> QED
      BY <1>2, <3>1, FS_Surjection
  <2> QED
    BY <2>1, <2>2
<1>4. V(group) \subseteq V(report.second) /\ P(group) \subseteq P(report.second)
  BY <1>1
<1>5. /\ Cardinality(V(group)) <= Cardinality(V(report.second))
      /\ Cardinality(P(group)) <= Cardinality(P(report.second))
  BY <1>3, <1>4, FS_Subset
<1> QED
  BY <1>5 DEF Visitors, Pageviews

(* The page of a breakdown is asked for before its total, and events only    *)
(* ever come in: no share exceeds 1.                                         *)
THEOREM SharesCorrect == Spec => []ShareBounded
BY SharesFollow, Invariant, PTL

LEMMA CompareFollows == ReportInv => CompareAbuts
<1> SUFFICES ASSUME ReportInv, report.at = "done", report.compare PROVE CompareAbuts
  BY DEF CompareAbuts
<1> DEFINE w == report.w
<1>1. w.from \in Int /\ w.to \in Int
  BY ReportingAssumption DEF ReportInv, TypeOK, NoReport
<1>2. \A e \in Events : ts[e] \in Int
  BY ReportingAssumption DEF ReportInv, TypeOK
<1>3. report.start \subseteq Events /\ report.first \subseteq Events
  BY DEF ReportInv, TypeOK
<1>4. report.first \cap report.second = {}
  BY <1>1, <1>2, <1>3 DEF ReportInv, QueryMet, Inside, CompareWindow
<1>5. ASSUME NEW e \in report.start,
             Matches(e, [from |-> w.from - (w.to - w.from), to |-> w.to], report.filter)
      PROVE  e \in report.first \cup report.second
  BY <1>1, <1>2, <1>3, <1>5 DEF ReportInv, QueryMet, Matches, Inside, CompareWindow
<1> QED
  BY <1>4, <1>5 DEF CompareAbuts

(* previous_period: no event is counted on both sides of a comparison, and   *)
(* none is lost between the windows.                                         *)
THEOREM CompareCorrect == Spec => []CompareAbuts
BY CompareFollows, Invariant, PTL
----------------------------------------------------------------------------
(* Bounces                                                                   *)

Mine(s) == {e \in Summed : session[e] = s}

(* When every session has one row, that row holds all of the session that is  *)
(* in rows at all.                                                           *)
LEMMA RowOfSession ==
  ASSUME RollupInv, Merged, NEW r \in rows, NEW e \in r
  PROVE  r = Mine(session[e])
<1>1. \A q \in rows : SameSession(q) BY DEF RollupInv, RollupExact
<1>2. r \subseteq Summed BY DEF RollupInv, TypeOK, Summed
<1>3. r \subseteq Mine(session[e]) BY <1>1, <1>2 DEF SameSession, Mine
<1>4. ASSUME NEW f \in Mine(session[e]) PROVE f \in r
  <2>1. PICK q \in rows : f \in q BY <1>4 DEF Mine, Summed
  <2>2. session[f] = session[e] BY <1>4 DEF Mine
  <2>3. SameSession(q \cup r)
    <3>1. \A g \in q : session[g] = session[f] BY <1>1, <2>1 DEF SameSession
    <3>2. \A g \in r : session[g] = session[e] BY <1>1 DEF SameSession
    <3>3. QED BY <2>2, <3>1, <3>2 DEF SameSession
  <2>4. q = r BY <2>3 DEF Merged
  <2>5. QED BY <2>1, <2>4
<1>5. QED BY <1>3, <1>4

(* The sessions that bounced and the rows that count as bounces are as many:  *)
(* the row of each of them is one to one.                                    *)
LEMMA BouncesFollow == RollupInv => BouncesWhenMerged
<1> SUFFICES ASSUME RollupInv, Merged, NEW w \in Windows
             PROVE  Cardinality(Bounces(w)) = Cardinality(OnePageview(w))
  BY DEF BouncesWhenMerged
<1>1. /\ \A r \in rows : r # {} /\ r \subseteq Events
      /\ rows \subseteq SUBSET Events
      /\ \A e \in Events : session[e] \in Sessions
  BY DEF RollupInv, TypeOK
<1>2. IsFiniteSet(Bounces(w))
  <2>1. IsFiniteSet(SUBSET Events) BY ReportingAssumption, FS_SUBSET
  <2>2. Bounces(w) \subseteq SUBSET Events BY <1>1 DEF Bounces, RowsIn
  <2>3. QED BY <2>1, <2>2, FS_Subset
<1>3. ASSUME NEW s \in OnePageview(w)
      PROVE  Mine(s) \in Bounces(w) /\ \A e \in Mine(s) : session[e] = s
  <2>1. Pageviews(Mine(s)) = 1 /\ Inside(ts[FirstOf(Mine(s))], w)
    BY <1>3 DEF OnePageview, Mine
  <2>2. PICK e : e \in Mine(s)
    <3>1. ASSUME Mine(s) = {} PROVE FALSE
      <4>1. {e \in Mine(s) : kind[e] = "pageview"} = {} BY <3>1
      <4>2. Cardinality({}) = 0 BY FS_EmptySet
      <4>3. QED BY <2>1, <4>1, <4>2 DEF Pageviews
    <3>2. QED BY <3>1
  <2>3. PICK r \in rows : e \in r BY <2>2 DEF Mine, Summed
  <2>4. session[e] = s BY <2>2 DEF Mine
  <2>5. r = Mine(s) BY <2>3, <2>4, RowOfSession
  <2>6. QED BY <2>1, <2>3, <2>5 DEF Bounces, RowsIn, Mine
<1>4. ASSUME NEW r \in Bounces(w)
      PROVE  \E s \in OnePageview(w) : Mine(s) = r
  <2>1. r \in rows /\ Pageviews(r) = 1 /\ Inside(ts[FirstOf(r)], w)
    BY <1>4 DEF Bounces, RowsIn
  <2>2. PICK e \in r : TRUE BY <1>1, <2>1
  <2>3. Mine(session[e]) = r BY <2>1, RowOfSession
  <2>4. session[e] \in Sessions BY <1>1, <2>1
  <2>5. session[e] \in OnePageview(w) BY <2>1, <2>3, <2>4 DEF OnePageview, Mine
  <2>6. QED BY <2>3, <2>5
<1> DEFINE of == [s \in OnePageview(w) |-> Mine(s)]
<1>5. of \in [OnePageview(w) -> Bounces(w)] BY <1>3
<1>6. ASSUME NEW s \in OnePageview(w), NEW t \in OnePageview(w), of[s] = of[t]
      PROVE  s = t
  <2>1. Mine(s) = Mine(t) BY <1>6
  <2>2. Mine(s) \in rows BY <1>3 DEF Bounces, RowsIn
  <2>3. PICK e \in Mine(s) : TRUE BY <1>1, <2>2
  <2>4. QED BY <1>3, <2>1, <2>3
<1>7. \A r \in Bounces(w) : \E s \in OnePageview(w) : of[s] = r BY <1>4
<1> HIDE DEF of
<1>8. of \in Injection(OnePageview(w), Bounces(w)) BY <1>5, <1>6 DEF Injection, IsInjective
<1>9. of \in Surjection(OnePageview(w), Bounces(w)) BY <1>5, <1>7 DEF Surjection, Range
<1>10. QED BY <1>2, <1>8, <1>9, FS_Injection

(* countIf(pageviews = 1) over the sessions table counts, of every window,    *)
(* the sessions with one pageview that begin in it, once a session's rows    *)
(* have been merged: "a bounce is a session with exactly 1 pageview".        *)
THEOREM BouncesCorrect == Spec => []BouncesWhenMerged
BY BouncesFollow, Invariant, PTL
=============================================================================
